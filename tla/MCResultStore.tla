--------------------------- MODULE MCResultStore ---------------------------
(***************************************************************************)
(* An instance of ResultStore for TLC: pushes to main with a pull request  *)
(* between and after them, compared twice at the same commits; a push      *)
(* elsewhere is not benchmarked.                                           *)
(***************************************************************************)
EXTENDS ResultStore

CONSTANTS push1, pr, push2, other, again, a, b, commits

MCQueue == <<push1, pr, other, push2, again>>

MCKindOf ==
  [e \in Events |-> IF e \in {push1, push2} THEN "main"
                    ELSE IF e = other THEN "branch" ELSE "pull"]

MCCommitsOf == [e \in Events |-> commits]

(* Scenario b has a name of its own, and is not measured in walltime.      *)
MCMeasurements ==
  {{<<"icount", a>>, <<"walltime", a>>, <<"memory", a>>}, {<<"icount", a>>, <<"icount", b>>}}

MCComparedIn == [c \in {commits} |-> {<<"icount", a>>, <<"walltime", a>>, <<"icount", b>>}]
=============================================================================
