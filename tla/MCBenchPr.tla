----------------------------- MODULE MCBenchPr -----------------------------
(***************************************************************************)
(* Instances of BenchPr for TLC: a pull request is opened and benchmarked  *)
(* again on demand at the same commit; a push gives it a second commit.    *)
(***************************************************************************)
EXTENDS BenchPr

CONSTANTS opened, comment, pushed, pr, c1, c2

OnOnePr == [e \in Events |-> pr]

TwoCommits == [e \in Events |-> IF e = pushed THEN c2 ELSE c1]
=============================================================================
