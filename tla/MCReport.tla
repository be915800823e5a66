------------------------------ MODULE MCReport ------------------------------
(***************************************************************************)
(* Instances of Report for TLC.  Scenario a has a history, b has none.     *)
(***************************************************************************)
EXTENDS Report

CONSTANTS a, b

(* Results that jump about (those of the repository's test, with a         *)
(* threshold of 9%), that are steady, that begin with zeros, and that are  *)
(* too few.                                                                *)
Jumpy  == <<100, 97, 98, 101, 100, 99, 97, 102, 99, 98>>
Steady == <<100, 100, 100, 100, 100, 101, 100, 100, 100, 100, 100>>
Zeros  == <<0, 0, 5, 5, 5, 5, 5, 6, 5, 5>>
Few    == <<100, 97, 98>>

History(i, w, m) ==
  [k \in Kinds |->
    [s \in Scenarios |-> IF s = b THEN << >>
                         ELSE [icount |-> i, walltime |-> w, memory |-> m][k]]]

MCHistories ==
  {History(Jumpy, Steady, Few), History(Steady, Few, Zeros), History(Few, Jumpy, Steady)}

(* calculate_significance_thresholds_many_results                          *)
ASSUME RepositoryTest ==
  \A t \in SignificanceThresholds(Jumpy) :
    ~Less(t, <<85, 1000>>) /\ Less(t, <<95, 1000>>)

Row1(k, n) ==
  [icount |-> <<n>>, walltime |-> <<n + 40, n, n - 3>>, memory |-> <<n, 1, 1, 1>>][k]

Absent    == [present |-> FALSE, rows |-> << >>]
Malformed == [present |-> TRUE, rows |-> [s \in {a} |-> << >>]]
OnlyA(k, n) == [present |-> TRUE, rows |-> [s \in {a} |-> Row1(k, n)]]
Both(k, n)  == [present |-> TRUE, rows |-> [s \in {a, b} |-> Row1(k, n)]]

Choose3(F(_)) ==
  {[icount |-> i, walltime |-> w, memory |-> m] :
     i \in F("icount"), w \in F("walltime"), m \in F("memory")}

(* A baseline of 100, of both scenarios or of a alone, or of nothing, and  *)
(* a candidate that costs 0%, 3%, 8% or 50% more, or that leaves a line    *)
(* without a number.                                                       *)
BaseFiles(k) == {OnlyA(k, 100), Absent} \cup (IF k = "icount" THEN {Both(k, 100)} ELSE {})
CandidateFiles(k) ==
  {OnlyA(k, 103), Both(k, 108), OnlyA(k, 150), Malformed}
    \cup (IF k = "walltime" THEN {} ELSE {Both(k, 100)})

MCOutputs == [base |-> Choose3(BaseFiles), candidate |-> Choose3(CandidateFiles)]

(* Comments that fit, that are too long, and that are too long and would   *)
(* be cut inside a character.                                              *)
MCTexts ==
  {[len |-> 10, boundaries |-> 0 .. 10], [len |-> 11, boundaries |-> 0 .. 11],
   [len |-> 14, boundaries |-> (0 .. 14) \ {6}]}
=============================================================================
