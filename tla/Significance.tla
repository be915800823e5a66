---------------------------- MODULE Significance ----------------------------
(***************************************************************************)
(* When a benchmark result counts as changed: the significance thresholds  *)
(* derived from the results of earlier runs, and the arithmetic they are   *)
(* compared with (job/bench_pr.rs).                                        *)
(*                                                                         *)
(* A floating-point number is a fraction <<n, d>>: <<n, 0>> is infinite,   *)
(* <<0, 0>> is NaN, and the operators below then agree with IEEE 754 but   *)
(* for rounding.                                                           *)
(***************************************************************************)
EXTENDS Integers, Sequences, FiniteSets

NaN == <<0, 0>>

(* The absence of a threshold.                                             *)
None == << >>

MinResults == 10

(* FALSE when one of them is NaN, as of the code's comparisons.            *)
Less(x, y) == x[1] * y[2] < y[1] * x[2]

-----------------------------------------------------------------------------
(* Seeded faults: plausible bugs of the code, none of them part of the     *)
(* model.                                                                  *)

LargerOrNaN(x, y) == IF Less(x, y) THEN y ELSE x

-----------------------------------------------------------------------------
(* f64::max: the other number, if one of them is NaN.                      *)
LargerOf(x, y) == IF x = NaN \/ Less(x, y) THEN y ELSE x

(* |from - to| / from: infinite or NaN if from is zero.                    *)
Change(from, to) == <<IF to < from THEN from - to ELSE to - from, from>>

(* q3 + 3 * (q3 - q1).                                                     *)
Fence(q1, q3) == <<4 * q3[1] * q1[2] - 3 * q1[1] * q3[2], q1[2] * q3[2]>>

(* The relative changes between consecutive results.                       *)
HistoricChanges(results) ==
  [i \in 1 .. Len(results) - 1 |-> Change(results[i], results[i + 1])]

(* The element at index i, from zero, once s is sorted.                    *)
Ranked(s, i) ==
  LET IsRanked(x) == /\ Cardinality({j \in DOMAIN s : Less(s[j], x)}) <= i
                     /\ i < Cardinality({j \in DOMAIN s : ~Less(x, s[j])})
  IN s[CHOOSE j \in DOMAIN s : IsRanked(s[j])]

(* calculate_significance_thresholds, for the results of one scenario: the *)
(* thresholds it may come to.  NaN is equal to every number for the sort,  *)
(* which then leaves any two changes at the quartiles' places.  (Above 20  *)
(* changes it may panic instead: the handler dies.)                        *)
SignificanceThresholds(results) ==
  LET changes == HistoricChanges(results)
      n == Len(changes)
      Places == {p \in (1 .. n) \X (1 .. n) : p[1] # p[2]}
  IN IF Len(results) < MinResults THEN {None}
     ELSE IF \E i \in DOMAIN changes : changes[i] = NaN
          THEN {Fence(changes[p[1]], changes[p[2]]) : p \in Places}
          ELSE {Fence(Ranked(changes, n \div 4), Ranked(changes, (3 * n) \div 4))}
=============================================================================
