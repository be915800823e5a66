-------------------------- MODULE TokenCacheProofs --------------------------
(***************************************************************************)
(* TokenCache, proved for all times and numbers of failures.               *)
(***************************************************************************)
EXTENDS TokenCache, TLAPS

(* The token's age and the time to the task's next step add up: no more    *)
(* than the sleeps and the answers since the token was issued.             *)
AgeIsBounded ==
  age + due <= IF task = "asking" THEN Oldest(failures) ELSE Oldest(failures) - MaxAnswer

HeldIsBounded == job /\ ~takenLate => held <= Oldest(0) + jobAge

Inv == TypeOK /\ AgeIsBounded /\ HeldIsBounded

(* Another failure delays the refresh by a sleep and an answer.            *)
LEMMA OldestStep ==
  ASSUME NEW n \in Nat
  PROVE  /\ Oldest(n) \in Nat
         /\ Oldest(n + 1) = Oldest(n) + Retry + MaxAnswer
         /\ Oldest(0) = Refresh + 2 * MaxAnswer
<1> DEFINE d == Retry + MaxAnswer
<1>1. d \in Nat /\ Refresh \in Nat /\ MaxAnswer \in Nat
  BY TokenCacheAssumption
<1>2. n * d \in Nat /\ (n + 1) * d = n * d + d /\ 0 * d = 0
  <2> HIDE DEF d
  <2> QED BY <1>1, SMT
<1>3. d = Retry + MaxAnswer /\ Retry \in Nat
  BY TokenCacheAssumption
<1>4. /\ Oldest(n) = Refresh + 2 * MaxAnswer + n * d
      /\ Oldest(n + 1) = Refresh + 2 * MaxAnswer + (n + 1) * d
      /\ Oldest(0) = Refresh + 2 * MaxAnswer + 0 * d
  BY DEF Oldest
<1> HIDE DEF d
<1> QED
  BY <1>1, <1>2, <1>3, <1>4

LEMMA InitInv == Init => Inv
<1> SUFFICES ASSUME Init PROVE Inv
  OBVIOUS
<1>1. TypeOK
  <2>1. /\ age \in Nat /\ due \in Nat /\ jobAge \in 0 .. MaxJob /\ held \in Nat
        /\ failures \in 0 .. MaxFailures
    BY TokenCacheAssumption DEF Init
  <2>2. task = "sleeping" /\ job = FALSE /\ takenLate = FALSE
    BY DEF Init
  <2>3. job \in BOOLEAN /\ takenLate \in BOOLEAN
    BY <2>2, Zenon
  <2>4. task \in {"sleeping", "asking"} /\ task # "asking"
    BY <2>2
  <2> QED BY <2>1, <2>3, <2>4, Zenon DEF TypeOK
<1>2. AgeIsBounded
  <2>1. Oldest(0) = Refresh + 2 * MaxAnswer
    BY OldestStep
  <2> QED BY <2>1, TokenCacheAssumption DEF Init, AgeIsBounded
<1>3. HeldIsBounded
  BY DEF Init, HeldIsBounded
<1> QED BY <1>1, <1>2, <1>3 DEF Inv

LEMMA NextInv == Inv /\ [Next]_vars => Inv'
<1> SUFFICES ASSUME Inv, [Next]_vars PROVE Inv'
  OBVIOUS
<1> USE TokenCacheAssumption DEF Inv
<1>0. /\ failures \in Nat /\ Oldest(failures) \in Nat /\ Oldest(0) \in Nat
      /\ Oldest(failures + 1) = Oldest(failures) + Retry + MaxAnswer
      /\ Oldest(0) = Refresh + 2 * MaxAnswer
  <2>1. failures \in Nat
    BY DEF TypeOK
  <2> QED BY <2>1, OldestStep
<1>1. CASE AskForToken
  <2>1. TypeOK'
    BY <1>1 DEF AskForToken, TypeOK, holder
  <2>2. AgeIsBounded'
    <3>1. Oldest(failures)' = Oldest(failures)
      BY <1>1 DEF AskForToken, Oldest
    <3> QED BY <1>1, <1>0, <3>1 DEF AskForToken, TypeOK, AgeIsBounded
  <2>3. HeldIsBounded'
    BY <1>1 DEF AskForToken, HeldIsBounded, holder, Oldest
  <2> QED BY <2>1, <2>2, <2>3
<1>2. CASE RefreshToken
  <2>1. TypeOK'
    BY <1>2 DEF RefreshToken, TypeOK, holder
  <2>2. AgeIsBounded'
    <3>1. Oldest(failures)' = Oldest(0)
      BY <1>2 DEF RefreshToken, Oldest
    <3> QED BY <1>2, <1>0, <3>1 DEF RefreshToken, TypeOK, AgeIsBounded
  <2>3. HeldIsBounded'
    BY <1>2 DEF RefreshToken, HeldIsBounded, holder, Oldest
  <2> QED BY <2>1, <2>2, <2>3
<1>3. CASE FailToRefresh
  <2>1. TypeOK'
    BY <1>3 DEF FailToRefresh, TypeOK, holder
  <2>2. AgeIsBounded'
    <3>1. Oldest(failures)' = Oldest(failures + 1)
      BY <1>3 DEF FailToRefresh, Oldest
    <3> QED BY <1>3, <1>0, <3>1 DEF FailToRefresh, TypeOK, AgeIsBounded
  <2>3. HeldIsBounded'
    BY <1>3 DEF FailToRefresh, HeldIsBounded, holder, Oldest
  <2> QED BY <2>1, <2>2, <2>3
<1>4. CASE BeginJob
  <2>1. TypeOK'
    BY <1>4 DEF BeginJob, TypeOK, refresher
  <2>2. AgeIsBounded'
    BY <1>4 DEF BeginJob, AgeIsBounded, refresher, Oldest
  <2>3. HeldIsBounded'
    <3>1. failures = 0 => held' <= Oldest(0)
      BY <1>4, <1>0 DEF BeginJob, TypeOK, AgeIsBounded
    <3>2. jobAge' = 0 /\ Oldest(0)' = Oldest(0)
      BY <1>4 DEF BeginJob, Oldest
    <3>3. held' \in Nat
      BY <2>1 DEF TypeOK
    <3>4. ~takenLate' => failures = 0
      <4>1. ~takenLate' => ~(failures > 0)
        BY <1>4, Zenon DEF BeginJob
      <4>2. ~(failures > 0) => failures = 0
        BY <1>0
      <4> QED BY <4>1, <4>2, Zenon
    <3> QED BY <3>1, <3>2, <3>3, <3>4, <1>0 DEF HeldIsBounded
  <2> QED BY <2>1, <2>2, <2>3
<1>5. CASE EndJob
  <2>1. TypeOK'
    <3>1. job' = FALSE /\ takenLate' = FALSE
      BY <1>5 DEF EndJob
    <3>2. jobAge' \in 0 .. MaxJob /\ held' \in Nat
      BY <1>5 DEF EndJob
    <3>3. UNCHANGED <<age, task, due, failures>>
      BY <1>5 DEF EndJob, refresher
    <3>4. job' \in BOOLEAN /\ takenLate' \in BOOLEAN
      BY <3>1, Zenon
    <3> QED BY <3>2, <3>3, <3>4, Zenon DEF TypeOK
  <2>2. AgeIsBounded'
    BY <1>5 DEF EndJob, AgeIsBounded, refresher, Oldest
  <2>3. HeldIsBounded'
    BY <1>5 DEF EndJob, HeldIsBounded
  <2> QED BY <2>1, <2>2, <2>3
<1>6. CASE Tick
  <2>1. TypeOK'
    BY <1>6 DEF Tick, TypeOK
  <2>2. AgeIsBounded'
    <3>1. Oldest(failures)' = Oldest(failures)
      BY <1>6 DEF Tick, Oldest
    <3> QED BY <1>6, <1>0, <3>1 DEF Tick, TypeOK, AgeIsBounded
  <2>3. HeldIsBounded'
    <3>1. Oldest(0)' = Oldest(0)
      BY DEF Oldest
    <3> QED BY <1>6, <1>0, <3>1 DEF Tick, TypeOK, HeldIsBounded
  <2> QED BY <2>1, <2>2, <2>3
<1>7. CASE UNCHANGED vars
  BY <1>7 DEF vars, refresher, holder, TypeOK, AgeIsBounded, HeldIsBounded, Oldest
<1> QED
  BY <1>1, <1>2, <1>3, <1>4, <1>5, <1>6, <1>7 DEF Next

LEMMA Invariance == Spec => []Inv
BY InitInv, NextInv, PTL DEF Spec

(* Every variable keeps its type.                                          *)
THEOREM TypeCorrect == Spec => []TypeOK
<1>1. Inv => TypeOK
  BY DEF Inv
<1> QED BY <1>1, Invariance, PTL

(* However long tokens are valid and sleeps are: the cached client's token *)
(* is valid while a token may get as old as the failures make it, and so is*)
(* that of a job which began while it was not failing to be refreshed, for *)
(* as long as the job takes no more than is then left of any token.        *)
THEOREM ClientsValid == Spec => []ClientsAreValid
<1>1. Inv => CachedIsValid
  <2> SUFFICES ASSUME Inv PROVE CachedIsValid
    OBVIOUS
  <2>1. Oldest(failures) \in Nat
    BY OldestStep DEF Inv, TypeOK
  <2> QED BY <2>1, TokenCacheAssumption DEF Inv, TypeOK, AgeIsBounded, CachedIsValid
<1>2. Inv => HeldIsValid
  <2> SUFFICES ASSUME Inv PROVE HeldIsValid
    OBVIOUS
  <2>1. Oldest(0) \in Nat
    BY OldestStep
  <2> QED BY <2>1, TokenCacheAssumption DEF Inv, TypeOK, HeldIsBounded, HeldIsValid
<1>3. Inv => ClientsAreValid
  BY <1>1, <1>2 DEF ClientsAreValid
<1> QED BY <1>3, Invariance, PTL
=============================================================================
