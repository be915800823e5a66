------------------------- MODULE ResultStoreProofs -------------------------
(***************************************************************************)
(* Proofs about ResultStore, for any queue, scenarios, results and number  *)
(* of faults.                                                              *)
(***************************************************************************)
EXTENDS ResultStore, FiniteSetTheorems, SequenceTheorems, WellFoundedInduction, TLAPS

(* Where the job is: in an attempt, at an event that is benchmarked.  A    *)
(* second attempt takes a fault.                                           *)
JobInv ==
  /\ pc # "idle" => next <= Len(Queue) /\ attempt # 0 /\ KindOf[Event] \in {"main", "pull"}
  /\ pc \in {"history", "comment"} => IsPull
  /\ pc = "track" => ~IsPull
  /\ history.read => pc \in {"bench", "insert", "comment"} /\ IsPull
  /\ pc = "idle" => attempt # 2
  /\ next > Len(Queue) => attempt = 0
  /\ attempt = 2 \/ (pc = "idle" /\ attempt = 1) => faults > 0

(* What has been inserted and what is left make up the results.            *)
TransactionInv ==
  /\ pc = "insert" =>
       /\ \A i \in DOMAIN transaction.rows : transaction.rows[i].id = Id
       /\ RowsOf(transaction.rows, DOMAIN transaction.rows, Id) \cup transaction.left = measured
  /\ pc \in {"insert", "comment"} /\ IsPull => measured = ComparedIn[CommitsOf[Event]]
  /\ pc # "insert" => transaction = NoTransaction

(* The tables are whole, in order of insertion, and compare the same       *)
(* commits with the same results.                                          *)
TablesInv ==
  /\ TablesAreWhole
  /\ \A i, j \in DOMAIN benchResults : i < j => benchResults[i].id <= benchResults[j].id
  /\ \A id \in DOMAIN comparisonRuns :
       comparisonRuns[id].results = ComparedIn[comparisonRuns[id].commits]

RunsOf(e) == {id \in DOMAIN benchRuns : benchRuns[id].push = e}

(* The most runs the event at hand may have at this point: one for each    *)
(* attempt that may have stored its results.                               *)
RunsAtHand == IF pc \in {"idle", "track"} THEN attempt ELSE attempt - 1

StoredInv ==
  /\ \A e \in Events : IsFiniteSet(RunsOf(e))
  /\ \A k \in DOMAIN Queue :
       /\ k > next => RunsOf(Queue[k]) = {}
       /\ k = next => Cardinality(RunsOf(Queue[k])) <= RunsAtHand
       /\ k < next => Cardinality(RunsOf(Queue[k])) <= IF faults = 0 THEN 1 ELSE 2
       /\ k >= next => outcome[Queue[k]] = "none"
       /\ outcome[Queue[k]] = "ok" /\ KindOf[Queue[k]] = "main" => RunsOf(Queue[k]) # {}

(* What is in the tables when the job goes on to tell others of it.        *)
ToldInv ==
  /\ pc = "track" => \E id \in RunsOf(Event) : benchRuns[id].results = measured
  /\ pc = "comment" => \E id \in DOMAIN comparisonRuns : comparisonRuns[id].commits = CommitsOf[Event]

ReportsInv ==
  \A r \in reports : /\ r.bmf = Bmf(r.results)
                     /\ \E id \in RunsOf(r.push) : benchRuns[id].results = r.results

LinksInv ==
  \A link \in links : /\ <<"icount", link[2]>> \in ComparedIn[link[1]]
                      /\ \E id \in DOMAIN comparisonRuns : comparisonRuns[id].commits = link[1]

Inv ==
  /\ TypeOK /\ JobInv /\ TransactionInv /\ TablesInv
  /\ HistoryIsRecent /\ StoredInv /\ ToldInv /\ ReportsInv /\ LinksInv

-----------------------------------------------------------------------------
(* The kinds, and their places in the order of insertion.                  *)
LEMMA KindFacts ==
  /\ Range(Kinds) = {"icount", "walltime", "memory"}
  /\ Place("icount") = 1 /\ Place("walltime") = 2 /\ Place("memory") = 3
<1>1. DOMAIN Kinds = 1 .. 3 /\ Kinds[1] = "icount" /\ Kinds[2] = "walltime" /\ Kinds[3] = "memory"
  BY DEF Kinds
<1>2. Range(Kinds) = {"icount", "walltime", "memory"}
  BY <1>1 DEF Range
<1> QED  BY <1>1, <1>2 DEF Place

(* The event at hand is one of the queue's, and its data are of their      *)
(* types.                                                                  *)
LEMMA EventFacts ==
  ASSUME TypeOK, next <= Len(Queue)
  PROVE  /\ next \in DOMAIN Queue /\ Event \in Events
         /\ IsPull => CommitsOf[Event] \in DOMAIN ComparedIn
                      /\ ComparedIn[CommitsOf[Event]] \in Results
<1>1. next \in DOMAIN Queue
  BY ResultStoreAssumption, LenProperties DEF TypeOK
<1>2. Event \in Events
  BY <1>1 DEF Event, Events, Range
<1> QED  BY <1>1, <1>2, ResultStoreAssumption DEF IsPull

(* What is left of a job that has returned or is to be tried again.         *)
Idle ==
  /\ next \in 1 .. Len(Queue) + 1 /\ attempt \in 0 .. 2 /\ pc = "idle"
  /\ outcome \in [Events -> {"none", "ok", "err", "crashed"}]
  /\ measured = {} /\ history = NoHistory
  /\ transaction = NoTransaction

Returns == \E result \in {"ok", "err", "crashed"} : Return(result)

LEMMA BackToIdle ==
  ASSUME TypeOK, next <= Len(Queue), Returns \/ TryAgain, transaction' = NoTransaction
  PROVE  Idle'
<1>1. next \in DOMAIN Queue /\ Len(Queue) \in Nat /\ next \in Nat
  BY EventFacts, ResultStoreAssumption, LenProperties DEF TypeOK
<1>2. ASSUME NEW result \in {"ok", "err", "crashed"}, Return(result) PROVE Idle'
  <2>1. outcome' \in [Events -> {"none", "ok", "err", "crashed"}]
    BY <1>2 DEF Return, TypeOK
  <2>2. next' \in 1 .. Len(Queue) + 1
    <3>1. next \in 1 .. Len(Queue) + 1
      BY DEF TypeOK
    <3> QED  BY <1>1, <1>2, <3>1 DEF Return
  <2> QED  BY <1>2, <2>1, <2>2 DEF Return, Idle
<1>3. CASE TryAgain
  BY <1>3 DEF TryAgain, Idle, TypeOK
<1> QED  BY <1>2, <1>3 DEF Returns

(* Faults are counted.                                                     *)
LEMMA FaultTyped ==
  ASSUME TypeOK, Fault
  PROVE  faults' \in 0 .. MaxFaults /\ faults' > faults /\ {faults, faults'} \subseteq Nat
BY ResultStoreAssumption DEF TypeOK, Fault

(* The rest of the types, for a step that ends in idleness.                *)
LEMMA IdleTyped ==
  ASSUME TypeOK, Idle', clock' = clock, faults' \in 0 .. MaxFaults, UNCHANGED tables,
         links' \subseteq (DOMAIN ComparedIn) \X Scenarios,
         \A r \in reports' : /\ r.push \in Events /\ r.results \in Results
                             /\ DOMAIN r.bmf \subseteq Scenarios \ Unnamed
  PROVE  TypeOK'
<1>1. << >> \in Seq(TableRow)
  OBVIOUS
<1>2. transaction' = [began |-> 0, rows |-> << >>, left |-> {}] /\ measured' = {}
  BY DEF Idle, NoTransaction
<1>3. transaction' \in [began : 0 .. LastDay, rows : Seq(TableRow), left : SUBSET measured']
  BY <1>1, <1>2, ResultStoreAssumption
<1>4. history' = [read |-> FALSE, rows |-> {}, day |-> 0]
  BY DEF Idle, NoHistory
<1>5. history' \in [read : BOOLEAN, rows : SUBSET DOMAIN benchResults', day : 0 .. LastDay]
  BY <1>4, ResultStoreAssumption
<1>6. measured' \in Results
  BY <1>2 DEF Results
<1> QED  BY <1>3, <1>5, <1>6 DEF TypeOK, Idle, tables

LEMMA NoTransactionTyped ==
  \A S : NoTransaction \in [began : 0 .. LastDay, rows : Seq(TableRow), left : SUBSET S]
<1>1. << >> \in Seq(TableRow)
  OBVIOUS
<1> QED  BY <1>1, ResultStoreAssumption DEF NoTransaction

LEMMA TypeStep == TypeOK /\ JobInv /\ TransactionInv /\ [Next]_vars => TypeOK'
<1> SUFFICES ASSUME TypeOK, JobInv, TransactionInv, [Next]_vars PROVE TypeOK'
  OBVIOUS
<1> USE ResultStoreAssumption
<1>1. CASE Begin
  <2>1. CASE KindOf[Event] \in {"branch", "deletion"}
    <3>1. Returns /\ transaction' = transaction /\ next <= Len(Queue)
      BY <1>1, <2>1 DEF Begin, Returns
    <3>2. Idle'
      BY <1>1, <3>1, BackToIdle DEF Begin, TransactionInv
    <3> QED  BY <1>1, <3>2, IdleTyped DEF Begin, TypeOK
  <2>2. CASE KindOf[Event] \notin {"branch", "deletion"}
    BY <1>1, <2>2 DEF Begin, TypeOK, tables, JobInv
  <2> QED  BY <2>1, <2>2
<1>2. CASE ReadHistory
  <2>1. CASE Return("ok")
    <3>1. Returns /\ next <= Len(Queue)
      BY <1>2, <2>1 DEF ReadHistory, Returns, JobInv
    <3>2. Idle'
      BY <1>2, <3>1, BackToIdle DEF ReadHistory, TransactionInv
    <3>3. faults' \in 0 .. MaxFaults
      BY <1>2, <2>1, FaultTyped DEF ReadHistory, Return
    <3> QED  BY <1>2, <3>2, <3>3, IdleTyped DEF ReadHistory, TypeOK
  <2>2. CASE pc' = "bench"
    <3>1. /\ history' = [read |-> TRUE, day |-> clock,
                          rows |-> {i \in DOMAIN benchResults :
                                     CreatedSince(benchResults[i].id, clock)}]
          /\ UNCHANGED <<next, attempt, outcome, measured, faults, clock, transaction, tables,
                         reports, links>>
      BY <1>2, <2>2 DEF ReadHistory, Return
    <3>2. history' \in [read : BOOLEAN, rows : SUBSET DOMAIN benchResults, day : 0 .. LastDay]
      BY <3>1 DEF TypeOK
    <3> QED  BY <2>2, <3>1, <3>2 DEF TypeOK, tables
  <2> QED  BY <1>2, <2>1, <2>2 DEF ReadHistory
<1>3. CASE Bench
  <2>1. CASE pc' = "insert"
    <3>1. measured' \in Results
      BY <1>3, <2>1, EventFacts DEF Bench, JobInv, Return
    <3>2. transaction' = [began |-> clock, rows |-> << >>, left |-> measured']
      BY <1>3, <2>1 DEF Bench, Return
    <3>3. << >> \in Seq(TableRow)
      OBVIOUS
    <3>4. transaction' \in [began : 0 .. LastDay, rows : Seq(TableRow), left : SUBSET measured']
      BY <3>2, <3>3 DEF TypeOK
    <3> QED  BY <1>3, <2>1, <3>1, <3>4 DEF Bench, TypeOK, tables, Return
  <2>2. CASE pc' # "insert"
    <3>1. Returns /\ next <= Len(Queue) /\ Fault
      BY <1>3, <2>2 DEF Bench, Returns, JobInv
    <3>2. Idle'
      BY <1>3, <2>2, <3>1, BackToIdle DEF Bench, TransactionInv
    <3>3. faults' \in 0 .. MaxFaults
      BY <3>1, FaultTyped
    <3> QED  BY <1>3, <3>2, <3>3, IdleTyped DEF Bench, TypeOK
  <2> QED  BY <2>1, <2>2
<1>4. CASE Insert
  <2>1. PICK result \in NextRows :
          transaction' = [transaction EXCEPT !.left = @ \ {result}, !.rows = Append(@, Row(result))]
    BY <1>4, Zenon DEF Insert
  <2>2. Id \in Nat \ {0}
    <3>1. Len(comparisonRuns) \in Nat /\ Len(benchRuns) \in Nat
      BY LenProperties DEF TypeOK
    <3> QED  BY <3>1 DEF Id
  <2>3. result \in Range(Kinds) \X Scenarios
    BY DEF NextRows, TypeOK, Results
  <2>4. Row(result) \in TableRow
    BY <2>2, <2>3 DEF Row, TableRow
  <2>5. transaction' = [began |-> transaction.began, left |-> transaction.left \ {result},
                        rows |-> Append(transaction.rows, Row(result))]
    BY <2>1 DEF TypeOK
  <2>6. transaction' \in [began : 0 .. LastDay, rows : Seq(TableRow), left : SUBSET measured]
    BY <2>4, <2>5, AppendProperties DEF TypeOK
  <2> QED  BY <1>4, <2>6 DEF Insert, TypeOK, job, tables
<1>5. CASE StoreRunResults
  <2>1. Event \in Events
    BY <1>5, EventFacts DEF StoreRunResults, Goto, JobInv
  <2>2. benchRuns' \in Seq([push : Events, created : 0 .. LastDay, results : Results])
    BY <1>5, <2>1 DEF StoreRunResults, TypeOK
  <2>3. benchResults' \in Seq(TableRow) /\ DOMAIN benchResults \subseteq DOMAIN benchResults'
    BY <1>5, ConcatProperties, LenProperties DEF StoreRunResults, TypeOK
  <2>4. history' \in [read : BOOLEAN, rows : SUBSET DOMAIN benchResults', day : 0 .. LastDay]
    BY <1>5, <2>3 DEF StoreRunResults, TypeOK, job
  <2> QED  BY <1>5, <2>2, <2>3, <2>4, NoTransactionTyped DEF StoreRunResults, TypeOK, job, Goto
<1>6. CASE StoreComparisonResult
  <2>1. CommitsOf[Event] \in DOMAIN ComparedIn
    BY <1>6, EventFacts DEF StoreComparisonResult, Goto, JobInv
  <2>2. comparisonRuns' \in Seq([commits : DOMAIN ComparedIn, results : Results])
    BY <1>6, <2>1 DEF StoreComparisonResult, TypeOK
  <2>3. scenarioDiffs' \in Seq(TableRow)
    BY <1>6, ConcatProperties DEF StoreComparisonResult, TypeOK
  <2> QED  BY <1>6, <2>2, <2>3, NoTransactionTyped DEF StoreComparisonResult, TypeOK, job, Goto
<1>7. CASE FailToStore
  <2>1. Returns /\ next <= Len(Queue)
    BY <1>7 DEF FailToStore, Returns, JobInv
  <2>2. Idle'
    BY <1>7, <2>1, BackToIdle DEF FailToStore
  <2>3. faults' \in 0 .. MaxFaults
    BY <1>7, FaultTyped DEF FailToStore
  <2> QED  BY <1>7, <2>2, <2>3, IdleTyped DEF FailToStore, TypeOK
<1>8. CASE TrackResults
  <2>1. Event \in Events /\ next <= Len(Queue)
    BY <1>8, EventFacts DEF TrackResults, JobInv
  <2>2. \A r \in reports' : /\ r.push \in Events /\ r.results \in Results
                            /\ DOMAIN r.bmf \subseteq Scenarios \ Unnamed
    <3>1. DOMAIN Bmf(measured) \subseteq Scenarios \ Unnamed
      BY DEF Bmf, Merge, ResultsToBmf
    <3> QED  BY <1>8, <2>1, <3>1 DEF TrackResults, TypeOK
  <2>3. Idle'
    BY <1>8, <2>1, BackToIdle DEF TrackResults, TransactionInv, Returns
  <2>4. faults' \in 0 .. MaxFaults
    BY <1>8, FaultTyped DEF TrackResults, TypeOK
  <2> QED  BY <1>8, <2>2, <2>3, <2>4, IdleTyped DEF TrackResults, TypeOK
<1>9. CASE PostComment
  <2>1. CommitsOf[Event] \in DOMAIN ComparedIn /\ next <= Len(Queue)
    BY <1>9, EventFacts DEF PostComment, JobInv
  <2>2. links' \subseteq (DOMAIN ComparedIn) \X Scenarios
    <3>1. \A x \in measured : x[2] \in Scenarios
      BY DEF TypeOK, Results
    <3> QED  BY <1>9, <2>1, <3>1 DEF PostComment, TypeOK
  <2>3. Idle'
    BY <1>9, <2>1, BackToIdle DEF PostComment, TransactionInv, Returns
  <2> QED  BY <1>9, <2>2, <2>3, IdleTyped DEF PostComment, TypeOK
<1>10. CASE Crash
  <2>1. next <= Len(Queue) /\ (Returns \/ TryAgain)
    BY <1>10 DEF Crash, Returns, JobInv
  <2>2. Idle'
    BY <1>10, <2>1, BackToIdle DEF Crash
  <2>3. faults' \in 0 .. MaxFaults
    BY <1>10, FaultTyped DEF Crash
  <2> QED  BY <1>10, <2>2, <2>3, IdleTyped DEF Crash, TypeOK
<1>11. CASE Tick
  <2>1. clock' \in 0 .. LastDay
    <3>1. clock \in 0 .. LastDay
      BY DEF TypeOK
    <3> QED  BY <1>11, <3>1 DEF Tick
  <2>2. UNCHANGED <<job, pc, transaction, tables, reports, links, faults>>
    BY <1>11 DEF Tick
  <2> QED  BY <2>1, <2>2 DEF TypeOK, job, tables
<1>12. CASE UNCHANGED vars
  BY <1>12 DEF TypeOK, vars, job, tables
<1> QED
  BY <1>1, <1>2, <1>3, <1>4, <1>5, <1>6, <1>7, <1>8, <1>9, <1>10, <1>11, <1>12 DEF Next, Done

-----------------------------------------------------------------------------
LEMMA JobStep == TypeOK /\ JobInv /\ [Next]_vars => JobInv'
<1> SUFFICES ASSUME TypeOK, JobInv, [Next]_vars PROVE JobInv'
  OBVIOUS
<1> USE ResultStoreAssumption
<1>1. ASSUME Returns PROVE JobInv'
  BY <1>1 DEF Returns, Return, JobInv, NoHistory
<1>2. CASE Begin
  <2>1. CASE KindOf[Event] \in {"branch", "deletion"}
    BY <1>1, <1>2, <2>1 DEF Begin, Returns
  <2>2. CASE KindOf[Event] \notin {"branch", "deletion"}
    <3>1. KindOf[Event] \in {"main", "pull"} /\ next' = next /\ attempt' = attempt + 1
      BY <1>2, <2>2, EventFacts DEF Begin
    <3>2. /\ Event' = Event /\ IsPull' = IsPull /\ history' = history /\ faults' = faults
          /\ pc' = IF IsPull THEN "history" ELSE "bench"
      BY <1>2, <2>2 DEF Begin, Event, IsPull
    <3> QED  BY <1>2, <3>1, <3>2 DEF Begin, JobInv, TypeOK, IsPull
  <2> QED  BY <2>1, <2>2
<1>3. CASE ReadHistory
  <2>1. CASE Return("ok")
    BY <1>1, <2>1 DEF Returns
  <2>2. CASE pc' = "bench"
    BY <1>3, <2>2 DEF ReadHistory, JobInv, IsPull, Event, Return
  <2> QED  BY <1>3, <2>1, <2>2 DEF ReadHistory
<1>4. CASE Bench
  <2>1. CASE pc' = "insert"
    BY <1>4, <2>1 DEF Bench, JobInv, IsPull, Event, Return
  <2>2. CASE pc' # "insert"
    BY <1>1, <1>4, <2>2 DEF Bench, Returns
  <2> QED  BY <2>1, <2>2
<1>5. CASE Insert
  BY <1>5 DEF Insert, JobInv, IsPull, Event, job
<1>6. CASE StoreRunResults
  BY <1>6 DEF StoreRunResults, JobInv, IsPull, Event, job, Goto
<1>7. CASE StoreComparisonResult
  BY <1>7 DEF StoreComparisonResult, JobInv, IsPull, Event, job, Goto
<1>8. CASE FailToStore
  BY <1>1, <1>8 DEF FailToStore, Returns
<1>9. CASE TrackResults
  BY <1>1, <1>9 DEF TrackResults, Returns
<1>10. CASE PostComment
  BY <1>1, <1>10 DEF PostComment, Returns
<1>11. CASE Crash
  <2>1. CASE attempt = 2
    BY <1>1, <1>11, <2>1 DEF Crash, Returns
  <2>2. CASE attempt # 2
    <3>1. TryAgain /\ faults' > 0 /\ next <= Len(Queue) /\ attempt = 1
      <4>1. attempt \in 0 .. 2
        BY DEF TypeOK
      <4>2. faults' > faults /\ {faults, faults'} \subseteq Nat
        BY <1>11, FaultTyped DEF Crash
      <4>3. attempt # 0 /\ next <= Len(Queue)
        BY <1>11 DEF Crash, JobInv
      <4>4. TryAgain
        BY <1>11, <2>2 DEF Crash
      <4>5. faults' > 0 /\ attempt = 1
        BY <2>2, <4>1, <4>2, <4>3
      <4> QED  BY <4>3, <4>4, <4>5, Zenon
    <3> QED  BY <3>1 DEF TryAgain, JobInv, NoHistory
  <2> QED  BY <2>1, <2>2
<1>12. CASE Tick
  BY <1>12 DEF Tick, JobInv, IsPull, Event, job
<1>13. CASE UNCHANGED vars
  BY <1>13 DEF vars, JobInv, IsPull, Event, job
<1> QED
  BY <1>2, <1>3, <1>4, <1>5, <1>6, <1>7, <1>8, <1>9, <1>10, <1>11, <1>12, <1>13 DEF Next, Done

-----------------------------------------------------------------------------
(* Rows added to a table say of a run what they say by themselves, besides *)
(* what the table has said.                                                *)
LEMMA RowsOfConcat ==
  ASSUME NEW s \in Seq(TableRow), NEW t \in Seq(TableRow), NEW id
  PROVE  RowsOf(s \o t, DOMAIN (s \o t), id) =
           RowsOf(s, DOMAIN s, id) \cup RowsOf(t, DOMAIN t, id)
<1> DEFINE u == s \o t
<1>1. /\ DOMAIN s = 1 .. Len(s) /\ DOMAIN t = 1 .. Len(t) /\ DOMAIN u = 1 .. Len(s) + Len(t)
      /\ Len(s) \in Nat /\ Len(t) \in Nat
  BY ConcatProperties, LenProperties
<1>2. /\ \A i \in DOMAIN s : i \in DOMAIN u /\ u[i] = s[i]
      /\ \A j \in DOMAIN t : j + Len(s) \in DOMAIN u /\ u[j + Len(s)] = t[j]
  BY <1>1, ConcatProperties
<1>3. \A i \in DOMAIN u : \/ i \in DOMAIN s /\ u[i] = s[i]
                          \/ i - Len(s) \in DOMAIN t /\ u[i] = t[i - Len(s)]
  BY <1>1, ConcatProperties
<1> HIDE DEF u
<1>4. RowsOf(s, DOMAIN s, id) \subseteq RowsOf(u, DOMAIN u, id)
  BY <1>2 DEF RowsOf
<1>5. RowsOf(t, DOMAIN t, id) \subseteq RowsOf(u, DOMAIN u, id)
  BY <1>2 DEF RowsOf
<1>6. RowsOf(u, DOMAIN u, id) \subseteq RowsOf(s, DOMAIN s, id) \cup RowsOf(t, DOMAIN t, id)
  BY <1>3 DEF RowsOf
<1> QED  BY <1>4, <1>5, <1>6 DEF u

LEMMA RowsOfOne ==
  ASSUME NEW row \in TableRow, NEW id, id = row.id, NEW one, one = <<row>>
  PROVE  RowsOf(one, DOMAIN one, id) = {<<row.kind, row.scenario>>}
<1>1. DOMAIN one = {1} /\ one[1] = row
  OBVIOUS
<1> QED  BY <1>1 DEF RowsOf

LEMMA TransactionStep ==
  TypeOK /\ JobInv /\ TransactionInv /\ [Next]_vars => TransactionInv'
<1> SUFFICES ASSUME TypeOK, JobInv, TransactionInv, [Next]_vars PROVE TransactionInv'
  OBVIOUS
<1>1. ASSUME pc' = "idle", transaction' = NoTransaction PROVE TransactionInv'
  BY <1>1 DEF TransactionInv
<1>2. CASE Begin
  BY <1>1, <1>2 DEF Begin, TransactionInv, Return
<1>3. CASE ReadHistory
  BY <1>1, <1>3 DEF ReadHistory, TransactionInv, Return
<1>4. CASE Bench
  <2>1. CASE pc' = "insert"
    <3>1. /\ measured' \in IF IsPull THEN {ComparedIn[CommitsOf[Event]]} ELSE Measurements
          /\ transaction'.rows = << >> /\ transaction'.left = measured' /\ next' = next
      BY <1>4, <2>1 DEF Bench, Return
    <3>2. RowsOf(transaction'.rows, DOMAIN transaction'.rows, Id') = {}
      BY <3>1 DEF RowsOf
    <3>3. Event' = Event /\ IsPull' = IsPull
      BY <3>1 DEF Event, IsPull
    <3> QED  BY <2>1, <3>1, <3>2, <3>3 DEF TransactionInv
  <2>2. CASE pc' # "insert"
    BY <1>1, <1>4, <2>2 DEF Bench, TransactionInv, Return
  <2> QED  BY <2>1, <2>2
<1>5. CASE Insert
  <2>1. PICK result \in NextRows :
          transaction' = [transaction EXCEPT !.left = @ \ {result}, !.rows = Append(@, Row(result))]
    BY <1>5, Zenon DEF Insert
  <2>2. PICK rows : rows = transaction.rows
    OBVIOUS
  <2>3. PICK row : row = Row(result)
    OBVIOUS
  <2>4. result \in transaction.left /\ result = <<result[1], result[2]>>
    BY DEF NextRows, TypeOK, Results
  <2>5. rows \in Seq(TableRow) /\ row \in TableRow /\ row.id = Id
    <3>1. Id \in Nat \ {0}
      <4>1. Len(comparisonRuns) \in Nat /\ Len(benchRuns) \in Nat
        BY LenProperties DEF TypeOK
      <4> QED  BY <4>1 DEF Id
    <3>2. result \in Range(Kinds) \X Scenarios
      BY DEF NextRows, TypeOK, Results
    <3> QED  BY <2>2, <2>3, <3>1, <3>2 DEF Row, TableRow, TypeOK
  <2>6. PICK one, id : one = <<row>> /\ id = Id
    OBVIOUS
  <2>7. one \in Seq(TableRow) /\ row.id = id
    BY <2>5, <2>6
  <2>8. transaction'.rows = rows \o one /\ transaction'.left = transaction.left \ {result}
    <3>1. /\ transaction'.rows = Append(rows, row)
          /\ transaction'.left = transaction.left \ {result}
      BY <2>1, <2>2, <2>3 DEF TypeOK
    <3> QED  BY <2>5, <2>6, <3>1, AppendIsConcat
  <2>9. Id' = Id /\ measured' = measured /\ pc' = pc /\ pc = "insert" /\ IsPull' = IsPull /\ Event' = Event
    BY <1>5 DEF Insert, Id, job, tables, IsPull, Event
  <2>10. RowsOf(rows \o one, DOMAIN (rows \o one), id) =
          RowsOf(rows, DOMAIN rows, id) \cup {<<row.kind, row.scenario>>}
    <3>1. RowsOf(one, DOMAIN one, id) = {<<row.kind, row.scenario>>}
      BY <2>5, <2>6, <2>7, RowsOfOne
    <3>2. RowsOf(rows \o one, DOMAIN (rows \o one), id) =
            RowsOf(rows, DOMAIN rows, id) \cup RowsOf(one, DOMAIN one, id)
      BY <2>5, <2>7, RowsOfConcat
    <3> QED  BY <3>1, <3>2
  <2>11. <<row.kind, row.scenario>> = result
    BY <2>3, <2>4 DEF Row
  <2>12. RowsOf(rows, DOMAIN rows, id) \cup transaction.left = measured
    BY <2>2, <2>6, <2>9 DEF TransactionInv
  <2>13. RowsOf(transaction'.rows, DOMAIN transaction'.rows, id) \cup transaction'.left = measured
    BY <2>4, <2>8, <2>10, <2>11, <2>12
  <2>14. \A i \in DOMAIN transaction'.rows : transaction'.rows[i].id = id
    <3>1. \A i \in DOMAIN rows : rows[i].id = id
      BY <2>2, <2>6, <2>9 DEF TransactionInv
    <3> QED  BY <2>5, <2>6, <2>7, <2>8, <3>1
  <2> QED  BY <2>6, <2>9, <2>13, <2>14 DEF TransactionInv
<1>6. CASE StoreRunResults
  BY <1>6 DEF StoreRunResults, TransactionInv, Goto, job, IsPull, Event
<1>7. CASE StoreComparisonResult
  BY <1>7 DEF StoreComparisonResult, TransactionInv, Goto, job, IsPull, Event
<1>8. CASE FailToStore
  BY <1>1, <1>8 DEF FailToStore, Return
<1>9. CASE TrackResults
  BY <1>1, <1>9 DEF TrackResults, TransactionInv, Return
<1>10. CASE PostComment
  BY <1>1, <1>10 DEF PostComment, TransactionInv, Return
<1>11. CASE Crash
  BY <1>1, <1>11 DEF Crash, Return, TryAgain
<1>12. CASE Tick
  BY <1>12 DEF Tick, TransactionInv, IsPull, Event, Id, job, tables
<1>13. CASE UNCHANGED vars
  BY <1>13 DEF vars, TransactionInv, IsPull, Event, Id, job, tables
<1> QED
  BY <1>2, <1>3, <1>4, <1>5, <1>6, <1>7, <1>8, <1>9, <1>10, <1>11, <1>12, <1>13 DEF Next, Done

-----------------------------------------------------------------------------
Sorted(rows) == \A i, j \in DOMAIN rows : i < j => rows[i].id <= rows[j].id

(* A table stays whole and sorted if a transaction adds a head and all the *)
(* rows that say its results.                                              *)
LEMMA TableGrows ==
  ASSUME NEW S, NEW heads \in Seq(S), NEW head \in S,
         NEW rows \in Seq(TableRow), NEW new \in Seq(TableRow),
         Whole(heads, rows), Len(heads) + 1 \notin DOMAIN heads,
         \A i \in DOMAIN new : new[i].id = Len(heads) + 1,
         RowsOf(new, DOMAIN new, Len(heads) + 1) = head.results
  PROVE  /\ Whole(Append(heads, head), rows \o new)
         /\ Sorted(rows) => Sorted(rows \o new)
<1> DEFINE h == Append(heads, head)
           u == rows \o new
           n == Len(heads) + 1
<1>1. /\ DOMAIN h = DOMAIN heads \cup {n} /\ h[n] = head
      /\ \A id \in DOMAIN heads : h[id] = heads[id] /\ id < n /\ id \in Nat
      /\ n \in Nat
  BY AppendProperties, LenProperties
<1>2. /\ DOMAIN u = 1 .. Len(rows) + Len(new) /\ Len(rows) \in Nat /\ Len(new) \in Nat
      /\ \A i \in DOMAIN u : \/ i \in DOMAIN rows /\ i <= Len(rows) /\ u[i] = rows[i]
                             \/ /\ i > Len(rows) /\ i - Len(rows) \in DOMAIN new
                                /\ u[i] = new[i - Len(rows)]
  BY ConcatProperties, LenProperties
<1>3. \A id : RowsOf(u, DOMAIN u, id) = RowsOf(rows, DOMAIN rows, id) \cup RowsOf(new, DOMAIN new, id)
  BY RowsOfConcat
<1> HIDE DEF h, u, n
<1>4. ASSUME NEW id \in DOMAIN heads PROVE RowsOf(u, DOMAIN u, id) = h[id].results
  <2>1. RowsOf(new, DOMAIN new, id) = {}
    BY <1>1 DEF RowsOf, n
  <2> QED  BY <1>1, <1>3, <2>1 DEF Whole
<1>5. RowsOf(u, DOMAIN u, n) = h[n].results
  <2>1. RowsOf(rows, DOMAIN rows, n) = {}
    BY <1>1 DEF RowsOf, Whole
  <2>2. RowsOf(new, DOMAIN new, n) = head.results
    BY DEF n
  <2>3. RowsOf(u, DOMAIN u, n) = RowsOf(rows, DOMAIN rows, n) \cup RowsOf(new, DOMAIN new, n)
    BY <1>3
  <2> QED  BY <1>1, <2>1, <2>2, <2>3
<1>6. \A i \in DOMAIN u : u[i].id \in DOMAIN h
  BY <1>1, <1>2 DEF Whole, n
<1>7. Whole(h, u)
  BY <1>1, <1>4, <1>5, <1>6 DEF Whole
<1>8. ASSUME Sorted(rows) PROVE Sorted(u)
  <2>1. \A i \in DOMAIN rows : rows[i].id \in Nat /\ rows[i].id < n
    BY <1>1 DEF Whole
  <2>2. \A i \in DOMAIN new : new[i].id = n
    BY DEF n
  <2>3. SUFFICES ASSUME NEW i \in DOMAIN u, NEW j \in DOMAIN u, i < j PROVE u[i].id <= u[j].id
    BY DEF Sorted
  <2>4. i \in Nat /\ j \in Nat
    BY <1>2
  <2> QED  BY <1>1, <1>2, <1>8, <2>1, <2>2, <2>3, <2>4 DEF Sorted
<1> QED  BY <1>7, <1>8 DEF h, u

Run == [push : Events, created : 0 .. LastDay, results : Results]
Comparison == [commits : DOMAIN ComparedIn, results : Results]

(* What a commit of the results adds to the tables.                        *)
LEMMA RunCommitted ==
  ASSUME TypeOK, JobInv, StoreRunResults
  PROVE  /\ benchRuns \in Seq(Run) /\ Event \in Events
         /\ \E run \in Run : /\ run.push = Event /\ run.results = measured
                            /\ benchRuns' = Append(benchRuns, run)
<1>1. PICK run : run = [push |-> Event, created |-> transaction.began, results |-> measured]
  OBVIOUS
<1>2. Event \in Events
  BY EventFacts DEF StoreRunResults, Goto, JobInv
<1>3. run \in Run /\ run.push = Event /\ run.results = measured
  BY <1>1, <1>2 DEF Run, TypeOK
<1>4. benchRuns \in Seq(Run) /\ benchRuns' = Append(benchRuns, run)
  BY <1>1 DEF Run, TypeOK, StoreRunResults
<1> QED  BY <1>2, <1>3, <1>4

LEMMA ComparisonCommitted ==
  ASSUME TypeOK, JobInv, StoreComparisonResult
  PROVE  /\ comparisonRuns \in Seq(Comparison)
         /\ \E head \in Comparison : /\ head.commits = CommitsOf[Event] /\ head.results = measured
                                    /\ comparisonRuns' = Append(comparisonRuns, head)
<1>1. PICK head : head = [commits |-> CommitsOf[Event], results |-> measured]
  OBVIOUS
<1>2. CommitsOf[Event] \in DOMAIN ComparedIn
  BY EventFacts DEF StoreComparisonResult, Goto, JobInv
<1>3. head \in Comparison /\ head.commits = CommitsOf[Event] /\ head.results = measured
  BY <1>1, <1>2 DEF Comparison, TypeOK
<1>4. comparisonRuns \in Seq(Comparison) /\ comparisonRuns' = Append(comparisonRuns, head)
  BY <1>1 DEF Comparison, TypeOK, StoreComparisonResult
<1> QED  BY <1>3, <1>4

(* The rows a transaction commits are those of its results.                *)
LEMMA RowsCommitted ==
  ASSUME TypeOK, TransactionInv, pc = "insert", transaction.left = {},
         NEW n, n = Id
  PROVE  /\ \A i \in DOMAIN transaction.rows : transaction.rows[i].id = n
         /\ RowsOf(transaction.rows, DOMAIN transaction.rows, n) = measured
BY DEF TransactionInv

LEMMA TablesStep ==
  TypeOK /\ JobInv /\ TransactionInv /\ TablesInv /\ [Next]_vars => TablesInv'
<1> SUFFICES ASSUME TypeOK, JobInv, TransactionInv, TablesInv, [Next]_vars PROVE TablesInv'
  OBVIOUS
<1>1. CASE UNCHANGED tables
  BY <1>1 DEF TablesInv, TablesAreWhole, tables
<1>2. CASE StoreRunResults
  <2>1. Id = Len(benchRuns) + 1 /\ Len(benchRuns) \in Nat
    BY <1>2, LenProperties DEF StoreRunResults, Id, TypeOK
  <2>2. PICK head \in Run : head.results = measured /\ benchRuns' = Append(benchRuns, head)
    BY <1>2, RunCommitted
  <2>3. benchResults' = benchResults \o transaction.rows /\ UNCHANGED <<comparisonRuns, scenarioDiffs>>
    BY <1>2 DEF StoreRunResults
  <2>4. /\ benchRuns \in Seq(Run) /\ Len(benchRuns) + 1 \notin DOMAIN benchRuns
        /\ benchResults \in Seq(TableRow) /\ transaction.rows \in Seq(TableRow)
    <3>1. benchRuns \in Seq(Run)
      BY <1>2, RunCommitted
    <3> QED  BY <2>1, <3>1, LenProperties DEF TypeOK
  <2>5. /\ \A i \in DOMAIN transaction.rows : transaction.rows[i].id = Len(benchRuns) + 1
        /\ RowsOf(transaction.rows, DOMAIN transaction.rows, Len(benchRuns) + 1) = measured
    BY <1>2, <2>1, RowsCommitted DEF StoreRunResults, Goto
  <2>6. Whole(benchRuns', benchResults') /\ Sorted(benchResults')
    <3>1. Whole(benchRuns, benchResults) /\ Sorted(benchResults)
      BY DEF TablesInv, TablesAreWhole, Sorted
    <3> QED  BY <2>2, <2>3, <2>4, <2>5, <3>1, TableGrows
  <2> QED  BY <2>3, <2>6 DEF TablesInv, TablesAreWhole, Sorted
<1>3. CASE StoreComparisonResult
  <2>1. Id = Len(comparisonRuns) + 1 /\ Len(comparisonRuns) \in Nat
    BY <1>3, LenProperties DEF StoreComparisonResult, Id, TypeOK
  <2>2. PICK head \in Comparison : /\ head.commits = CommitsOf[Event] /\ head.results = measured
                                   /\ comparisonRuns' = Append(comparisonRuns, head)
    BY <1>3, ComparisonCommitted
  <2>3. scenarioDiffs' = scenarioDiffs \o transaction.rows /\ UNCHANGED <<benchRuns, benchResults>>
    BY <1>3 DEF StoreComparisonResult
  <2>4. /\ comparisonRuns \in Seq(Comparison) /\ Len(comparisonRuns) + 1 \notin DOMAIN comparisonRuns
        /\ scenarioDiffs \in Seq(TableRow) /\ transaction.rows \in Seq(TableRow)
    <3>1. comparisonRuns \in Seq(Comparison)
      BY <1>3, ComparisonCommitted
    <3> QED  BY <2>1, <3>1, LenProperties DEF TypeOK
  <2>5. /\ \A i \in DOMAIN transaction.rows : transaction.rows[i].id = Len(comparisonRuns) + 1
        /\ RowsOf(transaction.rows, DOMAIN transaction.rows, Len(comparisonRuns) + 1) = measured
    BY <1>3, <2>1, RowsCommitted DEF StoreComparisonResult, Goto
  <2>6. Whole(comparisonRuns', scenarioDiffs')
    BY <2>2, <2>3, <2>4, <2>5, TableGrows DEF TablesInv, TablesAreWhole
  <2>7. head.results = ComparedIn[head.commits]
    BY <1>3, <2>2 DEF TransactionInv, StoreComparisonResult, Goto
  <2>8. \A id \in DOMAIN comparisonRuns' :
           comparisonRuns'[id].results = ComparedIn[comparisonRuns'[id].commits]
    <3>1. \A id \in DOMAIN comparisonRuns' :
            IF id = Len(comparisonRuns) + 1 THEN comparisonRuns'[id] = head
            ELSE id \in DOMAIN comparisonRuns /\ comparisonRuns'[id] = comparisonRuns[id]
      BY <2>2, <2>4, AppendProperties, LenProperties
    <3> QED  BY <2>7, <3>1 DEF TablesInv
  <2> QED  BY <2>3, <2>6, <2>8 DEF TablesInv, TablesAreWhole
<1> QED
  BY <1>1, <1>2, <1>3 DEF Next, Done, Begin, ReadHistory, Bench, Insert, FailToStore,
     TrackResults, PostComment, Crash, Tick, vars

(* The history holds what the window holds at the time it is read, and its *)
(* rows and the runs it is about do not change before it is used.          *)
LEMMA HistoryStep ==
  TypeOK /\ JobInv /\ TablesInv /\ HistoryIsRecent /\ [Next]_vars => HistoryIsRecent'
<1> SUFFICES ASSUME TypeOK, JobInv, TablesInv, HistoryIsRecent, [Next]_vars,
                    history'.read
             PROVE  HistoryIsRecent'
  BY DEF HistoryIsRecent
<1>1. CASE history' = NoHistory
  BY <1>1 DEF NoHistory
<1>2. CASE UNCHANGED <<history, benchRuns, benchResults>>
  BY <1>2 DEF HistoryIsRecent
<1>3. CASE StoreRunResults
  BY <1>3 DEF StoreRunResults, Goto, JobInv, job
<1>4. CASE ReadHistory /\ history' # NoHistory
  <2>1. /\ history' = [read |-> TRUE, day |-> clock,
                       rows |-> {i \in DOMAIN benchResults :
                                  CreatedSince(benchResults[i].id, clock)}]
        /\ UNCHANGED <<benchRuns, benchResults>>
    BY <1>4 DEF ReadHistory, Return, tables
  <2>2. PICK rows : rows = {i \in DOMAIN benchResults : CreatedSince(benchResults[i].id, clock)}
    OBVIOUS
  <2>3. history'.rows = rows /\ history'.day = clock /\ rows \subseteq DOMAIN benchResults
    BY <2>1, <2>2
  <2>4. ASSUME NEW id \in DOMAIN benchRuns
        PROVE  RowsOf(benchResults, rows, id) =
                 IF clock - benchRuns[id].created < Window THEN benchRuns[id].results ELSE {}
    <3>1. benchRuns[id].created \in Nat /\ clock \in Nat /\ Window \in Nat
      <4>1. benchRuns[id] \in [push : Events, created : 0 .. LastDay, results : Results]
        <5>1. benchRuns \in Seq([push : Events, created : 0 .. LastDay, results : Results])
          BY DEF TypeOK
        <5> QED  BY <5>1, LenProperties, ElementOfSeq
      <4> QED  BY <4>1, ResultStoreAssumption DEF TypeOK
    <3>2. CreatedSince(id, clock) <=> clock - benchRuns[id].created < Window
      BY <3>1 DEF CreatedSince
    <3>3. CASE CreatedSince(id, clock)
      <4>1. RowsOf(benchResults, rows, id) = RowsOf(benchResults, DOMAIN benchResults, id)
        BY <2>2, <3>3 DEF RowsOf
      <4> QED  BY <3>2, <3>3, <4>1 DEF TablesInv, TablesAreWhole, Whole
    <3>4. CASE ~CreatedSince(id, clock)
      <4>1. RowsOf(benchResults, rows, id) = {}
        BY <2>2, <3>4 DEF RowsOf
      <4> QED  BY <3>2, <3>4, <4>1
    <3> QED  BY <3>3, <3>4
  <2>5. \A i, j \in rows : i < j => benchResults[i].id <= benchResults[j].id
    BY <2>3 DEF TablesInv
  <2> QED  BY <2>1, <2>3, <2>4, <2>5 DEF HistoryIsRecent
<1> QED
  BY <1>1, <1>2, <1>3, <1>4 DEF Next, Done, Begin, ReadHistory, Bench, Insert, FailToStore,
     StoreComparisonResult, TrackResults, PostComment, Crash, Tick, Return, TryAgain, vars, job, tables

-----------------------------------------------------------------------------
(* A run that is added is the pushed event's, and the others stay.         *)
LEMMA RunAdded ==
  ASSUME NEW run \in Run, benchRuns \in Seq(Run), benchRuns' = Append(benchRuns, run)
  PROVE  /\ \A id \in DOMAIN benchRuns : id \in DOMAIN benchRuns' /\ benchRuns'[id] = benchRuns[id]
         /\ \A e : RunsOf(e)' = IF e = run.push THEN RunsOf(e) \cup {Len(benchRuns) + 1} ELSE RunsOf(e)
         /\ \A e : Len(benchRuns) + 1 \notin RunsOf(e)
         /\ benchRuns'[Len(benchRuns) + 1] = run
<1>1. /\ DOMAIN benchRuns' = DOMAIN benchRuns \cup {Len(benchRuns) + 1}
      /\ Len(benchRuns) + 1 \notin DOMAIN benchRuns
      /\ \A id \in DOMAIN benchRuns : benchRuns'[id] = benchRuns[id]
      /\ benchRuns'[Len(benchRuns) + 1] = run
  BY AppendProperties, LenProperties
<1> QED  BY <1>1 DEF RunsOf

LEMMA CardinalityFacts ==
  ASSUME StoredInv, TypeOK, NEW e \in Events
  PROVE  IsFiniteSet(RunsOf(e)) /\ Cardinality(RunsOf(e)) \in Nat
BY FS_CardinalityType DEF StoredInv

(* Each event has one place in the queue.                                  *)
LEMMA QueueFacts ==
  /\ DOMAIN Queue = 1 .. Len(Queue) /\ Len(Queue) \in Nat
  /\ \A k \in DOMAIN Queue : Queue[k] \in Events
  /\ \A k, l \in DOMAIN Queue : Queue[k] = Queue[l] => k = l
  /\ \A e \in Events : \E k \in DOMAIN Queue : Queue[k] = e
<1>1. DOMAIN Queue = 1 .. Len(Queue) /\ Len(Queue) \in Nat
  BY ResultStoreAssumption, LenProperties
<1>2. /\ \A k \in DOMAIN Queue : Queue[k] \in Events
      /\ \A e \in Events : \E k \in DOMAIN Queue : Queue[k] = e
  BY DEF Events, Range
<1>3. \A k, l \in DOMAIN Queue : Queue[k] = Queue[l] => k = l
  BY ResultStoreAssumption DEF IsInjective
<1> QED  BY <1>1, <1>2, <1>3

(* A step within an attempt, or a retry, gives the event at hand more room *)
(* for runs.                                                               *)
LEMMA StoredStays ==
  ASSUME StoredInv, UNCHANGED <<next, outcome, benchRuns>>, TypeOK, TypeOK',
         RunsAtHand' >= RunsAtHand, faults' = 0 => faults = 0, RunsAtHand \in Int, RunsAtHand' \in Int
  PROVE  StoredInv'
<1>1. \A e : RunsOf(e)' = RunsOf(e)
  BY DEF RunsOf
<1>2. \A e \in Events : IsFiniteSet(RunsOf(e)')
  BY <1>1 DEF StoredInv
<1>3. ASSUME NEW k \in DOMAIN Queue
      PROVE  /\ k > next' => RunsOf(Queue[k])' = {}
             /\ k = next' => Cardinality(RunsOf(Queue[k])') <= RunsAtHand'
             /\ k < next' => Cardinality(RunsOf(Queue[k])') <= IF faults' = 0 THEN 1 ELSE 2
             /\ k >= next' => outcome'[Queue[k]] = "none"
             /\ outcome'[Queue[k]] = "ok" /\ KindOf[Queue[k]] = "main" => RunsOf(Queue[k])' # {}
  <2>1. Cardinality(RunsOf(Queue[k])) \in Nat
    BY CardinalityFacts, QueueFacts
  <2>2. RunsOf(Queue[k])' = RunsOf(Queue[k])
    BY <1>1
  <2> QED  BY <2>1, <2>2 DEF StoredInv
<1> QED  BY <1>2, <1>3 DEF StoredInv

(* A return, of an event that has had its runs.                            *)
LEMMA StoredByReturn ==
  ASSUME StoredInv, TypeOK, TypeOK', JobInv, next <= Len(Queue), benchRuns' = benchRuns,
         NEW result, Return(result), faults' = 0 => faults = 0,
         result = "ok" /\ KindOf[Event] = "main" => RunsOf(Event) # {}
  PROVE  StoredInv'
<1>1. \A e : RunsOf(e)' = RunsOf(e)
  BY DEF RunsOf
<1>2. \A e \in Events : IsFiniteSet(RunsOf(e)')
  BY <1>1 DEF StoredInv
<1>3. next' = next + 1 /\ RunsAtHand' = 0 /\ outcome' = [outcome EXCEPT ![Event] = result]
  BY DEF Return, RunsAtHand
<1>4. /\ next \in DOMAIN Queue /\ next \in Nat /\ Event \in Events
      /\ outcome \in [Events -> {"none", "ok", "err", "crashed"}]
  <2>1. next \in DOMAIN Queue /\ Event \in Events
    BY EventFacts
  <2>2. outcome \in [Events -> {"none", "ok", "err", "crashed"}]
    BY DEF TypeOK
  <2> QED  BY <2>1, <2>2, QueueFacts
<1>5. RunsAtHand \in Int /\ RunsAtHand <= IF faults = 0 THEN 1 ELSE 2
  <2>1. attempt \in 0 .. 2 /\ (attempt = 2 => faults > 0)
    BY DEF TypeOK, JobInv
  <2>2. faults \in Nat
    BY ResultStoreAssumption DEF TypeOK
  <2> QED  BY <2>1, <2>2 DEF RunsAtHand
<1>6. ASSUME NEW k \in DOMAIN Queue
      PROVE  /\ k > next' => RunsOf(Queue[k])' = {}
             /\ k = next' => Cardinality(RunsOf(Queue[k])') <= RunsAtHand'
             /\ k < next' => Cardinality(RunsOf(Queue[k])') <= IF faults' = 0 THEN 1 ELSE 2
             /\ k >= next' => outcome'[Queue[k]] = "none"
             /\ outcome'[Queue[k]] = "ok" /\ KindOf[Queue[k]] = "main" => RunsOf(Queue[k])' # {}
  <2>1. Cardinality(RunsOf(Queue[k])) \in Nat /\ k \in Nat /\ Queue[k] \in Events
    BY CardinalityFacts, QueueFacts
  <2>2. RunsOf(Queue[k])' = RunsOf(Queue[k])
    BY <1>1
  <2>3. CASE k = next
    <3>1. Queue[k] = Event /\ outcome'[Queue[k]] = result
      BY <1>3, <1>4, <2>3 DEF Event
    <3>2. Cardinality(RunsOf(Queue[k])) <= RunsAtHand
      BY <2>3 DEF StoredInv
    <3> QED  BY <1>3, <1>4, <1>5, <2>1, <2>2, <2>3, <3>1, <3>2
  <2>4. CASE k # next
    <3>1. Queue[k] # Event
      BY <1>4, <2>4, QueueFacts DEF Event
    <3>2. outcome'[Queue[k]] = outcome[Queue[k]]
      BY <1>3, <1>4, <2>1, <3>1
    <3>3. k > next => Cardinality(RunsOf(Queue[k])) = 0
      BY FS_EmptySet DEF StoredInv
    <3> QED  BY <1>3, <1>4, <2>1, <2>2, <2>4, <3>2, <3>3 DEF StoredInv
  <2> QED  BY <2>3, <2>4
<1> QED  BY <1>2, <1>6 DEF StoredInv

LEMMA StoredByCommit ==
  ASSUME StoredInv, TypeOK, TypeOK', JobInv, StoreRunResults
  PROVE  StoredInv'
<1>1. next \in DOMAIN Queue /\ next \in Nat /\ Event \in Events /\ Event = Queue[next]
  BY EventFacts, QueueFacts DEF TypeOK, StoreRunResults, Goto, JobInv, Event
<1>2. PICK run \in Run : run.push = Event /\ benchRuns' = Append(benchRuns, run)
  BY RunCommitted
<1>3. benchRuns \in Seq(Run)
  BY RunCommitted
<1>4. /\ \A e : RunsOf(e)' = IF e = run.push THEN RunsOf(e) \cup {Len(benchRuns) + 1} ELSE RunsOf(e)
      /\ \A e : Len(benchRuns) + 1 \notin RunsOf(e)
  BY <1>2, <1>3, RunAdded
<1>5. RunsAtHand \in Int /\ RunsAtHand' = RunsAtHand + 1 /\ UNCHANGED <<next, outcome, faults>>
  BY DEF RunsAtHand, StoreRunResults, Goto, TypeOK, job
<1>6. ASSUME NEW k \in DOMAIN Queue
      PROVE  /\ IsFiniteSet(RunsOf(Queue[k])')
             /\ k > next' => RunsOf(Queue[k])' = {}
             /\ k = next' => Cardinality(RunsOf(Queue[k])') <= RunsAtHand'
             /\ k < next' => Cardinality(RunsOf(Queue[k])') <= IF faults' = 0 THEN 1 ELSE 2
             /\ k >= next' => outcome'[Queue[k]] = "none"
             /\ outcome'[Queue[k]] = "ok" /\ KindOf[Queue[k]] = "main" => RunsOf(Queue[k])' # {}
  <2>1. /\ Cardinality(RunsOf(Queue[k])) \in Nat /\ IsFiniteSet(RunsOf(Queue[k]))
        /\ k \in Nat /\ Queue[k] \in Events
    BY CardinalityFacts, QueueFacts
  <2>2. CASE k = next
    <3>1. RunsOf(Queue[k])' = RunsOf(Queue[k]) \cup {Len(benchRuns) + 1}
      BY <1>1, <1>2, <1>4, <2>2
    <3>2. /\ IsFiniteSet(RunsOf(Queue[k])')
          /\ Cardinality(RunsOf(Queue[k])') = Cardinality(RunsOf(Queue[k])) + 1
      BY <1>4, <2>1, <3>1, FS_AddElement
    <3>3. Cardinality(RunsOf(Queue[k])) <= RunsAtHand /\ outcome[Queue[k]] = "none"
      BY <1>1, <2>2 DEF StoredInv
    <3> QED  BY <1>1, <1>5, <2>1, <2>2, <3>2, <3>3
  <2>3. CASE k # next
    <3>1. RunsOf(Queue[k])' = RunsOf(Queue[k])
      BY <1>1, <1>2, <1>4, <2>3, QueueFacts
    <3> QED  BY <1>1, <1>5, <2>1, <2>3, <3>1 DEF StoredInv
  <2> QED  BY <2>2, <2>3
<1>7. \A e \in Events : IsFiniteSet(RunsOf(e)')
  BY <1>6, QueueFacts
<1> QED  BY <1>6, <1>7 DEF StoredInv

LEMMA StoredStep ==
  TypeOK /\ TypeOK' /\ JobInv /\ StoredInv /\ ToldInv /\ [Next]_vars => StoredInv'
<1> SUFFICES ASSUME TypeOK, TypeOK', JobInv, StoredInv, ToldInv, [Next]_vars PROVE StoredInv'
  OBVIOUS
<1>1. RunsAtHand \in Int /\ RunsAtHand' \in Int
  <2>1. attempt \in 0 .. 2 /\ attempt' \in 0 .. 2
    BY DEF TypeOK
  <2> QED  BY <2>1 DEF RunsAtHand
<1>2. faults' = faults \/ Fault => (faults' = 0 => faults = 0)
  <2>1. Fault => faults' > faults /\ {faults, faults'} \subseteq Nat
    BY FaultTyped
  <2> QED  BY <2>1
<1>3. ASSUME UNCHANGED <<next, outcome, benchRuns>>, RunsAtHand' >= RunsAtHand,
             faults' = faults \/ Fault
      PROVE  StoredInv'
  BY <1>1, <1>2, <1>3, StoredStays
<1>4. ASSUME next <= Len(Queue), NEW result, Return(result), benchRuns' = benchRuns,
             faults' = faults \/ Fault,
             result = "ok" /\ KindOf[Event] = "main" => RunsOf(Event) # {}
      PROVE  StoredInv'
  BY <1>2, <1>4, StoredByReturn
<1>5. CASE Begin
  <2>1. CASE KindOf[Event] \in {"branch", "deletion"}
    BY <1>4, <1>5, <2>1 DEF Begin, tables
  <2>2. CASE KindOf[Event] \notin {"branch", "deletion"}
    <3>1. RunsAtHand' = RunsAtHand
      <4>1. attempt \in 0 .. 2
        BY DEF TypeOK
      <4> QED  BY <1>5, <2>2, <4>1 DEF Begin, RunsAtHand
    <3> QED  BY <1>1, <1>3, <1>5, <2>2, <3>1 DEF Begin, tables
  <2> QED  BY <2>1, <2>2
<1>6. CASE ReadHistory
  <2>1. CASE Return("ok")
    BY <1>4, <1>6, <2>1 DEF ReadHistory, tables, JobInv, IsPull
  <2>2. CASE pc' = "bench"
    <3>1. RunsAtHand' = RunsAtHand
      BY <1>6, <2>2 DEF ReadHistory, RunsAtHand, TypeOK, Return
    <3> QED  BY <1>1, <1>3, <1>6, <2>2, <3>1 DEF ReadHistory, tables, Return
  <2> QED  BY <1>6, <2>1, <2>2 DEF ReadHistory
<1>7. CASE Bench
  <2>1. CASE pc' = "insert"
    <3>1. RunsAtHand' = RunsAtHand
      BY <1>7, <2>1 DEF Bench, RunsAtHand, TypeOK, Return
    <3> QED  BY <1>1, <1>3, <1>7, <2>1, <3>1 DEF Bench, tables, Return
  <2>2. CASE pc' # "insert"
    BY <1>4, <1>7, <2>2 DEF Bench, tables, JobInv, IsPull
  <2> QED  BY <2>1, <2>2
<1>8. CASE Insert
  <2>1. RunsAtHand' = RunsAtHand
    BY <1>8 DEF Insert, RunsAtHand, job
  <2> QED  BY <1>1, <1>3, <1>8, <2>1 DEF Insert, tables, job
<1>9. CASE StoreRunResults
  BY <1>9, StoredByCommit
<1>10. CASE StoreComparisonResult
  <2>1. RunsAtHand' = RunsAtHand
    BY <1>10 DEF StoreComparisonResult, RunsAtHand, job, Goto
  <2> QED  BY <1>1, <1>3, <1>10, <2>1 DEF StoreComparisonResult, job
<1>11. CASE FailToStore
  BY <1>4, <1>11 DEF FailToStore, tables, JobInv, IsPull
<1>12. CASE TrackResults
  <2>1. RunsOf(Event) # {}
    BY <1>12 DEF TrackResults, ToldInv
  <2> QED  BY <1>4, <1>12, <2>1 DEF TrackResults, tables, JobInv
<1>13. CASE PostComment
  BY <1>4, <1>13 DEF PostComment, tables, JobInv, IsPull
<1>14. CASE Crash
  <2>1. CASE attempt = 2
    BY <1>4, <1>14, <2>1 DEF Crash, tables, JobInv
  <2>2. CASE attempt # 2
    <3>1. TryAgain
      BY <1>14, <2>2 DEF Crash
    <3>2. RunsAtHand' >= RunsAtHand
      BY <3>1 DEF TryAgain, RunsAtHand, TypeOK
    <3> QED  BY <1>3, <1>14, <3>1, <3>2 DEF Crash, tables, TryAgain
  <2> QED  BY <2>1, <2>2
<1>15. CASE Tick
  <2>1. RunsAtHand' = RunsAtHand
    BY <1>15 DEF Tick, RunsAtHand, job
  <2> QED  BY <1>1, <1>3, <1>15, <2>1 DEF Tick, tables, job
<1>16. CASE UNCHANGED vars
  <2>1. RunsAtHand' = RunsAtHand
    BY <1>16 DEF vars, RunsAtHand, job
  <2> QED  BY <1>1, <1>3, <1>16, <2>1 DEF vars, tables, job
<1> QED
  BY <1>5, <1>6, <1>7, <1>8, <1>9, <1>10, <1>11, <1>12, <1>13, <1>14, <1>15, <1>16 DEF Next, Done

-----------------------------------------------------------------------------
(* The tables of runs and comparisons only grow.                           *)
LEMMA RunsStay ==
  ASSUME TypeOK, JobInv, [Next]_vars
  PROVE  \A id \in DOMAIN benchRuns : id \in DOMAIN benchRuns' /\ benchRuns'[id] = benchRuns[id]
<1>1. CASE UNCHANGED benchRuns
  BY <1>1
<1>2. CASE StoreRunResults
  <2>1. benchRuns \in Seq(Run) /\ \E run \in Run : benchRuns' = Append(benchRuns, run)
    BY <1>2, RunCommitted
  <2> QED  BY <2>1, RunAdded
<1> QED
  BY <1>1, <1>2 DEF Next, Done, Begin, ReadHistory, Bench, Insert, FailToStore,
     StoreComparisonResult, TrackResults, PostComment, Crash, Tick, vars, tables

LEMMA ComparisonsStay ==
  ASSUME TypeOK, JobInv, [Next]_vars
  PROVE  \A id \in DOMAIN comparisonRuns :
           id \in DOMAIN comparisonRuns' /\ comparisonRuns'[id] = comparisonRuns[id]
<1>1. CASE UNCHANGED comparisonRuns
  BY <1>1
<1>2. CASE StoreComparisonResult
  <2>1. /\ comparisonRuns \in Seq(Comparison)
        /\ \E head \in Comparison : comparisonRuns' = Append(comparisonRuns, head)
    BY <1>2, ComparisonCommitted
  <2> QED  BY <2>1, AppendProperties, LenProperties
<1> QED
  BY <1>1, <1>2 DEF Next, Done, Begin, ReadHistory, Bench, Insert, FailToStore,
     StoreRunResults, TrackResults, PostComment, Crash, Tick, vars, tables

LEMMA ToldStep == TypeOK /\ JobInv /\ ToldInv /\ [Next]_vars => ToldInv'
<1> SUFFICES ASSUME TypeOK, JobInv, ToldInv, [Next]_vars PROVE ToldInv'
  OBVIOUS
<1>1. CASE pc' \notin {"track", "comment"}
  BY <1>1 DEF ToldInv
<1>2. CASE StoreRunResults
  <2>1. PICK run \in Run : /\ run.push = Event /\ run.results = measured
                           /\ benchRuns' = Append(benchRuns, run)
    BY <1>2, RunCommitted
  <2>2. benchRuns \in Seq(Run)
    BY <1>2, RunCommitted
  <2>3. /\ Len(benchRuns) + 1 \in DOMAIN benchRuns'
        /\ benchRuns'[Len(benchRuns) + 1] = run
    BY <2>1, <2>2, AppendProperties, LenProperties
  <2>4. Event' = Event /\ measured' = measured /\ pc' = "track"
    BY <1>2 DEF StoreRunResults, Goto, job, Event
  <2> QED  BY <2>1, <2>3, <2>4 DEF ToldInv, RunsOf
<1>3. CASE StoreComparisonResult
  <2>1. PICK head \in Comparison : /\ head.commits = CommitsOf[Event]
                                   /\ comparisonRuns' = Append(comparisonRuns, head)
    BY <1>3, ComparisonCommitted
  <2>2. comparisonRuns \in Seq(Comparison)
    BY <1>3, ComparisonCommitted
  <2>3. /\ Len(comparisonRuns) + 1 \in DOMAIN comparisonRuns'
        /\ comparisonRuns'[Len(comparisonRuns) + 1] = head
    BY <2>1, <2>2, AppendProperties, LenProperties
  <2>4. Event' = Event /\ pc' = "comment"
    BY <1>3 DEF StoreComparisonResult, Goto, job, Event
  <2> QED  BY <2>1, <2>3, <2>4 DEF ToldInv
<1>4. CASE UNCHANGED <<pc, next, measured, benchRuns, comparisonRuns>>
  BY <1>4 DEF ToldInv, RunsOf, Event
<1> QED
  BY <1>1, <1>2, <1>3, <1>4 DEF Next, Done, Begin, ReadHistory, Bench, Insert, FailToStore,
     TrackResults, PostComment, Crash, Tick, Return, TryAgain, vars, tables, job

LEMMA ReportsStep ==
  TypeOK /\ JobInv /\ ToldInv /\ ReportsInv /\ [Next]_vars => ReportsInv'
<1> SUFFICES ASSUME TypeOK, JobInv, ToldInv, ReportsInv, [Next]_vars PROVE ReportsInv'
  OBVIOUS
<1>1. \A e : \A id \in RunsOf(e) : id \in RunsOf(e)' /\ benchRuns'[id] = benchRuns[id]
  BY RunsStay DEF RunsOf
<1>2. ASSUME NEW r \in reports
      PROVE  /\ r.bmf = Bmf(r.results)
             /\ \E id \in RunsOf(r.push)' : benchRuns'[id].results = r.results
  BY <1>1 DEF ReportsInv
<1>3. CASE UNCHANGED reports
  BY <1>2, <1>3 DEF ReportsInv
<1>4. CASE TrackResults
  <2>1. PICK new : new = [push |-> Event, results |-> measured, bmf |-> Bmf(measured)]
    OBVIOUS
  <2>2. reports' \subseteq reports \cup {new}
    BY <1>4, <2>1 DEF TrackResults
  <2>3. new.bmf = Bmf(new.results) /\ \E id \in RunsOf(new.push) : benchRuns[id].results = new.results
    BY <1>4, <2>1 DEF TrackResults, ToldInv
  <2> QED  BY <1>1, <1>2, <2>2, <2>3 DEF ReportsInv
<1> QED
  BY <1>3, <1>4 DEF Next, Done, Begin, ReadHistory, Bench, Insert, StoreRunResults,
     StoreComparisonResult, FailToStore, PostComment, Crash, Tick, vars

LEMMA LinksStep ==
  TypeOK /\ JobInv /\ TransactionInv /\ ToldInv /\ LinksInv /\ [Next]_vars => LinksInv'
<1> SUFFICES ASSUME TypeOK, JobInv, TransactionInv, ToldInv, LinksInv, [Next]_vars PROVE LinksInv'
  OBVIOUS
<1>1. ASSUME NEW commits, NEW id \in DOMAIN comparisonRuns, comparisonRuns[id].commits = commits
      PROVE  \E other \in DOMAIN comparisonRuns' : comparisonRuns'[other].commits = commits
  BY <1>1, ComparisonsStay
<1>2. CASE UNCHANGED links
  BY <1>1, <1>2 DEF LinksInv
<1>3. CASE PostComment
  <2>1. PICK commits : commits = CommitsOf[Event]
    OBVIOUS
  <2>2. measured = ComparedIn[commits] /\ \E id \in DOMAIN comparisonRuns : comparisonRuns[id].commits = commits
    BY <1>3, <2>1 DEF PostComment, TransactionInv, ToldInv, JobInv
  <2>3. ASSUME NEW link \in links', link \notin links
        PROVE  link[1] = commits /\ <<"icount", link[2]>> \in measured
    <3>1. PICK r \in measured : r[1] = "icount" /\ link = <<commits, r[2]>>
      BY <1>3, <2>1, <2>3 DEF PostComment
    <3>2. r = <<r[1], r[2]>>
      BY DEF TypeOK, Results
    <3> QED  BY <3>1, <3>2
  <2> QED  BY <1>1, <2>2, <2>3 DEF LinksInv
<1> QED
  BY <1>2, <1>3 DEF Next, Done, Begin, ReadHistory, Bench, Insert, StoreRunResults,
     StoreComparisonResult, FailToStore, TrackResults, Crash, Tick, vars

-----------------------------------------------------------------------------
LEMMA InvInit == Init => Inv
<1> SUFFICES ASSUME Init PROVE Inv
  OBVIOUS
<1> USE ResultStoreAssumption DEF Init
<1>1. TypeOK
  <2>1. history \in [read : BOOLEAN, rows : SUBSET DOMAIN benchResults, day : 0 .. LastDay]
    BY DEF NoHistory
  <2>2. transaction \in [began : 0 .. LastDay, rows : Seq(TableRow), left : SUBSET measured]
    BY NoTransactionTyped
  <2>3. next \in 1 .. Len(Queue) + 1
    BY QueueFacts
  <2> QED  BY <2>1, <2>2, <2>3 DEF TypeOK, Results
<1>2. JobInv
  BY QueueFacts DEF JobInv, NoHistory
<1>3. TransactionInv
  BY DEF TransactionInv
<1>4. TablesInv
  BY DEF TablesInv, TablesAreWhole, Whole
<1>5. HistoryIsRecent
  BY DEF HistoryIsRecent, NoHistory
<1>6. StoredInv
  <2>1. \A e : RunsOf(e) = {}
    BY DEF RunsOf
  <2>2. \A e \in Events : IsFiniteSet(RunsOf(e)) /\ Cardinality(RunsOf(e)) = 0
    BY <2>1, FS_EmptySet
  <2> QED  BY <2>1, <2>2, QueueFacts DEF StoredInv, RunsAtHand
<1>7. ToldInv /\ ReportsInv /\ LinksInv
  BY DEF ToldInv, ReportsInv, LinksInv
<1> QED  BY <1>1, <1>2, <1>3, <1>4, <1>5, <1>6, <1>7 DEF Inv

LEMMA InvStep == Inv /\ [Next]_vars => Inv'
BY TypeStep, JobStep, TransactionStep, TablesStep, HistoryStep, StoredStep, ToldStep,
   ReportsStep, LinksStep DEF Inv

(* The inductive invariant behind the theorems below.                      *)
THEOREM Invariance == Spec => []Inv
BY InvInit, InvStep, PTL DEF Spec

(* Every variable of the result store holds a value of its type, and       *)
(* Bencher.dev is only told of scenarios it accepts.                       *)
THEOREM TypeCorrect == Spec => []TypeOK
<1>1. Inv => TypeOK
  BY DEF Inv
<1> QED  BY <1>1, Invariance, PTL

(* The tables hold runs and comparisons whole, wherever a job fails or the *)
(* server dies.                                                            *)
THEOREM TablesStayWhole == Spec => []TablesAreWhole
<1>1. Inv => TablesAreWhole
  BY DEF Inv, TablesInv
<1> QED  BY <1>1, Invariance, PTL

(* Thresholds are computed from all the runs of the window, in order.      *)
THEOREM HistoryStaysRecent == Spec => []HistoryIsRecent
<1>1. Inv => HistoryIsRecent
  BY DEF Inv
<1> QED  BY <1>1, Invariance, PTL

(* A push is stored if its job succeeds, and at most twice: once if        *)
(* nothing fails.                                                          *)
THEOREM PushesAreStored == Spec => []PushIsStored
<1>1. ASSUME Inv PROVE PushIsStored
  <2>1. SUFFICES ASSUME NEW e \in Events
                 PROVE  /\ KindOf[e] = "main" /\ outcome[e] = "ok" => Cardinality(RunsOf(e)) >= 1
                        /\ Cardinality(RunsOf(e)) <= IF faults = 0 THEN 1 ELSE 2
    BY DEF PushIsStored, RunsOf
  <2>2. PICK k \in DOMAIN Queue : Queue[k] = e
    BY QueueFacts
  <2>3. IsFiniteSet(RunsOf(e)) /\ Cardinality(RunsOf(e)) \in Nat
    BY <1>1, CardinalityFacts DEF Inv
  <2>4. Cardinality(RunsOf(e)) = 0 <=> RunsOf(e) = {}
    BY <2>3, FS_EmptySet
  <2>5. RunsAtHand \in Int /\ RunsAtHand <= IF faults = 0 THEN 1 ELSE 2
    <3>1. attempt \in 0 .. 2 /\ (attempt = 2 => faults > 0)
      BY <1>1 DEF Inv, TypeOK, JobInv
    <3>2. faults \in Nat
      BY <1>1, ResultStoreAssumption DEF Inv, TypeOK
    <3> QED  BY <3>1, <3>2 DEF RunsAtHand
  <2>6. k \in Nat /\ next \in Nat
    BY <1>1, QueueFacts DEF Inv, TypeOK
  <2>7. /\ k > next => RunsOf(e) = {}
        /\ k = next => Cardinality(RunsOf(e)) <= RunsAtHand
        /\ k < next => Cardinality(RunsOf(e)) <= IF faults = 0 THEN 1 ELSE 2
        /\ outcome[e] = "ok" /\ KindOf[e] = "main" => RunsOf(e) # {}
    BY <1>1, <2>2 DEF Inv, StoredInv
  <2> QED  BY <2>3, <2>4, <2>5, <2>6, <2>7
<1> QED  BY <1>1, Invariance, PTL

-----------------------------------------------------------------------------
(* What a map in Bencher Metric Format has of a scenario.                  *)
At(map, s) == IF s \in DOMAIN map THEN map[s] ELSE {}

(* Merging loses nothing and invents nothing.                              *)
LEMMA AtMerge ==
  ASSUME NEW target, NEW src, NEW s
  PROVE  At(Merge(target, src), s) = At(target, s) \cup At(src, s)
<1> DEFINE M == Merge(target, src)
<1>1. DOMAIN M = DOMAIN target \cup DOMAIN src
  BY DEF Merge
<1>2. ASSUME s \in DOMAIN M PROVE M[s] = At(target, s) \cup At(src, s)
  <2>1. M[s] = UNION {map[s] : map \in {m \in {target, src} : s \in DOMAIN m}}
    BY <1>1, <1>2 DEF Merge
  <2>2. \A x : x \in M[s] <=> \/ s \in DOMAIN target /\ x \in target[s]
                              \/ s \in DOMAIN src /\ x \in src[s]
    BY <2>1
  <2> HIDE DEF M
  <2> QED  BY <2>2 DEF At
<1> HIDE DEF M
<1>3. At(M, s) = At(target, s) \cup At(src, s)
  BY <1>1, <1>2 DEF At
<1> QED  BY <1>3 DEF M

LEMMA AtResults ==
  ASSUME NEW results, NEW kind, NEW measure, NEW s \in Scenarios \ Unnamed
  PROVE  At(ResultsToBmf(results, kind, measure), s) =
           IF <<kind, s>> \in results THEN {measure} ELSE {}
BY DEF At, ResultsToBmf

LEMMA AtBmf ==
  ASSUME NEW results \in Results, NEW s \in Scenarios \ Unnamed
  PROVE  At(Bmf(results), s) = UNION {MeasuresOf(x[1]) : x \in {y \in results : y[2] = s}}
<1> DEFINE Of(kind, measure) == IF <<kind, s>> \in results THEN {measure} ELSE {}
<1>1. At(Bmf(results), s) =
        Of("icount", "instructions") \cup Of("walltime", "latency")
          \cup Of("memory", "heap-peak-blocks") \cup Of("memory", "heap-peak-bytes")
          \cup Of("memory", "heap-total-blocks") \cup Of("memory", "heap-total-bytes")
  BY AtMerge, AtResults DEF Bmf
<1>2. \A x \in results : x = <<x[1], x[2]>> /\ x[1] \in {"icount", "walltime", "memory"}
  BY KindFacts DEF Results
<1>3. ASSUME NEW m
      PROVE  m \in UNION {MeasuresOf(x[1]) : x \in {y \in results : y[2] = s}}
               <=> \E kind \in {"icount", "walltime", "memory"} :
                     <<kind, s>> \in results /\ m \in MeasuresOf(kind)
  BY <1>2
<1>4. ASSUME NEW m
      PROVE  m \in At(Bmf(results), s)
               <=> \E kind \in {"icount", "walltime", "memory"} :
                     <<kind, s>> \in results /\ m \in MeasuresOf(kind)
  BY <1>1 DEF MeasuresOf
<1> QED  BY <1>3, <1>4

(* Bencher.dev gets every measure of every scenario it accepts, and only   *)
(* of results the database has.                                            *)
THEOREM BencherIsTold == Spec => []BencherAgrees
<1>1. ASSUME Inv PROVE BencherAgrees
  <2>1. SUFFICES ASSUME NEW r \in reports
                 PROVE  /\ \A s \in Scenarios \ Unnamed :
                             At(r.bmf, s) = UNION {MeasuresOf(x[1]) : x \in {y \in r.results : y[2] = s}}
                        /\ \E id \in DOMAIN benchRuns :
                             benchRuns[id].push = r.push /\ benchRuns[id].results = r.results
    BY DEF BencherAgrees, At
  <2>2. r.results \in Results
    BY <1>1 DEF Inv, TypeOK
  <2>3. r.bmf = Bmf(r.results) /\ \E id \in RunsOf(r.push) : benchRuns[id].results = r.results
    BY <1>1 DEF Inv, ReportsInv
  <2> QED  BY <2>2, <2>3, AtBmf DEF RunsOf
<1> QED  BY <1>1, Invariance, PTL

-----------------------------------------------------------------------------
LEMMA SmallestNumber ==
  ASSUME NEW S \in SUBSET Nat, S # {}
  PROVE  \E n \in S : \A m \in S : n <= m
<1>1. \E n \in S : \A m \in S : <<m, n>> \notin OpToRel(<, Nat)
  BY WFMin, NatLessThanWellFounded
<1>2. OpToRel(<, Nat) = {pair \in Nat \X Nat : pair[1] < pair[2]}
  BY Zenon DEF OpToRel
<1>3. PICK less : less = OpToRel(<, Nat)
  OBVIOUS
<1>4. PICK n \in S : \A m \in S : <<m, n>> \notin less
  BY <1>1, <1>3
<1>5. \A m \in S : m \in Nat /\ n \in Nat /\ ~(m < n)
  BY <1>2, <1>3, <1>4
<1> QED  BY <1>5

(* Of rows there is a first one.                                           *)
LEMMA FirstRow ==
  ASSUME TypeOK, NEW rows \in SUBSET DOMAIN scenarioDiffs, rows # {}
  PROVE  \E i \in rows : \A j \in rows : Precedes(i, j)
<1>1. \A i \in rows : scenarioDiffs[i] \in TableRow
  BY LenProperties, ElementOfSeq DEF TypeOK
<1>2. \A i \in rows : scenarioDiffs[i].id \in Nat /\ Place(scenarioDiffs[i].kind) \in Nat
  BY <1>1, KindFacts DEF TableRow
<1>3. PICK n \in {scenarioDiffs[i].id : i \in rows} : \A i \in rows : n <= scenarioDiffs[i].id
  <2>1. PICK ids : ids = {scenarioDiffs[i].id : i \in rows}
    OBVIOUS
  <2>2. ids \in SUBSET Nat /\ ids # {}
    BY <1>2, <2>1
  <2>3. \E n \in ids : \A m \in ids : n <= m
    BY <2>2, SmallestNumber
  <2> QED  BY <2>1, <2>3
<1> DEFINE oldest == {i \in rows : scenarioDiffs[i].id = n}
<1>4. PICK p \in {Place(scenarioDiffs[i].kind) : i \in oldest} :
        \A i \in oldest : p <= Place(scenarioDiffs[i].kind)
  <2>1. PICK places : places = {Place(scenarioDiffs[i].kind) : i \in oldest}
    OBVIOUS
  <2>2. places \in SUBSET Nat /\ places # {}
    BY <1>2, <1>3, <2>1
  <2>3. \E p \in places : \A m \in places : p <= m
    BY <2>2, SmallestNumber
  <2> QED  BY <2>1, <2>3
<1>5. PICK i \in oldest : Place(scenarioDiffs[i].kind) = p
  BY <1>4
<1>6. \A j \in rows : n < scenarioDiffs[j].id \/ j \in oldest
  BY <1>2, <1>3
<1> QED  BY <1>4, <1>5, <1>6 DEF Precedes

(* A link from a comment never answers 404.                                *)
THEOREM LinksStayAlive == Spec => []LinksAreAlive
<1>1. ASSUME Inv PROVE LinksAreAlive
  <2>1. SUFFICES ASSUME NEW link \in links PROVE CachegrindDiff(link[1], link[2]) # {}
    BY DEF LinksAreAlive, StatusOf
  <2> DEFINE rows == Matches(link[1], link[2])
  <2>2. rows \in SUBSET DOMAIN scenarioDiffs
    BY DEF Matches
  <2>3. \A i \in DOMAIN scenarioDiffs : scenarioDiffs[i].id \in DOMAIN comparisonRuns
    BY <1>1 DEF Inv, TablesInv, TablesAreWhole, Whole
  <2>4. ASSUME NEW id \in DOMAIN comparisonRuns, comparisonRuns[id].commits = link[1]
        PROVE  \E i \in rows : scenarioDiffs[i].id = id /\ scenarioDiffs[i].kind = "icount"
    <3>1. <<"icount", link[2]>> \in comparisonRuns[id].results
      BY <1>1, <2>4 DEF Inv, TablesInv, LinksInv
    <3>2. <<"icount", link[2]>> \in RowsOf(scenarioDiffs, DOMAIN scenarioDiffs, id)
      BY <1>1, <3>1 DEF Inv, TablesInv, TablesAreWhole, Whole
    <3>3. PICK i \in DOMAIN scenarioDiffs :
            /\ scenarioDiffs[i].id = id
            /\ <<"icount", link[2]>> = <<scenarioDiffs[i].kind, scenarioDiffs[i].scenario>>
      BY <3>2 DEF RowsOf
    <3> QED  BY <2>4, <3>3 DEF Matches
  <2>5. rows # {}
    <3>1. \E id \in DOMAIN comparisonRuns : comparisonRuns[id].commits = link[1]
      BY <1>1 DEF Inv, LinksInv
    <3> QED  BY <2>4, <3>1, Zenon
  <2>6. PICK f \in rows : f = Found(rows) /\ \A j \in rows : Precedes(f, j)
    <3>1. \E i \in rows : \A j \in rows : Precedes(i, j)
      BY <1>1, <2>2, <2>5, FirstRow DEF Inv
    <3> HIDE DEF rows
    <3> QED  BY <3>1 DEF Found
  <2>7. PICK id : id = scenarioDiffs[f].id
    OBVIOUS
  <2>8. id \in DOMAIN comparisonRuns /\ comparisonRuns[id].commits = link[1]
    BY <2>3, <2>6, <2>7, Zenon DEF Matches
  <2>9. PICK j \in rows : scenarioDiffs[j].id = id /\ scenarioDiffs[j].kind = "icount"
    BY <2>4, <2>8
  <2>10. scenarioDiffs[f] \in TableRow
    <3>1. scenarioDiffs \in Seq(TableRow)
      BY <1>1 DEF Inv, TypeOK
    <3> QED  BY <2>2, <2>6, <3>1, LenProperties, ElementOfSeq
  <2>11. scenarioDiffs[f].kind = "icount"
    <3>1. Place(scenarioDiffs[f].kind) <= 1
      BY <2>6, <2>7, <2>9, <2>10, KindFacts DEF Precedes, TableRow
    <3> QED  BY <2>10, <3>1, KindFacts DEF TableRow
  <2> QED  BY <2>6, <2>11 DEF CachegrindDiff
<1> QED  BY <1>1, Invariance, PTL
=============================================================================
