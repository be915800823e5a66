---------------------------- MODULE ResultStore ----------------------------
(***************************************************************************)
(* What the jobs keep in the database and tell Bencher.dev: the results of *)
(* main's commits (bench_main in job/bench_main.rs, store_run_results and  *)
(* result_history in db.rs, track_results in bencher_dev.rs), from which   *)
(* later pull requests take their significance thresholds, and the         *)
(* comparisons of pull requests (store_comparison_result), whose cachegrind*)
(* diffs a comment links to (get_cachegrind_diff in lib.rs).               *)
(*                                                                         *)
(* The queue (module EventQueue) hands out one event at a time, and a      *)
(* second time if the first attempt died.  A transaction's INSERTs are     *)
(* steps of their own; it holds the only connection, so nobody reads the   *)
(* tables before it ends.                                                  *)
(*                                                                         *)
(* External: SQLite, which undoes an unfinished transaction when the       *)
(* server dies and scans tables in the order of insertion; Bencher.dev.    *)
(***************************************************************************)
EXTENDS Integers, Sequences, FiniteSets, Functions

CONSTANTS
  Queue,         \* the events, each with an id of its own, in order of arrival
  KindOf,        \* KindOf[e]: what e is
  CommitsOf,     \* CommitsOf[e]: baseline and candidate of a pull request
  Scenarios,
  Unnamed,       \* scenarios whose name Bencher.dev does not accept
  Measurements,  \* the sets of <<kind, scenario>> a push may be measured in
  ComparedIn,    \* ComparedIn[commits]: those in the results of both commits
  Window,        \* days a result counts for thresholds
  LastDay,       \* bound on the clock
  MaxFaults      \* bound on crashes and failed calls

Kinds == <<"icount", "walltime", "memory">>
Results == SUBSET (Range(Kinds) \X Scenarios)
Events == Range(Queue)

ASSUME ResultStoreAssumption ==
  /\ Queue \in Seq(Events) /\ IsInjective(Queue)
  /\ KindOf \in [Events -> {"main", "branch", "deletion", "pull"}]
  /\ Unnamed \subseteq Scenarios
  /\ Measurements \subseteq Results
  /\ \A e \in Events :
       KindOf[e] = "pull" =>
         /\ CommitsOf[e] \in DOMAIN ComparedIn
         /\ ComparedIn[CommitsOf[e]] \in Results
  /\ Window \in Nat \ {0} /\ LastDay \in Nat /\ MaxFaults \in Nat

VARIABLES
  clock,       \* days
  next,        \* index of the event at hand, or next
  attempt,     \* 0 before the first
  outcome,     \* outcome[e]: how e's job ended
  pc,
  measured,    \* the results the job has read
  history,     \* the rows of benchResults result_history gave the job, and when
  transaction, \* when it began, what it has inserted, and has yet to
  benchRuns, benchResults,        \* tables, in order of insertion
  comparisonRuns, scenarioDiffs,
  reports,     \* the reports Bencher.dev has
  links,       \* the cachegrind diffs comments link to
  faults

job == <<next, attempt, outcome, measured, history>>
tables == <<benchRuns, benchResults, comparisonRuns, scenarioDiffs>>
vars == <<clock, job, pc, transaction, tables, reports, links, faults>>

NoTransaction == [began |-> 0, rows |-> << >>, left |-> {}]
NoHistory == [read |-> FALSE, rows |-> {}, day |-> 0]

Event == Queue[next]
IsPull == KindOf[Event] = "pull"

Init ==
  /\ clock = 0
  /\ next = 1 /\ attempt = 0
  /\ outcome = [e \in Events |-> "none"]
  /\ pc = "idle"
  /\ measured = {}
  /\ history = NoHistory
  /\ transaction = NoTransaction
  /\ benchRuns = << >> /\ benchResults = << >>
  /\ comparisonRuns = << >> /\ scenarioDiffs = << >>
  /\ reports = {} /\ links = {}
  /\ faults = 0

-----------------------------------------------------------------------------
Goto(from, to) == pc = from /\ pc' = to

Fault == faults < MaxFaults /\ faults' = faults + 1

(* The handler returns, and the next event is up.                          *)
Return(result) ==
  /\ pc' = "idle"
  /\ next' = next + 1 /\ attempt' = 0
  /\ outcome' = [outcome EXCEPT ![Event] = result]
  /\ measured' = {} /\ history' = NoHistory

(* The handler dies, and is called again.                                  *)
TryAgain ==
  /\ pc' = "idle"
  /\ measured' = {} /\ history' = NoHistory
  /\ UNCHANGED <<next, attempt, outcome>>

(* The id of the run or comparison at hand: its place in the table.        *)
Id == 1 + IF IsPull THEN Len(comparisonRuns) ELSE Len(benchRuns)

(* The results are inserted kind by kind.                                  *)
Place(kind) == CHOOSE i \in DOMAIN Kinds : Kinds[i] = kind

NextRows ==
  {row \in transaction.left :
    \A other \in transaction.left : Place(row[1]) <= Place(other[1])}

Row(result) == [id |-> Id, kind |-> result[1], scenario |-> result[2]]

ResultsToBmfUnfiltered(results, kind, measure) ==
  [s \in {x \in Scenarios : <<kind, x>> \in results} |-> {measure}]

(* Bencher Metric Format: benchmark -> measures.                           *)
ResultsToBmf(results, kind, measure) ==
  [s \in {x \in Scenarios \ Unnamed : <<kind, x>> \in results} |-> {measure}]

(* The order in which SQLite finds scenario diffs by commits: it goes      *)
(* through the comparisons from the oldest, and through each by kind.      *)
Precedes(i, j) ==
  LET this == scenarioDiffs[i]
      that == scenarioDiffs[j]
  IN this.id < that.id \/ (this.id = that.id /\ Place(this.kind) <= Place(that.kind))

-----------------------------------------------------------------------------
(* Seeded faults: plausible bugs of the code, none of them part of the     *)
(* model.                                                                  *)

CreatedBefore(n, day) == benchRuns[n].created <= day - Window

InsertAutocommitted ==
  /\ pc = "insert" /\ ~IsPull
  /\ \E result \in NextRows :
       /\ transaction' = [transaction EXCEPT !.left = @ \ {result}]
       /\ benchResults' = Append(benchResults, Row(result))
  /\ UNCHANGED <<clock, job, pc, benchRuns, comparisonRuns, scenarioDiffs,
                 reports, links, faults>>

FailToStoreIgnored ==
  /\ pc = "insert"
  /\ Fault
  /\ transaction' = NoTransaction
  /\ Return("ok")
  /\ UNCHANGED <<clock, tables, reports, links>>

MergeOverwriting(target, src) ==
  [s \in DOMAIN target \cup DOMAIN src |-> IF s \in DOMAIN src THEN src[s] ELSE target[s]]

FoundLast(rows) == CHOOSE i \in rows : \A j \in rows : Precedes(j, i)

-----------------------------------------------------------------------------
(* A push is only benchmarked on main, and not if it deletes the branch.   *)
Begin ==
  /\ pc = "idle" /\ next <= Len(Queue)
  /\ IF KindOf[Event] \in {"branch", "deletion"} THEN Return("ok")
     ELSE /\ pc' = IF IsPull THEN "history" ELSE "bench"
          /\ attempt' = attempt + 1
          /\ UNCHANGED <<next, outcome, measured, history>>
  /\ UNCHANGED <<clock, transaction, tables, reports, links, faults>>

(* The inner SELECT of result_history.                                     *)
CreatedSince(n, day) == benchRuns[n].created > day - Window

(* result_history: the join scans bench_results.  Its failure ends in a    *)
(* comment.                                                                *)
ReadHistory ==
  /\ pc = "history"
  /\ \/ /\ history' = [read |-> TRUE, day |-> clock,
                        rows |-> {i \in DOMAIN benchResults :
                                   CreatedSince(benchResults[i].id, clock)}]
        /\ pc' = "bench"
        /\ UNCHANGED <<next, attempt, outcome, measured, faults>>
     \/ Fault /\ Return("ok")
  /\ UNCHANGED <<clock, transaction, tables, reports, links>>

(* The benchmarks run, their results are read, and a transaction begins;   *)
(* or they fail, which a pull request gets to read in its comment.         *)
Bench ==
  /\ pc = "bench"
  /\ \/ /\ pc' = "insert"
        /\ measured' \in IF IsPull THEN {ComparedIn[CommitsOf[Event]]} ELSE Measurements
        /\ transaction' = [began |-> clock, rows |-> << >>, left |-> measured']
        /\ UNCHANGED <<next, attempt, outcome, history, faults>>
     \/ Fault /\ Return(IF IsPull THEN "ok" ELSE "err") /\ UNCHANGED transaction
  /\ UNCHANGED <<clock, tables, reports, links>>

Insert ==
  /\ pc = "insert"
  /\ \E result \in NextRows :
       transaction' = [transaction EXCEPT !.left = @ \ {result}, !.rows = Append(@, Row(result))]
  /\ UNCHANGED <<clock, job, pc, tables, reports, links, faults>>

(* COMMIT of store_run_results ...                                         *)
StoreRunResults ==
  /\ Goto("insert", "track") /\ ~IsPull /\ transaction.left = {}
  /\ benchRuns' = Append(benchRuns,
                         [push |-> Event, created |-> transaction.began, results |-> measured])
  /\ benchResults' = benchResults \o transaction.rows
  /\ transaction' = NoTransaction
  /\ UNCHANGED <<clock, job, comparisonRuns, scenarioDiffs, reports, links, faults>>

(* ... and of store_comparison_result.                                     *)
StoreComparisonResult ==
  /\ Goto("insert", "comment") /\ IsPull /\ transaction.left = {}
  /\ comparisonRuns' = Append(comparisonRuns, [commits |-> CommitsOf[Event], results |-> measured])
  /\ scenarioDiffs' = scenarioDiffs \o transaction.rows
  /\ transaction' = NoTransaction
  /\ UNCHANGED <<clock, job, benchRuns, benchResults, reports, links, faults>>

(* The transaction fails and is rolled back: the job's error, or that of   *)
(* the comment.                                                            *)
FailToStore ==
  /\ pc = "insert"
  /\ Fault
  /\ transaction' = NoTransaction
  /\ Return(IF IsPull THEN "ok" ELSE "err")
  /\ UNCHANGED <<clock, tables, reports, links>>

Merge(target, src) ==
  [s \in DOMAIN target \cup DOMAIN src |->
    UNION {map[s] : map \in {m \in {target, src} : s \in DOMAIN m}}]

Bmf(results) ==
  LET Memory(measure) == ResultsToBmf(results, "memory", measure)
      times == Merge(ResultsToBmf(results, "icount", "instructions"),
                     ResultsToBmf(results, "walltime", "latency"))
      peaks == Merge(Merge(times, Memory("heap-peak-blocks")), Memory("heap-peak-bytes"))
  IN Merge(Merge(peaks, Memory("heap-total-blocks")), Memory("heap-total-bytes"))

(* The report to Bencher.dev; a failure is only logged.                    *)
TrackResults ==
  /\ pc = "track"
  /\ \/ /\ reports' = reports \cup {[push |-> Event, results |-> measured, bmf |-> Bmf(measured)]}
        /\ UNCHANGED faults
     \/ Fault /\ UNCHANGED reports
  /\ Return("ok")
  /\ UNCHANGED <<clock, transaction, tables, links>>

(* The comment links to the diff of every icount scenario it compares.     *)
PostComment ==
  /\ pc = "comment"
  /\ links' = links \cup {<<CommitsOf[Event], r[2]>> : r \in {x \in measured : x[1] = "icount"}}
  /\ Return("ok")
  /\ UNCHANGED <<clock, transaction, tables, reports, faults>>

(* The server dies, and the transaction with it.                           *)
Crash ==
  /\ pc # "idle"
  /\ Fault
  /\ transaction' = NoTransaction
  /\ IF attempt = 2 THEN Return("crashed") ELSE TryAgain
  /\ UNCHANGED <<clock, tables, reports, links>>

Tick ==
  /\ clock < LastDay
  /\ clock' = clock + 1
  /\ UNCHANGED <<job, pc, transaction, tables, reports, links, faults>>

Done == pc = "idle" /\ next > Len(Queue) /\ UNCHANGED vars

Next ==
  \/ Begin \/ ReadHistory \/ Bench \/ Insert
  \/ StoreRunResults \/ StoreComparisonResult \/ FailToStore
  \/ TrackResults \/ PostComment
  \/ Crash \/ Tick \/ Done

Spec == Init /\ [][Next]_vars

(* cachegrind_diff takes the first of the rows SQLite finds.               *)
Found(rows) == CHOOSE i \in rows : \A j \in rows : Precedes(i, j)

Matches(commits, scenario) ==
  {i \in DOMAIN scenarioDiffs :
    /\ scenarioDiffs[i].scenario = scenario
    /\ comparisonRuns[scenarioDiffs[i].id].commits = commits}

(* The comparison the diff is from, or none: only icount rows have one.    *)
CachegrindDiff(commits, scenario) ==
  {scenarioDiffs[i].id :
    i \in {j \in Matches(commits, scenario) :
            j = Found(Matches(commits, scenario)) /\ scenarioDiffs[j].kind = "icount"}}

(* get_cachegrind_diff                                                     *)
StatusOf(link) == IF CachegrindDiff(link[1], link[2]) = {} THEN 404 ELSE 200

-----------------------------------------------------------------------------
(* Every variable holds a value of its type; Bencher.dev is only told of   *)
(* scenarios it accepts.                                                   *)
TableRow == [id : Nat \ {0}, kind : Range(Kinds), scenario : Scenarios]

TypeOK ==
  /\ clock \in 0 .. LastDay
  /\ next \in 1 .. Len(Queue) + 1 /\ attempt \in 0 .. 2
  /\ outcome \in [Events -> {"none", "ok", "err", "crashed"}]
  /\ pc \in {"idle", "history", "bench", "insert", "track", "comment"}
  /\ measured \in Results
  /\ history \in [read : BOOLEAN, rows : SUBSET DOMAIN benchResults, day : 0 .. LastDay]
  /\ transaction \in [began : 0 .. LastDay, rows : Seq(TableRow), left : SUBSET measured]
  /\ benchRuns \in Seq([push : Events, created : 0 .. LastDay, results : Results])
  /\ comparisonRuns \in Seq([commits : DOMAIN ComparedIn, results : Results])
  /\ benchResults \in Seq(TableRow) /\ scenarioDiffs \in Seq(TableRow)
  /\ \A r \in reports : /\ r.push \in Events /\ r.results \in Results
                        /\ DOMAIN r.bmf \subseteq Scenarios \ Unnamed
  /\ links \subseteq (DOMAIN ComparedIn) \X Scenarios
  /\ faults \in 0 .. MaxFaults

(* What the rows of a table at some places say of a run.                   *)
RowsOf(table, places, id) ==
  {<<table[i].kind, table[i].scenario>> : i \in {j \in places : table[j].id = id}}

Whole(heads, rows) ==
  /\ \A id \in DOMAIN heads : RowsOf(rows, DOMAIN rows, id) = heads[id].results
  /\ \A i \in DOMAIN rows : rows[i].id \in DOMAIN heads

(* Whatever fails or dies halfway, the tables hold the runs and the        *)
(* comparisons whole, and nothing of any other.                            *)
TablesAreWhole == Whole(benchRuns, benchResults) /\ Whole(comparisonRuns, scenarioDiffs)

(* The thresholds of a pull request are computed from all the runs of the  *)
(* last Window days, whole, however attempts have failed or been repeated. *)
(* They come in the order in which they were made, given that SQLite goes  *)
(* through bench_results in the order of insertion (see ReadHistory).      *)
HistoryIsRecent ==
  history.read =>
    /\ \A i, j \in history.rows : i < j => benchResults[i].id <= benchResults[j].id
    /\ \A id \in DOMAIN benchRuns :
         RowsOf(benchResults, history.rows, id) =
           IF history.day - benchRuns[id].created < Window THEN benchRuns[id].results ELSE {}

(* A job of a push to main only succeeds if the results are stored.  They  *)
(* are stored once, or twice if the first attempt died after storing them, *)
(* and then count twice in the thresholds.                                 *)
PushIsStored ==
  \A e \in Events :
    LET runs == Cardinality({id \in DOMAIN benchRuns : benchRuns[id].push = e})
    IN /\ KindOf[e] = "main" /\ outcome[e] = "ok" => runs >= 1
       /\ runs <= IF faults = 0 THEN 1 ELSE 2

MeasuresOf(kind) ==
  IF kind = "icount" THEN {"instructions"}
  ELSE IF kind = "walltime" THEN {"latency"}
  ELSE {"heap-peak-blocks", "heap-peak-bytes", "heap-total-blocks", "heap-total-bytes"}

(* Bencher.dev gets every measure of every scenario it accepts, and only   *)
(* of results the database has.                                            *)
BencherAgrees ==
  \A r \in reports :
    /\ \A s \in Scenarios \ Unnamed :
         (IF s \in DOMAIN r.bmf THEN r.bmf[s] ELSE {}) =
           UNION {MeasuresOf(x[1]) : x \in {y \in r.results : y[2] = s}}
    /\ \E id \in DOMAIN benchRuns :
         benchRuns[id].push = r.push /\ benchRuns[id].results = r.results

(* A link from a comment never answers 404, however often the commits have *)
(* been compared.                                                          *)
LinksAreAlive == \A link \in links : StatusOf(link) = 200
=============================================================================
