# Verification of ci-bench-runner

`ci-bench-runner` is the server behind the rustls benchmarks: it receives webhooks from GitHub,
queues them in a SQLite database, handles them one at a time in a background task, and reports the
outcome of a benchmark as a comment and a commit status. This directory holds TLA+ models of it, the
TLC configurations that check them, and TLAPS proofs. Source paths below are relative to
`ci-bench-runner/src/`.

## Inventory

| Component | State it keeps | Operations | Hard behaviour | What makes it correct |
|---|---|---|---|---|
| Event queue (`event_queue.rs`, `db.rs`) | tables `event_queue` and `jobs`; a channel of wakeup tokens; the active job id | `enqueue`; the background task's count, receive, wait, fetch, discard, forget, claim, handle, finish, delete; the supervisor's restart; `job_view`, `active_job_id` | webhooks, task, supervisor and watcher interleave; crashes between any two database operations; tokens lost with the process, duplicated by a restart of the task | nothing stored is lost or tried more than twice; order of arrival; every row is covered by a token; the reported status is true; everything is handled eventually |
| Pause toggle (`event_queue.rs`) | a watch channel | check at startup, watch, callback | the watcher's own thread; changes between check and watch | processing is paused just while the file is there |
| Pull request job (`job/bench_pr.rs`, `github.rs`, `db.rs`) | GitHub's commit statuses and comments, tables `result_comments` and `comparison_runs` | `bench_pr`, `try_update_comment`, `store_result_comment_id`, `update_commit_status` | each call may fail, or succeed with its answer lost; the server may die between two calls; a second attempt follows | the comment the database knows shows the last report; status success comes after a report; what a comment links to is stored |
| Local bench runner (`runner.rs`) | child processes, pipes, two reader threads, logs, result files | `checkout_and_run_benchmarks`, `run_command` | full pipes, helpers that outlive the child, the deadline racing the exit | logs are whole; a command that timed out leaves nothing behind; waiting ends |
| Triggers (`job/bench_pr.rs`, `job/bench_main.rs`) | none | `handle_issue_comment`, `handle_pr_review`, `handle_pr_update`, `bench_main` | a payload that is stale when its turn comes | only the documented events start a run, on the commit they name, and no one but a maintainer makes one start otherwise |
| Main branch job and result store (`job/bench_main.rs`, `db.rs`, `lib.rs`) | tables `bench_runs`, `bench_results`, `comparison_runs`, `scenario_diffs` | `bench_main`, `store_run_results`, `result_history`, `store_comparison_result`, `cachegrind_diff` and its route | crashes within and after a transaction, repeated comparisons of the same commits, order of joined rows, the cutoff by date | tables hold runs whole; the history is whole, recent and in order; links stay alive |
| Significance thresholds (`job/bench_pr.rs`) | none | `calculate_significance_thresholds`, `compare_results`, `split_on_threshold` | short histories, zeros, NaN; scenarios that only one branch has | what is called significant exceeds what is usual; nothing is left out |
| GitHub client cache (`github.rs`) | a client with a token that expires | `refresh_token_in_background`, `cached` | retries, a client held across a long benchmark | the client that is used has not expired |
| HTTP server (`lib.rs`, `main.rs`, `github.rs`) | none of its own | routes, signature check | requests dropped when a client hangs up | a stored event is acknowledged |
| Bencher.dev client (`bencher_dev.rs`) | none | `track_results` | fails after the results were stored | it is told what the database has, every measure of it |
| Result file readers (`job/mod.rs`), comment templates and truncation (`github.rs`) | none | `read_*_results`, `markdown_comment`, `maybe_truncate_comment` | files that are absent, malformed or incomplete; cutting inside a character | a comment says what ran and what came of it |
| Build script, deployment | none | | configuration | |

How they interact: the webhook handler calls `EventQueue::enqueue`, which writes to the database and
sends a token. The background task, spawned and respawned by the supervisor, receives tokens, asks the
toggle, reads and writes the database, and calls one of the four handlers; `bench_pr` calls GitHub
through the client cache and runs commands on a blocking thread. Requests for `/info` and `/jobs/<id>`
read the toggle, the active job id and the database. The runtime is single-threaded (`main.rs:37-41`)
and the database has one connection behind a mutex; the watcher's callback, the blocking thread and
the reader threads are the only other threads.

## Modules

| Module | Models |
|---|---|
| `EventLedger` | what whoever delivers an event is promised: the life of an event, with at most two attempts |
| `EventQueue` | the queue, shown to implement `EventLedger` |
| `EventQueueProofs` | theorems about `EventQueue` |
| `PauseToggle` | `ProcessEventsToggler` |
| `PauseToggleProofs` | theorems about `PauseToggle` |
| `BenchPr`, `MCBenchPr` | `bench_pr` over GitHub and the database; its instance |
| `BenchPrProofs` | theorems about `BenchPr` |
| `Significance` | the arithmetic of significance thresholds, over exact fractions |
| `Report`, `MCReport` | from the history and two runs of the benchmarks to the text of a comment; its instances |
| `ReportProofs` | theorems about `Report` |
| `ResultStore`, `MCResultStore` | what jobs keep in the database and tell Bencher.dev, and what is looked up later; its instance |
| `ResultStoreProofs` | theorems about `ResultStore` |
| `TokenCache` | `CachedOctocrab`, against the clock |
| `TokenCacheProofs` | theorems about `TokenCache` |
| `Triggers` | the handlers of pull request events up to the call of `bench_pr` |
| `TriggersProofs` | theorems about `Triggers` |
| `RunCommand` | `LocalBenchRunner` |
| `RunCommandProofs` | theorems about `RunCommand` |

### EventQueue

Rows: `queue` is the set of events with a row, `created` and `job_id` are columns of those rows,
`jobs` is the table of jobs in the order of creation. Memory: `tokens` counts the messages in the
channel (they carry no data), `active_job_id`, `enabled` is the value in the toggle's watch channel.
The task: `pc` is the next operation of `process_queued_events_in_background`, `event`, `job` and
`success` are its locals. `delivery` and `now` are the outside world, `disturbances` bounds it, and
`lateStarts` is a history variable that counts jobs started in a pause.

Granularity: code between two awaits is one step, because one thread runs all tasks. A database
operation and the synchronous code after it are one step, because nobody else gets the connection
before that code has run. The exception matters: `enqueue` awaits the INSERT, and hyper drops the
handler at that await if the client hangs up. The connection's own thread completes the INSERT all the
same; this is `EnqueueCancelled`. `wait_for_processing_enabled` is two steps (`PassGate`,
`RecheckGate`), because the watcher's thread is not the runtime's and may store a value between the
two reads.

`pc = "starting"` is a server that has just started: the task has been spawned before the listener
accepts requests, and is ahead of every webhook in the queue of the connection's mutex, so `Deliver`
waits. `pc = "backoff"` is a task that is restarted by its supervisor, where webhooks do interleave.
`DbFails` stands for an error of any database operation of the task, `HandlerPanics` for a panic while
an event is handled, `Restart` for the death of the process at any moment. An operation that errs has
no effect; what a crash in the middle of one leaves is what SQLite's atomicity leaves, the state before
or after.

Left out: payloads, the text of timestamps (numbers are compared), the job's own timestamps, and what
the handlers do (`HandlerReturns` allows both results).

`Resting` (and `Done`, `Returned` in the other modules) is a stuttering step of the states in which the
system has nothing left to do; any other state without a successor is reported as a deadlock.

### EventLedger

An event is new, queued, in its first or second attempt, interrupted, or gone. The mapping `PhaseOf`
reads the phase off the row, its `job_id` and the task's place. An interrupted event may be given up
without a second attempt: if the task dies between deleting the row (`event_queue.rs:175`) and creating
the second job (178), nothing is left of it. That is what the code does, on purpose ("to avoid an
infinite crash loop"), so the ledger promises one attempt and allows two.

### PauseToggle

`exists` is the file, `inbox` the notifications the watcher's thread has not handled yet, `enabled` the
value in the watch channel. The operator's actions and the kernel's notifications are external; a
rename reaches the callback as a modification of the name, which it ignores. `informed` is a history
variable: false from the moment the file comes or goes in a way the server is not told of.

### BenchPr

An attempt goes through the awaits of `bench_pr`; `runs` is the history of attempts, `comments` holds
for each comment the attempt whose report it shows. A call is answered, or refused, or carried out with
its answer lost. `Crash` ends an attempt; the event gets a second one (that this is what the queue does
is `AtMostTwoAttempts` and `LedgerSpec` of `EventQueue`). Benchmarking and comparing is one step with
two outcomes; `Report` takes it apart. Other ends of an attempt that change nothing on GitHub are not
modelled.

### Significance and Report

A floating-point number is a fraction `<<n, d>>`, infinite or NaN when `d` is 0; the operators agree with
IEEE 754 but for rounding. `SignificanceThresholds` gives the set of thresholds the code may come to: one,
unless a change is NaN, which compares as equal to everything and leaves the sort's outcome open. (The
sort may also panic on such a slice of more than 20 elements; `TaskCrashes` does not cover it, as it
happens before the task. The handler then dies as in `BenchPr`'s `Crash`.)

`Report` is one attempt: `pc` walks through `bench_pr_and_cache_results`, `compare_refs` and
`markdown_comment`; `taskLogs` are the logs inside the blocking task, which are lost if it panics, `logs`
those the handler has got. Of each branch it matters whether no, some or all of its commands are logged:
a command that is late or cannot be started leaves no log (`RunCommand`'s `GiveUp` and `SpawnFails`), so
a branch that fails may have logged anything, and only one that succeeds has surely logged it all. A
result file is its presence and, for each scenario, a row of numbers; a row of the wrong shape stands for
every parse error. Every step that returns a `Result` may fail, and the error goes the way it goes in the
code, which is why `Err` empties the comparison: the comment of a failed run shows no results. A text is
its length and the character boundaries in it, which is what `String::truncate` looks at. Left out: the
sorting inside a table, the values of the diffs `callgrind_annotate` prints, duplicate rows in a result
file, wording and layout.

### ResultStore

The four tables are sequences in the order of insertion, which is the order in which SQLite scans them.
A transaction's INSERTs are steps between which the server may die or a statement may fail; COMMIT makes
them visible (`StoreRunResults`, `StoreComparisonResult`). `transaction.began` is the day of the
`created_utc` that the run gets. The queue is a fixed sequence of pushes and pull request jobs, each
tried twice at most. The rows a query returns are the set of their places in the table. `HistoryIsRecent`
is about the rows as the join returns them; that they are in order although the code's ORDER BY is in the
subquery is due to SQLite scanning `bench_results` first, which is assumed in `ReadHistory` and external
to the code. `Found` takes the first row of the lookup by commits and scenario, as `cachegrind_diff`
does; `Precedes` is the order of SQLite's two indexes, oldest comparison first, then by kind. A report to
Bencher.dev is a function from scenarios to sets of measures, put together by `Merge` as in the code.

### TokenCache

`age` is the age of the token of the cached client, `held` that of the clone a job took `jobAge` ago. The
background task sleeps (`due` is what is left) or asks GitHub; a `Tick` cannot pass a deadline that is
due. The constants are the code's times in half minutes: tokens live for 60 minutes, are refreshed after
30, or 5 after a failure. `MaxAnswer` is an assumption: the refresh has no timeout.

A job may take any time, up to the bound `MaxJob`. The code limits most of the commands in a job (for two
branches `runner.rs:279-281` adds up to 27 minutes and 20 seconds), but not the job: commands are polled
every second (`runner.rs:215`), the reader threads are joined and `callgrind_annotate` is run twice for
each icount scenario (`job/bench_pr.rs:692-716`) without a deadline, and there are the calls to GitHub
and the database. So `HeldIsValid` says how long a job may take to have a valid token, and does not claim
that jobs keep to it.

### Triggers

`head` numbers the pull request's head commit, `queue` is the bag of events GitHub has sent and nobody
has handled, `runs` the calls of `bench_pr` with the event and the candidate commit. A bag and not a
sequence: webhooks are separate requests that may overtake each other, so the queue's order of arrival
(`JobsFollowArrival`) says nothing of the order in which things happened. Payloads are reduced to what
the handlers look at. A comment's `commit` is no field of its payload: it is the head at the time of
writing, for `DemandIsCurrent`. The `asker` of an event is no field either: it is the author, or, for an
answer of the application, whoever asked what it answers. `fork` is chosen in the initial state. A
handler that dies is `EventQueue`'s and
`BenchPr`'s affair.

The check for "ourselves" (`job/bench_pr.rs:70`) compares the id of the comment's user with
`github_app_id`, the id of the GitHub App (`lib.rs:61`, `github.rs:104`), which numbers something else.
It is modelled as what it is: `TakenForApp` are those whose user id happens to be that number, nobody in
the run. `Associated` holds the application itself there, the worst case: its answer to an unknown
command, which quotes the known one, then starts a run. What is left to promise is `RunsAreRequested`,
that such a run goes back to a maintainer too. `handle_issue_comment` does not look at the repository
of a comment either (84), so comments come from elsewhere as reviews and updates do, and are heard; a
maintainer is one whose association with the repository of the comment is an allowed one.

### RunCommand

`Count` commands run one after the other; for each there is a child and at most one helper, which may
be *attached* (in the child's group, holding its pipes), *silent* (in the group, output redirected) or
*detached* (out of the group, holding the pipes). Pipes are counters of what was written and drained;
`MaxOutput` bounds what a command writes to both together.
A process decides to write (`StartWrite`), then waits until there is room (`FinishWrite`). The poll and
the look at the clock are two steps, so the child may exit in between and still be reported as late.
Left out: the bytes, formatting, the error of `try_wait` on a child that is ours, and a helper's own
children.

A command that ends in time leaves a silent helper running: its group is not killed. `NoSurvivors` is
therefore about commands that timed out.

## Runs

| Run | Instance | Shows |
|---|---|---|
| `EventQueue_safety` | three events, two of them rows of an earlier life, one of an unknown kind; 2 disturbances; clients may hang up | all safety properties of the queue, `FailureIsFinal`, and that it implements `EventLedger` |
| `EventQueue_progress` | three events, one refused, one a row of an earlier life; 2 disturbances | `EventuallyHandled`, `PendingEnds`, `Quiesces` under fairness |
| `PauseToggle_watch` | at most 6 queued notifications | `HealsWithNextChange`, `FollowsFile` |
| `BenchPr_faults` | three events on a pull request, two commits, 2 faults | what comments and statuses show; without faults every status settles |
| `Triggers_runs` | one push, 2 other events, a branch or a fork | each head of a branch is benchmarked, a review's commit, a demand's head or a later one; a fork's only on account of a maintainer, though the application's answers count as comments |
| `RunCommand_runs` | two commands, every kind of helper, a pipe that holds 1 of at most 2 writes, under fairness | logs and the walltimes file, survivors, `WritesComplete`, `DeadlineEndsWait` |
| `Report_comments` | two scenarios, one without a history; histories that are jumpy, steady, too short or begin with zeros; result files that are absent, malformed or incomplete | what a comment says of a comparison or of its failure |
| `ResultStore_jobs` | two pushes to main, one to another branch, two jobs on the same commits, three days, 2 faults | tables, history, Bencher.dev and links |
| `TokenCache_clock` | the code's times in half minutes, 4 failures in a row, jobs of up to 35 minutes | the cached client is valid, and a job's for 28 minutes; the token is replaced forever |
| `EventQueue_hangup`, `PauseToggle_race`, `Report_truncation` | small | the findings below |

Why the bounds are enough. Two disturbances allow a failure during the recovery from another one (a crash
of the second attempt needs no more: panics of handlers are not counted). Three events give a row to
fetch while another is in the task and a third arrives. In `BenchPr`, two faults allow an answer lost and
a crash in the second attempt; three events give a later run on the same commit and one on another. In
`Triggers`, two events and an answer overtake the opening and a push in every way; what a handler does
depends on one event and the head only. A pipe of capacity 1 with two writes is full while one write
waits. Notifications interact only with the last one that matters; six are more than a creation, a
deletion and a touch in any order. `Report` is one attempt without loops: its inputs are the bound, and
they contain a row of every shape and a malformed file of every kind, a scenario of one branch only,
changes below, between and above the thresholds, and histories on both sides of ten results, one of them
the repository's own test case (`RepositoryTest` compares the threshold with the test's). In
`ResultStore` three days with a window of two put a run in, at the edge of and out of the window; two
jobs on the same commits make the repeated comparison; two faults crash an attempt after it has stored
and fail a statement of the next. In `TokenCache` nothing but time is abstracted, and jobs may take
longer than any token lives.

Type invariants that a theorem states are still checked where it costs nothing (`Triggers`, `RunCommand`,
`ResultStore`).

The mutants in `PROJECT.json` name, for each property, a bug of the code (an operator kept beside the
action it replaces, under "Seeded faults") that makes the run fail.

### Fairness

`FairSpec` of `EventQueue` is weak fairness of the task's and supervisor's steps together: tokio polls a
task that can make progress, timers fire, and a handler returns or panics. The last is an assumption
about the commands it runs: `DeadlineEndsWait` says when it is true, and `callgrind_annotate`
(`job/bench_pr.rs:696`) has no deadline. Nothing is assumed of clients, the operator or the database.
`EventuallyHandled` and `Quiesces` assume that processing is not paused for good. `PauseToggle`
assumes that startup proceeds and the watcher's thread handles what is queued; `BenchPr` that the
attempt goes on. In `RunCommand` the runner and the reader threads are scheduled, and a write completes
if there is room again and again; no program is assumed to exit and the deadline may never come. In
`TokenCache` time passes, sleeps end, GitHub answers again after a run of failures, and jobs end.

## Proofs

Everything below is proved for every value of the constants, from the assumptions named in the modules
(`EventsAssumption`: finitely many events, the known kinds and the backlog among them;
`TriggersAssumption`: among others, that GitHub does not count a stranger as associated with the
repository; `ResultStoreAssumption`: among others, that events have ids of their own and that comparing
the same commits gives the same scenarios; `SwitchesAssumption`, `ToggleAssumption` and the rest: types).

`EventQueueProofs`: `TypeCorrect`, `NoCrashLoop` (`AtMostTwoAttempts`), `NothingLost` (`NoEventLost`),
`Fifo` (`JobsFollowArrival`), `PauseHolds` (`OneLateStart`), `StatusIsTrue` (`StatusTellsTruth`) and
`FailureStays` (`FailureIsFinal`). The properties are not inductive. That an event is not tried a third
time depends on what its row says of the jobs it has had, so `Inv` adds
- `TaskInv`: what the locals and the active job are at each place of the task, in particular that the
  active job is unfinished only while the task is running it or has just died;
- `RowsInv`: a row without a job id belongs to an event without jobs, and a row with one to an event
  with exactly that job;
- `HeldInv`: what fetching found out about the held event is still true when the job is created (no
  webhook or supervisor step can invalidate it);
- `LateInv`: between the gate and the creation of the job no late start has been counted;
- `OrderInv`: every row is at least as young as the events of all jobs, and the held event is the
  oldest, as long as the clock is not set back.

`WakeupsCover` (`WakeupsCoverQueue`) counts: the rows without a wakeup are deliveries whose client hung
up, and each step that stores or deletes a row, sends or takes a token moves both sides of the inequality
alike (`StoreCounts`, `DeleteCounts`). `ImplementsLedger` (`LedgerSpec`) maps the queue's state to the
phase each event is in; `LedgerStep` shows that a step moves at most one event (`OnePhase`) and in a way
the ledger allows. The death of the task is the interesting case (`DropPhase`): it interrupts a first
attempt, ends a second one, and leaves the events that are not in hand where they were. `OnlyAllowed`,
that only events of known kinds get jobs, is needed besides `Inv`.

`PauseToggleProofs`: `ToggleTypeCorrect` and `Heals` (`HealsWithNextChange`), from the invariant that
the last notification in the queue that the callback acts on, or else the stored value, tells whether the
file exists.

`BenchPrProofs`: `TypeCorrect`, `ReportStaysFresh` (`ReportNeverStale`), `NoSuccessWithoutReport`
(`SuccessAfterReport`) and `PendingIsExplained` (`PendingHasCause`). That the registered comment is up to
date follows from `WorkInv`, which says what an attempt has achieved at each place (the last comment is
the attempt's own when it is registered, the registered one shows it when the status is posted), and
`RegisterInv`, that a pull request's row names a comment of its own; `PendingInv` extends
`PendingHasCause` to the middle of an attempt, where it leaves out the commit at hand. Most steps are
instances of one lemma, `OrdinaryStep`: they end no run well, register nothing and turn no status to
success, and comments only change to show the present run.

`ReportProofs`: `TypeCorrect`, `ScenariosAccounted` (`EveryScenarioAccounted`), `ThresholdsUsable`
(`ThresholdIsUsable`), `LogsKept` (`LogsAreKept`), `ShownStored` (`ShownIsStored`) and `Fits`
(`PostedFits`), for any scenarios, histories, result files and texts (`ReportAssumption`). `LogsInv` and
`StoredInv` say where the logs and the comparison are at each place, `CommentInv` what the comment shows
of them, and `DiffsInv` what has been compared so far. `HistoryHasItsSay` (`HistoryDecides`) holds for any
history of any length: `HistoryInv` says that thresholds come from the history that was read and
differences have the thresholds of their scenario; the rest is about fractions. `AtMostTransitive` and
`RankedIs` say that sorting has a result (at every place there is an element, found as the least of those
that enough others do not exceed), `RankedMonotonic` that the quartiles are in order, `FenceBounds` that
the fence is between the third quartile and four times that, and `ThresholdBounds` what this makes of the
threshold.

`TokenCacheProofs`: `TypeCorrect` and `ClientsValid` (`ClientsAreValid`), for all times: the bound on the
token's age grows with the failures, and that on the age of a job's token with the age of the job.

`RunCommandProofs`: `LogsAreComplete` (`LogsComplete`), `NothingSurvives` (`NoSurvivors`) and
`TypeCorrect` (`TypeOK`, with the bounds on pipes, buffers and output), for any
number of commands and kinds of helper, and pipes and output of any size (`RunAssumption`). `PipesInv` says
that a pipe whose reader has come to its end is empty and has no writer left, so that the log made of it
is final (`LogsInv`); `ChildInv`, that no child is alive but the one being waited for; `KilledInv`, what is
left of a group between the kill and the error. The bounds need that the dead do not write and that a
command not yet started has written nothing (`AliveInv`, `OutputInv`: what is written and what is being
written are within the bound together), and that a reader is never ahead of the writers (`FlowInv`).

`TriggersProofs`: `TypeCorrect`, `HeadsAreBenched` (`EveryHeadIsBenched`), `DemandStaysCurrent`
(`DemandIsCurrent`), `ReviewsAreExact` (`ReviewedCommitIsBenched`) and `StrangersStartNothing`
(`RunsAreRequested`), for any number of pushes and events, handled in any order. `PayloadsInv` says what
the events under way can name, and that the application writes for maintainers only; `HeadsInv` says that
a head of a branch is benchmarked or its update is on its way; with no event left that is
`EveryHeadIsBenched`. The lemmas on bags (`BagAdd` and the following) say what handling one copy of an
event leaves.

`ResultStoreProofs`: `TypeCorrect`, `TablesStayWhole` (`TablesAreWhole`), `HistoryStaysRecent`
(`HistoryIsRecent`), `PushesAreStored` (`PushIsStored`), `BencherIsTold` (`BencherAgrees`) and
`LinksStayAlive` (`LinksAreAlive`), for any queue, scenarios, results and number of faults. The tables
stay whole because a transaction's rows and what it has yet to insert make up the results
(`TransactionInv`), so that a commit adds a head with all of its rows (`TableGrows`) and nothing else
touches the tables. `StoredInv` bounds the runs of each event by its attempts: one for each that may have
stored, the present one counting only from the commit on; a second attempt takes a fault (`JobInv`).
`ToldInv` is what the tables hold when the job goes on to tell Bencher.dev or to link. That the first row
found for a link is an icount row follows from `TablesInv` (the same commits have the same scenarios, so
the oldest comparison has an icount row too) and from `FirstRow`, the well-foundedness of the scan order.
`AtBmf` says what a report has of a scenario, from what merging two maps does (`AtMerge`).

Only model-checked: the liveness properties, which like `ENABLED` are out of the prover's reach.

## Findings

Each is a run that TLC finds violated.

1. `EventQueue_hangup`: a client that hangs up while its event is being stored leaves a row without a
   token. The event waits for the next event, or a restart (`event_queue.rs:235-236`).
2. `PauseToggle_race`: a file created between the check and the start of the watch is not noticed
   (`event_queue.rs:365`, `:398`). A lookup error and a rename have the same effect.
3. `Report_truncation`: a comment that is too long and would be cut inside a character makes
   `String::truncate` panic (`github.rs:198`). The handler dies; the second attempt does it all again.

Met while modelling, without a run of their own:

- The queue. A restarted task sends tokens for rows whose tokens are still in the channel, so that later
  fetches find the table empty and end the task again, once for each surplus token (`Quiesces` shows that
  this dies out). The assertion at `event_queue.rs:420` can fail if processing is paused again between
  `wait_for` and the second read; the supervisor restarts the task (`RecheckGate`). `/info` keeps naming a
  job that has finished as the active one until the next job or the death of the task
  (`event_queue.rs:26`, `:179`).
- The pull request job. A job whose benchmarks failed is recorded as a success, and the commit's status
  becomes success (`job/bench_pr.rs:233-270`, `db.rs:64`). A crash between creating a comment and
  registering it, or the lost answer to an update, gives the pull request a second comment
  (`job/bench_pr.rs:251-258`). `handle_pr_update` also accepts `Reopened` (`job/bench_pr.rs:191`), which
  its doc comment (163-164) does not list.
- The triggers. The application does not recognise its own comments, as user ids are compared with an App
  id (`job/bench_pr.rs:70`): the trace at 71 and the readme's "a maintainer posts a comment" (59-64) then do
  not hold of its answer to an unknown command, if GitHub reports the application as associated with the
  repository. Comments on another repository's pull request are taken for the configured one's (84; the
  name `RepoChecked` and the "from configuration" beside it say otherwise).
- The report. If the blocking task panics, the comment has no logs (`job/bench_pr.rs:340-349`; the
  exception in `LogsAreKept`). A zero in the history may make a threshold infinite, and then nothing is
  significant; NaN becomes the minimum (`job/bench_pr.rs:548`, `:653`). Memory differences below the
  threshold are not shown at all.
- The result store. A push whose first attempt dies after storing is stored twice, and counts twice in
  the thresholds (`job/bench_main.rs:105`; the 2 in `PushIsStored`). When commits are compared again, the
  link in the comment shows the first comparison's diff (`db.rs:571-581`).
- The runner and the client. The joins of the reader threads are not under the deadline (`runner.rs:208`,
  `:221`; the premise of `DeadlineEndsWait`). A job that takes the client while a refresh has just failed
  may outlive its token (`job/bench_pr.rs:222`; the premise of `HeldIsValid`). Without failures the
  token lives for 28 minutes from then on, and the deadlines of a job's commands alone add up to 27 minutes
  and 20 seconds: a job near all of them may well report with a token that has expired. `RunCommand`'s
  `GiveUp`: a command that is late leaves no log, its output is only in the text of the error
  (`runner.rs:201-213`); one that cannot be started leaves none either (177-179).

## Not modelled

`comparison_result` (`db.rs`), which only tests call; the text of timestamps, whose fractions have no
fixed width, so that a comparison as text may differ from one as time (`db.rs:204`); header parsing and
the HMAC of webhooks, pure functions of a request; the parsing of numbers in result files; rounding of
floating-point numbers; the wording, units and layout of templates; what `callgrind_annotate` prints, and
its termination (it has no deadline, `job/bench_pr.rs:696`); octocrab's own renewal of tokens; the build
script, nix files and deployment, which have no state.

## Plan

Done, in this order, the most important first: `EventLedger` and `EventQueue`, `PauseToggle`, `BenchPr`,
`RunCommand`, `Triggers`, `Significance` and `Report`, `ResultStore`, `TokenCache`, with the proofs above.
Every invariant a passing run checks is stated by a theorem.
