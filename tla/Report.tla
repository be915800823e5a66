------------------------------- MODULE Report -------------------------------
(***************************************************************************)
(* From two runs of the benchmarks to the text of a comment                *)
(* (bench_pr_and_cache_results, compare_refs, markdown_comment and         *)
(* maybe_truncate_comment): what module BenchPr takes as one step, Bench,  *)
(* with the storing of the comparison.  The thresholds come from the       *)
(* history, the candidate and the baseline are benchmarked, their result   *)
(* files are read and compared, kind by kind, the logs and the comparison  *)
(* are kept, and the outcome, good or bad, becomes a comment.              *)
(*                                                                         *)
(* External: the benchmarks, which leave any of the files in Outputs; the  *)
(* templates, which render any of Texts.                                   *)
(***************************************************************************)
EXTENDS Significance

CONSTANTS
  Scenarios,
  Histories,  \* what result_history may return: kind -> scenario -> results
  Outputs,    \* Outputs[b]: the result files branch b's run may leave
  Texts,      \* the texts a comment may have
  Limit,      \* GITHUB_COMMENT_MAX_LEN
  NoteLen     \* length of the note on truncation

Kinds == {"icount", "walltime", "memory"}
Branches == {"candidate", "base"}

Row == Seq(Nat)

(* A result file: for every scenario, the numbers of its row.              *)
File == [present : BOOLEAN, rows : UNION {[D -> Row] : D \in SUBSET Scenarios}]

Text == [len : Nat, boundaries : SUBSET Nat]

ASSUME ReportAssumption ==
  /\ IsFiniteSet(Scenarios)
  /\ Histories \subseteq [Kinds -> [Scenarios -> Row]]
  /\ \A b \in Branches, k \in Kinds :
       \A f \in {output[k] : output \in Outputs[b]} :
         /\ f.present \in BOOLEAN
         /\ DOMAIN f.rows \subseteq Scenarios
         /\ \A s \in DOMAIN f.rows : f.rows[s] \in Row
         /\ ~f.present => DOMAIN f.rows = {}
  /\ \A t \in Texts : t.len \in Nat /\ t.boundaries \subseteq Nat
  /\ Limit \in Nat /\ NoteLen \in 0 .. Limit

VARIABLES
  pc,
  history,    \* the results the database returns
  thresholds, \* thresholds[k][s]: significance threshold, or None
  files,      \* files[b][k]: the result files read
  taskLogs,   \* taskLogs[b]: how many of branch b's commands the task has logged
  logs,       \* the logs the handler has
  logsFile,   \* the logs in logs.md
  diffs, missing,  \* the ComparisonResult
  error,      \* why the result is an error
  stored,     \* the comparison in the database
  comment,    \* what the comment shows
  text        \* its text

vars == <<pc, history, thresholds, files, taskLogs, logs, logsFile, diffs,
          missing, error, stored, comment, text>>

NoError == "none"

(* A command leaves a log if it has come to an end, whatever its exit      *)
(* status; none if it could not be started, or was killed for being late.  *)
Amounts == {"no command", "some commands", "all commands"}

NoLogs == [b \in Branches |-> "no command"]
NoComment == [shows |-> "nothing"]
NoFile == [present |-> FALSE, rows |-> << >>]

Init ==
  /\ pc = "history"
  /\ history \in Histories
  /\ thresholds = [k \in Kinds |-> [s \in Scenarios |-> None]]
  /\ files = [b \in Branches |-> [k \in Kinds |-> NoFile]]
  /\ taskLogs = NoLogs /\ logs = NoLogs /\ logsFile = NoLogs
  /\ diffs = {} /\ missing = {}
  /\ error = NoError
  /\ stored = {}
  /\ comment = NoComment
  /\ text = [len |-> 0, boundaries |-> {0}]

-----------------------------------------------------------------------------
(* The readers of the result files: an icount row has one number, a        *)
(* walltime row measurements, of which the median counts, a memory row     *)
(* four numbers, of which the first counts.  Only the memory file may be   *)
(* absent.                                                                 *)
WellFormed(kind, row) ==
  \/ kind = "icount" /\ Len(row) = 1
  \/ kind = "walltime" /\ Len(row) >= 1
  \/ kind = "memory" /\ Len(row) = 4

Readable(kind, file) ==
  IF file.present THEN \A s \in DOMAIN file.rows : WellFormed(kind, file.rows[s])
  ELSE kind = "memory"

Median(row) ==
  LET measured == [i \in DOMAIN row |-> <<row[i], 1>>]
  IN Ranked(measured, Len(row) \div 2)[1]

Value(kind, row) == IF kind = "walltime" THEN Median(row) ELSE row[1]

Results(kind, file) == [s \in DOMAIN file.rows |-> Value(kind, file.rows[s])]

DefaultNoise == [icount |-> <<2, 1000>>, walltime |-> <<5, 100>>, memory |-> <<1, 1000>>]
MinimumNoise == [icount |-> <<2, 1000>>, walltime |-> <<1, 100>>, memory |-> <<1, 1000>>]

Ratio(diff) == Change(diff.base, diff.candidate)

Shown(significant, negligible) ==
  [shows |-> "results", significant |-> significant, negligible |-> negligible,
   missing |-> missing]

-----------------------------------------------------------------------------
(* Seeded faults: plausible bugs of the code, none of them part of Next.   *)

ThresholdOfAnyKind(kind, s) ==
  LET known == {k \in Kinds : thresholds[k][s] # None}
  IN LargerOf(IF known = {} THEN DefaultNoise[kind] ELSE thresholds[CHOOSE k \in known : TRUE][s],
              MinimumNoise[kind])

MissingFromCandidate(kind, base, candidate) ==
  {<<kind, s>> : s \in DOMAIN base \ DOMAIN candidate}

WriteLogsBeforeTaking ==
  /\ pc = "logs"
  /\ \/ logs' = taskLogs /\ logsFile' = taskLogs /\ UNCHANGED error
        /\ pc' = IF error = NoError THEN "store" ELSE "render"
     \/ UNCHANGED <<logs, logsFile>> /\ error' = "logs" /\ pc' = "render"
  /\ UNCHANGED <<history, thresholds, files, taskLogs, diffs, missing, stored, comment, text>>

StoreComparisonUnchecked ==
  /\ pc = "store" /\ pc' = "render"
  /\ stored' \in {stored, diffs}
  /\ UNCHANGED <<history, thresholds, files, taskLogs, logs, logsFile, diffs,
                 missing, error, comment, text>>

-----------------------------------------------------------------------------
(* The result becomes an error.                                            *)
Err(cause, next) ==
  /\ error' = cause
  /\ diffs' = {} /\ missing' = {}
  /\ pc' = next

ReadHistory ==
  LET Choices(k) ==
        {f \in [Scenarios -> UNION {SignificanceThresholds(history[k][s]) : s \in Scenarios}] :
          \A s \in Scenarios : f[s] \in SignificanceThresholds(history[k][s])}
  IN /\ pc = "history"
     /\ \/ /\ \E i \in Choices("icount"), w \in Choices("walltime"), m \in Choices("memory") :
                thresholds' = [icount |-> i, walltime |-> w, memory |-> m]
           /\ pc' = "candidate"
           /\ UNCHANGED <<diffs, missing, error>>
        \/ Err("history", "render") /\ UNCHANGED thresholds
     /\ UNCHANGED <<history, files, taskLogs, logs, logsFile, stored, comment, text>>

(* checkout_and_run_benchmarks.  It errs at any of its commands, and that  *)
(* one may have left a log (it exited with an error, or its output could   *)
(* not be written to the walltimes file) or not.                           *)
RunBenchmarks(b, next) ==
  /\ pc = b
  /\ \E amount \in Amounts :
       /\ taskLogs' = [taskLogs EXCEPT ![b] = amount]
       /\ \/ /\ amount = "all commands"
             /\ \E output \in Outputs[b] : files' = [files EXCEPT ![b] = output]
             /\ pc' = next
             /\ UNCHANGED <<diffs, missing, error>>
          \/ Err(b, "logs") /\ UNCHANGED files
  /\ UNCHANGED <<history, thresholds, logs, logsFile, stored, comment, text>>

ThresholdOf(kind, s) ==
  LargerOf(IF thresholds[kind][s] = None THEN DefaultNoise[kind] ELSE thresholds[kind][s],
           MinimumNoise[kind])

Diffs(kind, base, candidate) ==
  {[kind |-> kind, scenario |-> s, base |-> base[s], candidate |-> candidate[s],
    threshold |-> ThresholdOf(kind, s)] : s \in DOMAIN base \cap DOMAIN candidate}

Missing(kind, base, candidate) ==
  {<<kind, s>> : s \in DOMAIN candidate \ DOMAIN base}

(* callgrind_diff, for every scenario that is compared: it may fail.       *)
RunsCallgrindAnnotate(kind, base, candidate) ==
  kind = "icount" /\ DOMAIN base \cap DOMAIN candidate # {}

(* The results of one kind are read and go through compare_results.        *)
CompareResults(kind, next) ==
  LET readable == \A b \in Branches : Readable(kind, files[b][kind])
      base == Results(kind, files["base"][kind])
      candidate == Results(kind, files["candidate"][kind])
  IN /\ pc = kind
     /\ \/ /\ readable
           /\ diffs' = diffs \cup Diffs(kind, base, candidate)
           /\ missing' = missing \cup Missing(kind, base, candidate)
           /\ pc' = next
           /\ UNCHANGED error
        \/ ~readable /\ Err(kind, "logs")
        \/ readable /\ RunsCallgrindAnnotate(kind, base, candidate) /\ Err(kind, "logs")
     /\ UNCHANGED <<history, thresholds, files, taskLogs, logs, logsFile, stored, comment, text>>

(* The blocking task panics, and its logs are lost.                        *)
TaskCrashes ==
  /\ pc \in Branches \cup Kinds
  /\ Err("crash", "render")
  /\ UNCHANGED <<history, thresholds, files, taskLogs, logs, logsFile, stored, comment, text>>

WriteLogs ==
  /\ pc = "logs"
  /\ logs' = taskLogs
  /\ \/ /\ logsFile' = taskLogs
        /\ pc' = IF error = NoError THEN "store" ELSE "render"
        /\ UNCHANGED <<diffs, missing, error>>
     \/ Err("logs", "render") /\ UNCHANGED logsFile
  /\ UNCHANGED <<history, thresholds, files, taskLogs, stored, comment, text>>

StoreComparison ==
  /\ pc = "store"
  /\ \/ stored' = diffs /\ pc' = "render" /\ UNCHANGED <<diffs, missing, error>>
     \/ Err("store", "render") /\ UNCHANGED stored
  /\ UNCHANGED <<history, thresholds, files, taskLogs, logs, logsFile, comment, text>>

(* split_on_threshold and the template; the sorting inside a table is left *)
(* out.  Memory usage that has not changed much is not shown.              *)
SplitOnThreshold ==
  LET negligible == {d \in diffs : Less(Ratio(d), d.threshold)}
  IN Shown(diffs \ negligible, {d \in negligible : d.kind # "memory"})

MarkdownComment ==
  /\ pc = "render" /\ pc' = "truncate"
  /\ comment' = IF error = NoError THEN SplitOnThreshold
                ELSE [shows |-> "error", cause |-> error, logs |-> logs]
  /\ text' \in Texts
  /\ UNCHANGED <<history, thresholds, files, taskLogs, logs, logsFile, diffs,
                 missing, error, stored>>

Cut == Limit - NoteLen

(* String::truncate panics inside a character.                             *)
MaybeTruncateComment ==
  /\ pc = "truncate"
  /\ \/ text.len <= Limit /\ pc' = "post" /\ UNCHANGED text
     \/ /\ text.len > Limit /\ Cut \in text.boundaries
        /\ text' = [len |-> NoteLen + Cut,
                    boundaries |-> {NoteLen + i : i \in {j \in text.boundaries : j <= Cut}}]
        /\ pc' = "post"
     \/ text.len > Limit /\ Cut \notin text.boundaries /\ pc' = "panicked" /\ UNCHANGED text
  /\ UNCHANGED <<history, thresholds, files, taskLogs, logs, logsFile, diffs,
                 missing, error, stored, comment>>

Done == pc \in {"post", "panicked"} /\ UNCHANGED vars

Next ==
  \/ ReadHistory
  \/ RunBenchmarks("candidate", "base") \/ RunBenchmarks("base", "icount")
  \/ CompareResults("icount", "walltime") \/ CompareResults("walltime", "memory")
  \/ CompareResults("memory", "logs")
  \/ TaskCrashes
  \/ WriteLogs \/ StoreComparison \/ MarkdownComment \/ MaybeTruncateComment
  \/ Done

Spec == Init /\ [][Next]_vars

-----------------------------------------------------------------------------
(* Every variable holds a value of its type.                               *)
TypeOK ==
  /\ pc \in Branches \cup Kinds
            \cup {"history", "logs", "store", "render", "truncate", "post", "panicked"}
  /\ history \in Histories
  /\ \A b \in Branches, k \in Kinds : DOMAIN files[b][k].rows \subseteq Scenarios
  /\ taskLogs \in [Branches -> Amounts] /\ {logs, logsFile} \subseteq {NoLogs, taskLogs}
  /\ \A d \in diffs : d.kind \in Kinds /\ d.scenario \in Scenarios
  /\ missing \subseteq Kinds \X Scenarios
  /\ error \in Branches \cup Kinds \cup {NoError, "history", "crash", "logs", "store"}
  /\ comment.shows \in {"nothing", "results", "error"}
  /\ text.len \in Nat

ShowsResults == comment.shows = "results"

(* A comment with results accounts for every scenario the candidate has    *)
(* results of, and for no other: it is under the significant differences   *)
(* or the others or missing in the baseline, once, or it is one whose      *)
(* memory usage has not changed much.                                      *)
EveryScenarioAccounted ==
  ShowsResults =>
    \A k \in Kinds, s \in Scenarios :
      LET changed == \E d \in comment.significant : d.kind = k /\ d.scenario = s
          same == \E d \in comment.negligible : d.kind = k /\ d.scenario = s
          absent == <<k, s>> \in comment.missing
          measured(b) == s \in DOMAIN files[b][k].rows
      IN /\ changed \/ same => measured("candidate") /\ measured("base")
         /\ absent <=> measured("candidate") /\ ~measured("base")
         /\ ~(changed /\ same)
         /\ k # "memory" /\ measured("candidate") => changed \/ same \/ absent

(* What is reported as significant exceeds at least three quarters of the  *)
(* changes between earlier runs of the same kind and scenario; and a       *)
(* change of four times all of those, and of the minimum, is reported.     *)
HistoryDecides ==
  ShowsResults =>
    \A d \in comment.significant \cup comment.negligible :
      LET results == history[d.kind][d.scenario]
          changes == HistoricChanges(results)
          below == {i \in DOMAIN changes : ~Less(Ratio(d), changes[i])}
          fourfold == \A i \in DOMAIN changes :
                        ~Less(Ratio(d), <<4 * changes[i][1], changes[i][2]>>)
      IN Len(results) >= MinResults /\ (\A i \in DOMAIN results : results[i] # 0) =>
           /\ d \in comment.significant => 4 * Cardinality(below) >= 3 * Len(changes)
           /\ fourfold /\ ~Less(Ratio(d), MinimumNoise[d.kind]) => d \in comment.significant

(* Even a history with zeros, whose changes are infinite or NaN, leaves a  *)
(* threshold that is a number and no less than the minimum of its kind.    *)
ThresholdIsUsable ==
  \A d \in diffs : d.threshold # NaN /\ ~Less(d.threshold, MinimumNoise[d.kind])

(* The branches that surely ran to their end before the error.  A crash    *)
(* says nothing of them, nor does logs.md, whose error replaces another.   *)
RanThrough(cause) ==
  IF cause = "base" THEN {"candidate"}
  ELSE IF cause \in Kinds \cup {"store"} THEN Branches
  ELSE {}

(* An error is reported with all the logs there are, and logs.md has them  *)
(* too, unless the benchmarking task crashed or the file could not be      *)
(* written.  So of a branch that ran to its end every command is logged:   *)
(* neither the other branch, nor a failed comparison or store loses any.   *)
(* Of the branch that failed there is what was logged until then, if       *)
(* anything: not the command that was late or could not be started.        *)
LogsAreKept ==
  /\ comment.shows = "error" =>
       /\ comment.cause # "crash" => comment.logs = taskLogs
       /\ \A b \in RanThrough(comment.cause) : comment.logs[b] = "all commands"
  /\ pc \in {"store", "render", "truncate", "post", "panicked"} /\ error \notin {"crash", "logs"} =>
       /\ logsFile = taskLogs
       /\ \A b \in RanThrough(error) : logsFile[b] = "all commands"

(* The differences a comment shows are in the database: its links to       *)
(* cachegrind diffs can be followed.                                       *)
ShownIsStored == ShowsResults => comment.significant \cup comment.negligible \subseteq stored

(* What is posted respects GitHub's limit.                                 *)
PostedFits == pc = "post" => text.len <= Limit

-----------------------------------------------------------------------------
(* A statement about the program that does not hold (see README.md).       *)

(* github.rs:192: "Truncates a comment if it exceeds GitHub's size limit". *)
LongCommentsAreTruncated == pc = "panicked" => text.len <= Limit
=============================================================================
