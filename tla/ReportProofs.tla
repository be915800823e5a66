---------------------------- MODULE ReportProofs ----------------------------
(***************************************************************************)
(* Report, proved for any scenarios, histories, result files, texts and    *)
(* limit.                                                                  *)
(***************************************************************************)
EXTENDS Report, FiniteSetTheorems, WellFoundedInduction, TLAPS

Measuring == {"history", "candidate", "base"}
Reporting == {"render", "truncate", "post", "panicked"}

-----------------------------------------------------------------------------
(* The length of the text.                                                 *)
TextInv == text.len \in Nat /\ (pc = "post" => text.len <= Limit)

LEMMA TextInit == Init => TextInv
BY DEF Init, TextInv

LEMMA TextNext == TextInv /\ [Next]_vars => TextInv'
<1> SUFFICES ASSUME TextInv, [Next]_vars PROVE TextInv'
  OBVIOUS
<1> USE DEF TextInv
<1>1. CASE ReadHistory
  BY <1>1 DEF ReadHistory, Err
<1>2. ASSUME NEW b, NEW next \in {"base", "icount"}, RunBenchmarks(b, next) PROVE TextInv'
  BY <1>2 DEF RunBenchmarks, Err
<1>3. ASSUME NEW kind, NEW next \in {"walltime", "memory", "logs"}, CompareResults(kind, next)
      PROVE TextInv'
  BY <1>3 DEF CompareResults, Err
<1>4. CASE TaskCrashes
  BY <1>4 DEF TaskCrashes, Err
<1>5. CASE WriteLogs
  BY <1>5 DEF WriteLogs, Err
<1>6. CASE StoreComparison
  BY <1>6 DEF StoreComparison, Err
<1>7. CASE MarkdownComment
  <2>1. text' \in Texts /\ pc' = "truncate"
    BY <1>7 DEF MarkdownComment
  <2> QED BY <2>1, ReportAssumption
<1>8. CASE MaybeTruncateComment
  <2>1. CASE text.len <= Limit /\ UNCHANGED text
    BY <2>1
  <2>2. CASE text' = [len |-> NoteLen + Cut,
                      boundaries |-> {NoteLen + i : i \in {j \in text.boundaries : j <= Cut}}]
    BY <2>2, ReportAssumption DEF Cut
  <2>3. CASE pc' = "panicked" /\ UNCHANGED text
    BY <2>3
  <2> QED BY <1>8, <2>1, <2>2, <2>3 DEF MaybeTruncateComment
<1>9. CASE UNCHANGED vars
  BY <1>9 DEF vars
<1> QED
  BY <1>1, <1>2, <1>3, <1>4, <1>5, <1>6, <1>7, <1>8, <1>9 DEF Next, Done

(* Whatever the limit and the texts, nothing too long is posted.           *)
THEOREM Fits == Spec => []PostedFits
<1>1. TextInv => PostedFits
  BY DEF TextInv, PostedFits
<1> QED BY <1>1, TextInit, TextNext, PTL DEF Spec

-----------------------------------------------------------------------------
(* The logs and the error, at every place.  What the task has logged stays *)
(* logged, and a branch is left for the next step with all of its commands *)
(* or with an error.                                                       *)
LogsInv ==
  /\ pc \in Measuring \cup Kinds => error = NoError
  /\ taskLogs \in [Branches -> Amounts]
  /\ pc = "history" => taskLogs = NoLogs /\ logs = NoLogs /\ logsFile = NoLogs
  /\ pc = "base" => taskLogs["candidate"] = "all commands"
  /\ pc \in Kinds \cup {"logs", "store"} /\ error = NoError =>
       \A b \in Branches : taskLogs[b] = "all commands"
  /\ \A b \in RanThrough(error) : taskLogs[b] = "all commands"
  /\ pc = "logs" => error \notin {"crash", "logs"}
  /\ pc = "store" => error = NoError /\ logs = taskLogs /\ logsFile = taskLogs
  /\ pc \in Reporting /\ error # "crash" => logs = taskLogs
  /\ pc \in Reporting /\ error \notin {"crash", "logs"} => logsFile = taskLogs

(* The comment shows the outcome.                                          *)
CommentInv ==
  /\ comment.shows # "nothing" => pc \in Reporting \ {"render"}
  /\ comment.shows = "error" => comment.cause = error /\ comment.logs = logs
  /\ comment.shows = "results" =>
       /\ error = NoError
       /\ comment.significant = {d \in diffs : ~Less(Ratio(d), d.threshold)}
       /\ comment.negligible \subseteq {d \in diffs : Less(Ratio(d), d.threshold)}
       /\ \A d \in diffs : d.kind # "memory" /\ Less(Ratio(d), d.threshold) =>
                             d \in comment.negligible
       /\ comment.missing = missing

(* What will be shown is stored.                                           *)
StoredInv == pc \in Reporting /\ error = NoError => stored = diffs

OutcomeInv == LogsInv /\ CommentInv /\ StoredInv

LEMMA OutcomeInit == Init => OutcomeInv
<1> SUFFICES ASSUME Init PROVE OutcomeInv
  OBVIOUS
<1>1. taskLogs \in [Branches -> Amounts]
  BY DEF Init, NoLogs, Amounts
<1>2. RanThrough(error) = {}
  BY DEF Init, NoError, RanThrough, Kinds
<1> QED
  BY <1>1, <1>2 DEF Init, OutcomeInv, LogsInv, CommentInv, StoredInv, NoComment, Measuring,
                    Reporting, Kinds, NoError

LEMMA OutcomeNext == OutcomeInv /\ [Next]_vars => OutcomeInv'
<1> SUFFICES ASSUME OutcomeInv, [Next]_vars PROVE OutcomeInv'
  OBVIOUS
<1> USE DEF OutcomeInv, LogsInv, CommentInv, StoredInv, Measuring, Reporting, Kinds, Branches,
            NoError, RanThrough
<1>1. CASE ReadHistory
  BY <1>1 DEF ReadHistory, Err
<1>2. CASE RunBenchmarks("candidate", "base")
  BY <1>2 DEF RunBenchmarks, Err
<1>3. CASE RunBenchmarks("base", "icount")
  BY <1>3 DEF RunBenchmarks, Err
<1>4. CASE CompareResults("icount", "walltime")
  BY <1>4 DEF CompareResults, Err
<1>5. CASE CompareResults("walltime", "memory")
  BY <1>5 DEF CompareResults, Err
<1>6. CASE CompareResults("memory", "logs")
  BY <1>6 DEF CompareResults, Err
<1>7. CASE TaskCrashes
  BY <1>7 DEF TaskCrashes, Err
<1>8. CASE WriteLogs
  BY <1>8 DEF WriteLogs, Err
<1>9. CASE StoreComparison
  BY <1>9 DEF StoreComparison, Err
<1>10. CASE MarkdownComment
  <2>1. /\ pc = "render" /\ pc' = "truncate"
        /\ UNCHANGED <<taskLogs, logs, logsFile, diffs, missing, error, stored>>
    BY <1>10 DEF MarkdownComment
  <2>2. CASE error = NoError
    <3>1. comment' = SplitOnThreshold
      BY <1>10, <2>2 DEF MarkdownComment
    <3>2. /\ comment'.shows = "results"
          /\ comment'.significant = diffs \ {d \in diffs : Less(Ratio(d), d.threshold)}
          /\ comment'.negligible =
               {d \in {e \in diffs : Less(Ratio(e), e.threshold)} : d.kind # "memory"}
          /\ comment'.missing = missing
      BY <3>1 DEF SplitOnThreshold, Shown
    <3> QED BY <2>1, <2>2, <3>2
  <2>3. CASE error # NoError
    <3>1. comment' = [shows |-> "error", cause |-> error, logs |-> logs]
      BY <1>10, <2>3 DEF MarkdownComment
    <3> QED BY <2>1, <2>3, <3>1
  <2> QED BY <2>2, <2>3
<1>11. CASE MaybeTruncateComment
  BY <1>11 DEF MaybeTruncateComment
<1>12. CASE UNCHANGED vars
  BY <1>12 DEF vars
<1> QED
  BY <1>1, <1>2, <1>3, <1>4, <1>5, <1>6, <1>7, <1>8, <1>9, <1>10, <1>11, <1>12
     DEF Next, Done

LEMMA OutcomeInvariance == Spec => []OutcomeInv
BY OutcomeInit, OutcomeNext, PTL DEF Spec

(* Whichever step fails, the logs there are can be read in the comment and *)
(* in logs.md, and a branch that ran to its end has all of its logs there. *)
THEOREM LogsKept == Spec => []LogsAreKept
<1>1. OutcomeInv => LogsAreKept
  BY DEF OutcomeInv, LogsInv, CommentInv, LogsAreKept, RanThrough, Kinds, NoError, Reporting
<1> QED BY <1>1, OutcomeInvariance, PTL

(* Whatever is compared, the differences a comment shows are stored.       *)
THEOREM ShownStored == Spec => []ShownIsStored
<1>1. OutcomeInv => ShownIsStored
  BY DEF OutcomeInv, StoredInv, CommentInv, ShownIsStored, ShowsResults, Reporting
<1> QED BY <1>1, OutcomeInvariance, PTL

-----------------------------------------------------------------------------
(* Types.                                                                  *)
TypeInv ==
  /\ TypeOK
  /\ DOMAIN files = Branches
  /\ pc \in Measuring => logs = NoLogs /\ logsFile = NoLogs

LEMMA TypeInit == Init => TypeInv
<1> SUFFICES ASSUME Init PROVE TypeInv
  OBVIOUS
<1> USE DEF Init, Branches, Kinds
<1>1. \A b \in Branches, k \in Kinds : DOMAIN files[b][k].rows \subseteq Scenarios
  BY DEF NoFile
<1>2. taskLogs \in [Branches -> Amounts]
  BY DEF NoLogs, Amounts
<1> QED BY <1>1, <1>2 DEF TypeInv, TypeOK, NoError, NoComment

LEMMA TypeNext == TypeInv /\ [Next]_vars => TypeInv'
<1> SUFFICES ASSUME TypeInv, [Next]_vars PROVE TypeInv'
  OBVIOUS
<1> USE DEF TypeInv
<1>0. \A b, next : RunBenchmarks(b, next) /\ b \in Branches =>
        /\ DOMAIN files' = Branches
        /\ \A c \in Branches, k \in Kinds : DOMAIN files'[c][k].rows \subseteq Scenarios
  <2> TAKE b, next
  <2> HAVE RunBenchmarks(b, next) /\ b \in Branches
  <2>1. CASE UNCHANGED files
    BY <2>1 DEF TypeOK
  <2>2. ASSUME NEW output \in Outputs[b], files' = [files EXCEPT ![b] = output]
        PROVE  /\ DOMAIN files' = Branches
               /\ \A c \in Branches, k \in Kinds : DOMAIN files'[c][k].rows \subseteq Scenarios
    <3>1. DOMAIN files' = Branches
      BY <2>2
    <3>2. ASSUME NEW c \in Branches, NEW k \in Kinds
          PROVE  DOMAIN files'[c][k].rows \subseteq Scenarios
      <4>1. CASE c = b
        BY <2>2, <4>1, ReportAssumption
      <4>2. CASE c # b
        BY <2>2, <4>2 DEF TypeOK
      <4> QED BY <4>1, <4>2
    <3> QED BY <3>1, <3>2
  <2> QED BY <2>1, <2>2 DEF RunBenchmarks
<1>l. \A b, next : RunBenchmarks(b, next) /\ b \in Branches =>
        /\ taskLogs' \in [Branches -> Amounts]
        /\ logs' = NoLogs /\ logsFile' = NoLogs
  <2> TAKE b, next
  <2> HAVE RunBenchmarks(b, next) /\ b \in Branches
  <2>1. logs' = NoLogs /\ logsFile' = NoLogs
    BY DEF RunBenchmarks, Measuring, Branches
  <2>2. taskLogs' \in [Branches -> Amounts]
    BY DEF RunBenchmarks, TypeOK
  <2> QED BY <2>1, <2>2
<1> USE DEF TypeOK, Branches, Kinds, Measuring, NoError
<1>1. CASE ReadHistory
  BY <1>1 DEF ReadHistory, Err
<1>2. ASSUME NEW b \in Branches, NEW next \in {"base", "icount"}, RunBenchmarks(b, next)
      PROVE  TypeInv'
  <2>1. /\ DOMAIN files' = Branches
        /\ \A c \in Branches, k \in Kinds : DOMAIN files'[c][k].rows \subseteq Scenarios
    BY <1>0, <1>2
  <2>2. /\ taskLogs' \in [Branches -> Amounts]
        /\ logs' = NoLogs /\ logsFile' = NoLogs
    BY <1>l, <1>2
  <2>3. /\ pc' \in {next, "logs"} /\ error' \in {error, b}
        /\ diffs' \in {{}, diffs} /\ missing' \in {{}, missing}
        /\ UNCHANGED <<history, comment, text>>
    BY <1>2 DEF RunBenchmarks, Err
  <2> QED BY <2>1, <2>2, <2>3
<1>4. ASSUME NEW kind \in Kinds, NEW next \in {"walltime", "memory", "logs"},
             CompareResults(kind, next)
      PROVE  TypeInv'
  <2> DEFINE base == Results(kind, files["base"][kind])
             candidate == Results(kind, files["candidate"][kind])
  <2>1. DOMAIN base \subseteq Scenarios /\ DOMAIN candidate \subseteq Scenarios
    BY DEF Results
  <2>2. \A d \in Diffs(kind, base, candidate) : d.kind \in Kinds /\ d.scenario \in Scenarios
    BY <2>1 DEF Diffs
  <2>3. Missing(kind, base, candidate) \subseteq Kinds \X Scenarios
    BY <2>1 DEF Missing
  <2>4. \/ diffs' = diffs \cup Diffs(kind, base, candidate)
             /\ missing' = missing \cup Missing(kind, base, candidate)
             /\ pc' = next /\ error' = error
        \/ diffs' = {} /\ missing' = {} /\ pc' = "logs" /\ error' = kind
    BY <1>4 DEF CompareResults, Err
  <2>5. UNCHANGED <<history, thresholds, files, taskLogs, logs, logsFile, stored, comment, text>>
    BY <1>4 DEF CompareResults
  <2>6. /\ \A d \in diffs' : d.kind \in Kinds /\ d.scenario \in Scenarios
        /\ missing' \subseteq Kinds \X Scenarios
    BY <2>2, <2>3, <2>4
  <2> HIDE DEF base, candidate
  <2> QED BY <2>4, <2>5, <2>6
<1>5. CASE TaskCrashes
  BY <1>5 DEF TaskCrashes, Err
<1>6. CASE WriteLogs
  BY <1>6 DEF WriteLogs, Err
<1>7. CASE StoreComparison
  BY <1>7 DEF StoreComparison, Err
<1>8. CASE MarkdownComment
  <2>1. comment'.shows \in {"results", "error"} /\ text' \in Texts /\ pc' = "truncate"
    BY <1>8 DEF MarkdownComment, SplitOnThreshold, Shown
  <2> QED BY <1>8, <2>1, ReportAssumption DEF MarkdownComment
<1>9. CASE MaybeTruncateComment
  <2>1. text'.len \in Nat
    BY <1>9, ReportAssumption DEF MaybeTruncateComment, Cut
  <2> QED BY <1>9, <2>1 DEF MaybeTruncateComment
<1>10. CASE UNCHANGED vars
  BY <1>10 DEF vars
<1> QED
  BY <1>1, <1>2, <1>4, <1>5, <1>6, <1>7, <1>8, <1>9, <1>10 DEF Next, Done

(* Every variable keeps its type.                                          *)
THEOREM TypeCorrect == Spec => []TypeOK
<1>1. TypeInv => TypeOK
  BY DEF TypeInv
<1> QED BY <1>1, TypeInit, TypeNext, PTL DEF Spec

-----------------------------------------------------------------------------
(* What has been compared, at every place: of each kind, the scenarios of  *)
(* both branches have one difference each, and those of the candidate      *)
(* alone are missing.                                                      *)
Measured(b, k) == DOMAIN files[b][k].rows

Compared ==
  {k \in Kinds :
     \/ pc \in {"logs", "store"} \cup Reporting
     \/ k = "icount" /\ pc \in {"walltime", "memory"}
     \/ k = "walltime" /\ pc = "memory"}

DiffsInv ==
  error = NoError =>
    /\ \A d \in diffs :
         /\ d.kind \in Compared
         /\ d.scenario \in Measured("base", d.kind) \cap Measured("candidate", d.kind)
    /\ \A d, e \in diffs : d.kind = e.kind /\ d.scenario = e.scenario => d = e
    /\ \A k \in Compared : \A s \in Measured("base", k) \cap Measured("candidate", k) :
         \E d \in diffs : d.kind = k /\ d.scenario = s
    /\ \A k, s : <<k, s>> \in missing <=>
         k \in Compared /\ s \in Measured("candidate", k) \ Measured("base", k)

LEMMA DiffsInit == Init => DiffsInv
BY DEF Init, DiffsInv, Compared, Reporting

LEMMA DiffsCompare ==
  ASSUME DiffsInv, NEW kind \in Kinds, NEW next, CompareResults(kind, next),
         error = NoError, kind \notin Compared, Compared' = Compared \cup {kind}
  PROVE  DiffsInv'
<1>1. CASE error' # NoError
  BY <1>1 DEF DiffsInv
<1>2. CASE error' = NoError
  <2> DEFINE base == Results(kind, files["base"][kind])
             candidate == Results(kind, files["candidate"][kind])
             new == Diffs(kind, base, candidate)
             absent == Missing(kind, base, candidate)
  <2>1. diffs' = diffs \cup new /\ missing' = missing \cup absent /\ UNCHANGED files
    BY <1>2 DEF CompareResults, Err, NoError, Kinds
  <2>2. DOMAIN base = Measured("base", kind) /\ DOMAIN candidate = Measured("candidate", kind)
    BY DEF Results, Measured
  <2>3. \A d \in new : /\ d.kind = kind
                       /\ d.scenario \in Measured("base", kind) \cap Measured("candidate", kind)
    BY <2>2 DEF Diffs
  <2>4. \A d, e \in new : d.scenario = e.scenario => d = e
    BY DEF Diffs
  <2>5. \A s \in Measured("base", kind) \cap Measured("candidate", kind) :
          \E d \in new : d.kind = kind /\ d.scenario = s
    <3> TAKE s \in Measured("base", kind) \cap Measured("candidate", kind)
    <3>1. [kind |-> kind, scenario |-> s, base |-> base[s], candidate |-> candidate[s],
           threshold |-> ThresholdOf(kind, s)] \in new
      BY <2>2 DEF Diffs
    <3> QED BY <3>1
  <2>6. \A k, s : <<k, s>> \in absent <=>
          k = kind /\ s \in Measured("candidate", kind) \ Measured("base", kind)
    BY <2>2 DEF Missing
  <2>7. \A b, k : Measured(b, k)' = Measured(b, k)
    BY <2>1 DEF Measured
  <2> HIDE DEF new, absent, Measured, base, candidate
  <2>8. \A d \in diffs' : /\ d.kind \in Compared'
                          /\ d.scenario \in Measured("base", d.kind)'
                                              \cap Measured("candidate", d.kind)'
    BY <2>1, <2>3, <2>7 DEF DiffsInv
  <2>9. \A d, e \in diffs' : d.kind = e.kind /\ d.scenario = e.scenario => d = e
    BY <2>1, <2>3, <2>4 DEF DiffsInv
  <2>10. \A k \in Compared' :
           \A s \in Measured("base", k)' \cap Measured("candidate", k)' :
             \E d \in diffs' : d.kind = k /\ d.scenario = s
    BY <2>1, <2>5, <2>7 DEF DiffsInv
  <2>11. \A k, s : <<k, s>> \in missing' <=>
           k \in Compared' /\ s \in Measured("candidate", k)' \ Measured("base", k)'
    BY <2>1, <2>6, <2>7 DEF DiffsInv
  <2> QED BY <2>8, <2>9, <2>10, <2>11 DEF DiffsInv
<1> QED BY <1>1, <1>2

LEMMA DiffsNext == OutcomeInv /\ DiffsInv /\ [Next]_vars => DiffsInv'
<1> SUFFICES ASSUME OutcomeInv, DiffsInv, [Next]_vars PROVE DiffsInv'
  OBVIOUS
<1>0. ASSUME UNCHANGED <<files, diffs, missing, error>>, Compared' = Compared
      PROVE  DiffsInv'
  BY <1>0 DEF DiffsInv, Measured
<1>1. ASSUME error' # NoError PROVE DiffsInv'
  BY <1>1 DEF DiffsInv
<1>2. ASSUME Compared = {}, Compared' = {}, UNCHANGED <<diffs, missing>>, error = NoError
      PROVE  DiffsInv'
  BY <1>2 DEF DiffsInv
<1> USE DEF Compared, Reporting, Kinds, Branches, NoError
<1>3. CASE ReadHistory
  <2>1. error = NoError
    BY <1>3 DEF ReadHistory, OutcomeInv, LogsInv, Measuring
  <2> QED BY <1>1, <1>2, <1>3, <2>1 DEF ReadHistory, Err
<1>4. ASSUME NEW b \in Branches, NEW next \in {"base", "icount"}, RunBenchmarks(b, next)
      PROVE  DiffsInv'
  <2>1. error = NoError
    BY <1>4 DEF RunBenchmarks, OutcomeInv, LogsInv, Measuring
  <2> QED BY <1>1, <1>2, <1>4, <2>1 DEF RunBenchmarks, Err
<1>5. ASSUME NEW kind \in Kinds, NEW next,
             <<kind, next>> \in {<<"icount", "walltime">>, <<"walltime", "memory">>,
                                 <<"memory", "logs">>},
             CompareResults(kind, next)
      PROVE  DiffsInv'
  <2>1. pc = kind /\ error = NoError
    BY <1>5 DEF CompareResults, OutcomeInv, LogsInv
  <2>2. CASE pc' = next
    <3>1. kind \notin Compared /\ Compared' = Compared \cup {kind}
      BY <1>5, <2>1, <2>2
    <3> QED BY <1>5, <2>1, <3>1, DiffsCompare
  <2>3. CASE pc' # next
    BY <1>1, <1>5, <2>3 DEF CompareResults, Err
  <2> QED BY <2>2, <2>3
<1>6. CASE TaskCrashes
  BY <1>1, <1>6 DEF TaskCrashes, Err
<1>7. CASE WriteLogs
  BY <1>0, <1>1, <1>7 DEF WriteLogs, Err
<1>8. CASE StoreComparison
  BY <1>0, <1>1, <1>8 DEF StoreComparison, Err
<1>9. CASE MarkdownComment
  BY <1>0, <1>9 DEF MarkdownComment
<1>10. CASE MaybeTruncateComment
  BY <1>0, <1>10 DEF MaybeTruncateComment
<1>11. CASE UNCHANGED vars
  BY <1>0, <1>11 DEF vars
<1> QED
  BY <1>3, <1>4, <1>5, <1>6, <1>7, <1>8, <1>9, <1>10, <1>11 DEF Next, Done

(* Whatever files the branches leave, and whichever thresholds there are:  *)
(* a comment with results accounts for every scenario.                     *)
THEOREM ScenariosAccounted == Spec => []EveryScenarioAccounted
<1>1. OutcomeInv /\ DiffsInv => EveryScenarioAccounted
  <2> SUFFICES ASSUME OutcomeInv, DiffsInv, ShowsResults,
                      NEW k \in Kinds, NEW s \in Scenarios
               PROVE
        LET changed == \E d \in comment.significant : d.kind = k /\ d.scenario = s
            same == \E d \in comment.negligible : d.kind = k /\ d.scenario = s
            absent == <<k, s>> \in comment.missing
            measured(b) == s \in DOMAIN files[b][k].rows
        IN /\ changed \/ same => measured("candidate") /\ measured("base")
           /\ absent <=> measured("candidate") /\ ~measured("base")
           /\ ~(changed /\ same)
           /\ k # "memory" /\ measured("candidate") => changed \/ same \/ absent
    BY DEF EveryScenarioAccounted
  <2>1. /\ pc \in Reporting /\ error = NoError
        /\ comment.significant = {d \in diffs : ~Less(Ratio(d), d.threshold)}
        /\ comment.negligible \subseteq {d \in diffs : Less(Ratio(d), d.threshold)}
        /\ \A d \in diffs : d.kind # "memory" /\ Less(Ratio(d), d.threshold) =>
                              d \in comment.negligible
        /\ comment.missing = missing
    BY DEF OutcomeInv, CommentInv, ShowsResults
  <2>2. k \in Compared
    BY <2>1 DEF Compared
  <2> QED BY <2>1, <2>2 DEF DiffsInv, Measured
<1> QED BY <1>1, OutcomeInvariance, DiffsInit, DiffsNext, PTL DEF Spec

-----------------------------------------------------------------------------
(* The larger of a number, or NaN, and a minimum is a number, and no less. *)
LEMMA LargerOfIsUsable ==
  ASSUME NEW x, NEW y, y # NaN, ~Less(y, y)
  PROVE  LargerOf(x, y) # NaN /\ ~Less(LargerOf(x, y), y)
BY DEF LargerOf

(* Whatever the history, its zeros included, thresholds can be used.       *)
THEOREM ThresholdsUsable == Spec => []ThresholdIsUsable
<1>1. Init => ThresholdIsUsable
  BY DEF Init, ThresholdIsUsable
<1>2. ThresholdIsUsable /\ [Next]_vars => ThresholdIsUsable'
  <2> SUFFICES ASSUME ThresholdIsUsable, [Next]_vars PROVE ThresholdIsUsable'
    OBVIOUS
  <2>1. ASSUME diffs' \in {{}, diffs} PROVE ThresholdIsUsable'
    BY <2>1 DEF ThresholdIsUsable
  <2>2. ASSUME NEW kind \in Kinds, NEW next, CompareResults(kind, next)
        PROVE  ThresholdIsUsable'
    <3> DEFINE new == Diffs(kind, Results(kind, files["base"][kind]),
                            Results(kind, files["candidate"][kind]))
    <3>1. MinimumNoise[kind] # NaN /\ ~Less(MinimumNoise[kind], MinimumNoise[kind])
      BY DEF Kinds, MinimumNoise, NaN, Less
    <3>2. \A s : ThresholdOf(kind, s) # NaN /\ ~Less(ThresholdOf(kind, s), MinimumNoise[kind])
      BY <3>1, LargerOfIsUsable DEF ThresholdOf
    <3>3. \A d \in new : d.threshold # NaN /\ ~Less(d.threshold, MinimumNoise[d.kind])
      BY <3>2 DEF Diffs
    <3>4. diffs' = {} \/ diffs' = diffs \cup new
      BY <2>2 DEF CompareResults, Err
    <3> HIDE DEF new
    <3> QED BY <2>1, <3>3, <3>4 DEF ThresholdIsUsable
  <2>3. ASSUME NEW b, NEW next, RunBenchmarks(b, next) PROVE ThresholdIsUsable'
    BY <2>1, <2>3 DEF RunBenchmarks, Err
  <2>4. CASE ReadHistory
    BY <2>1, <2>4 DEF ReadHistory, Err
  <2>5. CASE TaskCrashes
    BY <2>1, <2>5 DEF TaskCrashes, Err
  <2>6. CASE WriteLogs
    BY <2>1, <2>6 DEF WriteLogs, Err
  <2>7. CASE StoreComparison
    BY <2>1, <2>7 DEF StoreComparison, Err
  <2>8. CASE MarkdownComment \/ MaybeTruncateComment
    BY <2>1, <2>8 DEF MarkdownComment, MaybeTruncateComment
  <2>9. CASE UNCHANGED vars
    BY <2>1, <2>9 DEF vars
  <2> QED
    BY <2>2, <2>3, <2>4, <2>5, <2>6, <2>7, <2>8, <2>9 DEF Next, Done, Kinds
<1> QED BY <1>1, <1>2, PTL DEF Spec
-----------------------------------------------------------------------------
(* The order of fractions whose denominators are not zero.                 *)
Fraction == Int \X (Nat \ {0})

LEMMA FractionParts ==
  ASSUME NEW x \in Fraction
  PROVE  x = <<x[1], x[2]>> /\ x[1] \in Int /\ x[2] \in Nat /\ x[2] > 0
BY DEF Fraction

LEMMA Cancel ==
  ASSUME NEW a \in Int, NEW b \in Int, NEW c \in Nat, c > 0, a * c <= b * c
  PROVE  a <= b
<1>1. b < a => b + 1 <= a
  OBVIOUS
<1>2. b + 1 <= a => (b + 1) * c <= a * c
  BY SMT
<1>3. (b + 1) * c = b * c + c
  BY SMT
<1>4. a * c \in Int /\ b * c \in Int
  OBVIOUS
<1> QED BY <1>1, <1>2, <1>3, <1>4

LEMMA Scale ==
  ASSUME NEW a \in Int, NEW b \in Int, NEW c \in Nat, a <= b
  PROVE  a * c <= b * c
BY SMT

(* What is at most a number that is at most another is at most the other.  *)
LEMMA AtMostTransitive ==
  ASSUME NEW x \in Fraction, NEW y \in Fraction, NEW z \in Fraction, ~Less(y, x), ~Less(z, y)
  PROVE  ~Less(z, x)
<1> DEFINE a == x[1]
           b == x[2]
           c == y[1]
           d == y[2]
           e == z[1]
           f == z[2]
<1>1. /\ a \in Int /\ c \in Int /\ e \in Int
      /\ b \in Nat /\ d \in Nat /\ f \in Nat /\ b > 0 /\ d > 0 /\ f > 0
  BY FractionParts
<1>2. a * d <= c * b /\ c * f <= e * d
  BY <1>1 DEF Less
<1>3. a * f <= e * b => ~Less(z, x)
  BY <1>1 DEF Less
<1> HIDE DEF a, b, c, d, e, f
<1>4. (a * d) * f <= (c * b) * f /\ (c * f) * b <= (e * d) * b
  BY <1>1, <1>2, Scale
<1>5. /\ (a * d) * f = (a * f) * d /\ (c * b) * f = (c * f) * b
      /\ (e * d) * b = (e * b) * d
  BY <1>1
<1>6. (a * f) * d <= (e * b) * d
  BY <1>1, <1>4, <1>5
<1>7. a * f <= e * b
  BY <1>1, <1>6, Cancel
<1> QED BY <1>3, <1>7

LEMMA LessAsymmetric ==
  ASSUME NEW x \in Fraction, NEW y \in Fraction
  PROVE  ~Less(x, x) /\ (Less(x, y) => ~Less(y, x))
BY FractionParts DEF Less

-----------------------------------------------------------------------------
(* The element at a place once a sequence is sorted.                       *)
LEMMA SmallestNumber ==
  ASSUME NEW S \in SUBSET Nat, S # {}
  PROVE  \E n \in S : \A m \in S : n <= m
<1>1. \E n \in S : \A m \in S : <<m, n>> \notin OpToRel(<, Nat)
  BY WFMin, NatLessThanWellFounded
<1>2. OpToRel(<, Nat) = {pair \in Nat \X Nat : pair[1] < pair[2]}
  BY Zenon DEF OpToRel
<1>3. PICK below : below = OpToRel(<, Nat)
  OBVIOUS
<1>4. PICK n \in S : \A m \in S : <<m, n>> \notin below
  BY <1>1, <1>3
<1>5. \A m \in S : m \in Nat /\ n \in Nat /\ ~(m < n)
  BY <1>2, <1>3, <1>4
<1> QED BY <1>5

Below(s, x) == {j \in DOMAIN s : Less(s[j], x)}
UpTo(s, x)  == {j \in DOMAIN s : ~Less(x, s[j])}

LEMMA Counts ==
  ASSUME NEW n \in Nat, NEW s \in [1 .. n -> Fraction], NEW x
  PROVE  /\ IsFiniteSet(Below(s, x)) /\ Cardinality(Below(s, x)) \in Nat
         /\ IsFiniteSet(UpTo(s, x)) /\ Cardinality(UpTo(s, x)) \in 0 .. n
<1>1. IsFiniteSet(1 .. n) /\ Cardinality(1 .. n) = n
  BY FS_Interval
<1>2. Below(s, x) \subseteq 1 .. n /\ UpTo(s, x) \subseteq 1 .. n
  BY DEF Below, UpTo
<1> QED BY <1>1, <1>2, FS_Subset, FS_CardinalityType

(* Of some elements one is the greatest.                                   *)
LEMMA Greatest ==
  ASSUME NEW n \in Nat, NEW s \in [1 .. n -> Fraction], NEW S \in SUBSET (1 .. n), S # {}
  PROVE  \E m \in S : S \subseteq UpTo(s, s[m])
<1> DEFINE rest(k) == n - Cardinality(UpTo(s, s[k]))
<1>1. \A k \in S : Cardinality(UpTo(s, s[k])) \in 0 .. n
  BY Counts
<1>2. \A k \in S : rest(k) \in Nat
  BY <1>1
<1>3. PICK m \in S : \A k \in S : rest(m) <= rest(k)
  <2>1. PICK rests : rests = {rest(k) : k \in S}
    OBVIOUS
  <2>2. rests \in SUBSET Nat /\ rests # {}
    BY <1>2, <2>1
  <2>3. PICK r \in rests : \A q \in rests : r <= q
    BY <2>2, SmallestNumber
  <2> QED BY <2>1, <2>3
<1>4. ASSUME NEW k \in S, k \notin UpTo(s, s[m]) PROVE FALSE
  <2>1. Less(s[m], s[k]) /\ s[m] \in Fraction /\ s[k] \in Fraction
    BY <1>4 DEF UpTo
  <2>2. UpTo(s, s[m]) \subseteq UpTo(s, s[k])
    BY <2>1, LessAsymmetric, AtMostTransitive DEF UpTo
  <2>3. k \in UpTo(s, s[k])
    BY <2>1, LessAsymmetric DEF UpTo
  <2>4. UpTo(s, s[m]) # UpTo(s, s[k])
    BY <1>4, <2>3
  <2>5. Cardinality(UpTo(s, s[m])) < Cardinality(UpTo(s, s[k]))
    BY <2>2, <2>4, Counts, FS_Subset, FS_CardinalityType
  <2>6. rest(m) <= rest(k)
    BY <1>3
  <2> QED BY <1>1, <2>5, <2>6
<1> QED BY <1>4

LEMMA GreatestBelow ==
  ASSUME NEW n \in Nat, NEW s \in [1 .. n -> Fraction], NEW x, Below(s, x) # {}
  PROVE  \E m \in Below(s, x) : Below(s, x) \subseteq UpTo(s, s[m])
<1>1. PICK lower : lower = Below(s, x)
  OBVIOUS
<1>2. lower \in SUBSET (1 .. n) /\ lower # {}
  BY <1>1 DEF Below
<1>3. PICK m \in lower : lower \subseteq UpTo(s, s[m])
  BY <1>2, Greatest
<1> QED BY <1>1, <1>3

(* At every place there is an element: no more than i are less, and more   *)
(* than i are no greater.                                                  *)
LEMMA RankedIs ==
  ASSUME NEW n \in Nat, NEW s \in [1 .. n -> Fraction], NEW i \in Nat, i < n
  PROVE  \E j \in 1 .. n :
           /\ Ranked(s, i) = s[j]
           /\ Cardinality(Below(s, s[j])) <= i
           /\ i < Cardinality(UpTo(s, s[j]))
<1> DEFINE enough == {j \in 1 .. n : i < Cardinality(UpTo(s, s[j]))}
           count(j) == Cardinality(UpTo(s, s[j]))
<1>0. \A j \in 1 .. n : count(j) \in Nat /\ s[j] \in Fraction
  BY Counts
<1>1. enough # {}
  <2>1. 1 \in 1 .. n
    OBVIOUS
  <2>2. PICK m \in 1 .. n : 1 .. n \subseteq UpTo(s, s[m])
    <3>1. PICK all : all = 1 .. n
      OBVIOUS
    <3>2. all \in SUBSET (1 .. n) /\ all # {}
      BY <2>1, <3>1
    <3>3. PICK m \in all : all \subseteq UpTo(s, s[m])
      BY <3>2, Greatest
    <3> QED BY <3>1, <3>3
  <2>3. UpTo(s, s[m]) = 1 .. n
    BY <2>2 DEF UpTo
  <2>4. Cardinality(UpTo(s, s[m])) = n
    BY <2>3, FS_Interval
  <2> QED BY <2>4
<1>2. PICK j \in enough : \A k \in enough : count(j) <= count(k)
  <2>1. PICK counts : counts = {count(k) : k \in enough}
    OBVIOUS
  <2>2. counts \in SUBSET Nat /\ counts # {}
    BY <1>0, <1>1, <2>1
  <2>3. PICK c \in counts : \A q \in counts : c <= q
    BY <2>2, SmallestNumber
  <2> QED BY <2>1, <2>3
<1>3. Cardinality(Below(s, s[j])) <= i
  <2>1. CASE Below(s, s[j]) = {}
    BY <2>1, FS_EmptySet
  <2>2. CASE Below(s, s[j]) # {}
    <3>1. PICK m \in Below(s, s[j]) : Below(s, s[j]) \subseteq UpTo(s, s[m])
      BY <2>2, GreatestBelow
    <3>2. m \in 1 .. n /\ Less(s[m], s[j]) /\ s[m] \in Fraction /\ s[j] \in Fraction
      BY <1>0, <3>1 DEF Below
    <3>3. UpTo(s, s[m]) \subseteq UpTo(s, s[j])
      BY <1>0, <3>2, LessAsymmetric, AtMostTransitive DEF UpTo
    <3>4. j \in UpTo(s, s[j]) /\ j \notin UpTo(s, s[m])
      BY <3>2, LessAsymmetric DEF UpTo
    <3>5. count(m) < count(j)
      BY <3>3, <3>4, Counts, FS_Subset, FS_CardinalityType
    <3>6. count(m) <= i
      BY <1>0, <1>2, <3>2, <3>5
    <3>7. Cardinality(Below(s, s[j])) <= count(m)
      BY <3>1, Counts, FS_Subset
    <3>8. count(m) \in Nat /\ Cardinality(Below(s, s[j])) \in Nat
      BY <1>0, <3>2, Counts
    <3> HIDE DEF count
    <3> QED BY <3>6, <3>7, <3>8
  <2> QED BY <2>1, <2>2
<1> DEFINE IsRanked(x) == /\ Cardinality(Below(s, x)) <= i
                          /\ i < Cardinality(UpTo(s, x))
           place == CHOOSE k \in DOMAIN s : IsRanked(s[k])
<1>4. place \in DOMAIN s /\ IsRanked(s[place])
  <2>1. j \in DOMAIN s /\ IsRanked(s[j])
    BY <1>2, <1>3
  <2> HIDE DEF IsRanked
  <2> QED BY <2>1
<1>5. Ranked(s, i) = s[place]
  BY DEF Ranked, Below, UpTo
<1> HIDE DEF place
<1> QED BY <1>4, <1>5

(* An element at a later place is no less.                                 *)
LEMMA RankedMonotonic ==
  ASSUME NEW n \in Nat, NEW s \in [1 .. n -> Fraction], NEW x \in Fraction, NEW y \in Fraction,
         NEW i \in Nat, NEW j \in Nat, i <= j,
         Cardinality(Below(s, x)) <= i, j < Cardinality(UpTo(s, y))
  PROVE  ~Less(y, x)
<1> SUFFICES ASSUME Less(y, x) PROVE FALSE
  OBVIOUS
<1>1. UpTo(s, y) \subseteq Below(s, x)
  <2> SUFFICES ASSUME NEW k \in UpTo(s, y), ~Less(s[k], x) PROVE FALSE
    BY DEF UpTo, Below
  <2>1. s[k] \in Fraction /\ ~Less(y, s[k])
    BY DEF UpTo
  <2>2. ~Less(y, x)
    BY <2>1, AtMostTransitive
  <2> QED BY <2>2
<1>2. Cardinality(UpTo(s, y)) <= Cardinality(Below(s, x))
  BY <1>1, Counts, FS_Subset
<1> QED BY <1>2, Counts

-----------------------------------------------------------------------------
(* The thresholds of a history without zeros.                              *)
LEMMA ChangeIsFraction ==
  ASSUME NEW from \in Nat, NEW to \in Nat
  PROVE  /\ Change(from, to)[1] \in Nat /\ Change(from, to)[2] = from
         /\ from # 0 => Change(from, to) \in Fraction
BY DEF Change, Fraction

LEMMA ChangesAreFractions ==
  ASSUME NEW results \in Row, Len(results) >= MinResults, \A i \in DOMAIN results : results[i] # 0
  PROVE  /\ Len(HistoricChanges(results)) = Len(results) - 1
         /\ Len(HistoricChanges(results)) \in Nat /\ Len(HistoricChanges(results)) >= 9
         /\ HistoricChanges(results) \in [1 .. Len(HistoricChanges(results)) -> Fraction]
         /\ \A i \in DOMAIN HistoricChanges(results) : HistoricChanges(results)[i][1] \in Nat
<1> DEFINE n == Len(results) - 1
<1>1. n \in Nat /\ n >= 9 /\ \A i \in 1 .. n + 1 : results[i] \in Nat /\ results[i] # 0
  BY DEF Row, MinResults
<1>2. \A i \in 1 .. n : results[i] \in Nat /\ results[i + 1] \in Nat /\ results[i] # 0
  BY <1>1
<1>3. \A i \in 1 .. n : /\ Change(results[i], results[i + 1]) \in Fraction
                        /\ Change(results[i], results[i + 1])[1] \in Nat
  BY <1>2, ChangeIsFraction
<1>4. HistoricChanges(results) = [i \in 1 .. n |-> Change(results[i], results[i + 1])]
  BY DEF HistoricChanges
<1> HIDE DEF n
<1>5. Len(HistoricChanges(results)) = n
  BY <1>1, <1>4
<1> QED BY <1>1, <1>3, <1>4, <1>5 DEF n

(* The fence is between the third quartile and four times that.            *)
LEMMA FenceBounds ==
  ASSUME NEW q1 \in Fraction, NEW q3 \in Fraction, ~Less(q3, q1), q1[1] \in Nat
  PROVE  /\ Fence(q1, q3) \in Fraction
         /\ ~Less(Fence(q1, q3), q3)
         /\ ~Less(<<4 * q3[1], q3[2]>>, Fence(q1, q3))
<1> DEFINE a == q1[1]
           b == q1[2]
           c == q3[1]
           d == q3[2]
           top == 4 * (c * b) - 3 * (a * d)
<1>1. a \in Nat /\ b \in Nat /\ b > 0 /\ c \in Int /\ d \in Nat /\ d > 0
  BY FractionParts
<1>2. a * d <= c * b
  BY <1>1 DEF Less
<1>3. Fence(q1, q3) = <<4 * c * b - 3 * a * d, b * d>>
  BY DEF Fence
<1> HIDE DEF a, b, c, d
<1>4. 4 * c * b - 3 * a * d = top
  <2>1. 4 * c * b = 4 * (c * b) /\ 3 * a * d = 3 * (a * d)
    BY <1>1
  <2> QED BY <2>1
<1>5. a * d \in Nat /\ c * b \in Int /\ b * d \in Nat
  BY <1>1
<1>6. b * d > 0
  BY <1>1
<1>7. top \in Int /\ c * b <= top /\ top <= 4 * (c * b)
  BY <1>2, <1>5
<1>8. Fence(q1, q3) = <<top, b * d>>
  BY <1>3, <1>4
<1> HIDE DEF top
<1>9. Fence(q1, q3) \in Fraction
  BY <1>5, <1>6, <1>7, <1>8 DEF Fraction
<1>10. (c * b) * d <= top * d /\ top * d <= (4 * (c * b)) * d
  BY <1>1, <1>5, <1>7, Scale
<1>11. (c * b) * d = c * (b * d) /\ (4 * (c * b)) * d = (4 * c) * (b * d)
  BY <1>1
<1>12. c * (b * d) <= top * d /\ top * d <= (4 * c) * (b * d)
  BY <1>10, <1>11
<1>13. /\ c * (b * d) \in Int /\ top * d \in Int /\ (4 * c) * (b * d) \in Int
  BY <1>1, <1>5, <1>7
<1>14. Less(Fence(q1, q3), q3) <=> top * d < c * (b * d)
  BY <1>8 DEF Less, c, d
<1>15. Less(<<4 * q3[1], q3[2]>>, Fence(q1, q3)) <=> (4 * c) * (b * d) < top * d
  BY <1>8 DEF Less, c, d
<1> QED BY <1>9, <1>12, <1>13, <1>14, <1>15

(* Three quarters of the changes are no greater than a threshold, which is *)
(* no greater than four times the greatest of them.                        *)
LEMMA ThresholdBounds ==
  ASSUME NEW results \in Row, Len(results) >= MinResults,
         \A i \in DOMAIN results : results[i] # 0,
         NEW t \in SignificanceThresholds(results)
  PROVE  LET changes == HistoricChanges(results)
         IN /\ t \in Fraction
            /\ \E m \in DOMAIN changes :
                 /\ ~Less(t, changes[m])
                 /\ ~Less(<<4 * changes[m][1], changes[m][2]>>, t)
                 /\ 4 * Cardinality(UpTo(changes, changes[m])) >= 3 * Len(changes)
<1> DEFINE changes == HistoricChanges(results)
           n == Len(changes)
<1>1. /\ n \in Nat /\ n >= 9 /\ changes \in [1 .. n -> Fraction]
      /\ \A i \in DOMAIN changes : changes[i][1] \in Nat
  BY ChangesAreFractions
<1>2. \A i \in DOMAIN changes : changes[i] # NaN
  BY <1>1, FractionParts DEF NaN
<1>3. t = Fence(Ranked(changes, n \div 4), Ranked(changes, (3 * n) \div 4))
  <2>1. ~(Len(results) < MinResults)
    BY DEF Row, MinResults
  <2> QED BY <1>2, <2>1 DEF SignificanceThresholds
<1> HIDE DEF changes, n
<1>4. /\ n \div 4 \in Nat /\ (3 * n) \div 4 \in Nat /\ n \div 4 < n /\ (3 * n) \div 4 < n
      /\ n \div 4 <= (3 * n) \div 4
  BY <1>1
<1>5. PICK j \in 1 .. n : /\ Ranked(changes, n \div 4) = changes[j]
                          /\ Cardinality(Below(changes, changes[j])) <= n \div 4
  BY <1>1, <1>4, RankedIs
<1>6. PICK m \in 1 .. n : /\ Ranked(changes, (3 * n) \div 4) = changes[m]
                          /\ (3 * n) \div 4 < Cardinality(UpTo(changes, changes[m]))
  BY <1>1, <1>4, RankedIs
<1>7. changes[j] \in Fraction /\ changes[m] \in Fraction /\ changes[j][1] \in Nat
  BY <1>1
<1>8. ~Less(changes[m], changes[j])
  BY <1>1, <1>4, <1>5, <1>6, <1>7, RankedMonotonic
<1>9. /\ t \in Fraction /\ ~Less(t, changes[m])
      /\ ~Less(<<4 * changes[m][1], changes[m][2]>>, t)
  BY <1>3, <1>5, <1>6, <1>7, <1>8, FenceBounds
<1>10. 4 * Cardinality(UpTo(changes, changes[m])) >= 3 * n
  <2>1. PICK up : up = Cardinality(UpTo(changes, changes[m]))
    OBVIOUS
  <2>2. up \in Nat
    BY <1>1, <2>1, Counts
  <2>3. 4 * up >= 3 * n
    BY <1>1, <1>6, <2>1, <2>2
  <2> QED BY <2>1, <2>3
<1>11. m \in DOMAIN changes
  BY <1>1
<1> QED BY <1>9, <1>10, <1>11 DEF changes, n

(* A ratio, which is not a number if the baseline is zero, is no less than *)
(* what a ratio or fraction it is no less than is no less than.            *)
LEMMA RatioTransitive ==
  ASSUME NEW base \in Nat, NEW candidate \in Nat, NEW x \in Fraction, NEW y \in Fraction,
         ~Less(Change(base, candidate), x), ~Less(x, y)
  PROVE  ~Less(Change(base, candidate), y)
<1> DEFINE r == Change(base, candidate)
<1>1. CASE base = 0
  <2>1. r[1] \in Nat /\ r[2] = 0
    BY <1>1, ChangeIsFraction
  <2>2. y[1] \in Int /\ y[2] \in Nat
    BY FractionParts
  <2> HIDE DEF r
  <2>3. r[1] * y[2] >= 0 /\ y[1] * r[2] = 0
    BY <2>1, <2>2
  <2> QED BY <2>1, <2>2, <2>3 DEF Less, r
<1>2. CASE base # 0
  BY <1>2, ChangeIsFraction, AtMostTransitive
<1> QED BY <1>1, <1>2

-----------------------------------------------------------------------------
(* What the result files yield.                                            *)
FileTyped(file) ==
  /\ \A s \in DOMAIN file.rows : file.rows[s] \in Row
  /\ ~file.present => DOMAIN file.rows = {}

LEMMA ValueTyped ==
  ASSUME NEW kind \in Kinds, NEW row \in Row, WellFormed(kind, row)
  PROVE  Value(kind, row) \in Nat
<1>1. Len(row) \in Nat /\ Len(row) >= 1 /\ \A i \in 1 .. Len(row) : row[i] \in Nat
  <2>1. Len(row) \in Nat /\ \A i \in 1 .. Len(row) : row[i] \in Nat
    BY DEF Row
  <2>2. Len(row) >= 1
    BY <2>1 DEF WellFormed
  <2> QED BY <2>1, <2>2
<1>2. CASE kind = "walltime"
  <2> DEFINE n == Len(row)
             measured == [i \in 1 .. n |-> <<row[i], 1>>]
  <2>1. measured \in [1 .. n -> Fraction]
    BY <1>1 DEF Fraction
  <2>2. n \in Nat /\ n \div 2 \in Nat /\ n \div 2 < n
    BY <1>1
  <2>3. Median(row) = Ranked(measured, n \div 2)[1]
    <3>1. DOMAIN row = 1 .. n
      BY DEF Row
    <3> QED BY <3>1 DEF Median
  <2> HIDE DEF measured, n
  <2>4. PICK j \in 1 .. n : Ranked(measured, n \div 2) = measured[j]
    BY <2>1, <2>2, RankedIs
  <2>5. Ranked(measured, n \div 2)[1] = row[j] /\ row[j] \in Nat
    BY <1>1, <2>4 DEF measured, n
  <2> QED BY <1>2, <2>3, <2>5 DEF Value
<1>3. CASE kind # "walltime"
  BY <1>1, <1>3 DEF Value
<1> QED BY <1>2, <1>3

LEMMA ResultsTyped ==
  ASSUME NEW kind \in Kinds, NEW file, FileTyped(file), Readable(kind, file)
  PROVE  \A s \in DOMAIN Results(kind, file) : Results(kind, file)[s] \in Nat
<1> SUFFICES ASSUME NEW s \in DOMAIN file.rows PROVE Value(kind, file.rows[s]) \in Nat
  BY DEF Results
<1>1. file.rows[s] \in Row /\ WellFormed(kind, file.rows[s])
  BY DEF FileTyped, Readable
<1> QED BY <1>1, ValueTyped

-----------------------------------------------------------------------------
(* The thresholds are those of the history that was read, and those of the *)
(* differences are theirs.                                                 *)
HistoryInv ==
  /\ \A b \in Branches, k \in Kinds : FileTyped(files[b][k])
  /\ pc = "history" => diffs = {}
  /\ pc # "history" /\ error = NoError =>
       \A k \in Kinds, s \in Scenarios :
         thresholds[k][s] \in SignificanceThresholds(history[k][s])
  /\ \A d \in diffs : /\ d.base \in Nat /\ d.candidate \in Nat
                      /\ d.threshold = ThresholdOf(d.kind, d.scenario)

LEMMA HistoryInit == Init => HistoryInv
<1> SUFFICES ASSUME Init PROVE HistoryInv
  OBVIOUS
<1>1. FileTyped(NoFile)
  BY DEF FileTyped, NoFile
<1>2. \A b \in Branches, k \in Kinds : files[b][k] = NoFile
  BY DEF Init
<1>3. pc = "history" /\ diffs = {}
  BY DEF Init
<1> QED BY <1>1, <1>2, <1>3 DEF HistoryInv

LEMMA HistoryNext == TypeInv /\ HistoryInv /\ [Next]_vars => HistoryInv'
<1> SUFFICES ASSUME TypeInv, HistoryInv, [Next]_vars PROVE HistoryInv'
  OBVIOUS
<1>0. ASSUME UNCHANGED <<history, thresholds>>, pc # "history", pc' # "history",
             error' = NoError => error = NoError,
             \A b \in Branches, k \in Kinds : FileTyped(files'[b][k]),
             diffs' \in {{}, diffs}
      PROVE  HistoryInv'
  <2>1. \A k, s : ThresholdOf(k, s)' = ThresholdOf(k, s)
    BY <1>0 DEF ThresholdOf
  <2> QED BY <1>0, <2>1 DEF HistoryInv
<1>s. UNCHANGED files => \A b \in Branches, k \in Kinds : FileTyped(files'[b][k])
  BY DEF HistoryInv
<1>1. CASE ReadHistory
  <2>1. pc = "history" /\ pc' # "history" /\ diffs = {} /\ diffs' = {} /\ UNCHANGED <<history, files>>
    BY <1>1 DEF ReadHistory, Err, HistoryInv
  <2>2. ASSUME error' = NoError, NEW k \in Kinds, NEW s \in Scenarios
        PROVE  thresholds'[k][s] \in SignificanceThresholds(history[k][s])
    <3> DEFINE Choices(kind) ==
          {f \in [Scenarios -> UNION {SignificanceThresholds(history[kind][r]) : r \in Scenarios}] :
            \A r \in Scenarios : f[r] \in SignificanceThresholds(history[kind][r])}
    <3>1. \E i \in Choices("icount"), w \in Choices("walltime"), m \in Choices("memory") :
            thresholds' = [icount |-> i, walltime |-> w, memory |-> m]
      BY <1>1, <2>2, Zenon DEF ReadHistory, Err, NoError
    <3>2. \A kind : \A f \in Choices(kind) : f[s] \in SignificanceThresholds(history[kind][s])
      OBVIOUS
    <3> HIDE DEF Choices
    <3>3. PICK i \in Choices("icount"), w \in Choices("walltime"), m \in Choices("memory") :
            thresholds' = [icount |-> i, walltime |-> w, memory |-> m]
      BY <3>1
    <3>4. thresholds'[k] \in Choices(k)
      BY <3>3 DEF Kinds
    <3> QED BY <3>2, <3>4
  <2>3. \A b \in Branches, k \in Kinds : FileTyped(files'[b][k])
    BY <1>s, <2>1
  <2> QED BY <2>1, <2>2, <2>3 DEF HistoryInv
<1>2. ASSUME NEW b \in Branches, NEW next \in {"base", "icount"}, RunBenchmarks(b, next)
      PROVE  HistoryInv'
  <2>1. \A c \in Branches, k \in Kinds : FileTyped(files'[c][k])
    <3>1. CASE UNCHANGED files
      BY <1>s, <3>1
    <3>2. ASSUME NEW output \in Outputs[b], files' = [files EXCEPT ![b] = output],
                 NEW c \in Branches, NEW k \in Kinds
          PROVE  FileTyped(files'[c][k])
      <4>1. FileTyped(output[k])
        BY <3>2, ReportAssumption DEF FileTyped
      <4>2. DOMAIN files = Branches
        BY DEF TypeInv
      <4>3. files'[c] = IF c = b THEN output ELSE files[c]
        BY <3>2, <4>2
      <4>4. FileTyped(files[c][k])
        BY DEF HistoryInv
      <4> QED BY <4>1, <4>3, <4>4
    <3> QED BY <1>2, <3>1, <3>2 DEF RunBenchmarks
  <2>2. /\ UNCHANGED <<history, thresholds>> /\ pc # "history" /\ pc' # "history"
        /\ error' = NoError => error = NoError
        /\ diffs' \in {{}, diffs}
    BY <1>2 DEF RunBenchmarks, Err, Branches, NoError
  <2> QED BY <1>0, <2>1, <2>2
<1>3. ASSUME NEW kind \in Kinds, NEW next \in {"walltime", "memory", "logs"},
             CompareResults(kind, next)
      PROVE  HistoryInv'
  <2>1. /\ UNCHANGED <<history, thresholds, files>> /\ pc # "history" /\ pc' # "history"
        /\ error' = NoError => error = NoError
    BY <1>3 DEF CompareResults, Err, Kinds, NoError
  <2>2. CASE diffs' = {}
    BY <1>0, <1>s, <2>1, <2>2
  <2>3. CASE diffs' # {}
    <3> DEFINE base == Results(kind, files["base"][kind])
               candidate == Results(kind, files["candidate"][kind])
               new == Diffs(kind, base, candidate)
    <3>1. /\ \A b \in Branches : Readable(kind, files[b][kind])
          /\ diffs' = diffs \cup new
      BY <1>3, <2>3 DEF CompareResults, Err
    <3>2. /\ \A s \in DOMAIN base : base[s] \in Nat
          /\ \A s \in DOMAIN candidate : candidate[s] \in Nat
      <4>1. /\ FileTyped(files["base"][kind]) /\ Readable(kind, files["base"][kind])
            /\ FileTyped(files["candidate"][kind]) /\ Readable(kind, files["candidate"][kind])
        BY <3>1 DEF HistoryInv, Branches
      <4> QED BY <4>1, ResultsTyped
    <3>3. \A d \in new : /\ d.base \in Nat /\ d.candidate \in Nat
                         /\ d.threshold = ThresholdOf(d.kind, d.scenario)
      <4> HIDE DEF base, candidate
      <4> QED BY <3>2 DEF Diffs
    <3>4. \A k, s : ThresholdOf(k, s)' = ThresholdOf(k, s)
      BY <2>1 DEF ThresholdOf
    <3> HIDE DEF new
    <3>5. \A d \in diffs' : /\ d.base \in Nat /\ d.candidate \in Nat
                            /\ d.threshold = ThresholdOf(d.kind, d.scenario)'
      BY <3>1, <3>3, <3>4 DEF HistoryInv
    <3> QED BY <1>s, <2>1, <3>5 DEF HistoryInv
  <2> QED BY <2>2, <2>3
<1>4. CASE TaskCrashes
  <2>1. /\ UNCHANGED <<history, thresholds, files>> /\ pc # "history" /\ pc' # "history"
        /\ error' # NoError /\ diffs' = {}
    BY <1>4 DEF TaskCrashes, Err, Branches, Kinds, NoError
  <2> QED BY <1>0, <1>s, <2>1
<1>5. CASE WriteLogs \/ StoreComparison
  <2>1. /\ UNCHANGED <<history, thresholds, files>> /\ pc # "history" /\ pc' # "history"
        /\ error' = NoError => error = NoError
        /\ diffs' \in {{}, diffs}
    BY <1>5 DEF WriteLogs, StoreComparison, Err, NoError
  <2> QED BY <1>0, <1>s, <2>1
<1>6. CASE MarkdownComment \/ MaybeTruncateComment
  <2>1. /\ UNCHANGED <<history, thresholds, files, error, diffs>>
        /\ pc # "history" /\ pc' # "history"
    BY <1>6 DEF MarkdownComment, MaybeTruncateComment
  <2> QED BY <1>0, <1>s, <2>1
<1>7. CASE UNCHANGED vars
  <2>1. UNCHANGED <<pc, history, thresholds, files, error, diffs>>
    BY <1>7 DEF vars
  <2>2. CASE pc = "history"
    BY <1>s, <2>1, <2>2 DEF HistoryInv
  <2>3. CASE pc # "history"
    BY <1>0, <1>s, <2>1, <2>3
  <2> QED BY <2>2, <2>3
<1> QED
  BY <1>1, <1>2, <1>3, <1>4, <1>5, <1>6, <1>7 DEF Next, Done, Branches, Kinds

(* The larger of two is no less than either, and is one of them.           *)
LEMMA LargerOfFractions ==
  ASSUME NEW x \in Fraction, NEW y \in Fraction
  PROVE  /\ LargerOf(x, y) \in {x, y}
         /\ ~Less(LargerOf(x, y), x) /\ ~Less(LargerOf(x, y), y)
<1>1. x # NaN
  BY FractionParts DEF NaN
<1>2. LargerOf(x, y) = IF Less(x, y) THEN y ELSE x
  BY <1>1 DEF LargerOf
<1> QED BY <1>2, LessAsymmetric

(* What is said of one difference of a comment.                            *)
LEMMA DiffDecided ==
  ASSUME TypeInv, HistoryInv, pc # "history", error = NoError, NEW d \in diffs,
         LET results == history[d.kind][d.scenario]
         IN Len(results) >= MinResults /\ (\A i \in DOMAIN results : results[i] # 0)
  PROVE  LET changes == HistoricChanges(history[d.kind][d.scenario])
             below == {i \in DOMAIN changes : ~Less(Ratio(d), changes[i])}
             fourfold == \A i \in DOMAIN changes :
                           ~Less(Ratio(d), <<4 * changes[i][1], changes[i][2]>>)
         IN /\ ~Less(Ratio(d), d.threshold) => 4 * Cardinality(below) >= 3 * Len(changes)
            /\ fourfold /\ ~Less(Ratio(d), MinimumNoise[d.kind]) => ~Less(Ratio(d), d.threshold)
<1> DEFINE results == history[d.kind][d.scenario]
           changes == HistoricChanges(results)
           n == Len(changes)
           t == thresholds[d.kind][d.scenario]
           noise == MinimumNoise[d.kind]
           below == {i \in DOMAIN changes : ~Less(Ratio(d), changes[i])}
<1>1. d.kind \in Kinds /\ d.scenario \in Scenarios /\ history \in Histories
  BY DEF TypeInv, TypeOK
<1>2. results \in Row
  BY <1>1, ReportAssumption
<1>3. /\ d.base \in Nat /\ d.candidate \in Nat
      /\ d.threshold = ThresholdOf(d.kind, d.scenario)
      /\ t \in SignificanceThresholds(results)
  BY <1>1 DEF HistoryInv
<1>4. Ratio(d) = Change(d.base, d.candidate)
  BY DEF Ratio
<1>5. n \in Nat /\ changes \in [1 .. n -> Fraction]
  BY <1>2, ChangesAreFractions
<1>6. t \in Fraction
  BY <1>2, <1>3, ThresholdBounds
<1>7. PICK m \in DOMAIN changes :
        /\ ~Less(t, changes[m])
        /\ ~Less(<<4 * changes[m][1], changes[m][2]>>, t)
        /\ 4 * Cardinality(UpTo(changes, changes[m])) >= 3 * n
  BY <1>2, <1>3, ThresholdBounds
<1>8. noise \in Fraction
  BY <1>1 DEF Kinds, MinimumNoise, Fraction
<1>9. d.threshold = LargerOf(t, noise)
  <2>1. t # None
    <3>1. Len(t) = 2
      BY <1>6 DEF Fraction
    <3> QED BY <3>1 DEF None
  <2> QED BY <1>3, <2>1 DEF ThresholdOf
<1> HIDE DEF results, changes, n, t, noise
<1>10. /\ d.threshold \in Fraction /\ d.threshold \in {t, noise} /\ ~Less(d.threshold, t)
  BY <1>6, <1>8, <1>9, LargerOfFractions
<1>11. changes[m] \in Fraction /\ DOMAIN changes = 1 .. n /\ m \in 1 .. n
  BY <1>5, <1>7
<1>12. ASSUME ~Less(Ratio(d), d.threshold) PROVE 4 * Cardinality(below) >= 3 * n
  <2>1. ~Less(Ratio(d), changes[m])
    BY <1>3, <1>4, <1>6, <1>7, <1>10, <1>11, <1>12, RatioTransitive
  <2>2. UpTo(changes, changes[m]) \subseteq below
    <3> SUFFICES ASSUME NEW k \in UpTo(changes, changes[m]) PROVE k \in below
      OBVIOUS
    <3>1. k \in DOMAIN changes /\ changes[k] \in Fraction /\ ~Less(changes[m], changes[k])
      BY <1>5, <1>11 DEF UpTo
    <3>2. ~Less(Ratio(d), changes[k])
      BY <1>3, <1>4, <1>11, <2>1, <3>1, RatioTransitive
    <3> QED BY <3>1, <3>2
  <2>3. IsFiniteSet(below)
    <3>1. below \subseteq 1 .. n /\ IsFiniteSet(1 .. n)
      BY <1>5, <1>11, FS_Interval
    <3> QED BY <3>1, FS_Subset
  <2> HIDE DEF below
  <2>4. Cardinality(UpTo(changes, changes[m])) <= Cardinality(below)
    BY <2>2, <2>3, FS_Subset
  <2>5. PICK few, many : /\ few = Cardinality(UpTo(changes, changes[m]))
                         /\ many = Cardinality(below)
    OBVIOUS
  <2>6. few \in Nat /\ many \in Nat
    BY <1>5, <2>3, <2>5, Counts, FS_CardinalityType
  <2>7. 4 * many >= 3 * n
    BY <1>5, <1>7, <2>4, <2>5, <2>6
  <2> QED BY <2>5, <2>7
<1>13. ASSUME \A i \in DOMAIN changes :
                ~Less(Ratio(d), <<4 * changes[i][1], changes[i][2]>>),
              ~Less(Ratio(d), noise)
       PROVE  ~Less(Ratio(d), d.threshold)
  <2>1. <<4 * changes[m][1], changes[m][2]>> \in Fraction
    BY <1>11, FractionParts DEF Fraction
  <2>2. ~Less(Ratio(d), <<4 * changes[m][1], changes[m][2]>>)
    BY <1>7, <1>13
  <2>3. ~Less(Ratio(d), t)
    BY <1>3, <1>4, <1>6, <1>7, <2>1, <2>2, RatioTransitive
  <2> QED BY <1>10, <1>13, <2>3
<1> QED BY <1>12, <1>13 DEF results, changes, n, noise

(* Whatever the history, when it has no zeros: what is significant exceeds *)
(* three quarters of its changes, and four times all of them is.           *)
THEOREM HistoryHasItsSay == Spec => []HistoryDecides
<1>1. TypeInv /\ OutcomeInv /\ HistoryInv => HistoryDecides
  <2> SUFFICES ASSUME TypeInv, OutcomeInv, HistoryInv, ShowsResults,
                      NEW d \in comment.significant \cup comment.negligible
               PROVE
        LET results == history[d.kind][d.scenario]
            changes == HistoricChanges(results)
            below == {i \in DOMAIN changes : ~Less(Ratio(d), changes[i])}
            fourfold == \A i \in DOMAIN changes :
                          ~Less(Ratio(d), <<4 * changes[i][1], changes[i][2]>>)
        IN Len(results) >= MinResults /\ (\A i \in DOMAIN results : results[i] # 0) =>
             /\ d \in comment.significant => 4 * Cardinality(below) >= 3 * Len(changes)
             /\ fourfold /\ ~Less(Ratio(d), MinimumNoise[d.kind]) => d \in comment.significant
    BY DEF HistoryDecides
  <2>1. /\ pc # "history" /\ error = NoError
        /\ comment.significant = {e \in diffs : ~Less(Ratio(e), e.threshold)}
        /\ comment.negligible \subseteq {e \in diffs : Less(Ratio(e), e.threshold)}
    BY DEF OutcomeInv, CommentInv, ShowsResults, Reporting
  <2>2. d \in diffs /\ (d \in comment.significant <=> ~Less(Ratio(d), d.threshold))
    BY <2>1
  <2> QED BY <2>1, <2>2, DiffDecided
<1> QED BY <1>1, TypeInit, TypeNext, OutcomeInvariance, HistoryInit, HistoryNext, PTL DEF Spec
=============================================================================
