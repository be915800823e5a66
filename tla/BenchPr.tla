------------------------------ MODULE BenchPr ------------------------------
(***************************************************************************)
(* Benchmarking a pull request and reporting the outcome (bench_pr in      *)
(* job/bench_pr.rs), over GitHub and the database: the commit's status     *)
(* becomes pending, the benchmarks run, the comparison is stored, the PR's *)
(* comment is updated or a new one is created and registered, the status   *)
(* becomes success.  Each await is a step of its own, and the server may   *)
(* die, or the handler panic, between any two.                             *)
(*                                                                         *)
(* GitHub is external.  A call to it is answered, or is carried out while  *)
(* the answer is lost, or is refused.  The queue (module EventQueue) hands *)
(* out one event at a time and gives an event whose first attempt died a   *)
(* second one.                                                             *)
(*                                                                         *)
(* Bounded by CONSTANTS: Events and MaxFaults (failed calls and crashes).  *)
(***************************************************************************)
EXTENDS Integers, Sequences, FiniteSets, FiniteSetsExt

CONSTANTS
  Events,         \* events that ask for a pull request to be benchmarked
  PRs, Commits,
  PrOf,           \* PrOf[e]: the pull request e is about
  CommitOf,       \* CommitOf[e]: its candidate commit
  CallsMayFail,   \* may calls to GitHub and the database fail?
  MaxFaults       \* bound on failed calls and crashes

ASSUME BenchPrAssumption ==
  /\ IsFiniteSet(Events)
  /\ PrOf \in [Events -> PRs]
  /\ CommitOf \in [Events -> Commits]
  /\ CallsMayFail \in BOOLEAN
  /\ MaxFaults \in Nat

VARIABLES
  waiting,    \* the events the queue still has
  runs,       \* the attempts so far; the last one may be under way
  pc,         \* where the attempt under way is
  status,     \* status[c]: GitHub's status of commit c
  comments,   \* the result comments on GitHub, in order of creation
  registered, \* registered[p]: row of result_comments, NoComment if none
  compared,   \* commits with a row in comparison_runs
  faults

vars == <<waiting, runs, pc, status, comments, registered, compared, faults>>

NoComment == 0

Run == [event : Events, result : {"none", "ok", "err"},
        outcome : {"running", "ok", "err", "crashed"}, posted : BOOLEAN]

(* What a comment shows is the run whose report was last written to it.    *)
Comment == [pr : PRs, shows : Nat, live : BOOLEAN]

Steps == {"pending", "bench", "store", "lookup", "update", "create", "register", "success"}

This   == Len(runs)
Event  == runs[This].event
Pr     == PrOf[Event]
Commit == CommitOf[Event]

RunsOn(c) == {n \in DOMAIN runs : CommitOf[runs[n].event] = c}
RunsOf(e) == {n \in DOMAIN runs : runs[n].event = e}

Init ==
  /\ waiting = Events
  /\ runs = << >>
  /\ pc = "idle"
  /\ status = [c \in Commits |-> "none"]
  /\ comments = << >>
  /\ registered = [p \in PRs |-> NoComment]
  /\ compared = {}
  /\ faults = 0

-----------------------------------------------------------------------------
Goto(from, to) == pc = from /\ pc' = to

(* A call to GitHub or to the database is answered, or something fails: it *)
(* is refused, or carried out while the answer is lost.                    *)
Answered == UNCHANGED faults

Fault == faults < MaxFaults /\ faults' = faults + 1

CallFails == CallsMayFail /\ Fault

(* The attempt ends, and the event leaves the queue with it.               *)
Return(result) ==
  /\ pc' = "idle"
  /\ runs' = [runs EXCEPT ![This].outcome = result]
  /\ waiting' = waiting \ {Event}

(* update_commit_status: an error is only logged.                          *)
SetStatus(state) == status' = [status EXCEPT ![Commit] = state]

NewComment == comments' = Append(comments, [pr |-> Pr, shows |-> This, live |-> TRUE])

RegisterAs(id) ==
  /\ pc = "register"
  /\ \/ /\ Answered
        /\ registered' = [registered EXCEPT ![Pr] = id]
        /\ pc' = "success"
        /\ UNCHANGED <<waiting, runs>>
     \/ CallFails /\ UNCHANGED registered /\ Return("err")
  /\ UNCHANGED <<status, comments, compared>>

Finish(posted) == runs' = [runs EXCEPT ![This].outcome = "ok", ![This].posted = posted]

-----------------------------------------------------------------------------
(* Seeded faults: plausible bugs of the code, none of them part of Next.   *)

CreateCommentUnchecked ==
  /\ pc = "create"
  /\ \/ Answered /\ NewComment /\ pc' = "register"
     \/ CallFails /\ (NewComment \/ UNCHANGED comments) /\ pc' = "success"
  /\ UNCHANGED <<waiting, runs, status, registered, compared>>

RegisterFirstOnly == RegisterAs(IF registered[Pr] = NoComment THEN Len(comments)
                                ELSE registered[Pr])

PostSuccessOfResults ==
  /\ Goto("success", "idle")
  /\ Answered
  /\ IF runs[This].result = "ok" THEN SetStatus("success") ELSE UNCHANGED status
  /\ Finish(TRUE)
  /\ waiting' = waiting \ {Event}
  /\ UNCHANGED <<comments, registered, compared>>

-----------------------------------------------------------------------------
(* The queue gives the handler an event.                                   *)
Begin(e) ==
  /\ Goto("idle", "pending")
  /\ e \in waiting
  /\ runs' = Append(runs, [event |-> e, result |-> "none", outcome |-> "running",
                           posted |-> FALSE])
  /\ UNCHANGED <<waiting, status, comments, registered, compared, faults>>

PostPending ==
  /\ Goto("pending", "bench")
  /\ \/ Answered /\ SetStatus("pending")
     \/ CallFails /\ (SetStatus("pending") \/ UNCHANGED status)
  /\ UNCHANGED <<waiting, runs, comments, registered, compared>>

(* Checking out, building, running and comparing.  An error of any of them *)
(* does not end the attempt: it becomes the text of the comment.           *)
Bench ==
  /\ pc = "bench"
  /\ \E result \in {"ok", "err"} :
       /\ pc' = IF result = "ok" THEN "store" ELSE "lookup"
       /\ runs' = IF result = "ok" THEN runs ELSE [runs EXCEPT ![This].result = "err"]
  /\ UNCHANGED <<waiting, status, comments, registered, compared, faults>>

(* Neither does an error of store_comparison_result.                       *)
StoreComparison ==
  /\ Goto("store", "lookup")
  /\ \/ Answered
        /\ compared' = compared \cup {Commit}
        /\ runs' = [runs EXCEPT ![This].result = "ok"]
     \/ CallFails
        /\ runs' = [runs EXCEPT ![This].result = "err"]
        /\ UNCHANGED compared
  /\ UNCHANGED <<waiting, status, comments, registered>>

(* try_update_comment: result_comment_id ...                               *)
Lookup ==
  /\ pc = "lookup"
  /\ \/ Answered /\ pc' = IF registered[Pr] = NoComment THEN "create" ELSE "update"
     \/ CallFails /\ pc' = "create"
  /\ UNCHANGED <<waiting, runs, status, comments, registered, compared>>

(* ... and update_comment, which GitHub refuses if someone has deleted it. *)
UpdateComment ==
  LET id == registered[Pr]
      Write == comments' = [comments EXCEPT ![id].shows = This]
  IN /\ pc = "update"
     /\ \/ comments[id].live /\ Answered /\ Write /\ pc' = "success"
        \/ ~comments[id].live /\ Answered /\ UNCHANGED comments /\ pc' = "create"
        \/ comments[id].live /\ CallFails /\ Write /\ pc' = "create"
        \/ CallFails /\ UNCHANGED comments /\ pc' = "create"
     /\ UNCHANGED <<waiting, runs, status, registered, compared>>

(* create_comment: `?` ends the attempt on an error.                       *)
CreateComment ==
  /\ pc = "create"
  /\ \/ Answered /\ NewComment /\ pc' = "register" /\ UNCHANGED <<waiting, runs>>
     \/ CallFails /\ (NewComment \/ UNCHANGED comments) /\ Return("err")
  /\ UNCHANGED <<status, registered, compared>>

(* store_result_comment_id replaces the PR's row.                          *)
RegisterComment == RegisterAs(Len(comments))

(* Whatever the benchmarks came to, the status becomes success, and the    *)
(* handler returns Ok.                                                     *)
PostSuccess ==
  /\ Goto("success", "idle")
  /\ \/ SetStatus("success") /\ (Answered \/ CallFails) /\ Finish(TRUE)
     \/ UNCHANGED status /\ CallFails /\ Finish(FALSE)
  /\ waiting' = waiting \ {Event}
  /\ UNCHANGED <<comments, registered, compared>>

-----------------------------------------------------------------------------
(* The server dies or the handler panics; the queue keeps the event for a  *)
(* second attempt, not for a third.                                        *)
Crash ==
  /\ pc # "idle"
  /\ Fault
  /\ pc' = "idle"
  /\ runs' = [runs EXCEPT ![This].outcome = "crashed"]
  /\ waiting' = IF Cardinality(RunsOf(Event)) = 1 THEN waiting ELSE waiting \ {Event}
  /\ UNCHANGED <<status, comments, registered, compared>>

(* Someone deletes a comment on GitHub.                                    *)
DeleteComment ==
  \E id \in DOMAIN comments :
    /\ comments[id].live
    /\ CallFails
    /\ comments' = [comments EXCEPT ![id].live = FALSE]
    /\ UNCHANGED <<waiting, runs, pc, status, registered, compared>>

Work ==
  \/ \E e \in Events : Begin(e)
  \/ PostPending \/ Bench \/ StoreComparison \/ Lookup \/ UpdateComment
  \/ CreateComment \/ RegisterComment \/ PostSuccess

Done == pc = "idle" /\ waiting = {} /\ UNCHANGED vars

Next == Work \/ Crash \/ DeleteComment \/ Done

Spec == Init /\ [][Next]_vars

(* The handler keeps going: the benchmarks are killed when they take too   *)
(* long, and GitHub answers or the call errs.                              *)
FairSpec == Spec /\ WF_vars(Work)

-----------------------------------------------------------------------------
(* Every variable holds a value of its type; in particular the database    *)
(* only knows comments that were created.                                  *)
TypeOK ==
  /\ waiting \subseteq Events
  /\ runs \in Seq(Run)
  /\ pc \in Steps \cup {"idle"}
  /\ status \in [Commits -> {"none", "pending", "success"}]
  /\ comments \in Seq(Comment)
  /\ registered \in [PRs -> 0 .. Len(comments)]
  /\ compared \subseteq Commits
  /\ faults \in 0 .. MaxFaults

(* Once a run has reported, the comment the database knows for its pull    *)
(* request shows that run or a later one: neither a lost answer, nor a     *)
(* deleted comment, nor a second attempt makes the application go on with  *)
(* a comment that shows an older run.                                      *)
ReportNeverStale ==
  \A n \in DOMAIN runs :
    runs[n].outcome = "ok" =>
      LET id == registered[PrOf[runs[n].event]]
      IN id # NoComment /\ comments[id].shows >= n

(* The status of a commit turns to success only after the report of a run  *)
(* on it, or of a later run, stands on the pull request.                   *)
SuccessAfterReport ==
  \A c \in Commits :
    status[c] = "success" =>
      \E n \in RunsOn(c) :
        \E id \in DOMAIN comments :
          comments[id].pr = PrOf[runs[n].event] /\ comments[id].shows >= n

(* A status left pending has a cause: the last run on the commit died, or  *)
(* erred on its report, or could not post its success.                     *)
PendingHasCause ==
  pc = "idle" =>
    \A c \in Commits :
      status[c] = "pending" =>
        LET last == runs[Max(RunsOn(c))]
        IN last.outcome \in {"err", "crashed"} \/ ~last.posted

(* If no call fails and the server does not die, every commit's status     *)
(* ends as success, even if the benchmarks fail.                           *)
StatusSettles ==
  [](faults = 0) => \A e \in Events : <>[](status[CommitOf[e]] = "success")
=============================================================================
