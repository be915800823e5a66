--------------------------- MODULE BenchPrProofs ---------------------------
(***************************************************************************)
(* Proofs about BenchPr, for any finite set of events, any pull requests   *)
(* and commits, and any number of failed calls, lost answers, deleted      *)
(* comments and crashes.                                                   *)
(***************************************************************************)
EXTENDS BenchPr, SequenceTheorems, TLAPS

(* Where the attempt is tells what it has achieved.                        *)
WorkInv ==
  /\ pc # "idle" => runs # << >>
  /\ pc = "update" => registered[Pr] # NoComment
  /\ pc = "register" => /\ comments # << >>
                        /\ comments[Len(comments)].pr = Pr
                        /\ comments[Len(comments)].shows = This
  /\ pc = "success" => /\ registered[Pr] # NoComment
                       /\ comments[registered[Pr]].shows = This

(* The database files a comment under its own pull request.                *)
RegisterInv ==
  \A p \in PRs : registered[p] # NoComment => comments[registered[p]].pr = p

(* Why a status may be left pending.                                       *)
IsCause(run) == run.outcome \in {"err", "crashed"} \/ ~run.posted

PendingInv ==
  \A c \in Commits :
    status[c] = "pending" /\ (pc = "idle" \/ c # Commit) =>
      \E n \in RunsOn(c) : (\A m \in RunsOn(c) : m <= n) /\ IsCause(runs[n])

Inv == TypeOK /\ WorkInv /\ RegisterInv /\ ReportNeverStale /\ SuccessAfterReport /\ PendingInv

-----------------------------------------------------------------------------
(* The attempt's own record changes, and its event stays.                  *)
Amends(q, run) ==
  /\ q \in Seq(Run) /\ Len(q) = Len(runs)
  /\ \A n \in DOMAIN runs : q[n].event = runs[n].event /\ (n # This => q[n] = runs[n])
  /\ q[This] = run /\ run \in Run

LEMMA Amend ==
  ASSUME TypeOK, runs # << >>,
         NEW run \in Run, run.event = Event, NEW q, q = [runs EXCEPT ![This] = run]
  PROVE  Amends(q, run)
<1>1. This \in 1 .. Len(runs) /\ runs \in Seq(Run)
  BY DEF TypeOK, This
<1>2. /\ q \in Seq(Run) /\ Len(q) = Len(runs)
      /\ \A n \in 1 .. Len(runs) : q[n] = IF n = This THEN run ELSE runs[n]
  BY <1>1, ExceptSeq
<1>3. DOMAIN runs = 1 .. Len(runs)
  BY <1>1
<1> QED BY <1>1, <1>2, <1>3 DEF Amends, Event

LEMMA AmendOutcome ==
  ASSUME TypeOK, runs # << >>, NEW o \in {"ok", "err", "crashed"},
         NEW q, q = [runs EXCEPT ![This].outcome = o]
  PROVE  \E run \in Run : Amends(q, run) /\ run.outcome = o
<1>1. runs[This] \in Run
  BY DEF TypeOK, This
<1>2. PICK x \in Run : x = runs[This]
  BY <1>1
<1> DEFINE run == [x EXCEPT !.outcome = o]
<1>3. run \in Run /\ run.event = Event /\ run.outcome = o
  BY <1>2 DEF Run, Event
<1>4. q = [runs EXCEPT ![This] = run]
  BY <1>2
<1> HIDE DEF run
<1> QED BY <1>3, <1>4, Amend

LEMMA AmendResult ==
  ASSUME TypeOK, runs # << >>, NEW r \in {"ok", "err"},
         NEW q, q = [runs EXCEPT ![This].result = r]
  PROVE  \E run \in Run : Amends(q, run) /\ run.outcome = runs[This].outcome
<1>1. runs[This] \in Run
  BY DEF TypeOK, This
<1>2. PICK x \in Run : x = runs[This]
  BY <1>1
<1> DEFINE run == [x EXCEPT !.result = r]
<1>3. run \in Run /\ run.event = Event /\ run.outcome = runs[This].outcome
  BY <1>2 DEF Run, Event
<1>4. q = [runs EXCEPT ![This] = run]
  BY <1>2
<1> HIDE DEF run
<1> QED BY <1>3, <1>4, Amend

LEMMA AmendFinish ==
  ASSUME TypeOK, runs # << >>, NEW posted \in BOOLEAN, Finish(posted)
  PROVE  \E run \in Run : Amends(runs', run) /\ run.outcome = "ok" /\ run.posted = posted
<1>1. runs[This] \in Run
  BY DEF TypeOK, This
<1>2. PICK x \in Run : x = runs[This]
  BY <1>1
<1> DEFINE run == [[x EXCEPT !.outcome = "ok"] EXCEPT !.posted = posted]
<1>3. run \in Run /\ run.event = Event /\ run.outcome = "ok" /\ run.posted = posted
  BY <1>2 DEF Run, Event
<1>4. runs' = [runs EXCEPT ![This] = run]
  BY <1>2 DEF Finish, TypeOK, This
<1> HIDE DEF run
<1> QED BY <1>3, <1>4, Amend

-----------------------------------------------------------------------------
(* How comments may change: new ones come last, others keep their pull     *)
(* request and show the same run or the present one.                       *)
Kept ==
  /\ comments' \in Seq(Comment) /\ Len(comments) <= Len(comments')
  /\ \A id \in DOMAIN comments :
       /\ comments'[id].pr = comments[id].pr
       /\ comments'[id].shows \in {comments[id].shows, This}

Unshown ==
  /\ Kept
  /\ \A id \in DOMAIN comments : comments'[id].shows = comments[id].shows

LEMMA NewCommentKeeps ==
  ASSUME TypeOK, runs # << >>, Pr \in PRs, NewComment
  PROVE  /\ Unshown /\ Len(comments') = Len(comments) + 1
         /\ comments'[Len(comments')].pr = Pr /\ comments'[Len(comments')].shows = This
<1> DEFINE new == [pr |-> Pr, shows |-> This, live |-> TRUE]
<1>1. new \in Comment
  <2>1. This \in Nat
    BY DEF TypeOK, This
  <2>2. TRUE \in BOOLEAN
    OBVIOUS
  <2> QED BY <2>1, <2>2 DEF Comment
<1>2. new.pr = Pr /\ new.shows = This
  OBVIOUS
<1>3. comments' = Append(comments, new)
  BY DEF NewComment
<1> HIDE DEF new
<1>4. /\ comments' \in Seq(Comment) /\ Len(comments') = Len(comments) + 1
      /\ \A id \in DOMAIN comments : comments'[id] = comments[id]
      /\ comments'[Len(comments) + 1] = new
  BY <1>1, <1>3 DEF TypeOK
<1>5. Len(comments) \in Nat
  BY DEF TypeOK
<1> QED BY <1>2, <1>4, <1>5 DEF Kept, Unshown

LEMMA RewriteKeeps ==
  ASSUME TypeOK, runs # << >>, NEW id \in DOMAIN comments,
         comments' = [comments EXCEPT ![id].shows = This]
  PROVE  Kept /\ comments'[id].shows = This /\ Len(comments') = Len(comments)
<1>1. PICK x \in Comment : x = comments[id]
  BY DEF TypeOK
<1> DEFINE y == [x EXCEPT !.shows = This]
<1>2. y \in Comment /\ y.pr = x.pr /\ y.shows = This
  <2>1. This \in Nat
    BY DEF TypeOK, This
  <2> HIDE DEF This
  <2> QED BY <2>1 DEF Comment
<1>3. comments' = [comments EXCEPT ![id] = y]
  BY <1>1
<1> HIDE DEF y
<1>4. comments \in Seq(Comment) /\ id \in 1 .. Len(comments)
  BY DEF TypeOK
<1>5. /\ comments' \in Seq(Comment) /\ Len(comments') = Len(comments)
      /\ \A i \in 1 .. Len(comments) : comments'[i] = IF i = id THEN y ELSE comments[i]
  BY <1>2, <1>3, <1>4, ExceptSeq
<1>6. DOMAIN comments = 1 .. Len(comments) /\ Len(comments) \in Nat
  BY <1>4
<1> QED BY <1>1, <1>2, <1>4, <1>5, <1>6 DEF Kept

LEMMA DeletionKeeps ==
  ASSUME TypeOK, DeleteComment
  PROVE  Unshown /\ Len(comments') = Len(comments)
<1>0. PICK id \in DOMAIN comments : comments' = [comments EXCEPT ![id].live = FALSE]
  BY DEF DeleteComment
<1>1. PICK x \in Comment : x = comments[id]
  BY DEF TypeOK
<1> DEFINE y == [x EXCEPT !.live = FALSE]
<1>2. y \in Comment /\ y.pr = x.pr /\ y.shows = x.shows
  BY DEF Comment
<1>3. comments' = [comments EXCEPT ![id] = y]
  BY <1>0, <1>1
<1> HIDE DEF y
<1>4. comments \in Seq(Comment) /\ id \in 1 .. Len(comments)
  BY DEF TypeOK
<1>5. /\ comments' \in Seq(Comment) /\ Len(comments') = Len(comments)
      /\ \A i \in 1 .. Len(comments) : comments'[i] = IF i = id THEN y ELSE comments[i]
  BY <1>2, <1>3, <1>4, ExceptSeq
<1>6. DOMAIN comments = 1 .. Len(comments) /\ Len(comments) \in Nat
  BY <1>4
<1> QED BY <1>1, <1>2, <1>4, <1>5, <1>6 DEF Kept, Unshown

-----------------------------------------------------------------------------
(* The attempt under way is one of an event, a pull request and a commit.  *)
LEMMA InProgress ==
  ASSUME TypeOK, runs # << >>
  PROVE  /\ This \in DOMAIN runs /\ DOMAIN runs = 1 .. This /\ This \in Nat
         /\ Event \in Events /\ Pr \in PRs /\ Commit \in Commits
<1>1. This \in DOMAIN runs /\ runs[This] \in Run /\ DOMAIN runs = 1 .. This /\ This \in Nat
  BY DEF TypeOK, This
<1>2. Event \in Events
  BY <1>1 DEF Run, Event
<1> QED BY <1>1, <1>2, BenchPrAssumption DEF Pr, Commit

LEMMA AmendNothing ==
  ASSUME TypeOK, runs # << >>, UNCHANGED runs
  PROVE  Amends(runs', runs[This])
<1>1. This \in DOMAIN runs /\ runs[This] \in Run
  BY DEF TypeOK, This
<1> QED BY <1>1 DEF TypeOK, Amends

LEMMA KeepComments == TypeOK /\ UNCHANGED comments => Unshown
<1> SUFFICES ASSUME TypeOK, UNCHANGED comments PROVE Unshown
  OBVIOUS
<1>1. Len(comments) \in Nat
  BY DEF TypeOK
<1> QED BY <1>1 DEF TypeOK, Kept, Unshown

(* A status that is pending after a step of the attempt has a cause.       *)
LEMMA PendingStep ==
  ASSUME TypeOK, PendingInv, pc # "idle", runs # << >>, NEW run, Amends(runs', run),
         \A c \in Commits : c # Commit => status'[c] = status[c],
         pc' = "idle" => IsCause(run) \/ status'[Commit] # "pending"
  PROVE  PendingInv'
<1> SUFFICES ASSUME NEW c \in Commits, status'[c] = "pending", pc' = "idle" \/ c # Commit'
             PROVE  \E n \in RunsOn(c)' : (\A m \in RunsOn(c)' : m <= n) /\ IsCause(runs'[n])
  BY DEF PendingInv, IsCause
<1>1. RunsOn(c)' = RunsOn(c)
  <2>1. DOMAIN runs' = DOMAIN runs
    BY DEF Amends, TypeOK
  <2> QED BY <2>1 DEF RunsOn, Amends
<1>2. Commit' = Commit
  BY InProgress DEF Commit, Event, This, Amends
<1>3. CASE c = Commit
  <2>1. IsCause(runs'[This])
    BY <1>2, <1>3 DEF Amends
  <2>2. This \in RunsOn(c)
    BY <1>3, InProgress DEF RunsOn, Commit, Event
  <2>3. \A m \in RunsOn(c) : m <= This
    BY InProgress DEF RunsOn
  <2> QED BY <1>1, <2>1, <2>2, <2>3
<1>4. CASE c # Commit
  <2>1. PICK n \in RunsOn(c) : (\A m \in RunsOn(c) : m <= n) /\ IsCause(runs[n])
    BY <1>4 DEF PendingInv
  <2>2. n # This /\ n \in DOMAIN runs
    BY <1>4 DEF RunsOn, Commit, Event
  <2>3. runs'[n] = runs[n]
    BY <2>2 DEF Amends
  <2> QED BY <1>1, <2>1, <2>3
<1> QED BY <1>3, <1>4

(* Most steps of the attempt end no run with success, register no comment  *)
(* and turn no status to success.                                          *)
LEMMA OrdinaryStep ==
  ASSUME Inv, pc # "idle", NEW run, Amends(runs', run),
         run.outcome = "ok" => runs[This].outcome = "ok",
         Kept, UNCHANGED registered,
         \A c \in Commits : c # Commit => status'[c] = status[c],
         status'[Commit] \in {status[Commit], "pending"},
         pc' = "idle" => IsCause(run)
  PROVE  RegisterInv' /\ ReportNeverStale' /\ SuccessAfterReport' /\ PendingInv'
<1> USE DEF Inv
<1>0. runs # << >>
  BY DEF WorkInv
<1>1. /\ DOMAIN runs' = DOMAIN runs
      /\ \A n \in DOMAIN runs : /\ runs'[n].event = runs[n].event
                                /\ runs'[n].outcome = "ok" => runs[n].outcome = "ok"
  BY <1>0, InProgress DEF Amends, TypeOK
<1>2. \A id \in 1 .. Len(comments) :
        /\ id \in DOMAIN comments /\ id \in DOMAIN comments'
        /\ comments'[id].pr = comments[id].pr
        /\ comments'[id].shows \in {comments[id].shows, This}
  BY DEF Kept, TypeOK
<1>3. \A p \in PRs : registered[p] # NoComment => registered[p] \in 1 .. Len(comments)
  BY DEF TypeOK, NoComment
<1>4. \A id \in 1 .. Len(comments), n \in DOMAIN runs :
        comments[id].shows >= n => comments'[id].shows >= n
  BY <1>0, <1>2, InProgress
<1>5. \A n \in DOMAIN runs : PrOf[runs[n].event] \in PRs
  <2>1. \A n \in DOMAIN runs : runs[n].event \in Events
    <3> TAKE n \in DOMAIN runs
    <3>1. runs[n] \in Run
      BY DEF TypeOK
    <3> QED BY <3>1 DEF Run
  <2> QED BY <2>1, BenchPrAssumption
<1>6. RegisterInv'
  BY <1>2, <1>3 DEF RegisterInv
<1>7. ReportNeverStale'
  <2> SUFFICES ASSUME NEW n \in DOMAIN runs', runs'[n].outcome = "ok"
               PROVE  LET id == registered[PrOf[runs'[n].event]]
                      IN id # NoComment /\ comments'[id].shows >= n
    BY DEF ReportNeverStale
  <2>1. LET id == registered[PrOf[runs[n].event]]
        IN id # NoComment /\ comments[id].shows >= n
    BY <1>1 DEF ReportNeverStale
  <2> QED BY <1>1, <1>3, <1>4, <1>5, <2>1
<1>8. SuccessAfterReport'
  <2> SUFFICES ASSUME NEW c \in Commits, status'[c] = "success"
               PROVE  \E n \in RunsOn(c)' : \E id \in DOMAIN comments' :
                        comments'[id].pr = PrOf[runs'[n].event] /\ comments'[id].shows >= n
    BY DEF SuccessAfterReport
  <2>1. status[c] = "success"
    OBVIOUS
  <2>2. PICK n \in RunsOn(c) : \E id \in DOMAIN comments :
               comments[id].pr = PrOf[runs[n].event] /\ comments[id].shows >= n
    BY <2>1 DEF SuccessAfterReport
  <2>3. n \in DOMAIN runs /\ n \in RunsOn(c)' /\ runs'[n].event = runs[n].event
    BY <1>1, <2>2 DEF RunsOn
  <2>4. DOMAIN comments = 1 .. Len(comments)
    BY DEF TypeOK
  <2> QED BY <1>2, <1>4, <2>2, <2>3, <2>4
<1>9. PendingInv'
  BY <1>0, PendingStep
<1> QED BY <1>6, <1>7, <1>8, <1>9

-----------------------------------------------------------------------------
LEMMA InitInv == Init => Inv
<1> SUFFICES ASSUME Init PROVE Inv
  OBVIOUS
<1> USE DEF Init
<1>1. TypeOK
  BY BenchPrAssumption DEF TypeOK, Run, Comment, NoComment
<1>2. WorkInv /\ RegisterInv /\ PendingInv
  BY DEF WorkInv, RegisterInv, PendingInv
<1>3. ReportNeverStale /\ SuccessAfterReport
  BY DEF ReportNeverStale, SuccessAfterReport
<1> QED BY <1>1, <1>2, <1>3 DEF Inv

LEMMA BeginInv == ASSUME Inv, NEW e \in Events, Begin(e) PROVE Inv'
<1> USE DEF Inv
<1> DEFINE run == [event |-> e, result |-> "none", outcome |-> "running", posted |-> FALSE]
<1>1. run \in Run
  <2>1. FALSE \in BOOLEAN
    OBVIOUS
  <2> QED BY <2>1 DEF Run
<1>2. /\ runs' = Append(runs, run) /\ pc = "idle" /\ pc' = "pending"
      /\ UNCHANGED <<waiting, status, comments, registered, compared, faults>>
  BY DEF Begin, Goto
<1>3. run.event = e /\ run.outcome = "running"
  OBVIOUS
<1> HIDE DEF run
<1>4. /\ runs' \in Seq(Run) /\ Len(runs') = This + 1 /\ This \in Nat
      /\ DOMAIN runs = 1 .. This /\ DOMAIN runs' = 1 .. This + 1
      /\ \A n \in DOMAIN runs : runs'[n] = runs[n]
      /\ runs'[This + 1] = run
  BY <1>1, <1>2 DEF TypeOK, This
<1>5. TypeOK'
  BY <1>2, <1>4 DEF TypeOK, Steps
<1>6. WorkInv'
  BY <1>2, <1>4 DEF WorkInv
<1>7. RegisterInv'
  BY <1>2 DEF RegisterInv
<1>8. ReportNeverStale'
  <2> SUFFICES ASSUME NEW n \in DOMAIN runs', runs'[n].outcome = "ok"
               PROVE  LET id == registered[PrOf[runs'[n].event]]
                      IN id # NoComment /\ comments[id].shows >= n
    BY <1>2 DEF ReportNeverStale
  <2>1. n \in DOMAIN runs /\ runs'[n] = runs[n]
    BY <1>3, <1>4
  <2> QED BY <2>1 DEF ReportNeverStale
<1>9. SuccessAfterReport'
  <2> SUFFICES ASSUME NEW c \in Commits, status[c] = "success"
               PROVE  \E n \in RunsOn(c)' : \E id \in DOMAIN comments :
                        comments[id].pr = PrOf[runs'[n].event] /\ comments[id].shows >= n
    BY <1>2 DEF SuccessAfterReport
  <2>1. PICK n \in RunsOn(c) : \E id \in DOMAIN comments :
               comments[id].pr = PrOf[runs[n].event] /\ comments[id].shows >= n
    BY DEF SuccessAfterReport
  <2>2. n \in RunsOn(c)' /\ runs'[n] = runs[n]
    BY <1>4, <2>1 DEF RunsOn
  <2> QED BY <2>1, <2>2
<1>10. PendingInv'
  <2> SUFFICES ASSUME NEW c \in Commits, status[c] = "pending", c # Commit'
               PROVE  \E n \in RunsOn(c)' : (\A m \in RunsOn(c)' : m <= n) /\ IsCause(runs'[n])
    BY <1>2 DEF PendingInv, IsCause
  <2>1. Commit' = CommitOf[e]
    BY <1>3, <1>4 DEF Commit, Event, This
  <2>2. RunsOn(c)' = RunsOn(c)
    <3>1. \A n \in DOMAIN runs' : CommitOf[runs'[n].event] = c =>
            n \in DOMAIN runs /\ CommitOf[runs[n].event] = c
      BY <1>3, <1>4, <2>1
    <3>2. \A n \in DOMAIN runs : n \in DOMAIN runs' /\ runs'[n] = runs[n]
      BY <1>4
    <3> QED BY <3>1, <3>2 DEF RunsOn
  <2>3. PICK n \in RunsOn(c) : (\A m \in RunsOn(c) : m <= n) /\ IsCause(runs[n])
    BY <1>2 DEF PendingInv
  <2>4. runs'[n] = runs[n]
    BY <1>4, <2>3 DEF RunsOn
  <2> QED BY <2>2, <2>3, <2>4
<1> QED BY <1>5, <1>6, <1>7, <1>8, <1>9, <1>10

-----------------------------------------------------------------------------
LEMMA SameAttempt ==
  ASSUME TypeOK, runs # << >>, NEW run, Amends(runs', run)
  PROVE  /\ This' = This /\ Pr' = Pr /\ Commit' = Commit
         /\ runs' \in Seq(Run) /\ runs' # << >>
<1>1. runs' \in Seq(Run) /\ Len(runs') = Len(runs) /\ Len(runs) # 0
  BY DEF Amends, TypeOK
<1>2. runs'[This].event = runs[This].event
  BY InProgress DEF Amends
<1> QED BY <1>1, <1>2 DEF This, Pr, Commit, Event

LEMMA FaultsAreBounded ==
  TypeOK /\ (Answered \/ CallFails \/ Fault) => faults' \in 0 .. MaxFaults
BY BenchPrAssumption DEF TypeOK, Answered, CallFails, Fault

LEMMA StatusIsTyped ==
  ASSUME TypeOK, runs # << >>, NEW state \in {"pending", "success"}, SetStatus(state)
  PROVE  /\ status' \in [Commits -> {"none", "pending", "success"}]
         /\ status'[Commit] = state
         /\ \A c \in Commits : c # Commit => status'[c] = status[c]
BY InProgress DEF TypeOK, SetStatus

(* The steps that leave GitHub's comments and the table alone.             *)
LEMMA EarlyInv == Inv /\ (PostPending \/ Bench \/ StoreComparison \/ Lookup) => Inv'
<1> SUFFICES ASSUME Inv, PostPending \/ Bench \/ StoreComparison \/ Lookup PROVE Inv'
  OBVIOUS
<1> USE DEF Inv
<1>1. pc \in {"pending", "bench", "store", "lookup"} /\ pc' \in Steps /\ UNCHANGED <<waiting, comments, registered>>
  BY DEF PostPending, Bench, StoreComparison, Lookup, Goto, Steps
<1>2. runs # << >>
  BY <1>1 DEF WorkInv
<1>3. \E run \in Run : Amends(runs', run) /\ run.outcome = runs[This].outcome
  <2>1. CASE UNCHANGED runs
    BY <1>2, <2>1, AmendNothing, InProgress DEF Amends
  <2>2. CASE \E r \in {"ok", "err"} : runs' = [runs EXCEPT ![This].result = r]
    BY <1>2, <2>2, AmendResult
  <2> QED BY <2>1, <2>2 DEF PostPending, Bench, StoreComparison, Lookup
<1>4. /\ status' \in [Commits -> {"none", "pending", "success"}]
      /\ status'[Commit] \in {status[Commit], "pending"}
      /\ \A c \in Commits : c # Commit => status'[c] = status[c]
  <2>1. CASE UNCHANGED status
    BY <2>1 DEF TypeOK
  <2>2. CASE SetStatus("pending")
    BY <1>2, <2>2, StatusIsTyped
  <2> QED BY <2>1, <2>2 DEF PostPending, Bench, StoreComparison, Lookup
<1>5. compared' \subseteq Commits
  BY <1>2, InProgress DEF PostPending, Bench, StoreComparison, Lookup, TypeOK
<1>6. faults' \in 0 .. MaxFaults
  <2>1. Answered \/ CallFails
    BY DEF PostPending, Bench, StoreComparison, Lookup, Answered
  <2> QED BY <2>1, FaultsAreBounded
<1>7. Kept
  BY <1>1, KeepComments DEF Unshown
<1>8. PICK run \in Run : Amends(runs', run) /\ run.outcome = runs[This].outcome
  BY <1>3
<1>9. This' = This /\ Pr' = Pr /\ runs' \in Seq(Run) /\ runs' # << >>
  BY <1>2, <1>8, SameAttempt
<1>10. TypeOK'
  BY <1>1, <1>4, <1>5, <1>6, <1>9 DEF TypeOK
<1>11. pc' # "register" /\ pc' # "success" /\ (pc' = "update" => registered[Pr] # NoComment)
  BY DEF PostPending, Bench, StoreComparison, Lookup, Goto
<1>12. WorkInv'
  BY <1>1, <1>9, <1>11 DEF WorkInv
<1>13. pc # "idle" /\ pc' # "idle"
  BY <1>1 DEF Steps
<1> QED BY <1>1, <1>4, <1>7, <1>8, <1>10, <1>12, <1>13, OrdinaryStep

LEMMA UpdateCommentInv == Inv /\ UpdateComment => Inv'
<1> SUFFICES ASSUME Inv, UpdateComment PROVE Inv'
  OBVIOUS
<1> USE DEF Inv
<1>1. /\ pc = "update" /\ pc' \in {"create", "success"}
      /\ UNCHANGED <<waiting, runs, status, registered, compared>>
  BY DEF UpdateComment
<1>2. runs # << >> /\ registered[Pr] # NoComment
  BY <1>1 DEF WorkInv
<1>3. registered[Pr] \in DOMAIN comments
  BY <1>2, InProgress DEF TypeOK, NoComment
<1>4. /\ Kept /\ Len(comments) = Len(comments')
      /\ pc' = "success" => comments'[registered[Pr]].shows = This
  <2>1. CASE comments' = [comments EXCEPT ![registered[Pr]].shows = This]
    BY <1>2, <1>3, <2>1, RewriteKeeps
  <2>2. CASE UNCHANGED comments /\ pc' = "create"
    BY <2>2, KeepComments DEF Unshown
  <2> QED BY <2>1, <2>2 DEF UpdateComment
<1>5. Amends(runs', runs[This])
  BY <1>1, <1>2, AmendNothing
<1>6. faults' \in 0 .. MaxFaults
  <2>1. Answered \/ CallFails
    BY DEF UpdateComment
  <2> QED BY <2>1, FaultsAreBounded
<1>7. TypeOK'
  BY <1>1, <1>4, <1>6 DEF TypeOK, Kept, Steps
<1>8. This' = This /\ Pr' = Pr
  BY <1>1 DEF This, Pr, Event
<1>9. WorkInv'
  BY <1>1, <1>2, <1>4, <1>8 DEF WorkInv
<1> QED BY <1>1, <1>4, <1>5, <1>7, <1>9, OrdinaryStep

LEMMA CreateCommentInv == Inv /\ CreateComment => Inv'
<1> SUFFICES ASSUME Inv, CreateComment PROVE Inv'
  OBVIOUS
<1> USE DEF Inv
<1>1. pc = "create" /\ UNCHANGED <<status, registered, compared>>
  BY DEF CreateComment
<1>2. runs # << >>
  BY <1>1 DEF WorkInv
<1>3. Kept
  BY <1>2, InProgress, NewCommentKeeps, KeepComments DEF CreateComment, Unshown
<1>4. faults' \in 0 .. MaxFaults
  <2>1. Answered \/ CallFails
    BY DEF CreateComment
  <2> QED BY <2>1, FaultsAreBounded
<1>5. \A p \in PRs : registered[p] \in 0 .. Len(comments')
  BY <1>3 DEF TypeOK, Kept
<1>6. CASE NewComment /\ pc' = "register" /\ UNCHANGED <<waiting, runs>>
  <2>1. Amends(runs', runs[This])
    BY <1>2, <1>6, AmendNothing
  <2>2. TypeOK'
    BY <1>1, <1>3, <1>4, <1>5, <1>6 DEF TypeOK, Kept, Steps
  <2>3. This' = This /\ Pr' = Pr
    BY <1>6 DEF This, Pr, Event
  <2>4. WorkInv'
    <3>1. /\ comments'[Len(comments')].pr = Pr /\ comments'[Len(comments')].shows = This
          /\ Len(comments') = Len(comments) + 1
      BY <1>2, <1>6, InProgress, NewCommentKeeps
    <3>2. comments' # << >>
      BY <2>2, <3>1 DEF TypeOK
    <3> QED BY <1>2, <1>6, <2>3, <3>1, <3>2 DEF WorkInv
  <2> QED BY <1>1, <1>3, <1>6, <2>1, <2>2, <2>4, OrdinaryStep
<1>7. CASE Return("err")
  <2>1. runs' = [runs EXCEPT ![This].outcome = "err"] /\ pc' = "idle" /\ waiting' = waiting \ {Event}
    BY <1>7 DEF Return
  <2>2. PICK run \in Run : Amends(runs', run) /\ run.outcome = "err"
    BY <1>2, <2>1, AmendOutcome
  <2>3. TypeOK'
    BY <1>1, <1>2, <1>3, <1>4, <1>5, <2>1, <2>2, SameAttempt DEF TypeOK, Kept
  <2>4. WorkInv'
    BY <2>1 DEF WorkInv
  <2> QED BY <1>1, <1>3, <2>2, <2>3, <2>4, OrdinaryStep DEF IsCause
<1> QED BY <1>6, <1>7 DEF CreateComment

LEMMA RegisterCommentInv == Inv /\ RegisterComment => Inv'
<1> SUFFICES ASSUME Inv, RegisterComment PROVE Inv'
  OBVIOUS
<1> USE DEF Inv
<1>1. pc = "register" /\ UNCHANGED <<status, comments, compared>>
  BY DEF RegisterComment, RegisterAs
<1> DEFINE id == Len(comments)
<1>2. /\ runs # << >> /\ comments # << >>
      /\ comments[id].pr = Pr /\ comments[id].shows = This
  BY <1>1 DEF WorkInv
<1>3. id \in Nat \ {0} /\ This \in Nat
  BY <1>2 DEF TypeOK, This
<1>4. faults' \in 0 .. MaxFaults
  <2>1. Answered \/ CallFails
    BY DEF RegisterComment, RegisterAs
  <2> QED BY <2>1, FaultsAreBounded
<1>5. CASE Return("err") /\ UNCHANGED registered
  <2>1. runs' = [runs EXCEPT ![This].outcome = "err"] /\ pc' = "idle" /\ waiting' = waiting \ {Event}
    BY <1>5 DEF Return
  <2>2. PICK run \in Run : Amends(runs', run) /\ run.outcome = "err"
    BY <1>2, <2>1, AmendOutcome
  <2>3. TypeOK'
    BY <1>1, <1>2, <1>4, <1>5, <2>1, <2>2, SameAttempt DEF TypeOK
  <2>4. WorkInv'
    BY <2>1 DEF WorkInv
  <2>5. Kept
    BY <1>1, KeepComments DEF Unshown
  <2> QED BY <1>1, <1>5, <2>2, <2>3, <2>4, <2>5, OrdinaryStep DEF IsCause
<1>6. CASE /\ registered' = [registered EXCEPT ![Pr] = id] /\ pc' = "success"
           /\ UNCHANGED <<waiting, runs>>
  <2>1. /\ registered' \in [PRs -> 0 .. id] /\ registered'[Pr] = id
        /\ \A p \in PRs : p # Pr => registered'[p] = registered[p]
    BY <1>2, <1>3, <1>6, InProgress DEF TypeOK
  <2>2. TypeOK'
    BY <1>1, <1>4, <1>6, <2>1 DEF TypeOK, Steps
  <2>3. This' = This /\ Pr' = Pr /\ Commit' = Commit
    BY <1>6 DEF This, Pr, Commit, Event
  <2>4. WorkInv'
    BY <1>1, <1>2, <1>3, <1>6, <2>1, <2>3 DEF WorkInv, NoComment
  <2>5. RegisterInv'
    BY <1>1, <1>2, <2>1 DEF RegisterInv
  <2>6. ReportNeverStale'
    <3> SUFFICES ASSUME NEW n \in DOMAIN runs, runs[n].outcome = "ok"
                 PROVE  LET i == registered'[PrOf[runs[n].event]]
                        IN i # NoComment /\ comments[i].shows >= n
      BY <1>1, <1>6 DEF ReportNeverStale
    <3>1. LET i == registered[PrOf[runs[n].event]] IN i # NoComment /\ comments[i].shows >= n
      BY DEF ReportNeverStale
    <3>2. PrOf[runs[n].event] \in PRs
      <4>1. runs[n] \in Run
        BY DEF TypeOK
      <4>2. runs[n].event \in Events
        BY <4>1 DEF Run
      <4> QED BY <4>2, BenchPrAssumption
    <3>3. n \in Nat /\ n <= This
      BY <1>2, InProgress
    <3>4. CASE PrOf[runs[n].event] = Pr
      BY <1>2, <1>3, <2>1, <3>3, <3>4 DEF NoComment
    <3>5. CASE PrOf[runs[n].event] # Pr
      BY <2>1, <3>1, <3>2, <3>5
    <3> QED BY <3>4, <3>5
  <2>7. SuccessAfterReport'
    BY <1>1, <1>6 DEF SuccessAfterReport, RunsOn
  <2>8. PendingInv'
    BY <1>1, <1>6, <2>3 DEF PendingInv, RunsOn, IsCause
  <2> QED BY <2>2, <2>4, <2>5, <2>6, <2>7, <2>8
<1> QED BY <1>5, <1>6 DEF RegisterComment, RegisterAs

LEMMA PostSuccessInv == Inv /\ PostSuccess => Inv'
<1> SUFFICES ASSUME Inv, PostSuccess PROVE Inv'
  OBVIOUS
<1> USE DEF Inv
<1>1. /\ pc = "success" /\ pc' = "idle" /\ waiting' = waiting \ {Event}
      /\ UNCHANGED <<comments, registered, compared>>
  BY DEF PostSuccess, Goto
<1>2. /\ runs # << >> /\ registered[Pr] # NoComment
      /\ comments[registered[Pr]].shows = This
  BY <1>1 DEF WorkInv
<1>3. \/ SetStatus("success") /\ Finish(TRUE)
      \/ UNCHANGED status /\ Finish(FALSE)
  BY DEF PostSuccess
<1>4. \E posted \in BOOLEAN : Finish(posted) /\ (~posted => UNCHANGED status)
                              /\ (posted => SetStatus("success"))
  BY <1>3, Zenon
<1>5. PICK posted \in BOOLEAN : /\ Finish(posted) /\ (~posted => UNCHANGED status)
                                /\ (posted => SetStatus("success"))
  BY <1>4
<1>6. PICK run \in Run : /\ Amends(runs', run)
                         /\ run.outcome = "ok" /\ run.posted = posted
  BY <1>2, <1>5, AmendFinish
<1>7. /\ status' \in [Commits -> {"none", "pending", "success"}]
      /\ \A c \in Commits : c # Commit => status'[c] = status[c]
      /\ posted => status'[Commit] = "success"
  BY <1>2, <1>5, StatusIsTyped DEF TypeOK
<1>8. faults' \in 0 .. MaxFaults
  <2>1. Answered \/ CallFails
    BY DEF PostSuccess
  <2> QED BY <2>1, FaultsAreBounded
<1>9. TypeOK'
  BY <1>1, <1>2, <1>6, <1>7, <1>8, SameAttempt DEF TypeOK
<1>10. WorkInv' /\ RegisterInv'
  BY <1>1 DEF WorkInv, RegisterInv
<1>11. /\ DOMAIN runs' = DOMAIN runs
       /\ \A n \in DOMAIN runs : /\ runs'[n].event = runs[n].event
                                 /\ n # This => runs'[n] = runs[n]
  BY <1>2, <1>6, InProgress DEF Amends, TypeOK
<1>12. ReportNeverStale'
  <2> SUFFICES ASSUME NEW n \in DOMAIN runs, runs'[n].outcome = "ok"
               PROVE  LET id == registered[PrOf[runs[n].event]]
                      IN id # NoComment /\ comments[id].shows >= n
    BY <1>1, <1>11 DEF ReportNeverStale
  <2>1. CASE n = This
    BY <1>2, <2>1, InProgress DEF Pr, Event
  <2>2. CASE n # This
    BY <1>11, <2>2 DEF ReportNeverStale
  <2> QED BY <2>1, <2>2
<1>13. SuccessAfterReport'
  <2> SUFFICES ASSUME NEW c \in Commits, status'[c] = "success"
               PROVE  \E n \in RunsOn(c)' : \E id \in DOMAIN comments :
                        comments[id].pr = PrOf[runs'[n].event] /\ comments[id].shows >= n
    BY <1>1 DEF SuccessAfterReport
  <2>1. RunsOn(c)' = RunsOn(c) /\ \A n \in RunsOn(c) : runs'[n].event = runs[n].event
    BY <1>11 DEF RunsOn
  <2>2. CASE c = Commit
    <3>1. This \in RunsOn(c)
      BY <1>2, <2>2, InProgress DEF RunsOn, Commit, Event
    <3>2. registered[Pr] \in DOMAIN comments /\ comments[registered[Pr]].pr = Pr
      BY <1>2, InProgress DEF TypeOK, RegisterInv, NoComment
    <3>3. PrOf[runs'[This].event] = Pr
      BY <2>1, <3>1 DEF Pr, Event
    <3>4. comments[registered[Pr]].shows >= This
      BY <1>2, InProgress
    <3> QED BY <2>1, <3>1, <3>2, <3>3, <3>4
  <2>3. CASE c # Commit
    BY <1>7, <2>1, <2>3 DEF SuccessAfterReport
  <2> QED BY <2>2, <2>3
<1>14. PendingInv'
  <2>1. IsCause(run) \/ status'[Commit] # "pending"
    <3>1. posted => status'[Commit] # "pending"
      BY <1>7
    <3>2. ~posted => IsCause(run)
      BY <1>6, Zenon DEF IsCause
    <3> QED BY <3>1, <3>2, Zenon
  <2> QED BY <1>1, <1>2, <1>6, <1>7, <2>1, PendingStep
<1> QED BY <1>9, <1>10, <1>12, <1>13, <1>14

LEMMA CrashInv == Inv /\ Crash => Inv'
<1> SUFFICES ASSUME Inv, Crash PROVE Inv'
  OBVIOUS
<1> USE DEF Inv
<1>1. /\ pc # "idle" /\ pc' = "idle" /\ waiting' \in {waiting, waiting \ {Event}}
      /\ runs' = [runs EXCEPT ![This].outcome = "crashed"]
      /\ UNCHANGED <<status, comments, registered, compared>>
  BY DEF Crash
<1>2. runs # << >>
  BY <1>1 DEF WorkInv
<1>3. PICK run \in Run : Amends(runs', run) /\ run.outcome = "crashed"
  BY <1>1, <1>2, AmendOutcome
<1>4. TypeOK'
  <2>1. faults' \in 0 .. MaxFaults
    BY FaultsAreBounded DEF Crash
  <2> QED BY <1>1, <1>2, <1>3, <2>1, SameAttempt DEF TypeOK
<1>5. WorkInv'
  BY <1>1 DEF WorkInv
<1>6. Kept
  BY <1>1, KeepComments DEF Unshown
<1> QED BY <1>1, <1>3, <1>4, <1>5, <1>6, OrdinaryStep DEF IsCause

LEMMA DeleteCommentInv == Inv /\ DeleteComment => Inv'
<1> SUFFICES ASSUME Inv, DeleteComment PROVE Inv'
  OBVIOUS
<1> USE DEF Inv
<1>1. UNCHANGED <<waiting, runs, pc, status, registered, compared>> /\ CallFails
  BY DEF DeleteComment
<1>2. Unshown /\ Len(comments') = Len(comments)
  BY DeletionKeeps
<1>3. /\ comments' \in Seq(Comment) /\ DOMAIN comments = 1 .. Len(comments)
      /\ DOMAIN comments' = DOMAIN comments /\ Len(comments) \in Nat
      /\ \A id \in DOMAIN comments : /\ comments'[id].pr = comments[id].pr
                                     /\ comments'[id].shows = comments[id].shows
  BY <1>2 DEF Unshown, Kept, TypeOK
<1>4. TypeOK'
  <2>1. faults' \in 0 .. MaxFaults
    BY <1>1, FaultsAreBounded
  <2> QED BY <1>1, <1>2, <1>3, <2>1 DEF TypeOK
<1>5. \A p \in PRs : registered[p] # NoComment => registered[p] \in DOMAIN comments
  BY <1>3 DEF TypeOK, NoComment
<1>6. This' = This /\ Pr' = Pr /\ Commit' = Commit
  BY <1>1 DEF This, Pr, Commit, Event
<1>7. WorkInv'
  <2>1. pc = "register" => comments' # << >> /\ Len(comments) \in DOMAIN comments
    BY <1>2, <1>3 DEF WorkInv
  <2>2. pc = "success" => registered[Pr] \in DOMAIN comments
    <3>1. pc # "idle" => Pr \in PRs
      BY InProgress DEF WorkInv
    <3> QED BY <1>5, <3>1 DEF WorkInv
  <2> QED BY <1>1, <1>2, <1>3, <1>6, <2>1, <2>2 DEF WorkInv
<1>8. RegisterInv'
  BY <1>1, <1>3, <1>5 DEF RegisterInv
<1>9. ReportNeverStale'
  <2>1. \A n \in DOMAIN runs : PrOf[runs[n].event] \in PRs
    <3> TAKE n \in DOMAIN runs
    <3>1. runs[n] \in Run
      BY DEF TypeOK
    <3>2. runs[n].event \in Events
      BY <3>1 DEF Run
    <3> QED BY <3>2, BenchPrAssumption
  <2> QED BY <1>1, <1>3, <1>5, <2>1 DEF ReportNeverStale
<1>10. SuccessAfterReport'
  BY <1>1, <1>3 DEF SuccessAfterReport, RunsOn
<1>11. PendingInv'
  BY <1>1, <1>6 DEF PendingInv, RunsOn, IsCause
<1> QED BY <1>4, <1>7, <1>8, <1>9, <1>10, <1>11

LEMMA NextInv == Inv /\ [Next]_vars => Inv'
<1> SUFFICES ASSUME Inv, [Next]_vars PROVE Inv'
  OBVIOUS
<1>1. CASE \E e \in Events : Begin(e)
  BY <1>1, BeginInv
<1>2. CASE PostPending \/ Bench \/ StoreComparison \/ Lookup
  BY <1>2, EarlyInv
<1>3. CASE UpdateComment
  BY <1>3, UpdateCommentInv
<1>4. CASE CreateComment
  BY <1>4, CreateCommentInv
<1>5. CASE RegisterComment
  BY <1>5, RegisterCommentInv
<1>6. CASE PostSuccess
  BY <1>6, PostSuccessInv
<1>7. CASE Crash
  BY <1>7, CrashInv
<1>8. CASE DeleteComment
  BY <1>8, DeleteCommentInv
<1>9. CASE UNCHANGED vars
  BY <1>9 DEF vars, Inv, TypeOK, WorkInv, RegisterInv, ReportNeverStale, SuccessAfterReport,
              PendingInv, IsCause, RunsOn, This, Pr, Commit, Event
<1> QED
  BY <1>1, <1>2, <1>3, <1>4, <1>5, <1>6, <1>7, <1>8, <1>9 DEF Next, Work, Done

LEMMA Invariance == Spec => []Inv
BY InitInv, NextInv, PTL DEF Spec

-----------------------------------------------------------------------------
(* Every variable keeps its type: the table only knows existing comments.  *)
THEOREM TypeCorrect == Spec => []TypeOK
<1>1. Inv => TypeOK
  BY DEF Inv
<1> QED BY <1>1, Invariance, PTL

(* However many answers are lost, comments deleted and attempts broken     *)
(* off: the comment the database knows is up to date with every report.    *)
THEOREM ReportStaysFresh == Spec => []ReportNeverStale
<1>1. Inv => ReportNeverStale
  BY DEF Inv
<1> QED BY <1>1, Invariance, PTL

(* No commit is marked as a success before it has been reported on.        *)
THEOREM NoSuccessWithoutReport == Spec => []SuccessAfterReport
<1>1. Inv => SuccessAfterReport
  BY DEF Inv
<1> QED BY <1>1, Invariance, PTL

(* Whatever fails, a status that stays pending has a cause.                *)
THEOREM PendingIsExplained == Spec => []PendingHasCause
<1>1. Inv => PendingHasCause
  <2> SUFFICES ASSUME Inv, pc = "idle", NEW c \in Commits, status[c] = "pending"
               PROVE  LET last == runs[Max(RunsOn(c))]
                      IN last.outcome \in {"err", "crashed"} \/ ~last.posted
    BY DEF PendingHasCause
  <2>1. PICK n \in RunsOn(c) : (\A m \in RunsOn(c) : m <= n) /\ IsCause(runs[n])
    BY DEF Inv, PendingInv
  <2>2. \A m \in RunsOn(c) : m \in Nat
    BY DEF Inv, TypeOK, RunsOn
  <2>3. Max(RunsOn(c)) = n
    BY <2>1, <2>2 DEF Max
  <2> QED BY <2>1, <2>3 DEF IsCause
<1> QED BY <1>1, Invariance, PTL
=============================================================================
