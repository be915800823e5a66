-------------------------- MODULE EventQueueProofs --------------------------
(***************************************************************************)
(* Proofs about EventQueue, for any finite set of events, any backlog, any *)
(* behaviour of the clock and of the clients and any number of             *)
(* disturbances.                                                           *)
(*                                                                         *)
(* Inv is the inductive invariant: the properties themselves, and the      *)
(* facts about rows, jobs and the task they rest on.                       *)
(***************************************************************************)
EXTENDS EventQueue, FiniteSetTheorems, SequenceTheorems, TLAPS

(* The states in which the task holds an event, and an event to handle.    *)
Running  == {"handling", "finish", "delete"}
Handling == {"forget", "claim"} \cup Running
Holding  == {"discard"} \cup Handling

(* What the task's locals and the active job are, by where the task is.    *)
TaskInv ==
  /\ pc \in Holding => event \in Events /\ Stored(event)
  /\ pc \in Handling => event \in Allowed
  /\ pc \notin Holding => event = NoEvent
  /\ pc \in Running => /\ job \in DOMAIN jobs
                       /\ jobs[job].event = event
                       /\ active_job_id = job
  /\ pc \in {"handling", "finish"} => jobs[job].success = "none"
  /\ pc = "delete" => jobs[job].success # "none"
  /\ pc = "finish" => success # "none"
  /\ pc \notin {"handling", "finish", "failed"} =>
       (active_job_id # NoJob => jobs[active_job_id].success # "none")

(* How a row's job_id accounts for the jobs its event has had.             *)
RowsInv ==
  /\ \A e \in Events : ~Stored(e) => e \notin queue /\ JobsOf(e) = {}
  /\ \A e \in queue : job_id[e] = NoJob => JobsOf(e) = {}
  /\ \A e \in queue : job_id[e] # NoJob => JobsOf(e) = {job_id[e]}

(* ... and what that says of the event the task holds.                     *)
HeldInv ==
  /\ pc = "discard" => event \notin Allowed
  /\ pc = "forget" => event \in queue /\ job_id[event] # NoJob
  /\ pc = "claim" /\ event \in queue => job_id[event] = NoJob
  /\ pc = "claim" /\ event \notin queue => \E j \in DOMAIN jobs : JobsOf(event) = {j}

(* A late start uses up the one passage through the gate.                  *)
LateInv ==
  /\ enabled => lateStarts = 0
  /\ pc \in {"gated", "fetch", "discard", "forget", "claim"} => lateStarts = 0
  /\ lateStarts <= 1

(* Rows are younger than the jobs created before them.                     *)
OrderInv ==
  ~ClockStepsBack =>
    /\ \A e \in Events : Stored(e) => created[e] <= now
    /\ \A j \in DOMAIN jobs : \A e \in queue : created[jobs[j].event] <= created[e]
    /\ pc \in {"forget", "claim"} =>
         /\ \A j \in DOMAIN jobs : created[jobs[j].event] <= created[event]
         /\ \A e \in queue : created[event] <= created[e]

Inv ==
  /\ TypeOK
  /\ TaskInv
  /\ RowsInv
  /\ HeldInv
  /\ LateInv
  /\ OrderInv
  /\ AtMostTwoAttempts
  /\ NoEventLost
  /\ JobsFollowArrival

-----------------------------------------------------------------------------
(* The rows that a starting task counts are finitely many.                 *)
LEMMA CountIsNat == ASSUME queue \subseteq Events PROVE Cardinality(queue) \in Nat
BY EventsAssumption, FS_Subset, FS_CardinalityType

(* A delivery that is stored keeps the table and the clock well typed.     *)
LEMMA StoreTypeOK ==
  ASSUME TypeOK, NEW e \in Events, NEW o \in {"stored", "stranded"}, Store(e, o)
  PROVE  /\ queue' \subseteq Events
         /\ created' \in [Events -> Nat]
         /\ job_id' \in [Events -> Nat]
         /\ delivery' \in [Events -> Deliveries]
         /\ now' \in Nat
<1>1. PICK t \in Readings : now' = t /\ created' = [created EXCEPT ![e] = t]
  BY DEF Store
<1>2. t \in Nat
  BY <1>1, SwitchesAssumption DEF Readings, TypeOK
<1> QED  BY <1>1, <1>2 DEF Store, TypeOK, Deliveries, NoJob

(* Deleting a row keeps the table well typed.                              *)
LEMMA RowDeleted ==
  ASSUME TypeOK, DeleteRow(event)
  PROVE  queue' \subseteq Events /\ job_id' \in [Events -> Nat]
BY DEF TypeOK, DeleteRow, NoJob

(* A task that drops what it holds leaves its locals well typed.           *)
LEMMA NothingHeld ==
  ASSUME HoldNothing, jobs' \in Seq(Job)
  PROVE  /\ event' \in Events \cup {NoEvent}
         /\ job' \in 0 .. Len(jobs')
         /\ success' \in Outcomes
BY DEF HoldNothing, NoJob, Outcomes

(* Every step keeps every variable in its type; FinishJob needs TaskInv    *)
(* for the job it writes.                                                  *)
LEMMA TypeStep == TypeOK /\ TaskInv /\ [Next]_vars => TypeOK'
<1> SUFFICES ASSUME TypeOK, TaskInv, [Next]_vars PROVE TypeOK'
  OBVIOUS
<1> USE SwitchesAssumption
<1> USE DEF TypeOK, PCs, Unstarted, Goto, Aside, dbVars, localVars, worldVars,
        DeleteRow
<1>1. CASE StartWorker
  BY <1>1, CountIsNat DEF StartWorker, StartWith
<1>2. CASE TakeToken
  BY <1>2 DEF TakeToken, TakeTokenTo
<1>3. CASE PassGate
  BY <1>3 DEF PassGate
<1>4. CASE RecheckGate
  BY <1>4 DEF RecheckGate
<1>5. CASE Fetch
  BY <1>5 DEF Fetch, Hold, Oldest
<1>6. CASE FetchNothing
  BY <1>6 DEF FetchNothing
<1>7. CASE Discard
  BY <1>7, RowDeleted, NothingHeld DEF Discard
<1>8. CASE Forget
  BY <1>8, RowDeleted DEF Forget
<1>9. CASE Claim
  <2>1. event \in Events
    BY <1>9 DEF Claim, NewJob, TaskInv, Holding, Handling, Running
  <2>2. [event |-> event, success |-> "none"] \in Job
    BY <2>1 DEF Job, Outcomes
  <2>3. jobs' \in Seq(Job) /\ Len(jobs') = Len(jobs) + 1
    BY <1>9, <2>2 DEF Claim, NewJob
  <2>4. job' \in 0 .. Len(jobs') /\ active_job_id' \in 0 .. Len(jobs')
    BY <1>9, <2>3 DEF Claim, NewJob
  <2>5. job_id' \in [Events -> Nat]
    BY <1>9, <2>1 DEF Claim, PointRow
  <2> QED  BY <1>9, <2>3, <2>4, <2>5 DEF Claim, NewJob
<1>10. CASE HandlerReturns
  BY <1>10 DEF HandlerReturns, Outcomes
<1>11. CASE HandlerPanics
  BY <1>11, NothingHeld DEF HandlerPanics
<1>12. CASE FinishJob
  <2>1. job \in 1 .. Len(jobs) /\ jobs[job] \in Job
    BY <1>12 DEF FinishJob, TaskInv, Running
  <2>2. [event |-> jobs[job].event, success |-> success] \in Job
    BY <2>1 DEF Job
  <2>3. jobs' \in Seq(Job) /\ Len(jobs') = Len(jobs)
    BY <1>12, <2>1, <2>2, ExceptSeq DEF FinishJob
  <2> QED  BY <1>12, <2>3 DEF FinishJob
<1>13. CASE DeleteEvent
  BY <1>13, RowDeleted, NothingHeld DEF DeleteEvent
<1>14. CASE Supervise
  BY <1>14 DEF Supervise, NoJob
<1>15. ASSUME NEW e \in Events, Enqueue(e) PROVE TypeOK'
  BY <1>15, StoreTypeOK DEF Enqueue, Server
<1>16. ASSUME NEW e \in Events, EnqueueCancelled(e) PROVE TypeOK'
  BY <1>16, StoreTypeOK DEF EnqueueCancelled, Server
<1>17. ASSUME NEW e \in Events, EnqueueFails(e) PROVE TypeOK'
  BY <1>17 DEF EnqueueFails, Deliveries
<1>18. ASSUME NEW e \in Events, Refuse(e) PROVE TypeOK'
  BY <1>18 DEF Refuse, Server, Deliveries
<1>19. CASE Pause
  <2>1. enabled' \in BOOLEAN
    BY <1>19, Zenon DEF Pause
  <2>2. disturbances' \in 0 .. MaxDisturbances
    BY <1>19 DEF Pause
  <2> QED  BY <1>19, <2>1, <2>2 DEF Pause
<1>20. CASE Resume
  BY <1>20 DEF Resume
<1>21. CASE DbFails
  BY <1>21, NothingHeld DEF DbFails, Unstarted
<1>22. CASE Restart
  BY <1>22, NothingHeld DEF Restart, NoJob
<1>23. CASE UNCHANGED vars
  BY <1>23 DEF vars
<1> QED
  BY <1>1, <1>2, <1>3, <1>4, <1>5, <1>6, <1>7, <1>8, <1>9, <1>10, <1>11, <1>12, <1>13,
     <1>14, <1>15, <1>16, <1>17, <1>18, <1>19, <1>20, <1>21, <1>22, <1>23
  DEF Next, Work, Deliver, Resting

-----------------------------------------------------------------------------
(* What was stored stays stored when another delivery is.                  *)
LEMMA StoredStays ==
  ASSUME TypeOK, NEW e \in Events, NEW f \in Events, Stored(f),
         \/ \E o \in {"stored", "stranded"} : Store(e, o)
         \/ delivery' = delivery
         \/ delivery[e] = "pending" /\ delivery' = [delivery EXCEPT ![e] = "refused"]
         \/ delivery[e] = "pending" /\ delivery' = [delivery EXCEPT ![e] = "failed"]
  PROVE  Stored(f)'
BY DEF TypeOK, Stored, Store

(* The locals of the task and the active job stay in keeping with where    *)
(* the task is.                                                            *)
LEMMA TaskStep == TypeOK /\ TypeOK' /\ TaskInv /\ RowsInv /\ [Next]_vars => TaskInv'
<1> SUFFICES ASSUME TypeOK, TypeOK', TaskInv, RowsInv, [Next]_vars PROVE TaskInv'
  OBVIOUS
<1> USE DEF TaskInv, Running, Handling, Holding, NoJob, Goto, Aside, dbVars, localVars,
        worldVars
<1>1. CASE StartWorker
  BY <1>1 DEF StartWorker, StartWith, Unstarted, Stored
<1>2. CASE TakeToken
  BY <1>2 DEF TakeToken, TakeTokenTo, Stored
<1>3. CASE PassGate
  BY <1>3 DEF PassGate, Stored
<1>4. CASE RecheckGate
  BY <1>4 DEF RecheckGate, Stored
<1>5. CASE Fetch
  <2>1. PICK e \in Oldest : Hold(e)
    BY <1>5 DEF Fetch
  <2>2. e \in Events /\ Stored(e)
    BY <2>1 DEF Oldest, RowsInv, TypeOK
  <2> QED  BY <2>1, <2>2 DEF Hold, Stored
<1>6. CASE FetchNothing
  BY <1>6 DEF FetchNothing, Stored
<1>7. CASE Discard
  BY <1>7 DEF Discard, HoldNothing, DeleteRow, Stored
<1>8. CASE Forget
  BY <1>8 DEF Forget, DeleteRow, Stored
<1>9. CASE Claim
  <2>1. /\ job' \in DOMAIN jobs'
        /\ jobs'[job'] = [event |-> event, success |-> "none"]
    BY <1>9 DEF Claim, NewJob, TypeOK
  <2> QED  BY <1>9, <2>1 DEF Claim, NewJob, Stored
<1>10. CASE HandlerReturns
  BY <1>10 DEF HandlerReturns, Stored
<1>11. CASE HandlerPanics
  BY <1>11 DEF HandlerPanics, HoldNothing, Stored
<1>12. CASE FinishJob
  <2>1. /\ DOMAIN jobs' = DOMAIN jobs
        /\ jobs'[job] = [event |-> jobs[job].event, success |-> success]
    BY <1>12 DEF FinishJob, TypeOK
  <2> QED  BY <1>12, <2>1 DEF FinishJob, Stored
<1>13. CASE DeleteEvent
  BY <1>13 DEF DeleteEvent, HoldNothing, DeleteRow, Stored
<1>14. CASE Supervise
  BY <1>14 DEF Supervise, Stored
<1>15. ASSUME NEW e \in Events, Enqueue(e) PROVE TaskInv'
  <2>1. event \in Events /\ Stored(event) => Stored(event)'
    BY <1>15, StoredStays DEF Enqueue, Server, Stored
  <2> QED  BY <1>15, <2>1 DEF Enqueue, Server
<1>16. ASSUME NEW e \in Events, EnqueueCancelled(e) PROVE TaskInv'
  <2>1. event \in Events /\ Stored(event) => Stored(event)'
    BY <1>16, StoredStays DEF EnqueueCancelled, Server, Stored
  <2> QED  BY <1>16, <2>1 DEF EnqueueCancelled, Server
<1>17. ASSUME NEW e \in Events, EnqueueFails(e) PROVE TaskInv'
  <2>1. event \in Events /\ Stored(event) => Stored(event)'
    BY <1>17, StoredStays DEF EnqueueFails, Stored
  <2> QED  BY <1>17, <2>1 DEF EnqueueFails
<1>18. ASSUME NEW e \in Events, Refuse(e) PROVE TaskInv'
  <2>1. event \in Events /\ Stored(event) => Stored(event)'
    BY <1>18, StoredStays DEF Refuse, Server, Stored
  <2> QED  BY <1>18, <2>1 DEF Refuse, Server
<1>19. CASE Pause
  BY <1>19 DEF Pause, Stored
<1>20. CASE Resume
  BY <1>20 DEF Resume, Stored
<1>21. CASE DbFails
  BY <1>21 DEF DbFails, HoldNothing, Stored
<1>22. CASE Restart
  BY <1>22 DEF Restart, HoldNothing, Stored
<1>23. CASE UNCHANGED vars
  BY <1>23 DEF vars, Stored
<1> QED
  BY <1>1, <1>2, <1>3, <1>4, <1>5, <1>6, <1>7, <1>8, <1>9, <1>10, <1>11, <1>12, <1>13,
     <1>14, <1>15, <1>16, <1>17, <1>18, <1>19, <1>20, <1>21, <1>22, <1>23
  DEF Next, Work, Deliver, Resting

-----------------------------------------------------------------------------
(* Only Claim gives an event another job.                                  *)
LEMMA ClaimJobs ==
  ASSUME TypeOK, TaskInv, Claim
  PROVE  /\ JobsOf(event)' = JobsOf(event) \cup {Len(jobs) + 1}
         /\ Len(jobs) + 1 \notin JobsOf(event)
         /\ \A e \in Events : e # event => JobsOf(e)' = JobsOf(e)
<1>1. /\ DOMAIN jobs' = DOMAIN jobs \cup {Len(jobs) + 1}
      /\ Len(jobs) + 1 \notin DOMAIN jobs
      /\ \A j \in DOMAIN jobs : jobs'[j] = jobs[j]
      /\ jobs'[Len(jobs) + 1].event = event
      /\ event' = event
  BY DEF Claim, NewJob, TypeOK
<1> QED  BY <1>1 DEF JobsOf

(* Recording the outcome of a job leaves every event its jobs.             *)
LEMMA FinishJobs ==
  ASSUME TypeOK, TaskInv, FinishJob, NEW e
  PROVE  JobsOf(e)' = JobsOf(e)
<1>1. /\ DOMAIN jobs' = DOMAIN jobs
      /\ \A j \in DOMAIN jobs : jobs'[j].event = jobs[j].event
  BY DEF FinishJob, TypeOK, TaskInv, Running, Goto
<1> QED  BY <1>1 DEF JobsOf

(* A new row belongs to an event that has had no job.                      *)
LEMMA StoreRows ==
  ASSUME TypeOK, RowsInv, UNCHANGED jobs, NEW e \in Events,
         NEW o \in {"stored", "stranded"}, Store(e, o)
  PROVE  RowsInv'
<1>1. \A f \in Events : JobsOf(f)' = JobsOf(f)
  BY DEF JobsOf
<1>2. ~Stored(e) /\ \A f \in Events : f # e => (Stored(f)' <=> Stored(f))
  BY DEF Store, Stored, TypeOK
<1>3. Stored(e)'
  BY DEF Store, Stored, TypeOK
<1>4. /\ queue' = queue \cup {e}
      /\ job_id'[e] = NoJob
      /\ \A f \in Events : f # e => job_id'[f] = job_id[f]
  BY DEF Store, TypeOK
<1> QED  BY <1>1, <1>2, <1>3, <1>4 DEF RowsInv, TypeOK

(* Deleting the row of a stored event says nothing untrue of other rows.   *)
LEMMA DeleteRows ==
  ASSUME TypeOK, RowsInv, DeleteRow(event), UNCHANGED delivery
  PROVE  RowsInv'
BY DEF DeleteRow, RowsInv, TypeOK, JobsOf, Stored

(* The job_id of a row names the one job its event has had, or there was   *)
(* none.                                                                   *)
LEMMA RowsStep ==
  TypeOK /\ TaskInv /\ RowsInv /\ HeldInv /\ [Next]_vars => RowsInv'
<1> SUFFICES ASSUME TypeOK, TaskInv, RowsInv, HeldInv, [Next]_vars PROVE RowsInv'
  OBVIOUS
<1> USE DEF Goto, Aside, dbVars, localVars, worldVars, Server
<1>0. ASSUME UNCHANGED <<dbVars, delivery>> PROVE RowsInv'
  BY <1>0 DEF RowsInv, JobsOf, Stored
<1>1. CASE StartWorker \/ TakeToken \/ PassGate \/ RecheckGate \/ FetchNothing
             \/ HandlerReturns \/ HandlerPanics \/ Supervise
  BY <1>0, <1>1 DEF StartWorker, StartWith, TakeToken, TakeTokenTo, PassGate, RecheckGate,
     FetchNothing, HandlerReturns, HandlerPanics, Supervise
<1>2. CASE Fetch
  BY <1>0, <1>2 DEF Fetch, Hold
<1>3. CASE Discard \/ Forget \/ DeleteEvent
  BY <1>3, DeleteRows DEF Discard, Forget, DeleteEvent
<1>4. CASE Claim
  <2>1. event \in Events /\ Stored(event) /\ (event \in queue => JobsOf(event) = {})
    BY <1>4 DEF Claim, NewJob, TaskInv, Holding, Handling, HeldInv, RowsInv
  <2>2. /\ queue' = queue /\ UNCHANGED <<delivery, event>>
        /\ event \in queue => job_id'[event] = Len(jobs) + 1
        /\ \A e \in Events : e # event => job_id'[e] = job_id[e]
    BY <1>4, <2>1 DEF Claim, NewJob, PointRow, TypeOK
  <2>3. Len(jobs) + 1 # NoJob
    BY DEF NoJob, TypeOK
  <2>4. \A e \in Events : Stored(e)' <=> Stored(e)
    BY <2>2 DEF Stored
  <2>5. event \in queue => JobsOf(event)' = {job_id'[event]}
    BY <1>4, <2>1, <2>2, ClaimJobs
  <2>6. \A e \in Events : e # event => JobsOf(e)' = JobsOf(e)
    BY <1>4, ClaimJobs
  <2>7. queue \subseteq Events
    BY DEF TypeOK
  <2>8. \A e \in Events : ~Stored(e)' => e \notin queue' /\ JobsOf(e)' = {}
    BY <2>1, <2>2, <2>4, <2>6 DEF RowsInv
  <2>9. \A e \in queue' : job_id'[e] = NoJob => JobsOf(e)' = {}
    BY <2>1, <2>2, <2>3, <2>6, <2>7 DEF RowsInv
  <2>10. \A e \in queue' : job_id'[e] # NoJob => JobsOf(e)' = {job_id'[e]}
    <3> SUFFICES ASSUME NEW e \in queue, job_id'[e] # NoJob
                 PROVE  JobsOf(e)' = {job_id'[e]}
      BY <2>2
    <3>1. CASE e = event
      BY <2>2, <2>5, <3>1
    <3>2. CASE e # event
      BY <2>2, <2>6, <2>7, <3>2 DEF RowsInv
    <3> QED  BY <3>1, <3>2
  <2> QED  BY <2>8, <2>9, <2>10 DEF RowsInv
<1>5. CASE FinishJob
  BY <1>5, FinishJobs DEF FinishJob, RowsInv, Stored
<1>6. ASSUME NEW e \in Events, Enqueue(e) \/ EnqueueCancelled(e) PROVE RowsInv'
  BY <1>6, StoreRows DEF Enqueue, EnqueueCancelled
<1>7. ASSUME NEW e \in Events, EnqueueFails(e) \/ Refuse(e) PROVE RowsInv'
  <2>1. \A f \in Events : Stored(f)' <=> Stored(f)
    BY <1>7 DEF EnqueueFails, Refuse, Stored, TypeOK
  <2> QED  BY <1>7, <2>1 DEF EnqueueFails, Refuse, RowsInv, JobsOf
<1>8. CASE Pause \/ Resume \/ DbFails \/ Restart \/ UNCHANGED vars
  BY <1>0, <1>8 DEF Pause, Resume, DbFails, Restart, vars
<1> QED
  BY <1>1, <1>2, <1>3, <1>4, <1>5, <1>6, <1>7, <1>8 DEF Next, Work, Deliver, Resting

(* What fetch found out about the event it holds stays true until a job    *)
(* is created.                                                             *)
LEMMA HeldStep ==
  TypeOK /\ TaskInv /\ RowsInv /\ HeldInv /\ [Next]_vars => HeldInv'
<1> SUFFICES ASSUME TypeOK, TaskInv, RowsInv, HeldInv, [Next]_vars PROVE HeldInv'
  OBVIOUS
<1> USE DEF Goto, Aside, dbVars, localVars, worldVars, Server
<1>1. ASSUME pc' \notin {"discard", "forget", "claim"} PROVE HeldInv'
  BY <1>1 DEF HeldInv
<1>2. ASSUME UNCHANGED <<dbVars, pc, event>> PROVE HeldInv'
  BY <1>2 DEF HeldInv, JobsOf
<1>3. CASE StartWorker \/ TakeToken \/ PassGate \/ RecheckGate \/ FetchNothing \/ Discard
             \/ Claim \/ HandlerReturns \/ HandlerPanics \/ FinishJob \/ DeleteEvent
             \/ Supervise \/ DbFails \/ Restart
  BY <1>1, <1>3 DEF StartWorker, StartWith, TakeToken, TakeTokenTo, PassGate, RecheckGate,
     FetchNothing, Discard, Claim, NewJob, HandlerReturns, HandlerPanics, FinishJob,
     DeleteEvent, Supervise, DbFails, Restart
<1>4. CASE Fetch
  BY <1>4 DEF Fetch, Hold, Oldest, HeldInv
<1>5. CASE Forget
  <2>1. JobsOf(event) = {job_id[event]}
    BY <1>5 DEF Forget, HeldInv, RowsInv
  <2>2. event' = event /\ event \notin queue' /\ UNCHANGED jobs /\ pc' = "claim"
    BY <1>5 DEF Forget, DeleteRow
  <2>3. JobsOf(event)' = JobsOf(event) /\ job_id[event] \in DOMAIN jobs
    BY <2>1, <2>2 DEF JobsOf
  <2> QED  BY <2>1, <2>2, <2>3 DEF HeldInv
<1>6. ASSUME NEW e \in Events, Enqueue(e) \/ EnqueueCancelled(e) PROVE HeldInv'
  <2>1. CASE pc \in {"discard", "forget", "claim"}
    <3>1. PICK o \in {"stored", "stranded"} : Store(e, o)
      BY <1>6 DEF Enqueue, EnqueueCancelled
    <3>2. event \in Events /\ event # e
      BY <2>1, <3>1 DEF TaskInv, Holding, Handling, Stored, Store
    <3>3. (event \in queue' <=> event \in queue) /\ job_id'[event] = job_id[event]
      BY <3>1, <3>2 DEF Store, TypeOK
    <3>4. UNCHANGED <<jobs, pc, event>>
      BY <1>6 DEF Enqueue, EnqueueCancelled
    <3>5. JobsOf(event)' = JobsOf(event)
      BY <3>4 DEF JobsOf
    <3> QED  BY <3>3, <3>4, <3>5 DEF HeldInv
  <2>2. CASE pc \notin {"discard", "forget", "claim"}
    BY <1>1, <1>6, <2>2 DEF Enqueue, EnqueueCancelled
  <2> QED  BY <2>1, <2>2
<1>7. ASSUME NEW e \in Events, EnqueueFails(e) \/ Refuse(e) PROVE HeldInv'
  BY <1>2, <1>7 DEF EnqueueFails, Refuse
<1>8. CASE Pause \/ Resume \/ UNCHANGED vars
  BY <1>2, <1>8 DEF Pause, Resume, vars
<1> QED
  BY <1>3, <1>4, <1>5, <1>6, <1>7, <1>8 DEF Next, Work, Deliver, Resting

-----------------------------------------------------------------------------
(* No step gives an event a third job.                                     *)
LEMMA AttemptsStep ==
  TypeOK /\ TaskInv /\ RowsInv /\ HeldInv /\ AtMostTwoAttempts /\ [Next]_vars
    => AtMostTwoAttempts'
<1> SUFFICES ASSUME TypeOK, TaskInv, RowsInv, HeldInv, AtMostTwoAttempts, [Next]_vars
             PROVE  AtMostTwoAttempts'
  OBVIOUS
<1> USE DEF dbVars, localVars, worldVars
<1>1. ASSUME UNCHANGED jobs PROVE AtMostTwoAttempts'
  BY <1>1 DEF AtMostTwoAttempts
<1>2. CASE FinishJob
  <2>1. /\ DOMAIN jobs' = DOMAIN jobs
        /\ \A j \in DOMAIN jobs : jobs'[j].event = jobs[j].event
    BY <1>2 DEF FinishJob, TypeOK, TaskInv, Running, Goto
  <2> QED  BY <2>1 DEF AtMostTwoAttempts
<1>3. CASE Claim
  <2>1. event' = event
    BY <1>3 DEF Claim, NewJob
  <2>2. \A i, j \in JobsOf(event) : i = j
    <3>1. event \in queue => JobsOf(event) = {}
      BY <1>3 DEF Claim, NewJob, Goto, HeldInv, RowsInv
    <3>2. event \notin queue => \E j : JobsOf(event) = {j}
      BY <1>3 DEF Claim, NewJob, Goto, HeldInv
    <3> QED  BY <3>1, <3>2
  <2>3. \A i, j, k \in JobsOf(event)' : i = j \/ j = k \/ i = k
    BY <1>3, <2>2, ClaimJobs
  <2>4. \A j \in DOMAIN jobs' : j \notin JobsOf(event)' =>
          j \in DOMAIN jobs /\ jobs'[j] = jobs[j]
    BY <1>3, <2>1 DEF Claim, NewJob, JobsOf, TypeOK
  <2>5. \A j \in DOMAIN jobs' : j \in JobsOf(event)' <=> jobs'[j].event = event
    BY <2>1 DEF JobsOf
  <2> QED  BY <2>3, <2>4, <2>5 DEF AtMostTwoAttempts
<1> QED
  BY <1>1, <1>2, <1>3 DEF Next, Work, Deliver, Resting, StartWorker, StartWith, TakeToken,
     TakeTokenTo, PassGate, RecheckGate, Fetch, Hold, FetchNothing, Discard, Forget,
     DeleteRow, HandlerReturns, HandlerPanics, DeleteEvent, Supervise, Enqueue,
     EnqueueCancelled, EnqueueFails, Refuse, Pause, Resume, DbFails, Restart, vars

(* No step removes the row of an event that has had no job.                *)
LEMMA NotLostStep ==
  TypeOK /\ TaskInv /\ RowsInv /\ HeldInv /\ NoEventLost /\ [Next]_vars => NoEventLost'
<1> SUFFICES ASSUME TypeOK, TaskInv, RowsInv, HeldInv, NoEventLost, [Next]_vars
             PROVE  NoEventLost'
  OBVIOUS
<1> USE DEF Goto, Aside, dbVars, localVars, worldVars, Server
<1>1. ASSUME UNCHANGED <<dbVars, delivery>> PROVE NoEventLost'
  BY <1>1 DEF NoEventLost, JobsOf, Stored
<1>2. CASE StartWorker \/ TakeToken \/ PassGate \/ RecheckGate \/ Fetch \/ FetchNothing
             \/ HandlerReturns \/ HandlerPanics \/ Supervise \/ Pause \/ Resume \/ DbFails
             \/ Restart \/ UNCHANGED vars
  BY <1>1, <1>2 DEF StartWorker, StartWith, TakeToken, TakeTokenTo, PassGate, RecheckGate,
     Fetch, Hold, FetchNothing, HandlerReturns, HandlerPanics, Supervise, Pause, Resume,
     DbFails, Restart, vars
<1>3. ASSUME DeleteRow(event), UNCHANGED delivery,
             event \notin Allowed \/ JobsOf(event) # {}
      PROVE  NoEventLost'
  BY <1>3 DEF DeleteRow, NoEventLost, JobsOf, Stored
<1>4. CASE Discard
  BY <1>3, <1>4 DEF Discard, HeldInv
<1>5. CASE Forget
  BY <1>3, <1>5 DEF Forget, HeldInv, RowsInv
<1>6. CASE DeleteEvent
  <2>1. job \in JobsOf(event)
    BY <1>6 DEF DeleteEvent, TaskInv, Running, JobsOf
  <2> QED  BY <1>3, <1>6, <2>1 DEF DeleteEvent
<1>7. CASE Claim
  <2>1. event \in Events /\ \A e \in Events : JobsOf(e) \subseteq JobsOf(e)'
    <3>1. event \in Events /\ event' = event
      BY <1>7 DEF Claim, NewJob, TaskInv, Holding, Handling
    <3> QED  BY <1>7, <3>1, ClaimJobs
  <2> QED  BY <1>7, <2>1, EventsAssumption DEF Claim, NewJob, NoEventLost, Stored
<1>8. CASE FinishJob
  BY <1>8, FinishJobs DEF FinishJob, NoEventLost, Stored
<1>9. ASSUME NEW e \in Events, Enqueue(e) \/ EnqueueCancelled(e) PROVE NoEventLost'
  <2>1. \A f \in Events : Stored(f)' => Stored(f) \/ f \in queue'
    BY <1>9 DEF Enqueue, EnqueueCancelled, Store, Stored, TypeOK
  <2>2. queue \subseteq queue' /\ UNCHANGED jobs
    BY <1>9 DEF Enqueue, EnqueueCancelled, Store
  <2> QED  BY <2>1, <2>2, EventsAssumption DEF NoEventLost, JobsOf
<1>10. ASSUME NEW e \in Events, EnqueueFails(e) \/ Refuse(e) PROVE NoEventLost'
  <2>1. \A f \in Events : Stored(f)' <=> Stored(f)
    BY <1>10 DEF EnqueueFails, Refuse, Stored, TypeOK
  <2> QED  BY <1>10, <2>1, EventsAssumption DEF EnqueueFails, Refuse, NoEventLost, JobsOf
<1> QED
  BY <1>2, <1>4, <1>5, <1>6, <1>7, <1>8, <1>9, <1>10 DEF Next, Work, Deliver, Resting

(* At most one job starts in a pause, by the passage through the gate      *)
(* taken before it.                                                        *)
LEMMA LateStep == TypeOK /\ LateInv /\ [Next]_vars => LateInv'
<1> SUFFICES ASSUME TypeOK, LateInv, [Next]_vars PROVE LateInv'
  OBVIOUS
<1> USE DEF LateInv, TypeOK, Goto, Aside, Server
<1>1. CASE Claim
  BY <1>1 DEF Claim, NewJob
<1>2. ASSUME UNCHANGED <<enabled, lateStarts>>,
             pc' \in {"gated", "fetch", "discard", "forget", "claim"} => enabled \/ lateStarts = 0
      PROVE  LateInv'
  BY <1>2
<1>3. CASE Pause \/ Resume \/ Restart
  BY <1>3 DEF Pause, Resume, Restart
<1>4. CASE UNCHANGED vars
  BY <1>4 DEF vars
<1> QED
  BY <1>1, <1>2, <1>3, <1>4 DEF Next, Work, Deliver, Resting, StartWorker, StartWith,
     TakeToken, TakeTokenTo, PassGate, RecheckGate, Fetch, Hold, FetchNothing, Discard,
     Forget, HandlerReturns, HandlerPanics, FinishJob, DeleteEvent, Supervise, Enqueue,
     EnqueueCancelled, EnqueueFails, Refuse, DbFails

(* Every row of table jobs is a job of an event.                           *)
LEMMA JobsTyped ==
  ASSUME TypeOK
  PROVE  \A j \in DOMAIN jobs : jobs[j].event \in Events /\ jobs[j].success \in Outcomes
<1> TAKE j \in DOMAIN jobs
<1>1. jobs[j] \in Job
  BY DEF TypeOK
<1> QED  BY <1>1 DEF Job

(* As long as the clock is not set back, jobs are created in the order of  *)
(* their rows.                                                             *)
LEMMA OrderStep ==
  TypeOK /\ TaskInv /\ RowsInv /\ OrderInv /\ JobsFollowArrival /\ [Next]_vars
    => OrderInv' /\ JobsFollowArrival'
<1> SUFFICES ASSUME TypeOK, TaskInv, RowsInv, OrderInv, JobsFollowArrival, [Next]_vars,
                    ~ClockStepsBack
             PROVE  OrderInv' /\ JobsFollowArrival'
  BY DEF OrderInv, JobsFollowArrival
<1> USE DEF Goto, Aside, dbVars, localVars, worldVars, Server
<1>1. ASSUME UNCHANGED <<created, jobs, delivery, now>>, queue' \subseteq queue,
             pc' \in {"forget", "claim"} => pc \in {"forget", "claim"} /\ event' = event
      PROVE  OrderInv' /\ JobsFollowArrival'
  BY <1>1 DEF OrderInv, JobsFollowArrival, Stored
<1>2. CASE StartWorker \/ TakeToken \/ PassGate \/ RecheckGate \/ FetchNothing
             \/ Discard \/ Forget \/ HandlerReturns \/ HandlerPanics \/ DeleteEvent
             \/ Supervise \/ Pause \/ Resume \/ DbFails \/ Restart \/ UNCHANGED vars
  BY <1>1, <1>2 DEF StartWorker, StartWith, TakeToken, TakeTokenTo, PassGate, RecheckGate,
     FetchNothing, Discard, Forget, DeleteRow, HandlerReturns, HandlerPanics, DeleteEvent,
     Supervise, Pause, Resume, DbFails, Restart, vars
<1>3. CASE Fetch
  BY <1>3 DEF Fetch, Hold, Oldest, OrderInv, JobsFollowArrival, Stored
<1>4. CASE Claim
  <2>1. /\ DOMAIN jobs' = DOMAIN jobs \cup {Len(jobs) + 1}
        /\ \A j \in DOMAIN jobs : jobs'[j] = jobs[j] /\ j < Len(jobs) + 1 /\ j \in Nat
        /\ jobs'[Len(jobs) + 1].event = event
        /\ UNCHANGED <<created, queue, delivery, now>>
        /\ pc' \notin {"forget", "claim"}
        /\ pc = "claim"
    BY <1>4 DEF Claim, NewJob, TypeOK
  <2>2. /\ \A j \in DOMAIN jobs : created[jobs[j].event] <= created[event]
        /\ \A e \in queue : created[event] <= created[e]
    BY <2>1 DEF OrderInv
  <2>3. OrderInv'
    BY <2>1, <2>2 DEF OrderInv, Stored
  <2>4. created[event] \in Nat
    BY <2>1 DEF TaskInv, Holding, Handling, TypeOK
  <2>5. JobsFollowArrival'
    BY <2>1, <2>2, <2>4 DEF JobsFollowArrival, TypeOK
  <2> QED  BY <2>3, <2>5
<1>5. CASE FinishJob
  <2>1. /\ DOMAIN jobs' = DOMAIN jobs
        /\ \A j \in DOMAIN jobs : jobs'[j].event = jobs[j].event
        /\ UNCHANGED <<created, queue, delivery, now>>
        /\ pc' \notin {"forget", "claim"}
    BY <1>5 DEF FinishJob, TypeOK, TaskInv, Running
  <2> QED  BY <2>1 DEF OrderInv, JobsFollowArrival, Stored
<1>6. ASSUME NEW e \in Events, Enqueue(e) \/ EnqueueCancelled(e)
      PROVE  OrderInv' /\ JobsFollowArrival'
  <2>1. PICK o \in {"stored", "stranded"} : Store(e, o)
    BY <1>6 DEF Enqueue, EnqueueCancelled
  <2>2. UNCHANGED <<jobs, pc, event>>
    BY <1>6 DEF Enqueue, EnqueueCancelled
  <2>3. /\ now' >= now /\ now' \in Nat /\ now \in Nat
        /\ created'[e] = now'
        /\ \A f \in Events : f # e => created'[f] = created[f]
        /\ created \in [Events -> Nat]
    <3>1. PICK t \in Readings : now' = t /\ created' = [created EXCEPT ![e] = t]
      BY <2>1 DEF Store
    <3> QED  BY <3>1 DEF Readings, TypeOK
  <2>4. ~Stored(e) /\ JobsOf(e) = {} /\ queue' = queue \cup {e} /\ queue \subseteq Events
    BY <2>1 DEF Store, Stored, RowsInv, TypeOK
  <2>5. \A f \in Events : Stored(f)' => f = e \/ Stored(f)
    BY <2>1 DEF Store, Stored, TypeOK
  <2>6. \A j \in DOMAIN jobs : jobs[j].event \in Events /\ jobs[j].event # e
                                 /\ Stored(jobs[j].event)
    <3>1. \A j \in DOMAIN jobs : jobs[j].event \in Events
      BY JobsTyped
    <3>2. \A j \in DOMAIN jobs : j \in JobsOf(jobs[j].event)
      BY DEF JobsOf
    <3> QED  BY <2>4, <3>1, <3>2 DEF RowsInv
  <2>7. \A f \in Events : f # e /\ Stored(f) => created'[f] <= now /\ created'[f] \in Nat
    BY <2>3 DEF OrderInv
  <2>8. pc \in {"forget", "claim"} => event \in Events /\ event # e /\ Stored(event)
    BY <2>4 DEF TaskInv, Holding, Handling
  <2>9. \A f \in Events : Stored(f)' => created'[f] <= now'
    BY <2>3, <2>5, <2>7
  <2>10. \A j \in DOMAIN jobs : \A f \in queue' : created'[jobs[j].event] <= created'[f]
    BY <2>3, <2>4, <2>6, <2>7 DEF OrderInv
  <2>11. ASSUME pc \in {"forget", "claim"}
         PROVE  /\ \A j \in DOMAIN jobs : created'[jobs[j].event] <= created'[event]
                /\ \A f \in queue' : created'[event] <= created'[f]
    <3>1. /\ \A j \in DOMAIN jobs : created[jobs[j].event] <= created[event]
          /\ \A f \in queue : created[event] <= created[f]
      BY <2>11 DEF OrderInv
    <3>2. event \in Events /\ event # e /\ Stored(event)
      BY <2>8, <2>11
    <3>3. created'[event] = created[event] /\ created'[event] <= now'
      BY <2>3, <2>7, <3>2
    <3>4. \A j \in DOMAIN jobs : created'[jobs[j].event] = created[jobs[j].event]
      BY <2>3, <2>6
    <3>5. \A f \in queue' : f = e \/ (f \in queue /\ f \in Events)
      BY <2>4
    <3>6. \A f \in queue' : created'[event] <= created'[f]
      <4> TAKE f \in queue'
      <4>1. CASE f = e
        BY <2>3, <3>3, <4>1
      <4>2. CASE f # e
        BY <2>3, <3>1, <3>3, <3>5, <4>2
      <4> QED  BY <4>1, <4>2
    <3> QED  BY <3>1, <3>3, <3>4, <3>6
  <2>12. OrderInv'
    BY <2>2, <2>9, <2>10, <2>11 DEF OrderInv
  <2>13. JobsFollowArrival'
    BY <2>2, <2>3, <2>6 DEF JobsFollowArrival
  <2> QED  BY <2>12, <2>13
<1>7. ASSUME NEW e \in Events, EnqueueFails(e) \/ Refuse(e)
      PROVE  OrderInv' /\ JobsFollowArrival'
  <2>1. \A f \in Events : Stored(f)' <=> Stored(f)
    BY <1>7 DEF EnqueueFails, Refuse, Stored, TypeOK
  <2> QED  BY <1>7, <2>1 DEF EnqueueFails, Refuse, OrderInv, JobsFollowArrival
<1> QED
  BY <1>2, <1>3, <1>4, <1>5, <1>6, <1>7 DEF Next, Work, Deliver, Resting

-----------------------------------------------------------------------------
(* The invariant holds when a server first starts.                         *)
LEMMA InvInit == Init => Inv
<1> SUFFICES ASSUME Init PROVE Inv
  OBVIOUS
<1> USE EventsAssumption, SwitchesAssumption DEF Init, NoJob
<1>1. TypeOK
  <2>1. created \in [Events -> Nat] /\ jobs \in Seq(Job) /\ Len(jobs) = 0
    OBVIOUS
  <2> QED  BY <2>1 DEF TypeOK, PCs, Deliveries, Outcomes
<1>2. DOMAIN jobs = {} /\ \A e : JobsOf(e) = {}
  BY DEF JobsOf
<1>3. TaskInv /\ HeldInv
  BY DEF TaskInv, HeldInv, Holding, Handling, Running
<1>4. RowsInv /\ NoEventLost
  BY <1>2 DEF RowsInv, NoEventLost, Stored
<1>5. LateInv
  BY DEF LateInv
<1>6. OrderInv
  BY <1>2 DEF OrderInv, Stored
<1>7. AtMostTwoAttempts /\ JobsFollowArrival
  BY <1>2 DEF AtMostTwoAttempts, JobsFollowArrival
<1> QED  BY <1>1, <1>3, <1>4, <1>5, <1>6, <1>7 DEF Inv

(* Every step preserves the invariant.                                     *)
LEMMA InvStep == Inv /\ [Next]_vars => Inv'
BY TypeStep, TaskStep, RowsStep, HeldStep, LateStep, OrderStep, AttemptsStep, NotLostStep
DEF Inv

(* The inductive invariant holds in every state the queue can come to.     *)
THEOREM Invariance == Spec => []Inv
BY InvInit, InvStep, PTL DEF Spec

(* Every variable always holds a value the code can put there.             *)
THEOREM TypeCorrect == Spec => []TypeOK
BY Invariance, PTL DEF Inv

(* No event gets a third job, however often the task's handler panics, the *)
(* database fails or the server restarts.                                  *)
THEOREM NoCrashLoop == Spec => []AtMostTwoAttempts
BY Invariance, PTL DEF Inv

(* A stored event of a known kind is in the table or has had a job.        *)
THEOREM NothingLost == Spec => []NoEventLost
BY Invariance, PTL DEF Inv

(* Jobs are created in the order their events arrived in, unless the clock *)
(* is set back.                                                            *)
THEOREM Fifo == Spec => []JobsFollowArrival
BY Invariance, PTL DEF Inv

(* At most one job starts after processing has been paused.                *)
THEOREM PauseHolds == Spec => []OneLateStart
<1>1. Inv => OneLateStart
  BY DEF Inv, LateInv, OneLateStart
<1> QED  BY <1>1, Invariance, PTL

(* The status of a job says "Pending" exactly while the task runs it.      *)
THEOREM StatusIsTrue == Spec => []StatusTellsTruth
<1>1. Inv => StatusTellsTruth
  <2> SUFFICES ASSUME Inv, pc # "failed", NEW j \in DOMAIN jobs
               PROVE  JobView(j) = "Pending" <=> pc \in {"handling", "finish"} /\ job = j
    BY DEF StatusTellsTruth
  <2>1. JobView(j) = "Pending" <=> jobs[j].success = "none" /\ active_job_id = j
    BY DEF JobView
  <2>2. j # NoJob
    BY DEF Inv, TypeOK, NoJob
  <2> QED  BY <2>1, <2>2 DEF Inv, TaskInv, Running
<1> QED  BY <1>1, Invariance, PTL

(* A job reported as failed is never reported otherwise: no step makes an  *)
(* unfinished job active again, or finishes a job that is not active.      *)
THEOREM FailureStays == Spec => FailureIsFinal
<1>1. Inv /\ [Next]_vars =>
        [\A j \in DOMAIN jobs : JobView(j) = "Failure" => JobView(j)' = "Failure"]_vars
  <2> SUFFICES ASSUME Inv, [Next]_vars, NEW j \in DOMAIN jobs, JobView(j) = "Failure"
               PROVE  JobView(j)' = "Failure"
    OBVIOUS
  <2> USE DEF JobView, dbVars, localVars
  <2>1. ASSUME UNCHANGED jobs, active_job_id' \in {active_job_id, NoJob}
        PROVE  JobView(j)' = "Failure"
    <3>1. j # NoJob
      BY DEF Inv, TypeOK, NoJob
    <3> QED  BY <2>1, <3>1
  <2>2. CASE Claim
    <3>1. jobs'[j] = jobs[j] /\ active_job_id' # j
      BY <2>2 DEF Claim, NewJob, Inv, TypeOK
    <3> QED  BY <3>1
  <2>3. CASE FinishJob
    <3>1. job \in DOMAIN jobs /\ job # j
      BY <2>3 DEF FinishJob, Goto, Inv, TaskInv, Running
    <3>2. jobs'[j] = jobs[j] /\ active_job_id' = active_job_id
      BY <2>3, <3>1 DEF FinishJob, Inv, TypeOK
    <3> QED  BY <3>2
  <2> QED
    BY <2>1, <2>2, <2>3 DEF Next, Work, Deliver, Resting, StartWorker, StartWith, TakeToken,
       TakeTokenTo, PassGate, RecheckGate, Fetch, Hold, FetchNothing, Discard, Forget,
       DeleteRow, HandlerReturns, HandlerPanics, DeleteEvent, Supervise, Enqueue, Server,
       EnqueueCancelled, EnqueueFails, Refuse, Pause, Resume, DbFails, Restart, vars
<1> QED  BY <1>1, Invariance, PTL DEF Spec, FailureIsFinal
-----------------------------------------------------------------------------
(* The deliveries whose client hung up before a token was sent.            *)
Stranded == {e \in Events : delivery[e] = "stranded"}

(* What the wakeups are counted against is counted in natural numbers.     *)
LEMMA CountsAreNat ==
  ASSUME TypeOK
  PROVE  /\ IsFiniteSet(queue) /\ Cardinality(queue) \in Nat
         /\ IsFiniteSet(Stranded) /\ Cardinality(Stranded) \in Nat
         /\ InHand \in {0, 1} /\ tokens \in Nat
BY EventsAssumption, FS_Subset, FS_CardinalityType DEF TypeOK, Stranded, InHand

(* A stored delivery is one more row, and one more stranded delivery if    *)
(* its client hung up.                                                     *)
LEMMA StoreCounts ==
  ASSUME TypeOK, RowsInv, NEW e \in Events, NEW o \in {"stored", "stranded"}, Store(e, o)
  PROVE  /\ Cardinality(queue') = Cardinality(queue) + 1
         /\ Cardinality(Stranded') = Cardinality(Stranded) + IF o = "stranded" THEN 1 ELSE 0
<1>1. queue' = queue \cup {e} /\ e \notin queue
  BY DEF Store, RowsInv, Stored
<1>2. e \notin Stranded /\ Stranded' = IF o = "stranded" THEN Stranded \cup {e} ELSE Stranded
  BY DEF Store, Stranded, TypeOK
<1>3. Cardinality(queue') = Cardinality(queue) + 1
  BY <1>1, CountsAreNat, FS_AddElement
<1>4. Cardinality(Stranded \cup {e}) = Cardinality(Stranded) + 1
  BY <1>2, CountsAreNat, FS_AddElement
<1> QED  BY <1>2, <1>3, <1>4, CountsAreNat

(* A deleted row was covered by the task itself.                           *)
LEMMA DeleteCounts ==
  ASSUME TypeOK, DeleteRow(event)
  PROVE  Cardinality(queue') = Cardinality(queue) - (IF event \in queue THEN 1 ELSE 0)
<1>1. queue' = queue \ {event} /\ IsFiniteSet(queue) /\ Cardinality(queue) \in Nat
  BY CountsAreNat DEF DeleteRow
<1>2. Cardinality(queue \ {event})
        = IF event \in queue THEN Cardinality(queue) - 1 ELSE Cardinality(queue)
  BY <1>1, FS_RemoveElement
<1> QED  BY <1>1, <1>2

(* No step of a living task, and no delivery, leaves a row without a       *)
(* wakeup.                                                                 *)
LEMMA WakeupsStep ==
  TypeOK /\ TypeOK' /\ RowsInv /\ HeldInv /\ WakeupsCoverQueue /\ [Next]_vars
    => WakeupsCoverQueue'
<1> SUFFICES ASSUME TypeOK, TypeOK', RowsInv, HeldInv, WakeupsCoverQueue, [Next]_vars,
                    (pc \notin Unstarted \cup {"failed"})'
             PROVE  Cardinality(queue)' <= tokens' + InHand' + Cardinality(Stranded)'
  BY DEF WakeupsCoverQueue, Stranded
<1> USE CountsAreNat DEF Unstarted, Goto, Aside, dbVars, localVars, worldVars, Server
<1>0. Stranded' \subseteq Events /\ Cardinality(Stranded)' \in Nat /\ InHand' \in {0, 1}
  BY EventsAssumption, FS_Subset, FS_CardinalityType DEF Stranded, InHand
<1>1. pc \notin Unstarted \cup {"failed"} =>
        Cardinality(queue) <= tokens + InHand + Cardinality(Stranded)
  BY DEF WakeupsCoverQueue, Stranded
<1>2. delivery' = delivery => Stranded' = Stranded
  BY DEF Stranded
<1>3. CASE StartWorker
  BY <1>0, <1>3 DEF StartWorker, StartWith
<1>4. ASSUME UNCHANGED <<queue, delivery>>, pc \notin Unstarted \cup {"failed"},
             tokens' + InHand' >= tokens + InHand
      PROVE  Cardinality(queue)' <= tokens' + InHand' + Cardinality(Stranded)'
  <2>1. Cardinality(queue') = Cardinality(queue) /\ Stranded' = Stranded
    BY <1>2, <1>4
  <2>2. tokens' \in Nat
    BY DEF TypeOK
  <2> QED BY <1>0, <1>1, <1>4, <2>1, <2>2
<1>5. CASE TakeToken
  BY <1>4, <1>5 DEF TakeToken, TakeTokenTo, InHand
<1>6. CASE PassGate \/ RecheckGate \/ FetchNothing
  BY <1>4, <1>6 DEF PassGate, RecheckGate, FetchNothing, InHand
<1>7. CASE Fetch
  BY <1>4, <1>7 DEF Fetch, Hold, Oldest, InHand
<1>8. CASE Claim \/ HandlerReturns \/ FinishJob
  BY <1>4, <1>8 DEF Claim, NewJob, HandlerReturns, FinishJob, InHand
<1>9. ASSUME DeleteRow(event), UNCHANGED <<delivery, tokens>>,
             pc \in {"discard", "forget", "delete"}
      PROVE  Cardinality(queue)' <= tokens' + InHand' + Cardinality(Stranded)'
  <2>1. InHand = IF event \in queue THEN 1 ELSE 0
    BY <1>9 DEF InHand
  <2> QED BY <1>0, <1>1, <1>2, <1>9, <2>1, DeleteCounts
<1>10. CASE Discard \/ Forget \/ DeleteEvent
  BY <1>9, <1>10 DEF Discard, Forget, DeleteEvent
<1>11. ASSUME NEW e \in Events, Enqueue(e) \/ EnqueueCancelled(e)
       PROVE  Cardinality(queue)' <= tokens' + InHand' + Cardinality(Stranded)'
  <2>1. InHand' >= InHand
    BY <1>11 DEF Enqueue, EnqueueCancelled, Store, InHand
  <2>2. \/ tokens' = tokens + 1 /\ Store(e, "stored")
        \/ tokens' = tokens /\ Store(e, "stranded")
    BY <1>11 DEF Enqueue, EnqueueCancelled
  <2>3. \/ tokens' = tokens + 1 /\ Cardinality(Stranded') = Cardinality(Stranded)
        \/ tokens' = tokens /\ Cardinality(Stranded') = Cardinality(Stranded) + 1
    BY <2>2, StoreCounts
  <2>4. Cardinality(queue') = Cardinality(queue) + 1
    BY <2>2, StoreCounts
  <2>5. pc \notin Unstarted \cup {"failed"}
    BY <1>11 DEF Enqueue, EnqueueCancelled
  <2> QED BY <1>0, <1>1, <2>1, <2>3, <2>4, <2>5
<1>12. ASSUME NEW e \in Events, EnqueueFails(e) \/ Refuse(e)
       PROVE  Cardinality(queue)' <= tokens' + InHand' + Cardinality(Stranded)'
  <2>1. Stranded' = Stranded
    BY <1>12 DEF EnqueueFails, Refuse, Stranded, TypeOK
  <2>2. UNCHANGED <<queue, tokens, pc, event>>
    BY <1>12 DEF EnqueueFails, Refuse
  <2>3. InHand' = InHand
    BY <2>2 DEF InHand
  <2> QED BY <1>0, <1>1, <2>1, <2>2, <2>3
<1>13. CASE Pause \/ Resume \/ UNCHANGED vars
  BY <1>4, <1>13 DEF Pause, Resume, InHand, vars
<1>14. CASE HandlerPanics \/ Supervise \/ DbFails \/ Restart
  BY <1>14 DEF HandlerPanics, Supervise, DbFails, Restart
<1> QED
  BY <1>3, <1>5, <1>6, <1>7, <1>8, <1>10, <1>11, <1>12, <1>13, <1>14
  DEF Next, Work, Deliver, Resting

(* While the task lives, every row has a wakeup, but for those whose       *)
(* client hung up.                                                         *)
THEOREM WakeupsCover == Spec => []WakeupsCoverQueue
<1>1. Init => WakeupsCoverQueue
  BY DEF Init, WakeupsCoverQueue, Unstarted
<1>2. Inv /\ Inv' /\ WakeupsCoverQueue /\ [Next]_vars => WakeupsCoverQueue'
  BY WakeupsStep DEF Inv
<1> QED  BY <1>1, <1>2, Invariance, PTL DEF Spec

-----------------------------------------------------------------------------
(* What the refinement needs besides: the handler is only called for       *)
(* events of a known kind.                                                 *)
OnlyAllowed == \A j \in DOMAIN jobs : jobs[j].event \in Allowed

LEMMA AllowedStep == TypeOK /\ TaskInv /\ OnlyAllowed /\ [Next]_vars => OnlyAllowed'
<1> SUFFICES ASSUME TypeOK, TaskInv, OnlyAllowed, [Next]_vars PROVE OnlyAllowed'
  OBVIOUS
<1> USE DEF OnlyAllowed, Goto, dbVars
<1>1. CASE Claim
  BY <1>1 DEF Claim, NewJob, TypeOK, TaskInv, Handling
<1>2. CASE FinishJob
  BY <1>2 DEF FinishJob, TypeOK, TaskInv, Running
<1> QED
  BY <1>1, <1>2 DEF Next, Work, Deliver, Resting, StartWorker, StartWith, TakeToken,
     TakeTokenTo, PassGate, RecheckGate, Fetch, Hold, FetchNothing, Discard, Forget,
     DeleteRow, HandlerReturns, HandlerPanics, DeleteEvent, Supervise, Enqueue,
     EnqueueCancelled, EnqueueFails, Refuse, Pause, Resume, DbFails, Restart, vars

(* A step that changes the phase of one event moves the ledger.            *)
LEMMA OnePhase ==
  ASSUME NEW e \in Events, NEW p, PhaseOf(e)' = p,
         \A f \in Events \ {e} : PhaseOf(f)' = PhaseOf(f)
  PROVE  Ledger!Become(e, p)
BY DEF Ledger!Become

(* A step that changes the phase of none is no step of the ledger.         *)
LEMMA SamePhases ==
  ASSUME \A e \in Events : PhaseOf(e)' = PhaseOf(e)
  PROVE  [e \in Events |-> PhaseOf(e)]' = [e \in Events |-> PhaseOf(e)]
OBVIOUS

(* The phase of the event in an attempt, and of the one to be tried again. *)
LEMMA HeldPhases ==
  ASSUME Inv, OnlyAllowed
  PROVE  /\ pc \in Running => PhaseOf(event) = IF event \in queue THEN "first" ELSE "second"
         /\ pc = "claim" => PhaseOf(event) = IF event \in queue THEN "queued" ELSE "interrupted"
         /\ pc = "discard" => PhaseOf(event) = IF event \in queue THEN "queued" ELSE "gone"
         /\ pc \notin Running => \A e \in Events : PhaseOf(e) \notin {"first", "second"}
         /\ pc \in Handling => event \in Allowed
<1> USE DEF Inv, TaskInv, Running, Handling, Holding
<1>1. ASSUME pc \in Running, event \in queue PROVE job_id[event] # NoJob
  <2>1. job \in JobsOf(event)
    BY <1>1 DEF JobsOf
  <2> QED BY <1>1, <2>1 DEF RowsInv
<1>2. ASSUME pc = "discard", event \in queue PROVE job_id[event] = NoJob
  <2>1. JobsOf(event) = {}
    BY <1>2 DEF JobsOf, OnlyAllowed, HeldInv
  <2> QED BY <1>2, <2>1 DEF RowsInv
<1> QED BY <1>1, <1>2 DEF PhaseOf, InAttempt, HeldInv

(* An event leaves the task's hands when the task dies: an attempt is      *)
(* interrupted or over, and a second one that was about to start is given  *)
(* up.                                                                     *)
LEMMA DropPhase ==
  ASSUME Inv, OnlyAllowed, HoldNothing, UNCHANGED <<dbVars, delivery>>,
         pc' \notin Holding
  PROVE  Ledger!Next \/ [e \in Events |-> PhaseOf(e)]' = [e \in Events |-> PhaseOf(e)]
<1> USE DEF HoldNothing, dbVars, Running, Handling, Holding
<1>1. \A e \in Events : e # event => PhaseOf(e)' = PhaseOf(e)
  BY EventsAssumption DEF PhaseOf, InAttempt, Stored
<1>2. pc \in Holding => event \in Events /\ Stored(event) /\ event # NoEvent
  BY EventsAssumption DEF Inv, TaskInv
<1>3. pc \notin Holding => event = NoEvent
  BY DEF Inv, TaskInv
<1>4. ASSUME pc \in Running, NEW e \in Events, e = event PROVE Ledger!Next
  <2>1. PhaseOf(e) = IF e \in queue THEN "first" ELSE "second"
    BY <1>4, HeldPhases
  <2>2. PhaseOf(e)' = IF e \in queue THEN "interrupted" ELSE "gone"
    BY <1>2, <1>4, <2>1 DEF PhaseOf, InAttempt, Stored
  <2>3. Ledger!Become(e, IF e \in queue THEN "interrupted" ELSE "gone")
    BY <1>1, <1>4, <2>2, OnePhase
  <2> QED
    BY <2>1, <2>3 DEF Ledger!Next, Ledger!Interrupt, Ledger!Complete, Ledger!InAttempt
<1>5. ASSUME pc = "claim", event \notin queue, NEW e \in Events, e = event PROVE Ledger!Next
  <2>1. PhaseOf(e) = "interrupted"
    BY <1>5, HeldPhases
  <2>2. PhaseOf(e)' = "gone"
    BY <1>2, <1>5 DEF PhaseOf, InAttempt, Stored
  <2>3. Ledger!Become(e, "gone")
    BY <1>1, <1>5, <2>2, OnePhase
  <2> QED  BY <2>1, <2>3 DEF Ledger!Next, Ledger!GiveUp
<1>6. CASE pc \notin Running /\ ~(pc = "claim" /\ event \notin queue)
  <2>1. \A e \in Events : PhaseOf(e)' = PhaseOf(e)
    BY <1>3, <1>6, EventsAssumption DEF PhaseOf, InAttempt, Stored
  <2> QED  BY <2>1, SamePhases
<1> QED  BY <1>2, <1>4, <1>5, <1>6

(* Every step of the queue is a step of the ledger or leaves it as it is.  *)
LEMMA LedgerStep ==
  Inv /\ OnlyAllowed /\ [Next]_vars
    => [Ledger!Next]_([e \in Events |-> PhaseOf(e)])
<1> SUFFICES ASSUME Inv, OnlyAllowed, [Next]_vars
             PROVE  \/ Ledger!Next
                    \/ [e \in Events |-> PhaseOf(e)]' = [e \in Events |-> PhaseOf(e)]
  OBVIOUS
<1> USE EventsAssumption
    DEF Goto, Aside, dbVars, localVars, worldVars, Server, Running, Handling, Holding
<1>1. ASSUME UNCHANGED <<queue, job_id, event, delivery>>,
             pc' = pc \/ {pc, pc'} \cap {"claim", "handling", "finish", "delete"} = {}
      PROVE  \A e \in Events : PhaseOf(e)' = PhaseOf(e)
  BY <1>1 DEF PhaseOf, InAttempt, Stored
<1>2. CASE StartWorker \/ TakeToken \/ PassGate \/ RecheckGate \/ FetchNothing \/ Supervise
             \/ Pause \/ Resume \/ UNCHANGED vars
  BY <1>1, <1>2, SamePhases DEF StartWorker, StartWith, Unstarted, TakeToken, TakeTokenTo,
     PassGate, RecheckGate, FetchNothing, Supervise, Pause, Resume, vars
<1>3. CASE Fetch
  <2>1. PICK e \in Oldest : Hold(e)
    BY <1>3 DEF Fetch
  <2>2. e \in queue /\ event = NoEvent
    BY <2>1 DEF Oldest, Hold, Inv, TaskInv
  <2>3. \A f \in Events : PhaseOf(f)' = PhaseOf(f)
    BY <2>1, <2>2 DEF Hold, PhaseOf, InAttempt, Stored
  <2> QED  BY <2>3, SamePhases
<1>4. CASE Discard
  <2>1. PICK e \in Events : e = event
    BY <1>4 DEF Discard, Inv, TaskInv
  <2>2. /\ e \notin Allowed /\ Stored(e)
        /\ PhaseOf(e) = IF e \in queue THEN "queued" ELSE "gone"
    BY <1>4, <2>1, HeldPhases DEF Discard, Inv, TaskInv, HeldInv
  <2>3. /\ PhaseOf(e)' = "gone"
        /\ \A f \in Events \ {e} : PhaseOf(f)' = PhaseOf(f)
    BY <1>4, <2>1, <2>2 DEF Discard, DeleteRow, HoldNothing, PhaseOf, InAttempt, Stored, Inv, TypeOK
  <2>4. CASE e \in queue
    BY <2>2, <2>3, <2>4, OnePhase DEF Ledger!Next, Ledger!Discard
  <2>5. CASE e \notin queue
    BY <2>2, <2>3, <2>5, SamePhases
  <2> QED  BY <2>4, <2>5
<1>5. CASE Forget
  <2>1. event \in queue /\ job_id[event] # NoJob
    BY <1>5 DEF Forget, Inv, HeldInv
  <2>2. \A e \in Events : PhaseOf(e)' = PhaseOf(e)
    BY <1>5, <2>1 DEF Forget, DeleteRow, PhaseOf, InAttempt, Stored, Inv, TypeOK
  <2> QED  BY <2>2, SamePhases
<1>6. CASE Claim
  <2>1. /\ pc = "claim" /\ pc' = "handling" /\ event' = event /\ queue' = queue
        /\ delivery' = delivery /\ PointRow
    BY <1>6 DEF Claim, NewJob
  <2>2. PICK e \in Events : e = event
    BY <2>1 DEF Inv, TaskInv
  <2>3. /\ e \in Allowed
        /\ PhaseOf(e) = IF e \in queue THEN "queued" ELSE "interrupted"
        /\ \A f \in Events : PhaseOf(f) \notin {"first", "second"}
    BY <2>1, <2>2, HeldPhases
  <2>4. /\ PhaseOf(e)' = IF e \in queue THEN "first" ELSE "second"
        /\ \A f \in Events \ {e} : PhaseOf(f)' = PhaseOf(f)
    <3>1. Len(jobs) + 1 # NoJob
      BY DEF Inv, TypeOK, NoJob
    <3> QED  BY <2>1, <2>2, <3>1 DEF PointRow, PhaseOf, InAttempt, Stored, Inv, TypeOK
  <2>5. CASE e \in queue
    <3>1. Ledger!Become(e, "first")
      BY <2>4, <2>5, OnePhase
    <3> QED  BY <2>3, <2>5, <3>1 DEF Ledger!Next, Ledger!Begin, Ledger!Idle, Ledger!InAttempt
  <2>6. CASE e \notin queue
    <3>1. Ledger!Become(e, "second")
      BY <2>4, <2>6, OnePhase
    <3> QED  BY <2>3, <2>6, <3>1 DEF Ledger!Next, Ledger!BeginAgain, Ledger!Idle, Ledger!InAttempt
  <2> QED  BY <2>5, <2>6
<1>7. CASE HandlerReturns \/ FinishJob
  <2>1. \A e \in Events : PhaseOf(e)' = PhaseOf(e)
    BY <1>7 DEF HandlerReturns, FinishJob, PhaseOf, InAttempt, Stored
  <2> QED  BY <2>1, SamePhases
<1>8. CASE DeleteEvent
  <2>1. PICK e \in Events : e = event
    BY <1>8 DEF DeleteEvent, Inv, TaskInv
  <2>2. Stored(e) /\ PhaseOf(e) = IF e \in queue THEN "first" ELSE "second"
    BY <1>8, <2>1, HeldPhases DEF DeleteEvent, Inv, TaskInv
  <2>3. /\ PhaseOf(e)' = "gone"
        /\ \A f \in Events \ {e} : PhaseOf(f)' = PhaseOf(f)
    BY <1>8, <2>1, <2>2 DEF DeleteEvent, DeleteRow, HoldNothing, PhaseOf, InAttempt, Stored, Inv, TypeOK
  <2>4. Ledger!Become(e, "gone")
    BY <2>3, OnePhase
  <2> QED  BY <2>2, <2>4 DEF Ledger!Next, Ledger!Complete, Ledger!InAttempt
<1>9. CASE HandlerPanics \/ DbFails \/ Restart
  BY <1>9, DropPhase DEF HandlerPanics, DbFails, Restart
<1>10. ASSUME NEW e \in Events, Enqueue(e) \/ EnqueueCancelled(e) PROVE Ledger!Next
  <2>1. PICK o \in {"stored", "stranded"} : Store(e, o)
    BY <1>10 DEF Enqueue, EnqueueCancelled
  <2>2. ~Stored(e) /\ e \notin queue /\ event # e /\ UNCHANGED <<pc, event>>
    BY <1>10, <2>1 DEF Enqueue, EnqueueCancelled, Store, Stored, Inv, TaskInv, RowsInv
  <2>3. PhaseOf(e) = "new"
    BY <2>2 DEF PhaseOf, InAttempt
  <2>4. /\ PhaseOf(e)' = "queued"
        /\ \A f \in Events \ {e} : PhaseOf(f)' = PhaseOf(f)
    BY <2>1, <2>2 DEF Store, PhaseOf, InAttempt, Stored, Inv, TypeOK
  <2>5. Ledger!Become(e, "queued")
    BY <2>4, OnePhase
  <2> QED  BY <2>3, <2>5 DEF Ledger!Next, Ledger!Arrive
<1>11. ASSUME NEW e \in Events, EnqueueFails(e) \/ Refuse(e)
       PROVE  [f \in Events |-> PhaseOf(f)]' = [f \in Events |-> PhaseOf(f)]
  <2>1. UNCHANGED <<queue, job_id, pc, event>> /\ \A f \in Events : Stored(f)' <=> Stored(f)
    BY <1>11 DEF EnqueueFails, Refuse, Stored, Inv, TypeOK
  <2>2. \A f \in Events : PhaseOf(f)' = PhaseOf(f)
    BY <2>1 DEF PhaseOf, InAttempt
  <2> QED  BY <2>2, SamePhases
<1> QED
  BY <1>2, <1>3, <1>4, <1>5, <1>6, <1>7, <1>8, <1>9, <1>10, <1>11
  DEF Next, Work, Deliver, Resting

(* The queue keeps what EventLedger promises to deliverers: at most two    *)
(* attempts at an event, one attempt at a time, and none for an unknown    *)
(* kind only.                                                              *)
THEOREM ImplementsLedger == Spec => LedgerSpec
<1>1. Init => Ledger!Init
  <2> SUFFICES ASSUME Init, NEW e \in Events PROVE PhaseOf(e) \in {"new", "queued"}
    BY DEF Ledger!Init
  <2> QED  BY EventsAssumption DEF Init, PhaseOf, InAttempt, Stored
<1>2. Init => OnlyAllowed
  BY DEF Init, OnlyAllowed
<1>3. Inv /\ OnlyAllowed /\ [Next]_vars => OnlyAllowed'
  BY AllowedStep DEF Inv
<1> QED
  BY <1>1, <1>2, <1>3, LedgerStep, Invariance, PTL DEF Spec, LedgerSpec, Ledger!Spec
=============================================================================
