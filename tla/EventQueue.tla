----------------------------- MODULE EventQueue -----------------------------
(***************************************************************************)
(* The queue of GitHub events of ci-bench-runner (event_queue.rs), with    *)
(* the part of the database it lives on (db.rs): webhook handlers store    *)
(* events and send a wakeup token; one background task takes a token,      *)
(* waits while processing is paused, fetches the oldest event, creates a   *)
(* job for it, runs the handler, records the outcome and deletes the       *)
(* event; a supervisor restarts the task whenever it errs or panics.       *)
(*                                                                         *)
(* The server runs on one thread (main.rs), so the code between two awaits *)
(* is one step, and a database operation together with the synchronous     *)
(* code that follows it is one step too: the connection's mutex keeps the  *)
(* other users of the database out until that code has run.  The one other *)
(* thread is the file watcher's, which sets the toggle at any moment.      *)
(*                                                                         *)
(* Bounded by CONSTANTS: Events (deliveries) and MaxDisturbances (database *)
(* errors, pauses and restarts).                                           *)
(***************************************************************************)
EXTENDS Integers, Sequences, FiniteSets

CONSTANTS
  Events,               \* the webhook events GitHub may deliver
  Allowed,              \* those of a kind AllowedEvent knows
  Backlog,              \* the rows in the table when the server first starts
  NoEvent,              \* the task holds no event
  ClockStepsBack,       \* may the system clock be set back?
  ClientsMayDisconnect, \* may a client hang up while its event is stored?
  MaxDisturbances       \* bound on database errors, pauses and restarts

ASSUME EventsAssumption ==
  /\ IsFiniteSet(Events)
  /\ Allowed \subseteq Events
  /\ Backlog \subseteq Events
  /\ NoEvent \notin Events

ASSUME SwitchesAssumption ==
  /\ ClockStepsBack \in BOOLEAN
  /\ ClientsMayDisconnect \in BOOLEAN
  /\ MaxDisturbances \in Nat

VARIABLES
  \* the database
  queue,           \* the events that have a row in table event_queue
  created,         \* created[e]: created_utc of the event's row
  job_id,          \* job_id[e]: job_id of the event's row, NoJob when NULL
  jobs,            \* table jobs, in order of creation
  \* the server's memory
  tokens,          \* messages in the event_enqueued channel
  active_job_id,   \* what /info reports as the active job
  enabled,         \* the toggle's watch channel
  \* the background task
  pc, event, job, success,
  \* the outside world
  delivery,        \* delivery[e]: what became of the delivery of e
  now,             \* the latest reading of the system clock
  disturbances,    \* errors, pauses and restarts so far
  lateStarts       \* jobs started since processing was paused

dbVars     == <<queue, created, job_id, jobs>>
localVars  == <<event, job, success>>
worldVars  == <<delivery, now>>
vars == <<dbVars, tokens, active_job_id, enabled, pc, localVars, worldVars,
          disturbances, lateStarts>>

NoJob == 0

(* Outcomes of a job: column `success` of table jobs.                      *)
Outcomes == {"none", "ok", "err"}

Job == [event : Events, success : Outcomes]

PCs == {"starting", "backoff", "recv", "gate", "gated", "fetch", "discard", "forget",
        "claim", "handling", "finish", "delete", "failed"}

(* The task has not counted the rows yet: on the first start of a server,  *)
(* where it is ahead of every webhook in the queue for the connection's    *)
(* mutex, or after a failure, where it is not.                             *)
Unstarted == {"starting", "backoff"}

Deliveries == {"pending", "stored", "stranded", "refused", "failed"}

JobsOf(e) == {j \in DOMAIN jobs : jobs[j].event = e}

(* The rows `ORDER BY created_utc LIMIT 1` may return.                     *)
Oldest == {e \in queue : \A f \in queue : created[e] <= created[f]}

(* JobView::from_job, as seen by a request that reads job j now.           *)
JobView(j) ==
  IF jobs[j].success = "ok" THEN "Success"
  ELSE IF jobs[j].success = "none" /\ active_job_id = j THEN "Pending"
  ELSE "Failure"

-----------------------------------------------------------------------------
Init ==
  /\ queue = Backlog
  /\ created \in {c \in [Events -> {0, 1}] : \A e \in Events \ Backlog : c[e] = 0}
  /\ job_id = [e \in Events |-> NoJob]
  /\ jobs = << >>
  /\ tokens = 0
  /\ active_job_id = NoJob
  /\ enabled \in BOOLEAN
  /\ pc = "starting"
  /\ event = NoEvent /\ job = NoJob /\ success = "none"
  /\ delivery = [e \in Events |-> IF e \in Backlog THEN "stored" ELSE "pending"]
  /\ now = 1
  /\ disturbances = 0
  /\ lateStarts = 0

-----------------------------------------------------------------------------
(* Shared by the actions                                                   *)

(* OffsetDateTime::now_utc(), read just before the row is inserted.        *)
Readings == (IF ClockStepsBack THEN 0 ELSE now) .. (now + 1)

Store(e, outcome) ==
  /\ delivery[e] = "pending"
  /\ e \in Allowed
  /\ delivery' = [delivery EXCEPT ![e] = outcome]
  /\ \E t \in Readings : now' = t /\ created' = [created EXCEPT ![e] = t]
  /\ queue' = queue \cup {e}
  /\ job_id' = [job_id EXCEPT ![e] = NoJob]

Goto(from, to) == pc = from /\ pc' = to

HoldNothing == event' = NoEvent /\ job' = NoJob /\ success' = "none"

(* What no webhook touches, and what no step of the task touches.          *)
Server == <<active_job_id, enabled, pc, localVars, disturbances, lateStarts>>
Aside  == <<enabled, worldVars, disturbances, lateStarts>>

StartWith(n) ==
  /\ pc \in Unstarted /\ pc' = "recv"
  /\ tokens' = tokens + n
  /\ UNCHANGED <<dbVars, active_job_id, localVars, Aside>>

TakeTokenTo(place) ==
  /\ Goto("recv", place)
  /\ tokens > 0
  /\ tokens' = tokens - 1
  /\ UNCHANGED <<dbVars, active_job_id, localVars, Aside>>

(* A fresh event is claimed, one that a dead task left behind is first     *)
(* deleted, one of an unknown kind is discarded.                           *)
Hold(e) ==
  /\ event' = e
  /\ \/ e \notin Allowed /\ Goto("fetch", "discard")
     \/ e \in Allowed /\ job_id[e] = NoJob /\ Goto("fetch", "claim")
     \/ e \in Allowed /\ job_id[e] # NoJob /\ Goto("fetch", "forget")
  /\ UNCHANGED <<dbVars, tokens, active_job_id, job, success, Aside>>

DeleteRow(e) ==
  /\ queue' = queue \ {e}
  /\ job_id' = [job_id EXCEPT ![e] = NoJob]
  /\ UNCHANGED <<created, jobs>>

(* The transaction of new_job_for_event: INSERT INTO jobs ...              *)
NewJob ==
  /\ Goto("claim", "handling")
  /\ jobs' = Append(jobs, [event |-> event, success |-> "none"])
  /\ job' = Len(jobs) + 1
  /\ lateStarts' = IF enabled THEN 0 ELSE lateStarts + 1
  /\ UNCHANGED <<queue, created, tokens, event, success, enabled, worldVars, disturbances>>

(* ... UPDATE event_queue SET job_id = ? WHERE id = ?                      *)
PointRow ==
  job_id' = IF event \in queue THEN [job_id EXCEPT ![event] = Len(jobs) + 1] ELSE job_id

-----------------------------------------------------------------------------
(* Seeded faults: plausible bugs of the code, none of them part of Next.   *)
(* PROJECT.json says which action each stands in for and what then fails.  *)

EnqueueSilently(e) == Store(e, "stored") /\ UNCHANGED <<jobs, tokens, Server>>

StartWorkerIgnoresRows == StartWith(0)
TakeTokenSkipsGate == TakeTokenTo("fetch")

FetchUnordered == \E e \in queue : Hold(e)

FetchRemovesRow ==
  \E e \in Oldest :
    /\ Goto("fetch", "claim")
    /\ event' = e
    /\ DeleteRow(e)
    /\ UNCHANGED <<tokens, active_job_id, job, success, Aside>>

FetchNothingTriesAgain ==
  /\ queue = {}
  /\ Goto("fetch", "recv")
  /\ tokens' = tokens + 1
  /\ UNCHANGED <<dbVars, active_job_id, localVars, Aside>>

ForgetKeepsRow ==
  /\ Goto("forget", "claim")
  /\ UNCHANGED <<dbVars, tokens, active_job_id, localVars, Aside>>

ClaimSilently == NewJob /\ PointRow /\ UNCHANGED active_job_id

ClaimLeavesRowAlone == NewJob /\ UNCHANGED job_id /\ active_job_id' = job'

SuperviseKeepsActive ==
  /\ Goto("failed", "backoff")
  /\ UNCHANGED <<dbVars, tokens, active_job_id, localVars, Aside>>

-----------------------------------------------------------------------------
(* Webhooks (handle_github_webhook, EventQueue::enqueue, Db::enqueue_event) *)

Enqueue(e) ==
  /\ Store(e, "stored")
  /\ tokens' = tokens + 1
  /\ UNCHANGED <<jobs, Server>>

(* The client hangs up while the INSERT is under way: the connection's     *)
(* thread completes it, but the handler is dropped at its await and sends  *)
(* no token.                                                               *)
EnqueueCancelled(e) ==
  /\ ClientsMayDisconnect
  /\ Store(e, "stranded")
  /\ UNCHANGED <<jobs, tokens, Server>>

(* The INSERT fails and `unwrap` panics; only this request is affected.    *)
EnqueueFails(e) ==
  /\ delivery[e] = "pending"
  /\ e \in Allowed
  /\ disturbances < MaxDisturbances
  /\ disturbances' = disturbances + 1
  /\ delivery' = [delivery EXCEPT ![e] = "failed"]
  /\ UNCHANGED <<dbVars, tokens, active_job_id, enabled, pc, localVars, now, lateStarts>>

(* A kind that AllowedEvent does not know: 400, nothing is stored.         *)
Refuse(e) ==
  /\ delivery[e] = "pending"
  /\ e \notin Allowed
  /\ delivery' = [delivery EXCEPT ![e] = "refused"]
  /\ UNCHANGED <<dbVars, tokens, Server, now>>

-----------------------------------------------------------------------------
(* The toggle, as far as the queue can see it: the value the watcher's     *)
(* thread last put in the watch channel.                                   *)

Pause ==
  /\ enabled
  /\ disturbances < MaxDisturbances
  /\ disturbances' = disturbances + 1
  /\ enabled' = FALSE
  /\ UNCHANGED <<dbVars, tokens, active_job_id, pc, localVars, worldVars, lateStarts>>

Resume ==
  /\ ~enabled
  /\ enabled' = TRUE
  /\ lateStarts' = 0
  /\ UNCHANGED <<dbVars, tokens, active_job_id, pc, localVars, worldVars, disturbances>>

-----------------------------------------------------------------------------
(* The background task (process_queued_events_in_background)               *)

(* Startup: a token for every row that is already in the table.            *)
StartWorker == StartWith(Cardinality(queue))

TakeToken == TakeTokenTo("gate")

(* wait_for_processing_enabled: `wait_for` sees the toggle enabled and     *)
(* gives up its lock on the channel ...                                    *)
PassGate ==
  /\ Goto("gate", "gated")
  /\ enabled
  /\ UNCHANGED <<dbVars, tokens, active_job_id, localVars, Aside>>

(* ... then `assert!` borrows the channel again, and panics if the         *)
(* watcher's thread has paused processing in between.                      *)
RecheckGate ==
  /\ pc = "gated"
  /\ pc' = IF enabled THEN "fetch" ELSE "failed"
  /\ UNCHANGED <<dbVars, tokens, active_job_id, localVars, Aside>>

(* next_queued_event, and what the task makes of the event.                *)
Fetch == \E e \in Oldest : Hold(e)

(* fetch_one errs when the table is empty.                                 *)
FetchNothing ==
  /\ queue = {}
  /\ Goto("fetch", "failed")
  /\ UNCHANGED <<dbVars, tokens, active_job_id, localVars, Aside>>

Discard ==
  /\ Goto("discard", "recv")
  /\ DeleteRow(event)
  /\ HoldNothing
  /\ UNCHANGED <<tokens, active_job_id, Aside>>

(* "To avoid an infinite crash loop" the row goes before the second try.   *)
Forget ==
  /\ Goto("forget", "claim")
  /\ DeleteRow(event)
  /\ UNCHANGED <<tokens, active_job_id, localVars, Aside>>

(* new_job_for_event: one transaction inserts the job and points the row,  *)
(* if there still is one, at it; the job then becomes the active one.      *)
Claim == NewJob /\ PointRow /\ active_job_id' = job'

(* The event's handler returns, with an error or without.                  *)
HandlerReturns ==
  /\ Goto("handling", "finish")
  /\ success' \in {"ok", "err"}
  /\ UNCHANGED <<dbVars, tokens, active_job_id, event, job, Aside>>

HandlerPanics ==
  /\ Goto("handling", "failed")
  /\ HoldNothing
  /\ UNCHANGED <<dbVars, tokens, active_job_id, Aside>>

FinishJob ==
  /\ Goto("finish", "delete")
  /\ jobs' = [jobs EXCEPT ![job] = [event |-> jobs[job].event, success |-> success]]
  /\ UNCHANGED <<queue, created, job_id, tokens, active_job_id, localVars, Aside>>

DeleteEvent ==
  /\ Goto("delete", "recv")
  /\ DeleteRow(event)
  /\ HoldNothing
  /\ UNCHANGED <<tokens, active_job_id, Aside>>

(* A database operation errs, and `?` ends the task.                       *)
DbFails ==
  /\ pc \in Unstarted \cup {"fetch", "discard", "forget", "claim", "finish", "delete"}
  /\ pc' = "failed"
  /\ HoldNothing
  /\ disturbances < MaxDisturbances
  /\ disturbances' = disturbances + 1
  /\ UNCHANGED <<dbVars, tokens, active_job_id, enabled, worldVars, lateStarts>>

-----------------------------------------------------------------------------
(* start_and_supervise_queue_processing: the task has ended, it is started *)
(* again after a second.                                                   *)
Supervise ==
  /\ Goto("failed", "backoff")
  /\ active_job_id' = NoJob
  /\ UNCHANGED <<dbVars, tokens, localVars, Aside>>

(* The server dies and is started again (EventQueue::new): the database is *)
(* all that is left.                                                       *)
Restart ==
  /\ disturbances < MaxDisturbances
  /\ disturbances' = disturbances + 1
  /\ tokens' = 0
  /\ active_job_id' = NoJob
  /\ enabled' \in BOOLEAN
  /\ lateStarts' = IF enabled' THEN 0 ELSE lateStarts
  /\ pc' = "starting"
  /\ HoldNothing
  /\ UNCHANGED <<dbVars, worldVars>>

-----------------------------------------------------------------------------
(* Nothing is left to do until the next webhook.                           *)
Resting ==
  /\ pc = "recv" /\ tokens = 0
  /\ \A e \in Events : delivery[e] # "pending"
  /\ UNCHANGED vars

Deliver ==
  /\ pc # "starting"
  /\ \E e \in Events :
       Enqueue(e) \/ EnqueueCancelled(e) \/ EnqueueFails(e) \/ Refuse(e)

(* Steps the runtime takes sooner or later once they can be taken.         *)
Work ==
  \/ StartWorker \/ TakeToken \/ PassGate \/ RecheckGate
  \/ Fetch \/ FetchNothing \/ Discard \/ Forget \/ Claim
  \/ HandlerReturns \/ HandlerPanics \/ FinishJob \/ DeleteEvent
  \/ Supervise

Next == Work \/ Deliver \/ Pause \/ Resume \/ DbFails \/ Restart \/ Resting

Spec == Init /\ [][Next]_vars

(* The runtime keeps polling its tasks, and a handler returns or panics.   *)
(* Nothing obliges anyone to deliver, pause, resume, fail or restart.      *)
FairSpec == Spec /\ WF_vars(Work)

-----------------------------------------------------------------------------
(* Every variable holds a value the code can put there.                    *)
TypeOK ==
  /\ queue \subseteq Events
  /\ created \in [Events -> Nat]
  /\ job_id \in [Events -> Nat]
  /\ jobs \in Seq(Job)
  /\ tokens \in Nat
  /\ active_job_id \in 0 .. Len(jobs)
  /\ enabled \in BOOLEAN
  /\ pc \in PCs
  /\ event \in Events \cup {NoEvent}
  /\ job \in 0 .. Len(jobs)
  /\ success \in Outcomes
  /\ delivery \in [Events -> Deliveries]
  /\ now \in Nat
  /\ disturbances \in 0 .. MaxDisturbances
  /\ lateStarts \in Nat

(* "To avoid an infinite crash loop": however often the task, the database *)
(* or the server fails, no event is given to its handler three times.      *)
AtMostTwoAttempts ==
  \A i, j, k \in DOMAIN jobs :
    jobs[i].event = jobs[j].event /\ jobs[j].event = jobs[k].event
      => i = j \/ j = k \/ i = k

(* An event whose row was stored is in the table until it has been given   *)
(* to its handler: no crash or failed operation lets it vanish untried.    *)
Stored(e) == delivery[e] \in {"stored", "stranded"}

NoEventLost ==
  \A e \in Allowed : Stored(e) => e \in queue \/ JobsOf(e) # {}

(* While the task lives there is a token, or the task itself, for every    *)
(* row, except for rows whose client hung up before a token was sent.      *)
(* Otherwise a row is stuck until some later event or restart.             *)
InHand ==
  IF \/ pc \in {"gate", "gated", "fetch"}
     \/ pc \in {"discard", "forget", "claim", "handling", "finish", "delete"}
          /\ event \in queue
  THEN 1 ELSE 0

WakeupsCoverQueue ==
  pc \notin Unstarted \cup {"failed"} =>
    Cardinality(queue) <= tokens + InHand
                            + Cardinality({e \in Events : delivery[e] = "stranded"})

(* /jobs/<id> says "Pending" exactly for the job the task is running, even *)
(* though the status is put together from the table and from a variable    *)
(* the task and its supervisor write at other times.  The one exception is *)
(* the moment between the task's death and the supervisor's next poll.     *)
StatusTellsTruth ==
  pc # "failed" =>
    \A j \in DOMAIN jobs :
      JobView(j) = "Pending" <=> pc \in {"handling", "finish"} /\ job = j

(* A pause lets the active job run to completion; at most one job starts   *)
(* after it, the one whose event had already passed the gate.              *)
OneLateStart == lateStarts <= 1

(* Jobs are created in the order in which their events arrived, across     *)
(* interrupted attempts and restarts, if the clock is never set back.      *)
JobsFollowArrival ==
  ~ClockStepsBack =>
    \A i, j \in DOMAIN jobs :
      i < j => created[jobs[i].event] <= created[jobs[j].event]

(* A job once reported as failed is never reported otherwise: a client may *)
(* stop polling at "Failure".                                              *)
FailureIsFinal ==
  [][\A j \in DOMAIN jobs : JobView(j) = "Failure" => JobView(j)' = "Failure"]_vars

(* What deliverers are promised (EventLedger): the phase an event is in is *)
(* read off its row, the row's job_id and where the task is.               *)
InAttempt(e) == event = e /\ pc \in {"handling", "finish", "delete"}

PhaseOf(e) ==
  IF e \in queue
  THEN IF job_id[e] = NoJob THEN "queued"
       ELSE IF InAttempt(e) THEN "first" ELSE "interrupted"
  ELSE IF InAttempt(e) THEN "second"
       ELSE IF event = e /\ pc = "claim" THEN "interrupted"
       ELSE IF Stored(e) THEN "gone" ELSE "new"

Ledger == INSTANCE EventLedger WITH phase <- [e \in Events |-> PhaseOf(e)]

LedgerSpec == Ledger!Spec

(* If processing is not paused for good and clients wait for their answer, *)
(* every stored event is eventually off the table.                         *)
EventuallyHandled ==
  <>[]enabled => \A e \in Events : Stored(e) ~> e \notin queue

(* No job is reported as pending for ever: not even by a task that died.   *)
Pending(j) == j \in DOMAIN jobs /\ JobView(j) = "Pending"

PendingEnds ==
  \A j \in 1 .. 2 * Cardinality(Events) : Pending(j) ~> ~Pending(j)

(* Spurious tokens and failed fetches die out: once disturbances end, the  *)
(* task comes to rest in recv, with an empty channel.                      *)
Quiesces == <>[]enabled => <>[](pc = "recv" /\ tokens = 0)
=============================================================================
