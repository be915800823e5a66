----------------------------- MODULE TokenCache -----------------------------
(***************************************************************************)
(* The GitHub client that jobs share (CachedOctocrab in github.rs).  A     *)
(* background task replaces it Refresh after its token was obtained, and   *)
(* asks again Retry after a failure.  A pull request job takes the client  *)
(* when it begins (bench_pr in job/bench_pr.rs) and reports with it when   *)
(* it ends, with a token that is by then as old as the job and more.       *)
(*                                                                         *)
(* Time passes in units of the constants' choice; a Tick may not pass what *)
(* is due.  External: GitHub issues a token while it answers, which takes  *)
(* at most MaxAnswer (the code sets no limit), and refuses at most         *)
(* MaxFailures times in a row.  That the client may renew its token on its *)
(* own is not modelled.                                                    *)
(*                                                                         *)
(* Nothing in the code limits a job as a whole, although it limits most of *)
(* the commands in it: MaxJob only bounds what TLC explores.               *)
(***************************************************************************)
EXTENDS Integers

CONSTANTS
  Expiry,      \* how long a token is valid
  Refresh,     \* sleep between refreshes
  Retry,       \* sleep after a refresh that failed
  MaxAnswer, MaxFailures,
  MaxJob       \* bound on the age of a job

ASSUME TokenCacheAssumption ==
  /\ Expiry \in Nat /\ Refresh \in Nat /\ Retry \in Nat
  /\ MaxAnswer \in Nat \ {0} /\ MaxJob \in Nat \ {0} /\ MaxFailures \in Nat

VARIABLES
  age,        \* of the token of installation_client
  task,       \* "sleeping" or "asking"
  due,        \* time to the task's next step, at most
  failures,   \* refreshes that failed since the last one that did not
  job,        \* is a job under way?
  jobAge,     \* how long ago it took the client
  held,       \* age of the token of the client it took
  takenLate   \* had the refresh failed when it took the client?

refresher == <<age, task, due, failures>>
holder == <<job, jobAge, held, takenLate>>
vars == <<refresher, holder>>

(* CachedOctocrab::new obtains the first token and starts the task.        *)
Init ==
  /\ age \in 0 .. MaxAnswer
  /\ task = "sleeping" /\ due = Refresh
  /\ failures = 0
  /\ job = FALSE /\ jobAge = 0 /\ held = 0 /\ takenLate = FALSE

-----------------------------------------------------------------------------
(* Seeded faults: plausible bugs of the code, none of them part of Next.   *)

RefreshTokenSleepingLonger ==
  /\ task = "asking"
  /\ age' \in 0 .. MaxAnswer - due
  /\ task' = "sleeping" /\ due' = Refresh + Retry
  /\ failures' = 0
  /\ UNCHANGED holder

AskForTokenUntilFailure ==
  /\ task = "sleeping" /\ due = 0
  /\ failures = 0
  /\ task' = "asking" /\ due' = MaxAnswer
  /\ UNCHANGED <<age, failures, holder>>

-----------------------------------------------------------------------------
(* The task's sleep is over.                                               *)
AskForToken ==
  /\ task = "sleeping" /\ due = 0
  /\ task' = "asking" /\ due' = MaxAnswer
  /\ UNCHANGED <<age, failures, holder>>

(* refresh_token, with a token issued at some time since it was asked for. *)
RefreshToken ==
  /\ task = "asking"
  /\ age' \in 0 .. MaxAnswer - due
  /\ task' = "sleeping" /\ due' = Refresh
  /\ failures' = 0
  /\ UNCHANGED holder

FailToRefresh ==
  /\ task = "asking" /\ failures < MaxFailures
  /\ task' = "sleeping" /\ due' = Retry
  /\ failures' = failures + 1
  /\ UNCHANGED <<age, holder>>

(* A job takes a clone of the client, cached() ...                         *)
BeginJob ==
  /\ ~job
  /\ job' = TRUE /\ jobAge' = 0
  /\ held' = age
  /\ takenLate' = (failures > 0)
  /\ UNCHANGED refresher

(* ... and has used it for the last time.                                  *)
EndJob ==
  /\ job
  /\ job' = FALSE /\ jobAge' = 0 /\ held' = 0 /\ takenLate' = FALSE
  /\ UNCHANGED refresher

Tick ==
  /\ due > 0
  /\ job => jobAge < MaxJob
  /\ age' = age + 1
  /\ due' = due - 1
  /\ IF job THEN held' = held + 1 /\ jobAge' = jobAge + 1 ELSE UNCHANGED <<held, jobAge>>
  /\ UNCHANGED <<task, failures, job, takenLate>>

Next == AskForToken \/ RefreshToken \/ FailToRefresh \/ BeginJob \/ EndJob \/ Tick

Spec == Init /\ [][Next]_vars

(* Time passes, sleeps end, GitHub answers and jobs end.                   *)
FairSpec == Spec /\ WF_vars(Tick) /\ WF_vars(AskForToken) /\ WF_vars(RefreshToken) /\ WF_vars(EndJob)

-----------------------------------------------------------------------------
(* Every variable holds a value of its type.                               *)
TypeOK ==
  /\ age \in Nat /\ task \in {"sleeping", "asking"}
  /\ due \in Nat /\ (task = "asking" => due <= MaxAnswer)
  /\ failures \in 0 .. MaxFailures
  /\ job \in BOOLEAN /\ jobAge \in 0 .. MaxJob
  /\ held \in Nat /\ takenLate \in BOOLEAN

(* How old a token may be after n failures in a row.                       *)
Oldest(n) == Refresh + 2 * MaxAnswer + n * (Retry + MaxAnswer)

(* The cached client is valid as long as GitHub does not refuse to refresh *)
(* it too often: the comment "we refresh it every 30 minutes" leaves room  *)
(* for four failures.                                                      *)
CachedIsValid == Oldest(failures) < Expiry => age < Expiry

(* A job has a valid token for as long as the oldest token it may have     *)
(* taken still lives, unless the refresh was failing when the job began.   *)
(* Beyond that nothing is certain, and nothing keeps the job from it.      *)
HeldIsValid == job /\ ~takenLate /\ Oldest(0) + jobAge < Expiry => held < Expiry

(* Whoever talks to GitHub does so with a valid token, so far as the times *)
(* and the failures allow.                                                 *)
ClientsAreValid == CachedIsValid /\ HeldIsValid

(* The token is replaced forever: a failure does not end the task.         *)
AlwaysRefreshed == []<>(age <= MaxAnswer)
=============================================================================
