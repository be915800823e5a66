------------------------------ MODULE Triggers ------------------------------
(***************************************************************************)
(* Which events about a pull request start a benchmark run, and on which   *)
(* commit (handle_issue_comment, handle_pr_review and handle_pr_update in  *)
(* job/bench_pr.rs).  An event says what was true when GitHub sent it; by  *)
(* the time it is handled the pull request may have moved on, and its own  *)
(* answers have become events too.  The code tells them from others by     *)
(* comparing the author's user id with the configured App id, which is a   *)
(* number of another kind.                                                 *)
(*                                                                         *)
(* Events may be about another repository's pull request of the same       *)
(* number.  Reviews and updates are checked for that, comments are not.    *)
(*                                                                         *)
(* GitHub and the people on it are external: the pull request is opened,   *)
(* pushed to, reviewed and commented on at any moment, and the deliveries  *)
(* may overtake each other, so that any event that was sent may be the     *)
(* next to be handled.  An attempt that dies (module EventQueue) is not    *)
(* modelled: every event is handled to its end.                            *)
(*                                                                         *)
(* Bounded by CONSTANTS: MaxPushes, and MaxEvents for everything but the   *)
(* opening, the pushes and the application's answers.                      *)
(***************************************************************************)
EXTENDS Integers, FiniteSets, Bags

CONSTANTS
  Associated,  \* those whose author_association is an allowed one, which makes
               \* a person a maintainer; the application may have it too
  TakenForApp, \* those whose user id equals github_app_id, if only by chance
  MaxPushes,   \* bound on pushes to the pull request
  MaxEvents    \* bound on reviews, comments and other updates

(* A maintainer is one of the repository that the event is about.          *)
People == {"maintainer", "stranger", "app"}

ASSUME TriggersAssumption ==
  /\ Associated \subseteq People \ {"stranger"}
  /\ TakenForApp \subseteq People
  /\ MaxPushes \in Nat
  /\ MaxEvents \in Nat

VARIABLES
  fork,   \* does the pull request come from a fork?
  head,   \* the number of the pull request's head commit, 0 before it is opened
  queue,  \* the bag of events that were sent and are not handled yet
  runs,   \* the runs started: the event, and the commit that is benchmarked
  sent    \* the number of events that count against MaxEvents

vars == <<fork, head, queue, runs, sent>>

Commits == 1 .. MaxPushes + 1

(* The commit of an event is the head of the pull request or the commit    *)
(* reviewed.  A comment's payload names none: the field is the head when   *)
(* it was written, which only the properties look at.  Updates and reviews *)
(* of another repository name commits that are not the pull request's.     *)
(* The asker of an event is its author, or for an answer the asker of what *)
(* is answered; no payload names it and no handler looks at it.            *)
Foreign == 0
Actions == {"opened", "synchronize", "reopened", "edited", "submitted", "created"}
Words   == {"none", "bench", "unknown", "approved", "commented"}
Places  == {"pull", "issue", "elsewhere"}

Event == [kind : {"update", "review", "comment"}, action : Actions,
          commit : Commits \cup {Foreign}, by : People, asker : People,
          says : Words, at : Places]

Update(action, commit, place) ==
  [kind |-> "update", action |-> action, commit |-> commit, by |-> "stranger",
   asker |-> "stranger", says |-> "none", at |-> place]

Reviews(person, place, commits) ==
  [kind : {"review"}, action : {"submitted", "edited"}, commit : commits,
   by : {person}, asker : {person}, says : {"approved", "commented"}, at : {place}]

Comments(person) ==
  [kind : {"comment"}, action : {"created", "edited"}, commit : {head},
   by : {person}, asker : {person}, says : {"none", "bench", "unknown"}, at : Places]

Init ==
  /\ fork \in BOOLEAN
  /\ head = 0
  /\ queue = EmptyBag
  /\ runs = {}
  /\ sent = 0

-----------------------------------------------------------------------------
Take(e) == queue' = queue (-) SetToBag({e})

(* bench_pr on a commit, for an event.                                     *)
BenchPr(e, commit) ==
  /\ Take(e)
  /\ runs' = runs \cup {[event |-> e, commit |-> commit]}
  /\ UNCHANGED <<fork, head, sent>>

(* The handler returns, with Ok or an error, before anything is benchmarked. *)
Ignore(e) == Take(e) /\ UNCHANGED <<fork, head, runs, sent>>

(* "Unrecognized command. Available commands are: ...": the answer quotes  *)
(* the command, and GitHub sends an event for it as for any comment.  It   *)
(* goes to the configured repository, wherever the question was asked.     *)
Answer(e) ==
  LET reply == [kind |-> "comment", action |-> "created", commit |-> head,
                by |-> "app", asker |-> e.asker, says |-> "bench", at |-> "pull"]
  IN /\ queue' = (queue (-) SetToBag({e})) (+) SetToBag({reply})
     /\ UNCHANGED <<fork, head, runs, sent>>

(* ALLOWED_AUTHOR_ASSOCIATIONS                                             *)
Allowed(e) == e.by \in Associated

(* Seeded faults, none of them part of Next.                               *)
TargetUnchecked(e) == TRUE

ActionsWithoutPushes == {"opened", "reopened"}

HandleOtherOfAnyone(e) ==
  /\ e.kind = "comment" /\ e.says # "bench"
  /\ \/ e.at # "issue" /\ e.action = "created" /\ e.says = "unknown" /\ Answer(e)
     \/ Ignore(e)

(* pr_target_ok                                                            *)
TargetOk(e) == e.at # "elsewhere"

AllowedActions == {"opened", "synchronize", "reopened"}

(* The comments whose text is looked at at all: those on a pull request of *)
(* any repository.  user.id == github_app_id, "ourselves", is not true of  *)
(* the application's own comments, whose user has an id of its own.        *)
Heard(e) ==
  /\ e.at # "issue" /\ e.action = "created"
  /\ e.by \notin TakenForApp /\ Allowed(e)

Approval(e) ==
  /\ TargetOk(e) /\ e.action = "submitted"
  /\ Allowed(e) /\ e.says = "approved"

(* Two more seeded faults.                                                 *)
HandleReviewOnHead(e) ==
  /\ e.kind = "review"
  /\ IF Approval(e) THEN BenchPr(e, head) ELSE Ignore(e)

HandleBenchOnBase(e) ==
  /\ e.kind = "comment" /\ e.says = "bench"
  /\ IF Heard(e) THEN BenchPr(e, 1) ELSE Ignore(e)

-----------------------------------------------------------------------------
(* The event names the head it was sent for.  A fork's are not benchmarked, *)
(* nor is a pull request whose fork has been deleted.                      *)
HandleUpdate(e) ==
  /\ e.kind = "update"
  /\ IF TargetOk(e) /\ e.action \in AllowedActions /\ ~fork
     THEN BenchPr(e, e.commit) ELSE Ignore(e)

(* "Ensure we bench the commit that was reviewed, and not something else." *)
(* Without a fork to fetch from there are no branches: an error.           *)
HandleReview(e) ==
  /\ e.kind = "review"
  /\ IF Approval(e) THEN BenchPr(e, e.commit) \/ (fork /\ Ignore(e)) ELSE Ignore(e)

(* The configured repository's pull request of that number is looked up    *)
(* now, which may fail, or its head is missing.                            *)
HandleBench(e) ==
  /\ e.kind = "comment" /\ e.says = "bench"
  /\ IF Heard(e) THEN BenchPr(e, head) \/ Ignore(e) ELSE Ignore(e)

(* Another comment is answered if it is addressed to the application and   *)
(* GitHub takes the answer.                                                *)
HandleOther(e) ==
  /\ e.kind = "comment" /\ e.says # "bench"
  /\ \/ Heard(e) /\ e.says = "unknown" /\ Answer(e)
     \/ Ignore(e)

-----------------------------------------------------------------------------
(* The world                                                               *)

Deliver(e) == queue' = queue (+) SetToBag({e})

Open ==
  /\ head = 0 /\ head' = 1
  /\ Deliver(Update("opened", 1, "pull"))
  /\ UNCHANGED <<fork, runs, sent>>

Push ==
  /\ head \in 1 .. MaxPushes
  /\ head' = head + 1
  /\ Deliver(Update("synchronize", head + 1, "pull"))
  /\ UNCHANGED <<fork, runs, sent>>

Send(e) ==
  /\ head # 0 /\ sent < MaxEvents
  /\ sent' = sent + 1
  /\ Deliver(e)
  /\ UNCHANGED <<fork, head, runs>>

SendUpdate ==
  \/ \E action \in {"reopened", "edited"} : Send(Update(action, head, "pull"))
  \/ Send(Update("opened", Foreign, "elsewhere"))

SendReview ==
  \E person \in {"maintainer", "stranger"} :
    \E e \in Reviews(person, "pull", 1 .. head) \cup Reviews(person, "elsewhere", {Foreign}) :
      Send(e)

SendComment ==
  \E person \in {"maintainer", "stranger"} : \E e \in Comments(person) : Send(e)

Handled == head # 0 /\ queue = EmptyBag

Done == Handled /\ head = MaxPushes + 1 /\ sent = MaxEvents /\ UNCHANGED vars

Handle ==
  \E e \in BagToSet(queue) :
    HandleUpdate(e) \/ HandleReview(e) \/ HandleBench(e) \/ HandleOther(e)

Next == Handle \/ Open \/ Push \/ SendUpdate \/ SendReview \/ SendComment \/ Done

Spec == Init /\ [][Next]_vars

-----------------------------------------------------------------------------
(* Payloads hold what GitHub sends, and what is benchmarked is a commit of *)
(* the pull request, never one of another repository.                      *)
TypeOK ==
  /\ fork \in BOOLEAN
  /\ head \in 0 .. MaxPushes + 1
  /\ IsABag(queue) /\ BagToSet(queue) \subseteq Event
  /\ \A r \in runs : r.event \in Event /\ r.commit \in 1 .. head
  /\ sent \in 0 .. MaxEvents

(* readme.md:59-64: a branch of the repository is benchmarked whenever it  *)
(* changes.  When all events are handled, each of its heads has been,      *)
(* however the events overtook each other and the pushes.                  *)
EveryHeadIsBenched ==
  Handled /\ ~fork => \A c \in 1 .. head :
                        \E r \in runs : r.event.kind = "update" /\ r.commit = c

(* A run on demand is on the head that the commentator saw, or on a later  *)
(* one: what has been pushed since is included, nothing is taken out.      *)
DemandIsCurrent ==
  \A r \in runs : r.event.kind = "comment" => r.commit >= r.event.commit

(* "Ensure we bench the commit that was reviewed, and not something else", *)
(* wherever the head has moved since, as it does in a push of unreviewed   *)
(* code to a fork.                                                         *)
ReviewedCommitIsBenched ==
  \A r \in runs : r.event.kind = "review" => r.commit = r.event.commit

(* readme.md:60-64: a run that is not for a change to a branch of the      *)
(* repository goes back to a maintainer, who asked for it or was answered  *)
(* with a comment that asks for it.  A stranger starts nothing, not even   *)
(* through the application's answers, which are handled like comments of   *)
(* anybody.  (A commentator counts as a maintainer by the association with *)
(* the repository of the comment, which may be another one.)               *)
RunsAreRequested ==
  \A r \in runs : fork \/ r.event.kind # "update" => r.event.asker = "maintainer"
=============================================================================
