--------------------------- MODULE TriggersProofs ---------------------------
(***************************************************************************)
(* Proofs about Triggers, for any number of pushes, reviews and comments,  *)
(* whatever the order in which their events are handled.                   *)
(***************************************************************************)
EXTENDS Triggers, TLAPS

(* The updates that announce a head of the pull request.                   *)
Announces(e) == e.kind = "update" /\ TargetOk(e) /\ e.action \in AllowedActions

Benched(c) == \E r \in runs : r.event.kind = "update" /\ r.commit = c

(* An event that is yet to be handled names a commit the pull request has  *)
(* had, unless it is about another repository; and the application writes  *)
(* for maintainers only.                                                   *)
Payload(e) ==
  /\ e \in Event
  /\ e.at # "elsewhere" \/ e.kind = "comment" => e.commit \in 1 .. head
  /\ e.kind = "review" => e.by # "app"
  /\ e.asker = IF e.by = "app" THEN "maintainer" ELSE e.by

PayloadsInv == \A e \in BagToSet(queue) : head # 0 /\ Payload(e)

(* A head is benchmarked, or the update that announces it is on its way.   *)
HeadsInv ==
  ~fork => \A c \in 1 .. head :
             Benched(c) \/ \E e \in BagToSet(queue) : Announces(e) /\ e.commit = c

Inv ==
  /\ TypeOK
  /\ PayloadsInv
  /\ HeadsInv
  /\ DemandIsCurrent
  /\ ReviewedCommitIsBenched
  /\ RunsAreRequested

-----------------------------------------------------------------------------
(* A bag with one copy more of an event, and with one copy less.           *)
LEMMA BagAdd ==
  ASSUME NEW B, IsABag(B), NEW e
  PROVE  IsABag(B (+) SetToBag({e})) /\ BagToSet(B (+) SetToBag({e})) = BagToSet(B) \cup {e}
BY DEF IsABag, BagToSet, SetToBag, (+)

LEMMA BagRemove ==
  ASSUME NEW B, IsABag(B), NEW e
  PROVE  /\ IsABag(B (-) SetToBag({e}))
         /\ BagToSet(B (-) SetToBag({e})) \subseteq BagToSet(B)
         /\ BagToSet(B) \ {e} \subseteq BagToSet(B (-) SetToBag({e}))
BY DEF IsABag, BagToSet, SetToBag, (-)

(* Before anything happens there is nothing to be wrong about.             *)
LEMMA InitInv == Init => Inv
<1> SUFFICES ASSUME Init PROVE Inv
  OBVIOUS
<1>1. IsABag(queue) /\ BagToSet(queue) = {}
  BY DEF Init, EmptyBag, SetToBag, IsABag, BagToSet
<1> QED
  BY <1>1, TriggersAssumption DEF Init, Inv, TypeOK, PayloadsInv, HeadsInv, DemandIsCurrent,
     ReviewedCommitIsBenched, RunsAreRequested

-----------------------------------------------------------------------------
(* A run that is started for an event is on a commit of the pull request:  *)
(* the one that is announced, reviewed, or at least as late as the one     *)
(* commented on.                                                           *)
LEMMA BenchInv ==
  ASSUME Inv, NEW e \in BagToSet(queue), NEW c \in 1 .. head, BenchPr(e, c),
         e.kind \in {"update", "review"} => c = e.commit,
         e.kind = "comment" => c >= e.commit,
         fork \/ e.kind # "update" => e.asker = "maintainer"
  PROVE  Inv'
<1> USE DEF Inv
<1>1. /\ IsABag(queue') /\ BagToSet(queue') \subseteq BagToSet(queue)
      /\ BagToSet(queue) \ {e} \subseteq BagToSet(queue')
  BY BagRemove DEF BenchPr, Take, TypeOK
<1>2. /\ runs' = runs \cup {[event |-> e, commit |-> c]}
      /\ UNCHANGED <<fork, head, sent>>
  BY DEF BenchPr
<1>3. e \in Event /\ head \in Nat
  BY DEF PayloadsInv, Payload, TypeOK
<1>4. TypeOK'
  BY <1>1, <1>2, <1>3 DEF TypeOK
<1>5. PayloadsInv'
  BY <1>1, <1>2 DEF PayloadsInv, Payload
<1>6. HeadsInv'
  <2> SUFFICES ASSUME ~fork, NEW d \in 1 .. head
               PROVE  \/ \E r \in runs' : r.event.kind = "update" /\ r.commit = d
                      \/ \E f \in BagToSet(queue') : Announces(f) /\ f.commit = d
    BY <1>2 DEF HeadsInv, Benched, Announces, TargetOk
  <2>1. CASE Benched(d)
    BY <1>2, <2>1 DEF Benched
  <2>2. ASSUME NEW f \in BagToSet(queue), Announces(f), f.commit = d
        PROVE  \/ \E r \in runs' : r.event.kind = "update" /\ r.commit = d
               \/ \E g \in BagToSet(queue') : Announces(g) /\ g.commit = d
    <3>1. CASE f = e
      <4>1. [event |-> e, commit |-> c] \in runs'
        BY <1>2
      <4>2. e.kind = "update" /\ c = d
        BY <2>2, <3>1 DEF Announces
      <4> QED BY <4>1, <4>2
    <3>2. CASE f # e
      BY <1>1, <2>2, <3>2
    <3> QED BY <3>1, <3>2
  <2> QED BY <2>1, <2>2 DEF HeadsInv
<1>7. DemandIsCurrent' /\ ReviewedCommitIsBenched' /\ RunsAreRequested'
  BY <1>2 DEF DemandIsCurrent, ReviewedCommitIsBenched, RunsAreRequested
<1> QED BY <1>4, <1>5, <1>6, <1>7

(* An event may be dropped unless it announces a head that is due.         *)
LEMMA IgnoreInv ==
  ASSUME Inv, NEW e \in BagToSet(queue), Ignore(e), fork \/ ~Announces(e)
  PROVE  Inv'
<1> USE DEF Inv
<1>1. /\ IsABag(queue') /\ BagToSet(queue') \subseteq BagToSet(queue)
      /\ BagToSet(queue) \ {e} \subseteq BagToSet(queue')
  BY BagRemove DEF Ignore, Take, TypeOK
<1>2. UNCHANGED <<fork, head, runs, sent>>
  BY DEF Ignore
<1>3. TypeOK' /\ PayloadsInv'
  BY <1>1, <1>2 DEF TypeOK, PayloadsInv, Payload
<1>4. HeadsInv'
  BY <1>1, <1>2 DEF HeadsInv, Benched, Announces, TargetOk
<1>5. DemandIsCurrent' /\ ReviewedCommitIsBenched' /\ RunsAreRequested'
  BY <1>2 DEF DemandIsCurrent, ReviewedCommitIsBenched, RunsAreRequested
<1> QED BY <1>3, <1>4, <1>5

(* An event that is sent tells the truth about the pull request, and a new *)
(* head is announced.                                                      *)
LEMMA DeliverInv ==
  ASSUME Inv, NEW e, Deliver(e), UNCHANGED <<fork, runs>>, sent' \in 0 .. MaxEvents,
         head' \in 1 .. MaxPushes + 1, Payload(e)',
         head' = head \/ (head' = head + 1 /\ Announces(e) /\ e.commit = head')
  PROVE  Inv'
<1> USE DEF Inv
<1>1. IsABag(queue') /\ BagToSet(queue') = BagToSet(queue) \cup {e}
  BY BagAdd DEF Deliver, TypeOK
<1>2. head \in Nat /\ head' \in Nat /\ head <= head'
  BY TriggersAssumption DEF TypeOK
<1>3. e \in Event
  BY DEF Payload
<1>4. TypeOK'
  BY <1>1, <1>2, <1>3 DEF TypeOK
<1>5. PayloadsInv'
  BY <1>1, <1>2 DEF PayloadsInv, Payload
<1>6. HeadsInv'
  BY <1>1, <1>2 DEF HeadsInv, Benched, Announces, TargetOk
<1>7. DemandIsCurrent' /\ ReviewedCommitIsBenched' /\ RunsAreRequested'
  BY DEF DemandIsCurrent, ReviewedCommitIsBenched, RunsAreRequested
<1> QED BY <1>4, <1>5, <1>6, <1>7

(* The application answers under the pull request as it is now.            *)
LEMMA AnswerInv ==
  ASSUME Inv, NEW e \in BagToSet(queue), ~Announces(e), Answer(e), e.asker = "maintainer"
  PROVE  Inv'
<1> DEFINE reply == [kind |-> "comment", action |-> "created", commit |-> head,
                     by |-> "app", asker |-> e.asker, says |-> "bench", at |-> "pull"]
<1> USE DEF Inv
<1>1. /\ queue' = (queue (-) SetToBag({e})) (+) SetToBag({reply})
      /\ UNCHANGED <<fork, head, runs, sent>>
  BY DEF Answer
<1>2. reply \in Event /\ head \in 1 .. MaxPushes + 1
  BY TriggersAssumption DEF Event, TypeOK, PayloadsInv, Commits, Actions, People, Words, Places
<1>3. Payload(reply)
  BY <1>2 DEF Payload
<1> HIDE DEF reply
<1>4. /\ IsABag(queue')
      /\ BagToSet(queue') \subseteq BagToSet(queue) \cup {reply}
      /\ BagToSet(queue) \ {e} \subseteq BagToSet(queue')
  <2> DEFINE rest == queue (-) SetToBag({e})
  <2>1. /\ IsABag(rest) /\ BagToSet(rest) \subseteq BagToSet(queue)
        /\ BagToSet(queue) \ {e} \subseteq BagToSet(rest)
    BY BagRemove DEF TypeOK
  <2> HIDE DEF rest
  <2>2. IsABag(rest (+) SetToBag({reply}))
        /\ BagToSet(rest (+) SetToBag({reply})) = BagToSet(rest) \cup {reply}
    BY <2>1, BagAdd
  <2> QED BY <1>1, <2>1, <2>2 DEF rest
<1>5. TypeOK'
  BY <1>1, <1>2, <1>4 DEF TypeOK
<1>6. PayloadsInv'
  BY <1>1, <1>2, <1>3, <1>4 DEF PayloadsInv, Payload
<1>7. HeadsInv'
  BY <1>1, <1>4 DEF HeadsInv, Benched, Announces, TargetOk
<1>8. DemandIsCurrent' /\ ReviewedCommitIsBenched' /\ RunsAreRequested'
  BY <1>1 DEF DemandIsCurrent, ReviewedCommitIsBenched, RunsAreRequested
<1> QED BY <1>5, <1>6, <1>7, <1>8

-----------------------------------------------------------------------------
(* Every handler decides in keeping with the invariant.                    *)
LEMMA HandleInv == Inv /\ Handle => Inv'
<1> SUFFICES ASSUME Inv, NEW e \in BagToSet(queue),
                    HandleUpdate(e) \/ HandleReview(e) \/ HandleBench(e) \/ HandleOther(e)
             PROVE  Inv'
  BY DEF Handle
<1>1. Payload(e) /\ head # 0 /\ head \in Nat /\ fork \in BOOLEAN
  BY DEF Inv, PayloadsInv, TypeOK
<1>0. Allowed(e) => e.asker = "maintainer"
  BY <1>1, TriggersAssumption DEF Allowed, Payload, People
<1>2. CASE HandleUpdate(e)
  <2>1. CASE TargetOk(e) /\ e.action \in AllowedActions /\ ~fork
    BY <1>1, <1>2, <2>1, BenchInv DEF HandleUpdate, Payload, TargetOk
  <2>2. CASE ~(TargetOk(e) /\ e.action \in AllowedActions /\ ~fork)
    BY <1>2, <2>2, IgnoreInv DEF HandleUpdate, Announces
  <2> QED BY <2>1, <2>2
<1>3. CASE HandleReview(e)
  <2>1. CASE Approval(e) /\ BenchPr(e, e.commit)
    <3>1. e.commit \in 1 .. head /\ e.kind = "review"
      BY <1>1, <1>3, <2>1 DEF HandleReview, Approval, TargetOk, Payload
    <3>2. e.asker = "maintainer"
      BY <2>1, <1>0, <3>1 DEF Approval
    <3> QED BY <2>1, <3>1, <3>2, BenchInv
  <2>2. CASE Ignore(e)
    BY <1>3, <2>2, IgnoreInv DEF HandleReview, Announces
  <2> QED BY <1>3, <2>1, <2>2 DEF HandleReview
<1>4. CASE HandleBench(e)
  <2>1. CASE Heard(e) /\ BenchPr(e, head)
    <3>1. e.commit \in 1 .. head /\ e.kind = "comment"
      BY <1>1, <1>4 DEF HandleBench, Payload
    <3>2. e.asker = "maintainer"
      BY <1>0, <2>1 DEF Heard
    <3> QED BY <1>1, <2>1, <3>1, <3>2, BenchInv
  <2>2. CASE Ignore(e)
    BY <1>4, <2>2, IgnoreInv DEF HandleBench, Announces
  <2> QED BY <1>4, <2>1, <2>2 DEF HandleBench
<1>5. CASE HandleOther(e)
  BY <1>0, <1>5, AnswerInv, IgnoreInv DEF HandleOther, Heard, Announces
<1> QED BY <1>2, <1>3, <1>4, <1>5

(* What people do to the pull request is told as it is.                    *)
LEMMA WorldInv ==
  Inv /\ (Open \/ Push \/ SendUpdate \/ SendReview \/ SendComment) => Inv'
<1> SUFFICES ASSUME Inv, Open \/ Push \/ SendUpdate \/ SendReview \/ SendComment PROVE Inv'
  OBVIOUS
<1> USE TriggersAssumption
    DEF Event, Commits, Foreign, Actions, People, Words, Places
<1>1. head \in 0 .. MaxPushes + 1 /\ sent \in 0 .. MaxEvents
  BY DEF Inv, TypeOK
<1>2. ASSUME Open \/ Push PROVE Inv'
  <2>1. /\ head' = head + 1 /\ head' \in 1 .. MaxPushes + 1
        /\ UNCHANGED <<fork, runs, sent>>
    BY <1>1, <1>2 DEF Open, Push
  <2>2. PICK e, action : /\ e = Update(action, head + 1, "pull") /\ Deliver(e)
                         /\ action \in {"opened", "synchronize"}
    BY <1>2 DEF Open, Push
  <2>3. Announces(e) /\ e.commit = head'
    BY <2>1, <2>2 DEF Announces, Update, TargetOk, AllowedActions
  <2>4. Payload(e)'
    BY <2>1, <2>2 DEF Payload, Update
  <2> QED BY <2>1, <2>2, <2>3, <2>4, <1>1, DeliverInv
<1>3. ASSUME NEW e, Send(e), Payload(e) PROVE Inv'
  <2>1. head' = head /\ head # 0 /\ sent' \in 0 .. MaxEvents /\ Deliver(e)
        /\ UNCHANGED <<fork, runs>>
    BY <1>1, <1>3 DEF Send
  <2>2. Payload(e)'
    BY <1>3, <2>1 DEF Payload
  <2> QED BY <1>1, <2>1, <2>2, DeliverInv
<1>4. CASE SendUpdate
  <2>1. \A action \in {"reopened", "edited"} :
          Send(Update(action, head, "pull")) => Payload(Update(action, head, "pull"))
    BY <1>1 DEF Send, Update, Payload
  <2>2. Payload(Update("opened", Foreign, "elsewhere"))
    BY DEF Update, Payload
  <2> QED BY <1>3, <1>4, <2>1, <2>2 DEF SendUpdate
<1>5. CASE SendReview
  <2>1. \A person \in {"maintainer", "stranger"} :
          \A e \in Reviews(person, "pull", 1 .. head) \cup Reviews(person, "elsewhere", {Foreign}) :
            Payload(e)
    BY <1>1 DEF Reviews, Payload
  <2> QED BY <1>3, <1>5, <2>1 DEF SendReview
<1>6. CASE SendComment
  <2>1. \A person \in {"maintainer", "stranger"} :
          \A e \in Comments(person) : Send(e) => Payload(e)
    BY <1>1 DEF Comments, Send, Payload
  <2> QED BY <1>3, <1>6, <2>1 DEF SendComment
<1> QED BY <1>2, <1>4, <1>5, <1>6

LEMMA NextInv == Inv /\ [Next]_vars => Inv'
<1>1. Inv /\ UNCHANGED vars => Inv'
  BY DEF vars, Inv, TypeOK, PayloadsInv, Payload, HeadsInv, Benched, DemandIsCurrent,
         ReviewedCommitIsBenched, RunsAreRequested
<1> QED BY <1>1, HandleInv, WorldInv DEF Next, Done

(* The inductive invariant holds in every state.                           *)
LEMMA Invariance == Spec => []Inv
BY InitInv, NextInv, PTL DEF Spec

-----------------------------------------------------------------------------
(* What is benchmarked is a commit of the pull request.                    *)
THEOREM TypeCorrect == Spec => []TypeOK
BY Invariance, PTL DEF Inv

(* When all events are handled, in whatever order, every head of a branch  *)
(* of the repository has been benchmarked.                                 *)
THEOREM HeadsAreBenched == Spec => []EveryHeadIsBenched
<1>1. Inv => EveryHeadIsBenched
  BY DEF Inv, HeadsInv, Benched, EveryHeadIsBenched, Handled, EmptyBag, SetToBag, BagToSet
<1> QED BY <1>1, Invariance, PTL

(* A run on demand is on the head the comment was made on, or a later one. *)
THEOREM DemandStaysCurrent == Spec => []DemandIsCurrent
BY Invariance, PTL DEF Inv

(* A review has the commit benchmarked that was reviewed.                  *)
THEOREM ReviewsAreExact == Spec => []ReviewedCommitIsBenched
BY Invariance, PTL DEF Inv

(* A run that is not for a change to a branch of the repository goes back  *)
(* to a maintainer: strangers start none, by no detour.                    *)
THEOREM StrangersStartNothing == Spec => []RunsAreRequested
BY Invariance, PTL DEF Inv
=============================================================================
