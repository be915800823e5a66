---------------------------- MODULE EventLedger ----------------------------
(***************************************************************************)
(* What the queue of GitHub events promises to whoever delivers an event,  *)
(* with no table, channel, task or toggle: every event goes through at     *)
(* most two attempts, attempts never overlap, and only an event of a kind  *)
(* the application does not know may leave without an attempt.             *)
(*                                                                         *)
(* EventQueue implements this specification (see Ledger there).            *)
(***************************************************************************)
CONSTANTS Events,   \* the webhook events that may be delivered
          Allowed   \* those whose kind the application handles

VARIABLE phase      \* phase[e]: how far the event e has come

Phases == {"new", "queued", "first", "interrupted", "second", "gone"}

InAttempt == {"first", "second"}

Idle == \A e \in Events : phase[e] \notin InAttempt

Become(e, p) == phase' = [phase EXCEPT ![e] = p]

-----------------------------------------------------------------------------
(* A server starts on a table that may already hold events.                *)
Init == phase \in [Events -> {"new", "queued"}]

Arrive(e) == phase[e] = "new" /\ Become(e, "queued")

Discard(e) == phase[e] = "queued" /\ e \notin Allowed /\ Become(e, "gone")

Begin(e) == Idle /\ e \in Allowed /\ phase[e] = "queued" /\ Become(e, "first")

BeginAgain(e) == Idle /\ phase[e] = "interrupted" /\ Become(e, "second")

Complete(e) == phase[e] \in InAttempt /\ Become(e, "gone")

(* Whatever interrupts a first attempt leaves the event for a second one.  *)
Interrupt(e) == phase[e] = "first" /\ Become(e, "interrupted")

(* The second attempt is given up if the server dies as it is about to     *)
(* start.                                                                  *)
GiveUp(e) == phase[e] = "interrupted" /\ Become(e, "gone")

Next ==
  \E e \in Events :
    \/ Arrive(e)
    \/ Discard(e)
    \/ Begin(e)
    \/ BeginAgain(e)
    \/ Complete(e)
    \/ Interrupt(e)
    \/ GiveUp(e)

Spec == Init /\ [][Next]_phase
=============================================================================
