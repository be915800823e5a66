------------------------- MODULE PauseToggleProofs -------------------------
(***************************************************************************)
(* Proofs about PauseToggle, for any number of queued notifications: the   *)
(* last notification in the queue that the callback acts on, or else the   *)
(* value it has stored, always tells whether the file exists, unless the   *)
(* file came or went behind the server's back.                             *)
(***************************************************************************)
EXTENDS PauseToggle, SequenceTheorems, TLAPS

Meaning == IF exists THEN "create" ELSE "remove"

Idle(first) == \A i \in first .. Len(inbox) : inbox[i] = "other"

(* What the watcher will have stored when its queue is empty.              *)
Tells ==
  \/ Idle(1) /\ enabled = ~exists
  \/ \E i \in 1 .. Len(inbox) : inbox[i] = Meaning /\ Idle(i + 1)

ToggleInv ==
  /\ TypeOK
  /\ phase = "starting" => ~informed
  /\ phase = "checked" /\ informed => enabled = ~exists
  /\ phase = "watching" /\ informed => Tells

-----------------------------------------------------------------------------
(* A queue that grows at its end.                                          *)
LEMMA Appended ==
  ASSUME TypeOK, NEW kind \in Kinds, inbox' = Append(inbox, kind)
  PROVE  /\ inbox' \in Seq(Kinds)
         /\ Len(inbox') = Len(inbox) + 1
         /\ \A i \in 1 .. Len(inbox) : inbox'[i] = inbox[i]
         /\ inbox'[Len(inbox) + 1] = kind
BY AppendProperties DEF TypeOK

(* A queue that shrinks at its head.                                       *)
LEMMA Taken ==
  ASSUME TypeOK, inbox # << >>, inbox' = Tail(inbox)
  PROVE  /\ inbox' \in Seq(Kinds)
         /\ Len(inbox) \in Nat /\ Len(inbox) > 0
         /\ Len(inbox') = Len(inbox) - 1
         /\ \A i \in 1 .. Len(inbox') : inbox'[i] = inbox[i + 1]
         /\ Head(inbox) = inbox[1]
         /\ Head(inbox) \in Kinds
BY EmptySeq, HeadTailProperties, ElementOfSeq DEF TypeOK

(* The watcher's thread acts on the oldest notification, and the queue and *)
(* the stored value together tell as much as before.                       *)
LEMMA NotifiedStep == ASSUME ToggleInv, Notified PROVE ToggleInv'
<1> USE DEF Notified, Apply
<1>1. /\ inbox' \in Seq(Kinds)
      /\ Len(inbox) \in Nat /\ Len(inbox) > 0
      /\ Len(inbox') = Len(inbox) - 1
      /\ \A i \in 1 .. Len(inbox') : inbox'[i] = inbox[i + 1]
      /\ Head(inbox) = inbox[1]
      /\ Head(inbox) \in Kinds
  BY Taken DEF ToggleInv
<1>2. TypeOK'
  BY <1>1 DEF ToggleInv, TypeOK
<1>3. phase = "watching"
  BY DEF ToggleInv, TypeOK
<1>4. ASSUME Tells PROVE Tells'
  <2>1. CASE Idle(1)
    <3>1. inbox[1] = "other"
      BY <1>1, <2>1 DEF Idle
    <3>2. enabled' = enabled
      BY <1>1, <3>1
    <3>3. enabled = ~exists
      <4>1. \A i \in 1 .. Len(inbox) : inbox[i] # Meaning
        BY <2>1 DEF Idle, Meaning
      <4> QED  BY <1>4, <4>1 DEF Tells
    <3>4. Idle(1)'
      BY <1>1, <2>1 DEF Idle
    <3>5. enabled' = ~exists'
      BY <3>2, <3>3, Zenon
    <3> QED  BY <3>4, <3>5 DEF Tells
  <2>2. CASE \E i \in 1 .. Len(inbox) : inbox[i] = Meaning /\ Idle(i + 1)
    <3>1. PICK i \in 1 .. Len(inbox) : inbox[i] = Meaning /\ Idle(i + 1)
      BY <2>2
    <3>2. Meaning' = Meaning
      BY DEF Meaning
    <3>3. CASE i = 1
      <4>1. Idle(1)'
        BY <1>1, <3>1, <3>3 DEF Idle
      <4>2. enabled' = ~exists'
        BY <1>1, <3>1, <3>3 DEF Meaning
      <4> QED  BY <4>1, <4>2 DEF Tells
    <3>4. CASE i # 1
      <4>1. i - 1 \in 1 .. Len(inbox') /\ inbox'[i - 1] = Meaning'
        BY <1>1, <3>1, <3>2, <3>4
      <4>2. Idle((i - 1) + 1)'
        BY <1>1, <3>1, <3>4 DEF Idle
      <4> QED  BY <4>1, <4>2 DEF Tells
    <3> QED  BY <3>3, <3>4
  <2> QED  BY <1>4, <2>1, <2>2 DEF Tells
<1> QED  BY <1>2, <1>3, <1>4 DEF ToggleInv

(* A notification of no consequence is queued.                             *)
LEMMA OtherQueued ==
  ASSUME TypeOK, Tells, inbox' = Append(inbox, "other"), UNCHANGED <<exists, enabled>>
  PROVE  Tells'
<1>1. /\ Len(inbox) \in Nat
      /\ Len(inbox') = Len(inbox) + 1
      /\ \A i \in 1 .. Len(inbox) : inbox'[i] = inbox[i]
      /\ inbox'[Len(inbox) + 1] = "other"
  BY Appended, LenProperties DEF Kinds, TypeOK
<1>2. CASE Idle(1) /\ enabled = ~exists
  <2>1. Idle(1)'
    BY <1>1, <1>2 DEF Idle
  <2>2. enabled' = ~exists'
    BY <1>2
  <2> QED  BY <2>1, <2>2 DEF Tells
<1>3. CASE \E i \in 1 .. Len(inbox) : inbox[i] = Meaning /\ Idle(i + 1)
  <2>1. PICK i \in 1 .. Len(inbox) : inbox[i] = Meaning /\ Idle(i + 1)
    BY <1>3
  <2>2. i \in 1 .. Len(inbox') /\ inbox'[i] = Meaning'
    BY <1>1, <2>1 DEF Meaning
  <2>3. Idle(i + 1)'
    BY <1>1, <2>1 DEF Idle
  <2> QED  BY <2>2, <2>3 DEF Tells
<1> QED  BY <1>2, <1>3 DEF Tells

(* The file comes, goes or is renamed.                                     *)
LEMMA ChangeStep ==
  ASSUME ToggleInv,
         NEW kind \in Kinds,
         Change(kind),
         kind = "create" => ~exists,
         kind = "remove" => exists
  PROVE  ToggleInv'
<1> USE DEF Change, Notify
<1>1. CASE phase = "watching"
  <2>1. /\ inbox' \in Seq(Kinds)
        /\ Len(inbox) \in Nat
        /\ Len(inbox') = Len(inbox) + 1
        /\ inbox'[Len(inbox) + 1] = kind
    BY <1>1, Appended, LenProperties DEF ToggleInv, TypeOK
  <2>2. TypeOK'
    BY <1>1, <2>1 DEF ToggleInv, TypeOK, Kinds
  <2>3. ASSUME kind # "other" PROVE Tells'
    <3>1. kind = Meaning'
      BY <2>3 DEF Kinds, Meaning, ToggleInv, TypeOK
    <3>2. PICK last \in Nat : last = Len(inbox) + 1
      BY <2>1
    <3>3. Idle(last + 1)'
      BY <2>1, <3>2 DEF Idle
    <3>4. last \in 1 .. Len(inbox') /\ inbox'[last] = Meaning'
      BY <2>1, <3>1, <3>2
    <3> QED  BY <3>3, <3>4 DEF Tells
  <2> QED  BY <1>1, <2>2, <2>3 DEF ToggleInv
<1>2. CASE phase # "watching"
  BY <1>2 DEF ToggleInv, TypeOK
<1> QED  BY <1>1, <1>2

(* The file is written to.                                                 *)
LEMMA TouchStep == ASSUME ToggleInv, Touch PROVE ToggleInv'
<1> USE DEF Touch, Notify
<1>1. CASE phase = "watching"
  <2>1. inbox' \in Seq(Kinds)
    BY <1>1, Appended DEF ToggleInv, Kinds
  <2>2. Tells => Tells'
    BY <1>1, OtherQueued DEF ToggleInv
  <2> QED  BY <1>1, <2>1, <2>2 DEF ToggleInv, TypeOK
<1>2. CASE phase # "watching"
  BY <1>2 DEF ToggleInv, TypeOK
<1> QED  BY <1>1, <1>2

(* Every step preserves the invariant.                                     *)
LEMMA ToggleStep == ToggleInv /\ [Next]_vars => ToggleInv'
<1> SUFFICES ASSUME ToggleInv, [Next]_vars PROVE ToggleInv'
  OBVIOUS
<1>1. CASE Check
  BY <1>1 DEF Check, ToggleInv, TypeOK
<1>2. CASE CheckFails
  BY <1>2 DEF CheckFails, ToggleInv, TypeOK
<1>3. CASE Watch
  <2>1. Idle(1)'
    BY <1>3 DEF Watch, ToggleInv, TypeOK, Idle
  <2>2. informed' => enabled' = ~exists'
    BY <1>3 DEF Watch, ToggleInv
  <2> QED  BY <1>3, <2>1, <2>2 DEF Watch, ToggleInv, TypeOK, Tells
<1>4. CASE Notified
  BY <1>4, NotifiedStep
<1>5. CASE Restart
  <2>1. TypeOK'
    BY <1>5, EmptySeq DEF Restart, ToggleInv, TypeOK
  <2> QED  BY <1>5, <2>1 DEF Restart, ToggleInv
<1>6. CASE Create \/ Remove \/ Rename
  BY <1>6, ChangeStep DEF Create, Remove, Rename, Kinds
<1>7. CASE Touch
  BY <1>7, TouchStep
<1>8. CASE UNCHANGED vars
  BY <1>8 DEF vars, ToggleInv, TypeOK, Tells, Idle, Meaning
<1> QED  BY <1>1, <1>2, <1>3, <1>4, <1>5, <1>6, <1>7, <1>8 DEF Next, Server

(* The invariant holds in every state.                                     *)
THEOREM ToggleInvariance == Spec => []ToggleInv
<1>1. Init => ToggleInv
  <2>1. Init => TypeOK
    BY EmptySeq DEF Init, TypeOK
  <2> QED  BY <2>1 DEF Init, ToggleInv
<1> QED  BY <1>1, ToggleStep, PTL DEF Spec

(* Every variable always holds a value of its type.                        *)
THEOREM ToggleTypeCorrect == Spec => []TypeOK
<1>1. ToggleInv => TypeOK
  BY DEF ToggleInv
<1> QED  BY <1>1, ToggleInvariance, PTL

(* A watcher that has caught up with an empty queue knows about the file.  *)
LEMMA CaughtUp == ToggleInv /\ inbox = << >> /\ Tells => enabled = ~exists
BY DEF Tells

(* A watcher that has caught up is right, unless the file last came or     *)
(* went behind the server's back; a creation or deletion under the         *)
(* watcher's eyes puts the toggle right whatever went wrong before.        *)
THEOREM Heals == Spec => []HealsWithNextChange
<1>1. ToggleInv => HealsWithNextChange
  BY CaughtUp DEF HealsWithNextChange, Settled, ToggleInv
<1> QED  BY <1>1, ToggleInvariance, PTL
=============================================================================
