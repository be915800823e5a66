---------------------------- MODULE PauseToggle ----------------------------
(***************************************************************************)
(* ProcessEventsToggler (event_queue.rs): processing of events is paused   *)
(* while a file called `pause` is in the working directory.  At startup    *)
(* the server looks whether the file exists, then it starts to watch the   *)
(* directory; from then on the watcher's thread turns notifications into   *)
(* the value of a watch channel, in its own time.                          *)
(*                                                                         *)
(* The file system and the `notify` crate are external: an operator        *)
(* creates, removes, renames and touches the file at any moment, and the   *)
(* kernel queues a notification for each change while the directory is     *)
(* watched.  Bounded by MaxInbox notifications in the queue.               *)
(***************************************************************************)
EXTENDS Naturals, Sequences

CONSTANTS
  LookupMayFail, \* may the lookup at startup err?
  Renames,       \* may the file be renamed, away or into place?
  MaxInbox       \* bound on queued notifications

ASSUME ToggleAssumption ==
  /\ LookupMayFail \in BOOLEAN
  /\ Renames \in BOOLEAN
  /\ MaxInbox \in Nat \ {0}

VARIABLES
  exists,   \* is there a file called `pause`?
  phase,    \* of the server: "starting", "checked" or "watching"
  enabled,  \* the value in the watch channel
  inbox,    \* notifications the watcher's thread has not handled yet
  informed  \* has the server been told, by the check or by a notification,
            \* how the file came to be as it is?

vars == <<exists, phase, enabled, inbox, informed>>

Kinds == {"create", "remove", "other"}

Init ==
  /\ exists \in BOOLEAN
  /\ phase = "starting"
  /\ enabled = TRUE
  /\ inbox = << >>
  /\ informed = FALSE

-----------------------------------------------------------------------------
(* Seeded faults: plausible bugs of the code, none of them part of Next.   *)

CheckIgnoresFile ==
  /\ phase = "starting" /\ phase' = "checked"
  /\ enabled' = TRUE
  /\ informed' = TRUE
  /\ UNCHANGED <<exists, inbox>>

ApplyOtherAsRemoval(kind) == enabled' = (kind # "create")

-----------------------------------------------------------------------------
(* ProcessEventsToggler::new: try_exists ...                               *)
Check ==
  /\ phase = "starting" /\ phase' = "checked"
  /\ enabled' = ~exists
  /\ informed' = TRUE
  /\ UNCHANGED <<exists, inbox>>

(* ... which takes an error for the absence of the file ...                *)
CheckFails ==
  /\ LookupMayFail
  /\ phase = "starting" /\ phase' = "checked"
  /\ enabled' = TRUE
  /\ UNCHANGED <<exists, inbox, informed>>

(* ... and watcher.watch.                                                  *)
Watch ==
  /\ phase = "checked" /\ phase' = "watching"
  /\ UNCHANGED <<exists, enabled, inbox, informed>>

(* The watcher's callback.                                                 *)
Apply(kind) ==
  enabled' = IF kind = "create" THEN FALSE ELSE IF kind = "remove" THEN TRUE ELSE enabled

Notified ==
  /\ inbox # << >>
  /\ Apply(Head(inbox))
  /\ inbox' = Tail(inbox)
  /\ UNCHANGED <<exists, phase, informed>>

(* The server dies and is started again.                                   *)
Restart ==
  /\ phase' = "starting"
  /\ enabled' = TRUE
  /\ inbox' = << >>
  /\ informed' = FALSE
  /\ UNCHANGED exists

-----------------------------------------------------------------------------
(* The operator                                                            *)

Notify(kind) ==
  IF phase = "watching"
  THEN Len(inbox) < MaxInbox /\ inbox' = Append(inbox, kind)
  ELSE UNCHANGED inbox

Change(kind) ==
  /\ exists' = ~exists
  /\ Notify(kind)
  /\ informed' = (phase = "watching" /\ kind # "other")
  /\ UNCHANGED <<phase, enabled>>

Create == ~exists /\ Change("create")

Remove == exists /\ Change("remove")

(* To the callback a rename is a modification of the name.                 *)
Rename == Renames /\ Change("other")

Touch == exists /\ Notify("other") /\ UNCHANGED <<exists, phase, enabled, informed>>

-----------------------------------------------------------------------------
Server == Check \/ CheckFails \/ Watch \/ Notified

Next == Server \/ Restart \/ Create \/ Remove \/ Rename \/ Touch

Spec == Init /\ [][Next]_vars

(* Startup proceeds and the watcher's thread handles what is queued.       *)
FairSpec == Spec /\ WF_vars(Server)

-----------------------------------------------------------------------------
(* Every variable holds a value the server or the file system can put in   *)
(* it, and nothing is queued by or for a server that does not watch.       *)
TypeOK ==
  /\ exists \in BOOLEAN
  /\ phase \in {"starting", "checked", "watching"}
  /\ enabled \in BOOLEAN
  /\ inbox \in Seq(Kinds)
  /\ phase # "watching" => inbox = << >>
  /\ informed \in BOOLEAN

(* Once the watcher has caught up, processing is enabled just when there   *)
(* is no file, unless the file last came or went in a way the server was   *)
(* not told of: between the check and the start of the watch, by a rename, *)
(* or before a lookup that erred.  The next creation or deletion puts the  *)
(* toggle right again.                                                     *)
Settled == phase = "watching" /\ inbox = << >>

HealsWithNextChange == Settled /\ informed => enabled = ~exists

(* A file that stays pauses processing for good, and one that stays away   *)
(* lets it go on, whatever happened before and whatever notifications are  *)
(* still queued.                                                           *)
FollowsFile ==
  /\ <>[](exists /\ informed)  => <>[](phase = "watching" => ~enabled)
  /\ <>[](~exists /\ informed) => <>[](phase = "watching" => enabled)

-----------------------------------------------------------------------------
(* A statement of the code that does not hold (see README.md).             *)

(* event_queue.rs:353: "If the file is present upon startup or gets        *)
(* created while the application runs, processing will be disabled until   *)
(* the file is deleted."                                                   *)
SettledAgrees == Settled => enabled = ~exists
=============================================================================
