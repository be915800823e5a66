-------------------------- MODULE RunCommandProofs --------------------------
(***************************************************************************)
(* Proofs about RunCommand, for any number of commands, any kinds of       *)
(* helper, and pipes and output of any size.                               *)
(***************************************************************************)
EXTENDS RunCommand, SequenceTheorems, FiniteSetTheorems, TLAPS

(* What the argument needs of the types; what is written is not bounded.   *)
Types ==
  /\ n \in Commands
  /\ pc \in {"spawn", "poll", "clock", "wait", "join", "save", "done", "err", "timedout"}
  /\ alive \subseteq Processes
  /\ helper \in [Commands -> HelperKinds \cup {"none"}]
  /\ status \in [Commands -> {"none", "ok", "failed", "killed"}]
  /\ writing \in [Processes -> Streams \cup {NoStream}]
  /\ written \in [Commands -> [Streams -> Nat]]
  /\ drained \in [Streams -> Nat]
  /\ reading \subseteq Streams
  /\ logs \in Seq([Streams -> Nat])
  /\ walltimes \in Nat \cup {NoFile}

(* Only the present command's child may be alive, while it is waited for.  *)
ChildInv ==
  \A p \in alive : p[2] = "child" => p = Child /\ pc \in {"poll", "clock"}

(* A pipe that was read to its end is empty and stays so.                  *)
PipesInv ==
  pc \in {"poll", "clock", "wait", "join"} =>
    \A s \in Streams \ reading : Holders = {} /\ written[n][s] = drained[s]

(* The commands that have a log, which is final.                           *)
LogsInv ==
  /\ pc \in {"spawn", "poll", "clock", "wait", "join", "timedout"} => Len(logs) = n - 1
  /\ pc \in {"save", "done"} => Len(logs) = n /\ n = Count
  /\ Len(logs) \in {n - 1, n}
  /\ Len(logs) = n => Holders = {} /\ pc \in {"save", "done", "err"}
  /\ \A k \in DOMAIN logs : logs[k] = written[k]

(* The commands that have succeeded.                                       *)
StatusInv ==
  /\ \A k \in Commands : k < n => status[k] = "ok"
  /\ pc \in {"save", "done"} => status[n] = "ok"
  /\ walltimes # NoFile => pc = "done" /\ walltimes = written[Count]["stdout"]

(* What is left of a command whose group was killed.                       *)
KilledInv ==
  pc \in {"wait", "timedout"} =>
    \A p \in alive : p[1] = n => p = Helper /\ helper[n] = "detached"

Inv == Types /\ ChildInv /\ PipesInv /\ LogsInv /\ StatusInv /\ KilledInv

-----------------------------------------------------------------------------
LEMMA InitInv == Init => Inv
<1> SUFFICES ASSUME Init PROVE Inv
  OBVIOUS
<1> USE RunAssumption DEF Init, Commands, Streams
<1>1. Types
  BY DEF Types, Empty
<1>2. ChildInv /\ PipesInv /\ LogsInv /\ StatusInv /\ KilledInv
  BY DEF ChildInv, PipesInv, LogsInv, StatusInv, KilledInv
<1> QED BY <1>1, <1>2 DEF Inv

(* Steps of the runner before a command's log is kept.                     *)
LEMMA RunnerInv ==
  Inv /\ (Spawn \/ SpawnFails \/ TryWait \/ KeepWaiting \/ KillGroup \/ GiveUp) => Inv'
<1> SUFFICES ASSUME Inv,
                    Spawn \/ SpawnFails \/ TryWait \/ KeepWaiting \/ KillGroup \/ GiveUp
             PROVE  Inv'
  OBVIOUS
<1> USE DEF Inv, readerVars, processVars
<1>1. CASE Spawn
  <2> USE <1>1 DEF Spawn
  <2>1. Child \in Processes
    BY DEF Child, Processes, Types
  <2>2. Types'
    BY <2>1 DEF Types, Empty
  <2>3. ChildInv'
    BY DEF ChildInv, Child
  <2>4. PipesInv'
    BY DEF PipesInv
  <2>5. LogsInv' /\ StatusInv' /\ KilledInv'
    BY DEF LogsInv, StatusInv, KilledInv, Types, Commands
  <2> QED BY <2>2, <2>3, <2>4, <2>5
<1>2. CASE SpawnFails
  BY <1>2 DEF SpawnFails, Types, ChildInv, PipesInv, LogsInv, StatusInv, KilledInv, Holders,
              Child, Helper
<1>3. CASE TryWait
  <2> USE <1>3 DEF TryWait
  <2>1. Types'
    BY DEF Types
  <2>2. ChildInv'
    BY DEF ChildInv, Child
  <2>3. PipesInv' /\ LogsInv' /\ StatusInv' /\ KilledInv'
    BY DEF PipesInv, LogsInv, StatusInv, KilledInv, Holders, Child, Helper
  <2> QED BY <2>1, <2>2, <2>3
<1>4. CASE KeepWaiting
  <2> USE <1>4 DEF KeepWaiting
  <2>1. Types' /\ ChildInv'
    BY DEF Types, ChildInv, Child
  <2>2. PipesInv' /\ LogsInv' /\ StatusInv' /\ KilledInv'
    BY DEF PipesInv, LogsInv, StatusInv, KilledInv, Holders, Child, Helper
  <2> QED BY <2>1, <2>2
<1>5. CASE KillGroup
  <2> USE <1>5 DEF KillGroup, KillAll
  <2>1. pc = "clock" /\ pc' = "wait" /\ alive' = alive \ Group
        /\ UNCHANGED <<n, logs, walltimes, helper, written, drained, reading>>
    OBVIOUS
  <2>2. Types'
    <3>1. writing' \in [Processes -> Streams \cup {NoStream}]
      BY DEF Types
    <3>2. status' \in [Commands -> {"none", "ok", "failed", "killed"}]
      BY DEF Types
    <3> QED BY <2>1, <3>1, <3>2 DEF Types
  <2>3. ChildInv'
    BY <2>1 DEF ChildInv, Group
  <2>4. Holders' \subseteq Holders
    BY <2>1 DEF Holders, Child, Helper
  <2>5. PipesInv'
    BY <2>1, <2>4 DEF PipesInv
  <2>6. LogsInv'
    BY <2>1, <2>4 DEF LogsInv
  <2>7. StatusInv'
    <3>1. \A k \in Commands : k # n => status'[k] = status[k]
      BY DEF Types
    <3>2. \A k \in Commands : k < n => k # n
      BY DEF Types, Commands
    <3> QED BY <2>1, <3>1, <3>2 DEF StatusInv
  <2>8. KilledInv'
    <3> SUFFICES ASSUME NEW p \in alive', p[1] = n PROVE p = Helper /\ helper[n] = "detached"
      BY <2>1 DEF KilledInv, Helper
    <3>1. p \in alive /\ p \notin Group
      BY <2>1
    <3>2. p = Child \/ p = Helper
      BY <3>1 DEF Types, Processes, Child, Helper
    <3> QED BY <3>1, <3>2 DEF Group
  <2> QED BY <2>2, <2>3, <2>5, <2>6, <2>7, <2>8
<1>6. CASE GiveUp
  <2> USE <1>6 DEF GiveUp
  <2>1. Types' /\ ChildInv'
    BY DEF Types, ChildInv, Child
  <2>2. PipesInv' /\ LogsInv' /\ StatusInv' /\ KilledInv'
    BY DEF PipesInv, LogsInv, StatusInv, KilledInv, Holders, Child, Helper
  <2> QED BY <2>1, <2>2
<1> QED BY <1>1, <1>2, <1>3, <1>4, <1>5, <1>6

LEMMA JoinInv == Inv /\ Join => Inv'
<1> SUFFICES ASSUME Inv, Join PROVE Inv'
  OBVIOUS
<1> USE DEF Inv
<1>1. /\ pc = "join" /\ reading = {} /\ logs' = Append(logs, drained)
      /\ UNCHANGED <<walltimes, alive, helper, status, writing, written, drained, reading>>
  BY DEF Join, KeepLog, readerVars, processVars
<1>2. \/ pc' = "err" /\ n' = n
      \/ status[n] = "ok" /\ n < Count /\ pc' = "spawn" /\ n' = n + 1
      \/ status[n] = "ok" /\ n = Count /\ pc' = "save" /\ n' = n
  BY DEF Join, KeepLog, Outcome
<1>3. n \in Nat /\ Count \in Nat /\ n' \in Commands
  BY <1>2, RunAssumption DEF Types, Commands
<1>4. Holders = {} /\ drained = written[n]
  <2>1. \A s \in Streams : Holders = {} /\ written[n][s] = drained[s]
    BY <1>1 DEF PipesInv
  <2>2. drained \in [Streams -> Nat] /\ written[n] \in [Streams -> Nat]
    BY DEF Types
  <2>3. Holders = {}
    BY <2>1 DEF Streams
  <2> QED BY <2>1, <2>2, <2>3
<1>5. /\ logs' \in Seq([Streams -> Nat]) /\ Len(logs') = n /\ logs'[n] = drained
      /\ \A k \in DOMAIN logs' : k # n => k \in DOMAIN logs /\ logs'[k] = logs[k]
  BY <1>1, <1>3 DEF LogsInv, Types
<1>6. Types'
  BY <1>1, <1>2, <1>3, <1>5 DEF Types
<1>7. ChildInv'
  BY <1>1 DEF ChildInv
<1>8. PipesInv' /\ KilledInv'
  BY <1>2 DEF PipesInv, KilledInv
<1>9. LogsInv'
  <2>1. \A k \in DOMAIN logs' : logs'[k] = written'[k]
    BY <1>1, <1>4, <1>5 DEF LogsInv
  <2>2. n' = n => Holders' = {}
    BY <1>1, <1>4 DEF Holders, Child, Helper
  <2> QED BY <1>2, <1>3, <1>5, <2>1, <2>2 DEF LogsInv
<1>10. StatusInv'
  BY <1>1, <1>2, <1>3 DEF StatusInv, Commands
<1> QED BY <1>6, <1>7, <1>8, <1>9, <1>10

LEMMA SaveInv == Inv /\ SaveWalltimes => Inv'
<1> SUFFICES ASSUME Inv, SaveWalltimes PROVE Inv'
  OBVIOUS
<1> USE DEF Inv
<1>1. /\ pc = "save" /\ pc' \in {"done", "err"}
      /\ UNCHANGED <<n, alive, helper, status, writing, written, drained, reading, logs>>
      /\ \/ pc' = "done" /\ walltimes' = logs[Len(logs)]["stdout"]
         \/ walltimes' = walltimes
  BY DEF SaveWalltimes, readerVars, processVars
<1>2. n = Count /\ Count \in Nat \ {0} /\ Len(logs) = Count
  BY <1>1, RunAssumption DEF LogsInv
<1>3. logs[Len(logs)] = written[Count] /\ written[Count]["stdout"] \in Nat
  <2>1. Len(logs) \in DOMAIN logs
    BY <1>2 DEF Types
  <2>2. logs[Len(logs)] \in [Streams -> Nat]
    BY <2>1 DEF Types
  <2> QED BY <1>2, <2>1, <2>2 DEF LogsInv, Streams
<1>4. Types'
  BY <1>1, <1>3 DEF Types
<1>5. ChildInv' /\ PipesInv' /\ KilledInv'
  BY <1>1 DEF ChildInv, PipesInv, KilledInv
<1>6. LogsInv'
  BY <1>1, <1>2 DEF LogsInv, Holders, Child, Helper
<1>7. StatusInv'
  BY <1>1, <1>3 DEF StatusInv
<1> QED BY <1>4, <1>5, <1>6, <1>7

(* Steps of the readers: they fill buffers, and stop at the end of a pipe. *)
LEMMA ReadersInv == Inv /\ Readers => Inv'
<1> SUFFICES ASSUME Inv, NEW s \in Streams, Read(s) \/ ReadEnd(s) PROVE Inv'
  BY DEF Readers
<1> USE DEF Inv, runnerVars, processVars
<1>1. UNCHANGED <<n, pc, logs, walltimes, alive, helper, status, writing, written>>
  BY DEF Read, Drain, ReadEnd
<1>2. Types'
  <2>1. drained' \in [Streams -> Nat]
    <3>1. CASE Read(s)
      <4>1. drained' = [drained EXCEPT ![s] = drained[s] + 1]
        BY <3>1 DEF Read, Drain
      <4>2. drained \in [Streams -> Nat] /\ drained[s] + 1 \in Nat
        BY DEF Types
      <4> QED BY <4>1, <4>2
    <3>2. CASE ReadEnd(s)
      BY <3>2 DEF ReadEnd, Types
    <3> QED BY <3>1, <3>2
  <2>2. reading' \subseteq Streams
    BY DEF Types, Read, Drain, ReadEnd
  <2> QED BY <1>1, <2>1, <2>2 DEF Types
<1>3. ChildInv' /\ StatusInv' /\ KilledInv'
  BY <1>1 DEF ChildInv, StatusInv, KilledInv, Child, Helper
<1>4. Holders' = Holders
  BY <1>1 DEF Holders, Child, Helper
<1>5. LogsInv'
  BY <1>1, <1>4 DEF LogsInv
<1>6. PipesInv'
  <2>1. CASE Read(s)
    BY <1>1, <1>4, <2>1 DEF PipesInv, Types, Read, Drain
  <2>2. CASE ReadEnd(s)
    <3>1. written[n][s] = drained[s] /\ Holders = {} /\ reading' = reading \ {s} /\ drained' = drained
      BY <2>2 DEF ReadEnd, InPipe, Types
    <3> QED BY <1>1, <1>4, <3>1 DEF PipesInv
  <2> QED BY <2>1, <2>2
<1> QED BY <1>2, <1>3, <1>5, <1>6

LEMMA ForkInv == ASSUME Inv, NEW kind \in Kinds, Fork(kind) PROVE Inv'
<1> USE DEF Inv
<1>1. /\ Child \in alive /\ helper' = [helper EXCEPT ![n] = kind]
      /\ alive' = alive \cup {Helper}
      /\ UNCHANGED <<status, writing, written, n, pc, logs, walltimes, drained, reading>>
  BY DEF Fork, runnerVars, readerVars
<1>2. pc \in {"poll", "clock"} /\ Child \in Holders
  BY <1>1 DEF ChildInv, Child, Holders
<1>3. Types'
  BY <1>1, RunAssumption DEF Types, Helper, Processes
<1>4. ChildInv'
  BY <1>1 DEF ChildInv, Child, Helper
<1>5. PipesInv'
  BY <1>1, <1>2 DEF PipesInv
<1>6. LogsInv'
  BY <1>1, <1>2 DEF LogsInv
<1>7. StatusInv' /\ KilledInv'
  BY <1>1, <1>2 DEF StatusInv, KilledInv
<1> QED BY <1>3, <1>4, <1>5, <1>6, <1>7

LEMMA ExitInv == ASSUME Inv, NEW p \in Processes, Exit(p) PROVE Inv'
<1> USE DEF Inv
<1>1. /\ p \in alive /\ alive' = alive \ {p}
      /\ UNCHANGED <<helper, writing, written, n, pc, logs, walltimes, drained, reading>>
      /\ \/ p[2] = "child" /\ \E how \in {"ok", "failed"} :
                                status' = [status EXCEPT ![p[1]] = how]
         \/ UNCHANGED status
  BY DEF Exit, runnerVars, readerVars
<1>2. Types'
  BY <1>1 DEF Types
<1>3. ChildInv' /\ KilledInv'
  BY <1>1 DEF ChildInv, KilledInv, Child, Helper
<1>4. Holders' \subseteq Holders
  BY <1>1 DEF Holders, Child, Helper
<1>5. PipesInv' /\ LogsInv'
  BY <1>1, <1>4 DEF PipesInv, LogsInv
<1>6. StatusInv'
  <2>1. CASE p[2] = "child"
    <3>1. p[1] = n /\ pc \in {"poll", "clock"}
      BY <1>1, <2>1 DEF ChildInv, Child
    <3>2. \A k \in Commands : k < n => status'[k] = status[k]
      <4>1. \A k \in Commands : k < n => k # n
        BY DEF Types, Commands
      <4>2. PICK how : status' = [status EXCEPT ![n] = how] \/ UNCHANGED status
        BY <1>1, <3>1
      <4>3. \A k \in Commands : k # n => status'[k] = status[k]
        BY <4>2 DEF Types
      <4> QED BY <4>1, <4>3
    <3> QED BY <1>1, <3>1, <3>2 DEF StatusInv
  <2>2. CASE UNCHANGED status
    BY <1>1, <2>2 DEF StatusInv
  <2> QED BY <1>1, <2>1, <2>2
<1> QED BY <1>2, <1>3, <1>5, <1>6

LEMMA StartWriteInv ==
  ASSUME Inv, NEW p \in Processes, NEW s \in Streams, StartWrite(p, s) PROVE Inv'
<1> USE DEF Inv
<1>1. /\ writing' = [writing EXCEPT ![p] = s]
      /\ UNCHANGED <<alive, helper, status, written, n, pc, logs, walltimes, drained, reading>>
  BY DEF StartWrite, runnerVars, readerVars
<1>2. Types'
  BY <1>1 DEF Types
<1> QED
  BY <1>1, <1>2 DEF ChildInv, PipesInv, LogsInv, StatusInv, KilledInv, Holders, Child, Helper

LEMMA FinishWriteInv == ASSUME Inv, NEW p \in Processes, FinishWrite(p) PROVE Inv'
<1> USE DEF Inv
<1>1. /\ p \in Holders /\ writing[p] \in Streams
      /\ written' = [written EXCEPT ![n][writing[p]] = @ + 1]
      /\ writing' = [writing EXCEPT ![p] = NoStream]
      /\ UNCHANGED <<alive, helper, status, n, pc, logs, walltimes, drained, reading>>
  BY DEF FinishWrite, runnerVars, readerVars, Types
<1>2. Types'
  BY <1>1 DEF Types
<1>3. ChildInv' /\ KilledInv'
  BY <1>1 DEF ChildInv, KilledInv, Child, Helper
<1>4. PipesInv'
  BY <1>1 DEF PipesInv, Holders, Child, Helper
<1>5. \A k \in Commands : k # n => written'[k] = written[k]
  BY <1>1 DEF Types
<1>6. Len(logs) = n - 1 /\ n \in Nat
  BY <1>1 DEF LogsInv, Types, Commands
<1>7. LogsInv'
  <2>1. \A k \in DOMAIN logs : k # n /\ k \in Commands
    BY <1>6, RunAssumption DEF Types, Commands
  <2> QED BY <1>1, <1>5, <1>6, <2>1 DEF LogsInv
<1>8. StatusInv'
  <2>1. pc # "done"
    BY <1>1 DEF LogsInv
  <2> QED BY <1>1, <2>1 DEF StatusInv
<1> QED BY <1>2, <1>3, <1>4, <1>7, <1>8

LEMMA NextInv == Inv /\ [Next]_vars => Inv'
<1> SUFFICES ASSUME Inv, [Next]_vars PROVE Inv'
  OBVIOUS
<1>1. CASE Runner
  BY <1>1, RunnerInv, JoinInv, SaveInv DEF Runner
<1>2. CASE Readers
  BY <1>2, ReadersInv
<1>3. CASE Programs
  BY <1>3, ForkInv, ExitInv, StartWriteInv DEF Programs
<1>4. CASE Kernel
  BY <1>4, FinishWriteInv DEF Kernel
<1>5. CASE DeadlinePasses \/ UNCHANGED vars
  BY <1>5 DEF DeadlinePasses, vars, processVars, readerVars, Inv, Types, ChildInv, PipesInv,
              LogsInv, StatusInv, KilledInv, Holders, Child, Helper
<1> QED BY <1>1, <1>2, <1>3, <1>4, <1>5 DEF Next, Returned

LEMMA Invariance == Spec => []Inv
BY InitInv, NextInv, PTL DEF Spec

-----------------------------------------------------------------------------
(* However the child and its helpers go about it, logs hold all they wrote *)
(* and the walltimes file is that of a run that succeeded.                 *)
THEOREM LogsAreComplete == Spec => []LogsComplete
<1>1. Inv => LogsComplete
  <2> SUFFICES ASSUME Inv PROVE LogsComplete
    OBVIOUS
  <2>1. \A k \in DOMAIN logs : logs[k] = written[k]
    BY DEF Inv, LogsInv
  <2>2. ASSUME walltimes # NoFile
        PROVE  (\A k \in Commands : status[k] = "ok") /\ walltimes = written[Count]["stdout"]
    <3>1. pc = "done" /\ n = Count /\ walltimes = written[Count]["stdout"]
      BY <2>2 DEF Inv, StatusInv, LogsInv
    <3>2. \A k \in Commands : k < n \/ k = n
      BY <3>1, RunAssumption DEF Commands
    <3> QED BY <3>1, <3>2 DEF Inv, StatusInv
  <2> QED BY <2>1, <2>2 DEF LogsComplete
<1> QED BY <1>1, Invariance, PTL

(* Of a command that is given up nothing survives but what left its group. *)
THEOREM NothingSurvives == Spec => []NoSurvivors
<1>1. Inv => NoSurvivors
  BY DEF Inv, KilledInv, NoSurvivors
<1> QED BY <1>1, Invariance, PTL
-----------------------------------------------------------------------------
(* The bounds of what is written, buffered and in a pipe.                  *)
Writers == {p \in Holders : writing[p] # NoStream}

Output(k) == written[k]["stdout"] + written[k]["stderr"]

(* Processes are of commands that were started; the dead do not write.     *)
AliveInv ==
  /\ \A p \in alive : p[1] < n \/ (p[1] = n /\ pc # "spawn")
  /\ \A p \in Processes : writing[p] # NoStream => p \in alive

(* A command writes no more than MaxOutput, even if it completes what it   *)
(* has begun, and nothing before it is started.                            *)
OutputInv ==
  /\ \A k \in Commands : Output(k) <= MaxOutput
  /\ \A k \in Commands : k > n \/ (k = n /\ pc = "spawn") => written[k] = Empty
  /\ Output(n) + Cardinality(Writers) <= MaxOutput

(* A reader has read only what was written, and leaves what a pipe holds.  *)
FlowInv ==
  \A s \in Streams :
    /\ drained[s] <= MaxOutput
    /\ reading # {} => drained[s] <= written[n][s] /\ written[n][s] <= drained[s] + Capacity

Bounds == late \in BOOLEAN /\ AliveInv /\ OutputInv /\ FlowInv

LEMMA WritersFinite == IsFiniteSet(Writers) /\ Cardinality(Writers) \in Nat
<1>1. Writers \subseteq {Child, Helper}
  BY DEF Writers, Holders
<1>2. IsFiniteSet(({} \cup {Child}) \cup {Helper})
  BY FS_EmptySet, FS_AddElement
<1> QED BY <1>1, <1>2, FS_Subset, FS_CardinalityType

LEMMA OutputTyped ==
  ASSUME Types, NEW k \in Commands
  PROVE  /\ written[k] \in [Streams -> Nat]
         /\ written[k]["stdout"] \in Nat /\ written[k]["stderr"] \in Nat
         /\ Output(k) \in Nat
BY DEF Types, Output, Streams

LEMMA BoundsInit == Init => Bounds
<1> SUFFICES ASSUME Init PROVE Bounds
  OBVIOUS
<1> USE RunAssumption DEF Init
<1>1. AliveInv
  BY DEF AliveInv
<1>2. \A k \in Commands : written[k] = Empty /\ Output(k) = 0
  BY DEF Empty, Output, Streams
<1>3. Writers = {} /\ n \in Commands
  BY DEF Writers, Holders, Commands
<1>4. OutputInv
  BY <1>2, <1>3, FS_EmptySet DEF OutputInv
<1>5. FlowInv
  BY DEF FlowInv, Empty
<1> QED BY <1>1, <1>4, <1>5 DEF Bounds

(* The bounds on output hold as long as only the set of writers shrinks.   *)
LEMMA SameOutput ==
  ASSUME OutputInv, Types, written' = written, n' = n, pc' = pc \/ pc' # "spawn",
         Writers' \subseteq Writers
  PROVE  OutputInv'
<1>1. Cardinality(Writers') <= Cardinality(Writers) /\ Cardinality(Writers') \in Nat
  BY WritersFinite, FS_Subset, FS_CardinalityType
<1>2. \A k \in Commands : Output(k)' = Output(k)
  BY DEF Output
<1>3. n \in Commands /\ Output(n) \in Nat /\ Cardinality(Writers) \in Nat
  BY OutputTyped, WritersFinite DEF Types
<1>4. Output(n)' + Cardinality(Writers)' <= MaxOutput
  BY <1>1, <1>2, <1>3, RunAssumption DEF OutputInv
<1> QED BY <1>2, <1>4 DEF OutputInv

LEMMA BoundsNext == Inv /\ Bounds /\ [Next]_vars => Bounds'
<1> SUFFICES ASSUME Inv, Bounds, [Next]_vars PROVE Bounds'
  OBVIOUS
<1>t. Types /\ ChildInv /\ n \in Commands /\ n \in Nat /\ MaxOutput \in Nat /\ Capacity \in Nat
  BY RunAssumption DEF Inv, Types, Commands
<1>b. late \in BOOLEAN /\ AliveInv /\ OutputInv /\ FlowInv
  BY DEF Bounds
<1>s. ASSUME UNCHANGED <<n, written, drained, reading>> PROVE FlowInv'
  BY <1>b, <1>s DEF FlowInv
<1>1. CASE Spawn
  <2>1. /\ pc = "spawn" /\ pc' = "poll" /\ late' = FALSE /\ alive' = alive \cup {Child}
        /\ drained' = Empty /\ reading' = Streams
        /\ UNCHANGED <<n, helper, status, writing, written>>
    BY <1>1 DEF Spawn
  <2>2. AliveInv'
    BY <1>b, <2>1 DEF AliveInv, Child
  <2>3. writing[Child] = NoStream
    BY <1>t, <1>b, <2>1 DEF AliveInv, ChildInv, Child, Processes
  <2>4. Writers' \subseteq Writers
    BY <2>1, <2>3 DEF Writers, Holders, Child, Helper
  <2>5. OutputInv'
    BY <1>t, <1>b, <2>1, <2>4, SameOutput
  <2>6. written'[n'] = Empty
    BY <1>t, <1>b, <2>1 DEF OutputInv
  <2>7. FlowInv'
    BY <1>t, <2>1, <2>6 DEF FlowInv, Empty
  <2> QED BY <2>1, <2>2, <2>5, <2>7 DEF Bounds
<1>2. CASE SpawnFails \/ TryWait \/ KeepWaiting \/ GiveUp \/ SaveWalltimes \/ DeadlinePasses
           \/ UNCHANGED vars
  <2>1. /\ UNCHANGED <<n, alive, helper, status, writing, written, drained, reading>>
        /\ late' \in BOOLEAN /\ (pc' = pc \/ pc' # "spawn")
    BY <1>2, <1>b DEF SpawnFails, TryWait, KeepWaiting, GiveUp, SaveWalltimes, DeadlinePasses,
                      vars, processVars, readerVars
  <2>2. AliveInv'
    BY <1>b, <2>1 DEF AliveInv
  <2>3. OutputInv'
    BY <1>t, <1>b, <2>1, SameOutput DEF Writers, Holders, Child, Helper
  <2> QED BY <1>s, <2>1, <2>2, <2>3 DEF Bounds
<1>3. CASE KillGroup
  <2>1. /\ pc' = "wait" /\ alive' = alive \ Group
        /\ writing' = [p \in Processes |-> IF p \in Group THEN NoStream ELSE writing[p]]
        /\ UNCHANGED <<n, late, helper, written, drained, reading>>
    BY <1>3 DEF KillGroup, KillAll, readerVars
  <2>2. AliveInv'
    BY <1>b, <2>1 DEF AliveInv
  <2>3. Writers' \subseteq Writers
    <3>1. Holders \subseteq Processes
      BY <1>t DEF Holders, Types
    <3> QED BY <2>1, <3>1 DEF Writers, Holders, Child, Helper
  <2>4. OutputInv'
    BY <1>t, <1>b, <2>1, <2>3, SameOutput
  <2> QED BY <1>b, <1>s, <2>1, <2>2, <2>4 DEF Bounds
<1>4. CASE Join
  <2>1. /\ reading = {}
        /\ \/ n' = n /\ pc' # "spawn"
           \/ n' = n + 1 /\ n < Count
        /\ UNCHANGED <<late, alive, helper, writing, written, drained, reading>>
    BY <1>4 DEF Join, KeepLog, processVars, readerVars
  <2>2. AliveInv'
    BY <1>t, <1>b, <2>1 DEF AliveInv, Types, Processes, Commands
  <2>3. FlowInv'
    BY <1>b, <2>1 DEF FlowInv
  <2>4. CASE n' = n
    <3>1. pc' # "spawn" /\ Writers' = Writers
      BY <1>t, <2>1, <2>4 DEF Writers, Holders, Child, Helper
    <3>2. OutputInv'
      BY <1>t, <1>b, <2>1, <2>4, <3>1, SameOutput
    <3> QED BY <1>b, <2>1, <2>2, <2>3, <3>2 DEF Bounds
  <2>5. CASE n' = n + 1
    <3>1. Writers' = {}
      BY <1>t, <1>b, <2>1, <2>5 DEF AliveInv, Writers, Holders, Child, Helper
    <3>2. \A k \in Commands : Output(k)' = Output(k)
      BY <2>1 DEF Output
    <3>3. \A k \in Commands : k >= n + 1 => written[k] = Empty
      BY <1>t, <1>b DEF OutputInv, Commands
    <3>4. PICK m \in Commands : m = n + 1
      BY <1>t, <2>1, <2>5, RunAssumption DEF Commands
    <3>5. Output(n)' = Output(m) /\ Output(m) \in Nat /\ Output(m) <= MaxOutput
      BY <1>t, <1>b, <2>1, <2>5, <3>4, OutputTyped DEF OutputInv, Output
    <3>6. Output(n)' + Cardinality(Writers)' <= MaxOutput
      BY <1>t, <3>1, <3>5, FS_EmptySet
    <3>7. OutputInv'
      <4>1. \A k \in Commands : Output(k)' <= MaxOutput
        BY <1>b, <3>2 DEF OutputInv
      <4>2. \A k \in Commands : k > n' \/ (k = n' /\ pc' = "spawn") => written'[k] = Empty
        BY <1>t, <2>1, <2>5, <3>3 DEF Commands
      <4> QED BY <3>6, <4>1, <4>2 DEF OutputInv
    <3> QED BY <1>b, <2>1, <2>2, <2>3, <3>7 DEF Bounds
  <2> QED BY <2>1, <2>4, <2>5
<1>5. ASSUME NEW s \in Streams, Read(s) \/ ReadEnd(s) PROVE Bounds'
  <2>1. /\ UNCHANGED <<n, pc, late, alive, helper, status, writing, written>>
        /\ reading' \subseteq reading
    BY <1>5 DEF Read, Drain, ReadEnd, runnerVars, processVars
  <2>2. AliveInv' /\ OutputInv'
    BY <1>t, <1>b, <2>1, SameOutput DEF AliveInv, Writers, Holders, Child, Helper
  <2>3. FlowInv'
    <3>1. CASE Read(s)
      <4>1. s \in reading /\ InPipe(s) > 0 /\ drained' = [drained EXCEPT ![s] = drained[s] + 1]
        BY <3>1 DEF Read, Drain
      <4>2. \A r \in Streams : drained[r] \in Nat /\ written[n][r] \in Nat
        BY <1>t, OutputTyped DEF Types
      <4>3. written[n][s] <= MaxOutput
        BY <1>t, <1>b, OutputTyped DEF OutputInv, Output, Streams
      <4>4. /\ \A r \in Streams : r # s => drained'[r] = drained[r]
            /\ drained'[s] = drained[s] + 1
        BY <4>1, <1>t DEF Types
      <4>5. drained[s] + 1 <= written[n][s]
        BY <4>1, <4>2 DEF InPipe
      <4> QED BY <1>t, <1>b, <2>1, <4>1, <4>2, <4>3, <4>4, <4>5 DEF FlowInv
    <3>2. CASE ReadEnd(s)
      BY <1>b, <2>1, <3>2 DEF FlowInv, ReadEnd
    <3> QED BY <1>5, <3>1, <3>2
  <2> QED BY <1>b, <2>1, <2>2, <2>3 DEF Bounds
<1>6. ASSUME NEW kind \in Kinds, Fork(kind) PROVE Bounds'
  <2>1. /\ Child \in alive /\ alive' = alive \cup {Helper} /\ helper[n] = "none"
        /\ UNCHANGED <<n, pc, late, writing, written, drained, reading>>
    BY <1>6 DEF Fork, runnerVars, readerVars
  <2>2. pc # "spawn"
    BY <1>t, <2>1 DEF ChildInv, Child
  <2>3. AliveInv'
    BY <1>b, <2>1, <2>2 DEF AliveInv, Helper
  <2>4. Writers' \subseteq Writers
    <3>1. Helper \in Processes
      BY <1>t DEF Helper, Processes
    <3>2. ASSUME NEW p \in Writers' PROVE p \in Writers
      <4>1. p \in {Child, Helper} /\ writing[p] # NoStream
        BY <2>1, <3>2 DEF Writers, Holders, Child, Helper
      <4>2. p \in alive
        BY <1>b, <2>1, <3>1, <4>1 DEF AliveInv
      <4> QED BY <2>1, <4>1, <4>2 DEF Writers, Holders
    <3> QED BY <3>2
  <2>5. OutputInv'
    BY <1>t, <1>b, <2>1, <2>4, SameOutput
  <2> QED BY <1>b, <1>s, <2>1, <2>3, <2>5 DEF Bounds
<1>7. ASSUME NEW p \in Processes, Exit(p) PROVE Bounds'
  <2>1. /\ writing[p] = NoStream /\ alive' = alive \ {p}
        /\ UNCHANGED <<n, pc, late, helper, writing, written, drained, reading>>
    BY <1>7 DEF Exit, runnerVars, readerVars
  <2>2. AliveInv'
    BY <1>b, <2>1 DEF AliveInv
  <2>3. Writers' \subseteq Writers
    BY <2>1 DEF Writers, Holders, Child, Helper
  <2>4. OutputInv'
    BY <1>t, <1>b, <2>1, <2>3, SameOutput
  <2> QED BY <1>b, <1>s, <2>1, <2>2, <2>4 DEF Bounds
<1>8. ASSUME NEW p \in Processes, NEW s \in Streams, StartWrite(p, s) PROVE Bounds'
  <2>1. /\ p \in Holders /\ writing[p] = NoStream
        /\ Output(n) + Cardinality(Writers) < MaxOutput
        /\ writing' = [writing EXCEPT ![p] = s]
        /\ UNCHANGED <<n, pc, late, alive, helper, written, drained, reading>>
    BY <1>8 DEF StartWrite, runnerVars, readerVars, Output, Writers
  <2>2. p \in alive
    BY <2>1 DEF Holders
  <2>3. AliveInv'
    BY <1>t, <1>b, <2>1, <2>2 DEF AliveInv, Types
  <2>4. Writers' = Writers \cup {p} /\ p \notin Writers
    <3>1. Holders' = Holders /\ Holders \subseteq Processes
      BY <1>t, <2>1 DEF Holders, Child, Helper, Types
    <3>2. \A q \in Processes : writing'[q] = IF q = p THEN s ELSE writing[q]
      BY <1>t, <2>1 DEF Types
    <3>3. s # NoStream
      BY DEF Streams, NoStream
    <3> QED BY <2>1, <3>1, <3>2, <3>3 DEF Writers
  <2>5. Cardinality(Writers') = Cardinality(Writers) + 1 /\ Cardinality(Writers) \in Nat
    BY <2>4, WritersFinite, FS_AddElement
  <2>6. OutputInv'
    <3>1. \A k \in Commands : Output(k)' = Output(k)
      BY <2>1 DEF Output
    <3>2. Output(n)' + Cardinality(Writers)' <= MaxOutput
      BY <1>t, <2>1, <2>5, <3>1, OutputTyped
    <3> QED BY <1>b, <2>1, <3>1, <3>2 DEF OutputInv
  <2> QED BY <1>b, <1>s, <2>1, <2>3, <2>6 DEF Bounds
<1>9. ASSUME NEW p \in Processes, FinishWrite(p) PROVE Bounds'
  <2> DEFINE s == writing[p]
  <2>1. /\ p \in Holders /\ s \in Streams /\ InPipe(s) < Capacity
        /\ written' = [written EXCEPT ![n][s] = @ + 1]
        /\ writing' = [writing EXCEPT ![p] = NoStream]
        /\ UNCHANGED <<n, pc, late, alive, helper, drained, reading>>
    BY <1>t, <1>9 DEF FinishWrite, runnerVars, readerVars, Types
  <2>2. p \in alive /\ p \in Writers /\ p[1] = n
    BY <2>1 DEF Holders, Writers, Child, Helper, Streams, NoStream
  <2>3. AliveInv'
    BY <1>t, <1>b, <2>1, <2>2 DEF AliveInv, Types
  <2>4. Writers' = Writers \ {p}
    <3>1. Holders' = Holders /\ Holders \subseteq Processes
      BY <1>t, <2>1 DEF Holders, Child, Helper, Types
    <3>2. \A q \in Processes : writing'[q] = IF q = p THEN NoStream ELSE writing[q]
      BY <1>t, <2>1 DEF Types
    <3> QED BY <3>1, <3>2 DEF Writers
  <2>5. Cardinality(Writers') = Cardinality(Writers) - 1 /\ Cardinality(Writers) \in Nat
    BY <2>2, <2>4, WritersFinite, FS_RemoveElement
  <2>6. /\ \A k \in Commands : k # n => written'[k] = written[k]
        /\ \A r \in Streams : written'[n][r] = IF r = s THEN written[n][r] + 1 ELSE written[n][r]
    BY <1>t, <2>1 DEF Types
  <2> HIDE DEF s
  <2>7. Output(n)' = Output(n) + 1 /\ \A k \in Commands : k # n => Output(k)' = Output(k)
    <3>1. /\ "stdout" \in Streams /\ "stderr" \in Streams
          /\ (s = "stdout" \/ s = "stderr") /\ "stdout" # "stderr"
      BY <2>1 DEF Streams
    <3>2. n' = n
      BY <2>1
    <3>3. written[n]["stdout"] \in Nat /\ written[n]["stderr"] \in Nat
      BY <1>t, OutputTyped
    <3>4. written'[n]["stdout"] + written'[n]["stderr"]
            = written[n]["stdout"] + written[n]["stderr"] + 1
      BY <2>6, <3>1, <3>3
    <3> QED BY <2>6, <3>2, <3>4 DEF Output
  <2>8. OutputInv'
    <3>1. Output(n)' + Cardinality(Writers)' <= MaxOutput /\ Output(n)' <= MaxOutput
      <4>1. Output(n) \in Nat /\ Output(n) + Cardinality(Writers) <= MaxOutput
        BY <1>t, <1>b, OutputTyped DEF OutputInv
      <4>2. Cardinality(Writers') \in Nat
        BY <2>4, WritersFinite, FS_RemoveElement, FS_CardinalityType
      <4> QED BY <1>t, <2>5, <2>7, <4>1, <4>2
    <3>2. pc # "spawn"
      BY <1>t, <1>b, <2>2 DEF AliveInv
    <3>3. \A k \in Commands : Output(k)' <= MaxOutput
      BY <1>b, <2>1, <2>7, <3>1 DEF OutputInv, Output
    <3>4. \A k \in Commands : k > n => written'[k] = Empty
      <4>1. \A k \in Commands : k > n => k # n
        BY <1>t DEF Commands
      <4> QED BY <1>b, <2>6, <4>1 DEF OutputInv
    <3> QED BY <2>1, <3>1, <3>2, <3>3, <3>4 DEF OutputInv
  <2>9. FlowInv'
    <3>1. \A r \in Streams : drained[r] \in Nat /\ written[n][r] \in Nat
      BY <1>t, OutputTyped DEF Types
    <3>2. written[n][s] < drained[s] + Capacity
      BY <1>t, <2>1, <3>1 DEF InPipe
    <3> QED BY <1>t, <1>b, <2>1, <2>6, <3>1, <3>2 DEF FlowInv
  <2> QED BY <1>b, <2>1, <2>3, <2>8, <2>9 DEF Bounds
<1> QED
  BY <1>1, <1>2, <1>3, <1>4, <1>5, <1>6, <1>7, <1>8, <1>9
     DEF Next, Runner, Readers, Programs, Kernel, Returned

(* Every value is one the program can produce: the run stays within its    *)
(* commands, a pipe within its capacity, buffers and logs within what the  *)
(* commands may write.                                                     *)
THEOREM TypeCorrect == Spec => []TypeOK
<1>1. Inv /\ Bounds => TypeOK
  <2> SUFFICES ASSUME Inv, Bounds PROVE TypeOK
    OBVIOUS
  <2>1. Types /\ late \in BOOLEAN /\ OutputInv /\ FlowInv /\ MaxOutput \in Nat /\ Capacity \in Nat
    BY RunAssumption DEF Inv, Bounds
  <2>2. \A k \in Commands : written[k] \in [Streams -> 0 .. MaxOutput]
    <3> TAKE k \in Commands
    <3>1. written[k] \in [Streams -> Nat] /\ Output(k) <= MaxOutput
      BY <2>1, OutputTyped DEF OutputInv
    <3>2. written[k]["stdout"] <= MaxOutput /\ written[k]["stderr"] <= MaxOutput
      BY <2>1, <3>1, OutputTyped DEF Output
    <3>3. \A s \in Streams : written[k][s] \in 0 .. MaxOutput
      BY <2>1, <3>1, <3>2 DEF Streams
    <3> QED BY <3>1, <3>3
  <2>3. drained \in [Streams -> 0 .. MaxOutput]
    <3>1. \A s \in Streams : drained[s] \in 0 .. MaxOutput
      BY <2>1 DEF FlowInv, Types
    <3> QED BY <2>1, <3>1 DEF Types
  <2>4. \A s \in Streams : InPipe(s) \in 0 .. Capacity \/ reading = {}
    <3> TAKE s \in Streams
    <3>1. drained[s] \in Nat /\ written[n][s] \in Nat
      BY <2>1, OutputTyped DEF Types
    <3> QED BY <2>1, <3>1 DEF FlowInv, InPipe
  <2>5. logs \in Seq([Streams -> 0 .. MaxOutput])
    <3>1. logs \in Seq([Streams -> Nat]) /\ Len(logs) <= Count
      BY <2>1, RunAssumption DEF Inv, LogsInv, Types, Commands
    <3>2. \A k \in 1 .. Len(logs) : k \in Commands /\ logs[k] = written[k]
      BY <3>1, RunAssumption DEF Inv, LogsInv, Commands
    <3>3. \A k \in 1 .. Len(logs) : logs[k] \in [Streams -> 0 .. MaxOutput]
      BY <2>2, <3>2
    <3> DEFINE Log == [Streams -> 0 .. MaxOutput]
    <3> HIDE DEF Log
    <3>4. Len(logs) \in Nat /\ logs \in [1 .. Len(logs) -> Log]
      <4>1. logs = [k \in 1 .. Len(logs) |-> logs[k]] /\ Len(logs) \in Nat
        BY <3>1
      <4>2. \A k \in 1 .. Len(logs) : logs[k] \in Log
        BY <3>3 DEF Log
      <4> QED BY <4>1, <4>2
    <3>5. logs \in Seq(Log)
      BY <3>4, SeqDef
    <3> QED BY <3>5 DEF Log
  <2>6. walltimes \in 0 .. MaxOutput \cup {NoFile}
    <3>1. Count \in Commands /\ "stdout" \in Streams
      BY RunAssumption DEF Commands, Streams
    <3>2. written[Count]["stdout"] \in 0 .. MaxOutput
      BY <2>2, <3>1
    <3> QED BY <3>2 DEF Inv, StatusInv
  <2>7. written \in [Commands -> [Streams -> 0 .. MaxOutput]]
    BY <2>1, <2>2 DEF Types
  <2> QED BY <2>1, <2>3, <2>4, <2>5, <2>6, <2>7 DEF Types, TypeOK
<1> QED BY <1>1, Invariance, BoundsInit, BoundsNext, PTL DEF Spec
=============================================================================
