----------------------------- MODULE RunCommand -----------------------------
(***************************************************************************)
(* LocalBenchRunner (runner.rs): a run is a sequence of commands, each one *)
(* a child process in a group of its own, with a thread that drains each   *)
(* of its two pipes, a poll for its exit once a second, a deadline after   *)
(* which the group is killed, and a log that is kept once both pipes are   *)
(* at their end.                                                           *)
(*                                                                         *)
(* The commands are programs of others: a child may write, start a helper, *)
(* exit or hang at any moment, and a helper may outlive it, stay silent or *)
(* leave the group.  A pipe ends when no living process holds it open.     *)
(* What is written is counted, in units of which a pipe holds Capacity.    *)
(***************************************************************************)
EXTENDS Integers, Sequences, FiniteSets

CONSTANTS
  Count,      \* number of commands in a run
  Kinds,      \* the kinds of helper a child may start
  Capacity,   \* what a pipe holds
  MaxOutput   \* bound on what is written by one command

HelperKinds == {"attached", "silent", "detached"}

ASSUME RunAssumption ==
  /\ Count \in Nat \ {0}
  /\ Kinds \subseteq HelperKinds
  /\ Capacity \in Nat \ {0}
  /\ MaxOutput \in Nat

VARIABLES
  n,          \* the command the run has come to
  pc,         \* where checkout_and_run_benchmarks is
  late,       \* has the command's deadline passed?
  alive,      \* the processes that have not exited, of all commands
  helper,     \* helper[k]: the kind of helper command k started
  status,     \* status[k]: how the child of command k exited
  writing,    \* writing[p]: the pipe that process p is writing to
  written,    \* written[k][s]: what was written to pipe s of command k
  drained,    \* drained[s]: what the reader of pipe s has in its buffer
  reading,    \* the pipes whose readers have not come to the end
  logs,       \* the command logs kept so far
  walltimes   \* the file the walltime results are saved to

vars == <<n, pc, late, alive, helper, status, writing, written, drained,
          reading, logs, walltimes>>

Commands  == 1 .. Count
Streams   == {"stdout", "stderr"}
Processes == Commands \X {"child", "helper"}
NoStream  == "none"
NoFile    == -1
Empty     == [s \in Streams |-> 0]

Child  == <<n, "child">>
Helper == <<n, "helper">>

(* The processes of the present command that have its pipes open, and      *)
(* those that are still in the child's group.                              *)
Holders == {p \in alive : p = Child \/ (p = Helper /\ helper[n] # "silent")}
Group   == {p \in alive : p = Child \/ (p = Helper /\ helper[n] # "detached")}

InPipe(s) == written[n][s] - drained[s]

Init ==
  /\ n = 1
  /\ pc = "spawn"
  /\ late = FALSE
  /\ alive = {}
  /\ helper = [k \in Commands |-> "none"]
  /\ status = [k \in Commands |-> "none"]
  /\ writing = [p \in Processes |-> NoStream]
  /\ written = [k \in Commands |-> Empty]
  /\ drained = Empty
  /\ reading = {}
  /\ logs = << >>
  /\ walltimes = NoFile

-----------------------------------------------------------------------------
runnerVars  == <<n, pc, late, logs, walltimes>>
readerVars  == <<drained, reading>>
processVars == <<alive, helper, status, writing, written>>

(* Shared by KillGroup and the seeded faults below.                        *)
KillAll(victims) ==
  /\ pc = "clock" /\ late
  /\ alive' = alive \ victims
  /\ status' = IF Child \in victims
               THEN [status EXCEPT ![n] = "killed"] ELSE status
  /\ writing' = [p \in Processes |-> IF p \in victims THEN NoStream ELSE writing[p]]
  /\ pc' = "wait"
  /\ UNCHANGED <<n, late, logs, walltimes, helper, written, readerVars>>

KeepLog(next) ==
  /\ pc = "join"
  /\ logs' = Append(logs, drained)
  /\ \/ /\ next = "err" /\ pc' = "err" /\ n' = n
     \/ /\ next = "ok" /\ n < Count /\ pc' = "spawn" /\ n' = n + 1
     \/ /\ next = "ok" /\ n = Count /\ pc' = "save" /\ n' = n
  /\ UNCHANGED <<late, walltimes, processVars, readerVars>>

Outcome == IF status[n] = "ok" THEN "ok" ELSE "err"

Drain(s) ==
  /\ s \in reading
  /\ InPipe(s) > 0
  /\ drained' = [drained EXCEPT ![s] = @ + 1]
  /\ UNCHANGED <<reading, runnerVars, processVars>>

(* Seeded faults, none of them part of Next.                               *)
JoinOneReader     == "stdout" \notin reading /\ KeepLog(Outcome)
JoinRepeats ==
  /\ pc = "join" /\ reading = {}
  /\ logs' = Append(logs, drained)
  /\ n' = n + 1 /\ pc' = IF Outcome = "ok" THEN "spawn" ELSE "err"
  /\ UNCHANGED <<late, walltimes, processVars, readerVars>>
KillChildOnly     == KillAll({Child})
KillNobody        == KillAll({})
ReadAfterExit(s)  == Child \notin alive /\ Drain(s)

-----------------------------------------------------------------------------
(* The runner                                                              *)

Spawn ==
  /\ pc = "spawn" /\ pc' = "poll"
  /\ late' = FALSE
  /\ alive' = alive \cup {Child}
  /\ drained' = Empty
  /\ reading' = Streams
  /\ UNCHANGED <<n, helper, status, writing, written, logs, walltimes>>

SpawnFails ==
  /\ pc = "spawn" /\ pc' = "err"
  /\ UNCHANGED <<n, late, processVars, readerVars, logs, walltimes>>

(* child.try_wait()                                                        *)
TryWait ==
  /\ pc = "poll"
  /\ pc' = IF Child \in alive THEN "clock" ELSE "join"
  /\ UNCHANGED <<n, late, processVars, readerVars, logs, walltimes>>

(* Instant::now() < deadline: sleep and poll again.                        *)
KeepWaiting ==
  /\ pc = "clock" /\ ~late
  /\ pc' = "poll"
  /\ UNCHANGED <<n, late, processVars, readerVars, logs, walltimes>>

(* killpg(child.id(), SIGKILL), whether or not the child has exited since. *)
KillGroup == KillAll(Group)

(* child.wait(), both joins, and the error; there is no log.               *)
GiveUp ==
  /\ pc = "wait" /\ Child \notin alive /\ reading = {}
  /\ pc' = "timedout"
  /\ UNCHANGED <<n, late, processVars, readerVars, logs, walltimes>>

(* Both joins, the log, and the exit status: the next command or an error. *)
Join == reading = {} /\ KeepLog(Outcome)

(* fs::write(walltimes_path, logs.last().stdout), which may fail.          *)
SaveWalltimes ==
  /\ pc = "save"
  /\ \/ pc' = "done" /\ walltimes' = logs[Len(logs)]["stdout"]
     \/ pc' = "err" /\ walltimes' = walltimes
  /\ UNCHANGED <<n, late, processVars, readerVars, logs>>

(* read_to_end on a thread for each pipe.                                  *)
Read(s) == Drain(s)

ReadEnd(s) ==
  /\ s \in reading
  /\ InPipe(s) = 0 /\ Holders = {}
  /\ reading' = reading \ {s}
  /\ UNCHANGED <<drained, runnerVars, processVars>>

-----------------------------------------------------------------------------
(* The commands, the kernel and the clock                                  *)

Fork(kind) ==
  /\ Child \in alive /\ helper[n] = "none"
  /\ helper' = [helper EXCEPT ![n] = kind]
  /\ alive' = alive \cup {Helper}
  /\ UNCHANGED <<status, writing, written, runnerVars, readerVars>>

StartWrite(p, s) ==
  /\ p \in Holders /\ writing[p] = NoStream
  /\ written[n]["stdout"] + written[n]["stderr"]
       + Cardinality({q \in Holders : writing[q] # NoStream}) < MaxOutput
  /\ writing' = [writing EXCEPT ![p] = s]
  /\ UNCHANGED <<alive, helper, status, written, runnerVars, readerVars>>

(* A write to a full pipe waits for the reader.                            *)
FinishWrite(p) ==
  /\ p \in Holders /\ writing[p] # NoStream
  /\ InPipe(writing[p]) < Capacity
  /\ written' = [written EXCEPT ![n][writing[p]] = @ + 1]
  /\ writing' = [writing EXCEPT ![p] = NoStream]
  /\ UNCHANGED <<alive, helper, status, runnerVars, readerVars>>

Exit(p) ==
  /\ p \in alive /\ writing[p] = NoStream
  /\ alive' = alive \ {p}
  /\ \/ p[2] = "child" /\ \E how \in {"ok", "failed"} :
                            status' = [status EXCEPT ![p[1]] = how]
     \/ p[2] = "helper" /\ UNCHANGED status
  /\ UNCHANGED <<helper, writing, written, runnerVars, readerVars>>

DeadlinePasses ==
  /\ pc \notin {"spawn", "save"} /\ ~late
  /\ late' = TRUE
  /\ UNCHANGED <<n, pc, logs, walltimes, processVars, readerVars>>

-----------------------------------------------------------------------------
Over == pc \in {"done", "err", "timedout"}

Returned == Over /\ UNCHANGED vars

Runner == Spawn \/ SpawnFails \/ TryWait \/ KeepWaiting \/ KillGroup \/ GiveUp
            \/ Join \/ SaveWalltimes

Readers == \E s \in Streams : Read(s) \/ ReadEnd(s)

Programs ==
  \/ \E kind \in Kinds : Fork(kind)
  \/ \E p \in Processes : Exit(p) \/ \E s \in Streams : StartWrite(p, s)

Kernel == \E p \in Processes : FinishWrite(p)

Next == Runner \/ Readers \/ Programs \/ Kernel \/ DeadlinePasses \/ Returned

Spec == Init /\ [][Next]_vars

(* Threads are scheduled and the kernel completes what it can complete.    *)
(* Nothing makes a program exit, and the deadline may be a long way off.   *)
FairSpec ==
  /\ Spec
  /\ WF_vars(Runner)
  /\ \A s \in Streams : WF_vars(Read(s)) /\ WF_vars(ReadEnd(s))
  /\ \A p \in Processes : SF_vars(FinishWrite(p))

-----------------------------------------------------------------------------
(* Values the program can produce; in particular the run never goes past   *)
(* its last command and no pipe holds more than its capacity.              *)
TypeOK ==
  /\ n \in Commands
  /\ pc \in {"spawn", "poll", "clock", "wait", "join", "save", "done", "err", "timedout"}
  /\ late \in BOOLEAN
  /\ alive \subseteq Processes
  /\ helper \in [Commands -> HelperKinds \cup {"none"}]
  /\ status \in [Commands -> {"none", "ok", "failed", "killed"}]
  /\ writing \in [Processes -> Streams \cup {NoStream}]
  /\ written \in [Commands -> [Streams -> 0 .. MaxOutput]]
  /\ drained \in [Streams -> 0 .. MaxOutput]
  /\ \A s \in Streams : InPipe(s) \in 0 .. Capacity \/ reading = {}
  /\ reading \subseteq Streams
  /\ logs \in Seq([Streams -> 0 .. MaxOutput])
  /\ walltimes \in 0 .. MaxOutput \cup {NoFile}

(* The log that is kept of a command holds all that its processes wrote to *)
(* its pipes, then or later: not what the child had written when it exited.*)
(* There is a walltimes file only when every command of the run succeeded, *)
(* and it holds the whole output of the last one.                          *)
LogsComplete ==
  /\ \A k \in DOMAIN logs : logs[k] = written[k]
  /\ walltimes # NoFile =>
       /\ \A k \in Commands : status[k] = "ok"
       /\ walltimes = written[Count]["stdout"]

(* A command that is given up for being late leaves no process behind that *)
(* would disturb the next run, unless one has left the group.  (A command  *)
(* that ends in time may: its group is not killed.)                        *)
NoSurvivors ==
  pc = "timedout" => \A p \in alive : p[1] = n => p = Helper /\ helper[n] = "detached"

(* "A full pipe buffer can never block the child while we are waiting on   *)
(* it": a write that has to wait is completed, however far the deadline.   *)
WritesComplete == \A p \in Processes : writing[p] # NoStream ~> writing[p] = NoStream

(* Once the deadline has passed the run comes to its end or to the next    *)
(* command, though the child hangs.  The joins are not under the deadline: *)
(* a process that is not killed must not keep the pipes open for ever.     *)
Lingering == Child \notin alive /\ Holders # {}

Lateness(k) == n = k /\ late

DeadlineEndsWait ==
  <>[]~Lingering => \A k \in Commands : Lateness(k) ~> Over \/ ~Lateness(k)
=============================================================================
