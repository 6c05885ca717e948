-------------------------- MODULE WatchdogProcess --------------------------
(***************************************************************************)
(* belter-watchdog as a process: the single-instance lock and the state    *)
(* file of "run", the lock probe of "status", signals, and the shell       *)
(* command (a diagnosis, an admission check or a recovery) that the loop   *)
(* runs in a process group of its own.  What the loop decides between two  *)
(* commands is left out.                                                   *)
(*                                                                         *)
(* A slot of Run is one process at a time; launchd or a user starts the    *)
(* next one in any slot that is free.  The processes of the command a      *)
(* watchdog waits for are counted with the watchdog; what outlives that    *)
(* wait, because nobody looks at it any more, is counted in stray.         *)
(***************************************************************************)
EXTENDS Integers

CONSTANTS
  Run,         \* slots for processes of belter-watchdog run
  Status,      \* slots for processes of belter-watchdog status
  NoOne,       \* the lock is free, the state file is absent
  MaxKills,    \* bound on kills and on starts that fail
  MaxSignals,  \* bound on shutdown signals
  Daemons      \* a command may start a process that does not end by itself

ASSUME WatchdogAssumption ==
  /\ Run \cap Status = {}
  /\ NoOne \notin Run \cup Status
  /\ MaxKills \in Nat
  /\ MaxSignals \in Nat
  /\ Daemons \in BOOLEAN

VARIABLES
  pc,         \* where each process is
  lock,       \* who holds the flock on watchdog.lock
  stateFile,  \* who wrote watchdog.json
  requested,  \* processes whose ShutdownToken is set
  leader,     \* the shell that the process spawned
  holder,     \* a descendant of that shell holds its output pipe
  worker,     \* a member of its process group does not hold the pipe
  stray,      \* processes that outlived the wait for their command
  kills,      \* number of kills and failed starts so far
  signals     \* number of shutdown signals so far

command == <<leader, holder, worker>>

vars == <<pc, lock, stateFile, requested, command, stray, kills, signals>>

\* The RuntimeStateGuard is alive, up to the unlock in its Drop.
Guarded == {"locked", "ready", "loop", "poll", "killing", "reaping"}

TypeOK ==
  /\ pc \in [Run \cup Status -> Guarded \cup {"off", "unlocked", "probing"}]
  /\ lock \in Run \cup Status \cup {NoOne}
  /\ stateFile \in Run \cup {NoOne}
  /\ requested \subseteq Run
  /\ leader \in [Run -> {"none", "running", "exited"}]
  /\ holder \in [Run -> BOOLEAN]
  /\ worker \in [Run -> BOOLEAN]
  /\ stray \in BOOLEAN
  /\ kills \in 0..MaxKills
  /\ signals \in 0..MaxSignals

Goto(p, next) == pc' = [pc EXCEPT ![p] = next]

----------------------------------------------------------------------------
(* run: start *)

\* Variant: ownership by the presence of the state file.
AcquireByFile(d) ==
  /\ pc[d] = "off"
  /\ stateFile = NoOne
  /\ lock' = d
  /\ Goto(d, "locked")
  /\ UNCHANGED <<stateFile, requested, command, stray, kills, signals>>

\* acquire_runtime_state takes the lock; a process that finds it held exits
\* with an error and changes nothing.
Acquire(d) ==
  /\ pc[d] = "off"
  /\ lock = NoOne
  /\ lock' = d
  /\ Goto(d, "locked")
  /\ UNCHANGED <<stateFile, requested, command, stray, kills, signals>>

\* write_runtime_state: a temporary file is renamed over watchdog.json.
Publish(d) ==
  /\ pc[d] = "locked"
  /\ stateFile' = d
  /\ Goto(d, "ready")
  /\ UNCHANGED <<lock, requested, command, stray, kills, signals>>

\* The logs are open and the signal handlers installed: run_watchdog begins.
Install(d) ==
  /\ pc[d] = "ready"
  /\ Goto(d, "loop")
  /\ UNCHANGED <<lock, stateFile, requested, command, stray, kills, signals>>

\* A log cannot be opened or written, between two commands: the error ends
\* run, and the guard is dropped.
LogFails(d) ==
  /\ pc[d] \in {"ready", "loop"}
  /\ kills < MaxKills
  /\ kills' = kills + 1
  /\ lock' = NoOne
  /\ Goto(d, "unlocked")
  /\ UNCHANGED <<stateFile, requested, command, stray, signals>>

----------------------------------------------------------------------------
(* run: one command, run_shell_command *)

\* The loop tests the token before it spawns the next command.
SpawnCommand(d) ==
  /\ pc[d] = "loop"
  /\ d \notin requested
  /\ leader' = [leader EXCEPT ![d] = "running"]
  /\ Goto(d, "poll")
  /\ UNCHANGED <<lock, stateFile, requested, holder, worker, stray, kills,
                 signals>>

\* try_wait: the shell has exited by itself.
SeesExit(d) ==
  /\ pc[d] = "poll"
  /\ d \notin requested
  /\ leader[d] = "exited"
  /\ Goto(d, "reaping")
  /\ UNCHANGED <<lock, stateFile, requested, command, stray, kills, signals>>

\* The deadline has passed: the shell is killed.  The rest of its process
\* group goes on, with the pipe or without it.
TimesOut(d) ==
  /\ pc[d] = "poll"
  /\ d \notin requested
  /\ leader[d] = "running"
  /\ leader' = [leader EXCEPT ![d] = "exited"]
  /\ Goto(d, "reaping")
  /\ UNCHANGED <<lock, stateFile, requested, holder, worker, stray, kills,
                 signals>>

\* Variant: the command is left alone at shutdown.
AbandonGroup(d) ==
  /\ pc[d] = "poll"
  /\ d \in requested
  /\ Goto(d, "loop")
  /\ UNCHANGED <<lock, stateFile, requested, command, stray, kills, signals>>

\* Shutdown: terminate_child sends SIGTERM to the process group, of which
\* some members may obey at once.
TerminateGroup(d) ==
  /\ pc[d] = "poll"
  /\ d \in requested
  /\ leader' \in {leader, [leader EXCEPT ![d] = "exited"]}
  /\ holder' \in {holder, [holder EXCEPT ![d] = FALSE]}
  /\ worker' \in {worker, [worker EXCEPT ![d] = FALSE]}
  /\ Goto(d, "killing")
  /\ UNCHANGED <<lock, stateFile, requested, stray, kills, signals>>

\* The shell exits within the second: terminate_child returns, and members of
\* the group that ignored SIGTERM go on.
GroupObeys(d) ==
  /\ pc[d] = "killing"
  /\ leader[d] = "exited"
  /\ Goto(d, "reaping")
  /\ UNCHANGED <<lock, stateFile, requested, command, stray, kills, signals>>

\* Variant: the second passes and the group is not killed.
GroupIsSpared(d) ==
  /\ pc[d] = "killing"
  /\ Goto(d, "reaping")
  /\ UNCHANGED <<lock, stateFile, requested, command, stray, kills, signals>>

\* The second passes: SIGKILL to the group.
KillGroup(d) ==
  /\ pc[d] = "killing"
  /\ leader' = [leader EXCEPT ![d] = "exited"]
  /\ holder' = [holder EXCEPT ![d] = FALSE]
  /\ worker' = [worker EXCEPT ![d] = FALSE]
  /\ Goto(d, "reaping")
  /\ UNCHANGED <<lock, stateFile, requested, stray, kills, signals>>

\* wait_with_output reads to the end of the pipes, which comes when the last
\* process that holds them is gone.  Nobody waits for the others.
Reap(d) ==
  /\ pc[d] = "reaping"
  /\ leader[d] = "exited"
  /\ ~holder[d]
  /\ leader' = [leader EXCEPT ![d] = "none"]
  /\ worker' = [worker EXCEPT ![d] = FALSE]
  /\ stray' = IF worker[d] THEN TRUE ELSE stray
  /\ Goto(d, "loop")
  /\ UNCHANGED <<lock, stateFile, requested, holder, kills, signals>>

----------------------------------------------------------------------------
(* run: end *)

\* run_watchdog returns and the guard is dropped: first the lock ...
DropUnlock(d) ==
  /\ pc[d] = "loop"
  /\ d \in requested
  /\ lock' = NoOne
  /\ Goto(d, "unlocked")
  /\ UNCHANGED <<stateFile, requested, command, stray, kills, signals>>

\* ... then watchdog.json, whoever wrote it.
DropRemove(d) ==
  /\ pc[d] = "unlocked"
  /\ stateFile' = NoOne
  /\ requested' = requested \ {d}
  /\ Goto(d, "off")
  /\ UNCHANGED <<lock, command, stray, kills, signals>>

\* SIGTERM or SIGINT once the handlers are there: a flag.  It has no effect
\* when the guard is already being dropped.
Signal(d) ==
  /\ pc[d] \in {"loop", "poll", "killing", "reaping"}
  /\ d \notin requested
  /\ signals < MaxSignals
  /\ signals' = signals + 1
  /\ requested' = requested \cup {d}
  /\ UNCHANGED <<pc, lock, stateFile, command, stray, kills>>

\* SIGKILL, a signal before the handlers are there, or a state file that
\* cannot be written.  The kernel drops the lock, which no command has
\* inherited; the state file stays, and so do the processes of the command.
Killed(d) ==
  /\ pc[d] # "off"
  /\ kills < MaxKills
  /\ kills' = kills + 1
  /\ lock' = IF lock = d THEN NoOne ELSE lock
  /\ requested' = requested \ {d}
  /\ leader' = [leader EXCEPT ![d] = "none"]
  /\ holder' = [holder EXCEPT ![d] = FALSE]
  /\ worker' = [worker EXCEPT ![d] = FALSE]
  /\ stray' = IF leader[d] = "running" \/ holder[d] \/ worker[d] THEN TRUE
                                                              ELSE stray
  /\ Goto(d, "off")
  /\ UNCHANGED <<stateFile, signals>>

----------------------------------------------------------------------------
(* status *)

\* Variant: the probe goes through acquire_runtime_state.
ProbeAcquires(s) ==
  /\ pc[s] = "off"
  /\ lock = NoOne
  /\ lock' = s
  /\ stateFile' = s
  /\ Goto(s, "probing")
  /\ UNCHANGED <<requested, command, stray, kills, signals>>

\* runtime_lock_is_held takes the lock if it is free; if not, it reports that
\* a watchdog is running and changes nothing.
ProbeTakes(s) ==
  /\ pc[s] = "off"
  /\ lock = NoOne
  /\ lock' = s
  /\ Goto(s, "probing")
  /\ UNCHANGED <<stateFile, requested, command, stray, kills, signals>>

\* Variant: the probe keeps the lock until the process ends.
ProbeForgets(s) ==
  /\ pc[s] = "probing"
  /\ Goto(s, "off")
  /\ UNCHANGED <<lock, stateFile, requested, command, stray, kills, signals>>

ProbeReleases(s) ==
  /\ pc[s] = "probing"
  /\ lock' = NoOne
  /\ Goto(s, "off")
  /\ UNCHANGED <<stateFile, requested, command, stray, kills, signals>>

----------------------------------------------------------------------------
(* The command's processes *)

\* The shell starts a descendant that inherits its pipes ...
LeaderForks(d) ==
  /\ leader[d] = "running"
  /\ ~holder[d]
  /\ holder' = [holder EXCEPT ![d] = TRUE]
  /\ UNCHANGED <<pc, lock, stateFile, requested, leader, worker, stray, kills,
                 signals>>

\* ... and one of them starts a process behind pipes of its own, as belter and
\* handoff.py start podman.
WorkerStarts(d) ==
  /\ leader[d] = "running" \/ holder[d]
  /\ ~worker[d]
  /\ worker' = [worker EXCEPT ![d] = TRUE]
  /\ UNCHANGED <<pc, lock, stateFile, requested, leader, holder, stray, kills,
                 signals>>

LeaderExits(d) ==
  /\ leader[d] = "running"
  /\ leader' = [leader EXCEPT ![d] = "exited"]
  /\ UNCHANGED <<pc, lock, stateFile, requested, holder, worker, stray, kills,
                 signals>>

HolderExits(d) ==
  /\ holder[d]
  /\ holder' = [holder EXCEPT ![d] = FALSE]
  /\ UNCHANGED <<pc, lock, stateFile, requested, leader, worker, stray, kills,
                 signals>>

WorkerExits(d) ==
  /\ worker[d]
  /\ worker' = [worker EXCEPT ![d] = FALSE]
  /\ UNCHANGED <<pc, lock, stateFile, requested, leader, holder, stray, kills,
                 signals>>

StraysExit ==
  /\ stray
  /\ stray' = FALSE
  /\ UNCHANGED <<pc, lock, stateFile, requested, command, kills, signals>>

----------------------------------------------------------------------------

\* A state file and processes may be left from an earlier run.
Init ==
  /\ pc = [p \in Run \cup Status |-> "off"]
  /\ lock = NoOne
  /\ stateFile \in Run \cup {NoOne}
  /\ requested = {}
  /\ leader = [d \in Run |-> "none"]
  /\ holder = [d \in Run |-> FALSE]
  /\ worker = [d \in Run |-> FALSE]
  /\ stray \in BOOLEAN
  /\ kills = 0
  /\ signals = 0

RunNext(d) ==
  \/ Acquire(d) \/ Publish(d) \/ Install(d)
  \/ SpawnCommand(d) \/ SeesExit(d) \/ TimesOut(d) \/ TerminateGroup(d)
  \/ GroupObeys(d) \/ KillGroup(d) \/ Reap(d)
  \/ DropUnlock(d) \/ DropRemove(d)

CommandNext(d) ==
  \/ LeaderForks(d) \/ WorkerStarts(d)
  \/ LeaderExits(d) \/ HolderExits(d) \/ WorkerExits(d)

StatusNext(s) == ProbeTakes(s) \/ ProbeReleases(s)

Next ==
  \/ \E d \in Run :
       RunNext(d) \/ CommandNext(d) \/ LogFails(d) \/ Signal(d) \/ Killed(d)
  \/ \E s \in Status : StatusNext(s)
  \/ StraysExit

Spec == Init /\ [][Next]_vars

(***************************************************************************)
(* Fairness.  A process takes its next step (the sleeps are bounded, the   *)
(* deadline of a command passes), somebody starts the watchdog again when  *)
(* it is gone, a status process ends.  A command that is not a daemon ends *)
(* some time, and with it its hold on the pipes; the shell itself need not *)
(* end before the deadline.                                                *)
(***************************************************************************)
RunProgress(d) ==
  \/ Publish(d) \/ Install(d) \/ SpawnCommand(d) \/ SeesExit(d) \/ TimesOut(d)
  \/ TerminateGroup(d) \/ GroupObeys(d) \/ KillGroup(d) \/ Reap(d)
  \/ DropUnlock(d) \/ DropRemove(d)

Fairness ==
  /\ \A d \in Run :
       /\ WF_vars(RunProgress(d))
       /\ SF_vars(Acquire(d))
       /\ ~Daemons => SF_vars(HolderExits(d))
  /\ \A s \in Status : WF_vars(ProbeReleases(s))

FairSpec == Spec /\ Fairness

----------------------------------------------------------------------------
(* Properties *)

\* There is at most one watchdog between the acquisition of the lock and its
\* release in Drop, however processes are killed and the lock is probed.
SingleInstance ==
  \A d, e \in Run : pc[d] \in Guarded /\ pc[e] \in Guarded => d = e

\* The command of d: its shell, every process that holds the shell's output,
\* and the rest of its process group, for as long as the watchdog waits for
\* it.
Followed(d) == leader[d] # "none" \/ holder[d] \/ worker[d]

\* A command is followed under the lock only: whatever is signalled, killed,
\* timed out or probed, the watchdog that waits for a command is the one that
\* holds the lock, so that the shells and pipes of two watchdogs never run
\* side by side, not even when one takes over from another.  The lock does not
\* cover what run_shell_command lets go, which stray stands for.
CommandsUnderLock == \A d \in Run : Followed(d) => lock = d

\* A stale state file, a dead predecessor or a status probe never keeps the
\* watchdog from running again.
WatchdogReturns ==
  []<>(\E d \in Run : pc[d] = "loop" /\ d \notin requested)

\* A shutdown request is obeyed, whatever command is running.
ShutdownCompletes == \A d \in Run : d \in requested ~> pc[d] = "off"

----------------------------------------------------------------------------
(* Why there is only one: the inductive invariant *)

\* The lock is held by the process whose guard is alive, or by a probe.
LockInv ==
  /\ \A d \in Run : pc[d] \in Guarded <=> lock = d
  /\ \A s \in Status : pc[s] = "probing" <=> lock = s
  /\ \A s \in Status : pc[s] \in {"off", "probing"}
  /\ \A d \in Run : pc[d] # "probing"

\* Outside of a command none is followed.
CommandInv ==
  \A d \in Run : Followed(d) => pc[d] \in {"poll", "killing", "reaping"}

=============================================================================
