--------------------------- MODULE WatchdogProofs ---------------------------
(***************************************************************************)
(* There is one watchdog at a time, and it waits for a command only while  *)
(* it holds the lock: proved of WatchdogProcess for any number of          *)
(* processes, kills and signals.                                           *)
(***************************************************************************)
EXTENDS WatchdogProcess, TLAPS

\* Run and Status do not meet, and neither holds NoOne.
LEMMA Slots ==
  /\ \A d \in Run : d \notin Status /\ d # NoOne
  /\ \A s \in Status : s \notin Run /\ s # NoOne
BY WatchdogAssumption

\* The invariant of the whole: types, the lock, and commands.
IInv == TypeOK /\ LockInv /\ CommandInv

\* A step of a watchdog keeps the types.
LEMMA RunTypes ==
  ASSUME TypeOK, NEW d \in Run,
         RunNext(d) \/ CommandNext(d) \/ LogFails(d) \/ Signal(d) \/ Killed(d)
  PROVE  TypeOK'
<1> USE WatchdogAssumption DEF TypeOK, Goto, Guarded, command
<1>1. CASE RunNext(d)
  BY <1>1 DEF RunNext, Acquire, Publish, Install, SpawnCommand, SeesExit,
     TimesOut, TerminateGroup, GroupObeys, KillGroup, Reap, DropUnlock,
     DropRemove
<1>2. CASE CommandNext(d)
  BY <1>2 DEF CommandNext, LeaderForks, WorkerStarts, LeaderExits,
     HolderExits, WorkerExits
<1>3. CASE LogFails(d) \/ Signal(d)
  BY <1>3 DEF LogFails, Signal
<1>4. CASE Killed(d)
  <2>1. stray' \in BOOLEAN
    BY <1>4 DEF Killed
  <2>2. lock' \in Run \cup Status \cup {NoOne}
    BY <1>4 DEF Killed
  <2>3. requested' \subseteq Run
    BY <1>4 DEF Killed
  <2>4. UNCHANGED <<stateFile, signals>> /\ kills' \in 0..MaxKills
    BY <1>4 DEF Killed
  <2>5. /\ pc' = [pc EXCEPT ![d] = "off"]
        /\ leader' = [leader EXCEPT ![d] = "none"]
        /\ holder' = [holder EXCEPT ![d] = FALSE]
        /\ worker' = [worker EXCEPT ![d] = FALSE]
    BY <1>4 DEF Killed
  <2> QED
    BY <2>1, <2>2, <2>3, <2>4, <2>5
<1> QED
  BY <1>1, <1>2, <1>3, <1>4

\* A step of a watchdog keeps the lock with the process whose guard is alive.
LEMMA RunLock ==
  ASSUME TypeOK, LockInv, NEW d \in Run,
         RunNext(d) \/ CommandNext(d) \/ LogFails(d) \/ Signal(d) \/ Killed(d)
  PROVE  LockInv'
<1> USE Slots DEF TypeOK, LockInv, Goto, Guarded, command
<1>1. CASE RunNext(d)
  <2>1. CASE Acquire(d)
    BY <2>1 DEF Acquire
  <2>2. CASE DropUnlock(d)
    BY <2>2 DEF DropUnlock
  <2>3. CASE DropRemove(d)
    BY <2>3 DEF DropRemove
  <2>4. CASE Publish(d) \/ Install(d) \/ SpawnCommand(d) \/ SeesExit(d)
    BY <2>4 DEF Publish, Install, SpawnCommand, SeesExit
  <2>5. CASE TimesOut(d) \/ TerminateGroup(d) \/ GroupObeys(d)
    BY <2>5 DEF TimesOut, TerminateGroup, GroupObeys
  <2>6. CASE KillGroup(d) \/ Reap(d)
    BY <2>6 DEF KillGroup, Reap
  <2> QED
    BY <1>1, <2>1, <2>2, <2>3, <2>4, <2>5, <2>6 DEF RunNext
<1>2. CASE CommandNext(d)
  BY <1>2 DEF CommandNext, LeaderForks, WorkerStarts, LeaderExits,
     HolderExits, WorkerExits
<1>3. CASE LogFails(d)
  BY <1>3 DEF LogFails
<1>4. CASE Signal(d)
  BY <1>4 DEF Signal
<1>5. CASE Killed(d)
  BY <1>5 DEF Killed
<1> QED
  BY <1>1, <1>2, <1>3, <1>4, <1>5

\* A step of a watchdog follows a command from its spawn until its shell and
\* its pipes are gone, or the watchdog is killed.
LEMMA RunCommand ==
  ASSUME TypeOK, CommandInv, NEW d \in Run,
         RunNext(d) \/ CommandNext(d) \/ LogFails(d) \/ Signal(d) \/ Killed(d)
  PROVE  CommandInv'
<1> USE DEF TypeOK, CommandInv, Followed, Goto, command
<1>1. CASE RunNext(d)
  <2>1. CASE Acquire(d) \/ Publish(d) \/ Install(d) \/ SpawnCommand(d)
    BY <2>1 DEF Acquire, Publish, Install, SpawnCommand
  <2>2. CASE SeesExit(d) \/ TimesOut(d) \/ TerminateGroup(d) \/ GroupObeys(d)
    BY <2>2 DEF SeesExit, TimesOut, TerminateGroup, GroupObeys
  <2>3. CASE KillGroup(d) \/ Reap(d) \/ DropUnlock(d) \/ DropRemove(d)
    BY <2>3 DEF KillGroup, Reap, DropUnlock, DropRemove
  <2> QED
    BY <1>1, <2>1, <2>2, <2>3 DEF RunNext
<1>2. CASE CommandNext(d)
  BY <1>2 DEF CommandNext, LeaderForks, WorkerStarts, LeaderExits,
     HolderExits, WorkerExits
<1>3. CASE LogFails(d) \/ Signal(d) \/ Killed(d)
  BY <1>3 DEF LogFails, Signal, Killed
<1> QED
  BY <1>1, <1>2, <1>3

\* A step of a status process.
LEMMA StatusStep ==
  ASSUME IInv, NEW s \in Status, StatusNext(s)
  PROVE  IInv'
<1> USE Slots DEF IInv, TypeOK, LockInv, CommandInv, Followed, Goto, Guarded,
                  command
<1>1. CASE ProbeTakes(s)
  BY <1>1 DEF ProbeTakes
<1>2. CASE ProbeReleases(s)
  BY <1>2 DEF ProbeReleases
<1> QED
  BY <1>1, <1>2 DEF StatusNext

\* The inductive invariant: the lock is with the one process whose guard is
\* alive or with a probe, and outside of run_shell_command none is followed.
THEOREM WatchdogInvariant == Spec => []IInv
<1>1. Init => IInv
  BY Slots, WatchdogAssumption
  DEF Init, IInv, TypeOK, LockInv, CommandInv, Followed, Guarded
<1>2. IInv /\ [Next]_vars => IInv'
  <2> SUFFICES ASSUME IInv, [Next]_vars PROVE IInv'
    OBVIOUS
  <2>1. ASSUME NEW d \in Run,
               \/ RunNext(d) \/ CommandNext(d) \/ LogFails(d)
               \/ Signal(d) \/ Killed(d)
        PROVE  IInv'
    BY <2>1, RunTypes, RunLock, RunCommand DEF IInv
  <2>2. ASSUME NEW s \in Status, StatusNext(s) PROVE IInv'
    BY <2>2, StatusStep
  <2>3. CASE UNCHANGED vars
    BY <2>3 DEF vars, command, IInv, TypeOK, LockInv, CommandInv, Followed
  <2>4. CASE StraysExit
    BY <2>4 DEF StraysExit, command, IInv, TypeOK, LockInv, CommandInv, Followed
  <2> QED
    BY <2>1, <2>2, <2>3, <2>4 DEF Next
<1> QED
  BY <1>1, <1>2, PTL DEF Spec

\* Every variable keeps its type (WatchdogProcess, whole module).
THEOREM WatchdogTypes == Spec => []TypeOK
<1>1. IInv => TypeOK
  BY DEF IInv
<1> QED
  BY <1>1, WatchdogInvariant, PTL

\* acquire_runtime_state and RuntimeStateGuard admit one watchdog at a time,
\* whoever is killed and whoever probes the lock.
THEOREM OneWatchdog == Spec => []SingleInstance
<1>1. IInv => SingleInstance
  BY DEF IInv, LockInv, SingleInstance
<1> QED
  BY <1>1, WatchdogInvariant, PTL

\* run_shell_command is left, and the lock with it, only when the shell and
\* the pipes of the command are gone or the watchdog itself is.
THEOREM FollowedUnderLock == Spec => []CommandsUnderLock
<1>1. IInv => CommandsUnderLock
  BY DEF IInv, LockInv, CommandInv, CommandsUnderLock, Guarded
<1> QED
  BY <1>1, WatchdogInvariant, PTL

=============================================================================
