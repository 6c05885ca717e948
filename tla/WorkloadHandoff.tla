-------------------------- MODULE WorkloadHandoff --------------------------
(***************************************************************************)
(* contrib/workload-handoff: one macOS host runs either the optional       *)
(* Compose project or a GitLab CI runner, never both.  The cooperating     *)
(* entry points are                                                        *)
(*                                                                         *)
(*   Sup    handoff.py run       the supervisor's polling loop             *)
(*   Rec    handoff.py recover   and handoff.py gate, invoked by Belter    *)
(*   Disp   runner_dispatch.py   bursts of single-job runner activations   *)
(*                                                                         *)
(* in the deployment the README prescribes (runner_managed_externally).    *)
(* They share workload.lock, taken with flock(LOCK_EX | LOCK_NB) and given *)
(* up only by closing the descriptor, so that a child that inherited the   *)
(* descriptor keeps the lease after its parent died; and three stamp files *)
(* (last-start.json, runner-finished.json, status.json).                   *)
(*                                                                         *)
(* Time is counted in one coarse unit.  Every stamp is kept as its age,    *)
(* which stops growing once it is past the only threshold it is compared   *)
(* with, so that the clock needs no bound.                                 *)
(***************************************************************************)
EXTENDS Integers

CONSTANTS
  Sup,             \* the supervisor
  Rec,             \* slots for recover and gate invocations
  Disp,            \* slots for dispatcher invocations
  Settle,          \* settle_seconds
  Cooldown,        \* restart_cooldown_seconds
  ReadyAge,        \* the greatest age of a readiness lease (150 s)
  MaxActivations,  \* runner_max_activations
  Faults           \* what may go wrong around the three programs

(***************************************************************************)
(* busy        probes report pressure, a foreign runner or container       *)
(* command     a command or probe fails, the queue's state is unknown      *)
(* timeout     a start or stop command outlives its timeout                *)
(* crash       the supervisor or a recover invocation is killed            *)
(* dispatcher  the dispatcher is killed                                    *)
(* runner      the runner is killed and leaves its job container behind    *)
(***************************************************************************)
FaultKinds == {"busy", "command", "timeout", "crash", "dispatcher", "runner"}

ASSUME HandoffAssumption ==
  /\ Sup \notin Rec \cup Disp
  /\ Rec \cap Disp = {}
  /\ Settle \in Nat \ {0}
  /\ Cooldown \in Nat \ {0}
  /\ ReadyAge \in Nat
  /\ MaxActivations \in 1..4
  /\ Faults \subseteq FaultKinds

VARIABLES
  pc,           \* where each program is
  child,        \* the external command or runner each program has spawned
  lease,        \* programs whose own descriptor holds workload.lock
  heir,         \* programs whose child inherited the locked descriptor
  stopping,     \* programs that have received SIGTERM or SIGINT
  quit,         \* dispatchers whose runner was sent SIGQUIT
  burst,        \* completed_activations of each dispatcher
  optional,     \* containers of the optional project are up
  job,          \* a CI job container is up
  queued,       \* an eligible job is pending in GitLab
  paused,       \* optional.paused exists
  lastStart,    \* age of last-start.json
  finished,     \* age of runner-finished.json
  ready,        \* age of a status.json that carries a readiness lease
  normalFor,    \* time since the supervisor's normal_since, if it is set
  nextStart,    \* time left until the supervisor's next_start
  owned,        \* what the supervisor's tick read of the project
  sinceLaunch,  \* history: time since a start command was launched
  sinceRunner,  \* history: time since a runner child was last alive
  sinceBusy     \* history: time since the supervisor found the host busy

procVars  == <<stopping, quit, burst>>
lockVars  == <<child, lease, heir>>
hostVars  == <<optional, job, queued, paused>>
fileVars  == <<lastStart, finished, ready>>
supVars   == <<normalFor, nextStart, owned>>
histVars  == <<sinceLaunch, sinceRunner, sinceBusy>>
vars == <<pc, procVars, lockVars, hostVars, fileVars, supVars, histVars>>

----------------------------------------------------------------------------
(* Types *)

Starter == {Sup} \cup Rec
Proc == Starter \cup Disp

\* The program counters at which workload.lock is held by the program itself.
LeasePC == {"observe", "decide", "stopping", "undoing", "health", "stamped",
            "starting", "gate", "reason", "stamps", "verify", "admit",
            "spawn", "waiting"}
PC == LeasePC \cup {"off", "idle", "deferring", "hint", "want"}

RunnerState == {"admitting", "polling", "building"}
ChildState == {"none", "starting", "stopping"} \cup RunnerState

NoSample == -1            \* normal_since is None
NoLease == ReadyAge + 1   \* status.json is absent, stale or not a lease

TypeOK ==
  /\ pc \in [Proc -> PC]
  /\ child \in [Proc -> ChildState]
  /\ lease \subseteq Proc
  /\ heir \subseteq Proc
  /\ stopping \subseteq Proc
  /\ quit \subseteq Disp
  /\ burst \in [Disp -> 0..MaxActivations]
  /\ optional \in BOOLEAN
  /\ job \in BOOLEAN
  /\ queued \in BOOLEAN
  /\ paused \in BOOLEAN
  /\ lastStart \in 0..Cooldown
  /\ finished \in 0..Settle
  /\ ready \in 0..NoLease
  /\ normalFor \in NoSample..Settle
  /\ nextStart \in 0..Cooldown
  /\ owned \in BOOLEAN
  /\ sinceLaunch \in 0..Cooldown
  /\ sinceRunner \in 0..Settle
  /\ sinceBusy \in 0..Settle

----------------------------------------------------------------------------
(* What the programs read *)

\* Variant: the lease ends with the program that took it.
LeaseFreeOfPrograms == lease = {}

\* flock succeeds: no open copy of a locked descriptor is left.
LeaseFree == lease = {} /\ heir = {}

\* The runner child, which is the admission guard until it execs the runner.
RunnerAlive == \E d \in Disp : child[d] \in RunnerState

\* handoff.py processes(), runner_dispatch.py runner_present(): the guard is
\* not named gitlab-runner and is not seen.
RunnerSeen == \E d \in Disp : child[d] \in {"polling", "building"}

\* The stamp files, each compared with its threshold; a missing file is old.
CooldownReady == lastStart >= Cooldown
RunnerSettled == finished >= Settle
SupervisorReady == ready <= ReadyAge

----------------------------------------------------------------------------
(* Steps shared by the programs *)

Goto(p, next) == pc' = [pc EXCEPT ![p] = next]

\* Enter and leave the "with locked(...)" block.
Take(p, next) == LeaseFree /\ lease' = {p} /\ Goto(p, next)
Leave(p, next) == lease' = lease \ {p} /\ Goto(p, next)

\* Variant: the descriptor is not passed on.
SpawnBare(p, kind) ==
  /\ child' = [child EXCEPT ![p] = kind]
  /\ heir' = heir

\* Spawn an external command that inherits the lease (pass_fds).
Spawn(p, kind) ==
  /\ child' = [child EXCEPT ![p] = kind]
  /\ heir' = heir \cup {p}

\* A Deferred exception leaves the block.  The supervisor records it only
\* after the descriptor is closed; recover and gate exit with code 75.
Defer(p) == Leave(p, IF p = Sup THEN "deferring" ELSE "off")

\* Variant: the stop command does not inherit the lease.
StopOptionalBare(p, wait) ==
  /\ Goto(p, wait)
  /\ UNCHANGED <<lease, heir>>
  /\ child' = IF optional THEN [child EXCEPT ![p] = "stopping"] ELSE child
  /\ ready' = IF optional THEN NoLease ELSE ready

\* stop_optional up to the return of the stop command; when the project is
\* up, the event that replaces status.json goes first.
StopOptional(p, wait) ==
  /\ Goto(p, wait)
  /\ lease' = lease
  /\ \/ /\ optional
        /\ Spawn(p, "stopping")
        /\ ready' = NoLease
     \/ /\ ~optional
        /\ UNCHANGED <<child, heir, ready>>

----------------------------------------------------------------------------
(* The supervisor: handoff.py run *)

\* main takes supervisor.lock and enters the loop with a new Handoff.
SupStart ==
  /\ pc[Sup] = "off"
  /\ Goto(Sup, "idle")
  /\ UNCHANGED <<procVars, lockVars, hostVars, fileVars, supVars, histVars>>

\* The loop ends at its next test of stopping; what the object held is gone.
SupExit ==
  /\ pc[Sup] = "idle"
  /\ Sup \in stopping
  /\ Goto(Sup, "off")
  /\ stopping' = stopping \ {Sup}
  /\ normalFor' = NoSample
  /\ nextStart' = 0
  /\ owned' = FALSE
  /\ UNCHANGED <<quit, burst, lockVars, hostVars, fileVars, histVars>>

\* SIGTERM or SIGINT: only the flag is set, the supervisor has no runner.
SupTerm ==
  /\ pc[Sup] # "off"
  /\ Sup \notin stopping
  /\ stopping' = stopping \cup {Sup}
  /\ UNCHANGED <<pc, quit, burst, lockVars, hostVars, fileVars, supVars,
                 histVars>>

\* tick enters the lease ...
SupAcquire ==
  /\ pc[Sup] = "idle"
  /\ Sup \notin stopping
  /\ Take(Sup, "observe")
  /\ UNCHANGED <<procVars, child, heir, hostVars, fileVars, supVars, histVars>>

\* ... or finds it held, which is a deferral like any other.
SupLeaseHeld ==
  /\ pc[Sup] = "idle"
  /\ Sup \notin stopping
  /\ ~LeaseFree
  /\ Goto(Sup, "deferring")
  /\ UNCHANGED <<procVars, lockVars, hostVars, fileVars, supVars, histVars>>

\* The handler in main: settling starts again, status.json says "deferred".
SupDeferred ==
  /\ pc[Sup] = "deferring"
  /\ Goto(Sup, "idle")
  /\ normalFor' = NoSample
  /\ ready' = NoLease
  /\ UNCHANGED <<procVars, lockVars, hostVars, lastStart, finished, nextStart,
                 owned, histVars>>

\* Variant: normal_since survives a busy observation.
SupBusyKeepsSample ==
  /\ pc[Sup] = "observe"
  /\ RunnerSeen \/ job \/ "busy" \in Faults
  /\ StopOptional(Sup, "stopping")
  /\ sinceBusy' = 0
  /\ UNCHANGED <<procVars, hostVars, lastStart, finished, supVars, sinceLaunch,
                 sinceRunner>>

\* tick finds pressure, a runner or a foreign container: the project stops.
SupBusy ==
  /\ pc[Sup] = "observe"
  /\ RunnerSeen \/ job \/ "busy" \in Faults
  /\ StopOptional(Sup, "stopping")
  /\ normalFor' = NoSample
  /\ sinceBusy' = 0
  /\ UNCHANGED <<procVars, hostVars, lastStart, finished, nextStart, owned,
                 sinceLaunch, sinceRunner>>

\* tick finds the host quiet and keeps what it read of the project.
SupQuiet ==
  /\ pc[Sup] = "observe"
  /\ ~RunnerSeen
  /\ ~job
  /\ Goto(Sup, "decide")
  /\ owned' = optional
  /\ UNCHANGED <<procVars, lockVars, hostVars, fileVars, normalFor, nextStart,
                 histVars>>

\* Variant: a pause only keeps the project from being started.
SupYieldToJobs ==
  /\ pc[Sup] = "decide"
  /\ queued \/ paused
  /\ \/ queued /\ StopOptional(Sup, "stopping") /\ normalFor' = NoSample
     \/ /\ ~queued
        /\ Leave(Sup, "idle")
        /\ ready' = NoLease
        /\ UNCHANGED <<child, heir, normalFor>>
  /\ UNCHANGED <<procVars, hostVars, lastStart, finished, nextStart, owned,
                 histVars>>

\* A pending job (which also restarts settling) or a manual pause.
SupYield ==
  /\ pc[Sup] = "decide"
  /\ queued \/ paused
  /\ StopOptional(Sup, "stopping")
  /\ normalFor' = IF queued THEN NoSample ELSE normalFor
  /\ UNCHANGED <<procVars, hostVars, lastStart, finished, nextStart, owned,
                 histVars>>

\* Variant: the tick leaves status.json as it was.
SupWaitSilently(sample) ==
  /\ normalFor' = sample
  /\ Leave(Sup, "idle")
  /\ UNCHANGED <<procVars, child, heir, hostVars, fileVars, nextStart, owned,
                 histVars>>

\* The tick is over; the event it writes to status.json is no lease.
SupWait(sample) ==
  /\ normalFor' = sample
  /\ ready' = NoLease
  /\ Leave(Sup, "idle")
  /\ UNCHANGED <<procVars, child, heir, hostVars, lastStart, finished,
                 nextStart, owned, histVars>>

MaySample == pc[Sup] = "decide" /\ ~queued /\ ~paused /\ RunnerSettled
NormalSince == IF normalFor = NoSample THEN 0 ELSE normalFor
Sustained == NormalSince >= Settle /\ nextStart = 0

SupRunnerSettling ==
  /\ pc[Sup] = "decide"
  /\ ~queued /\ ~paused /\ ~RunnerSettled
  /\ SupWait(NoSample)

\* Variant: settling starts again at every poll.
SupSettlingAgain == MaySample /\ ~Sustained /\ SupWait(NoSample)

SupSettling == MaySample /\ ~Sustained /\ SupWait(NormalSince)

SupCooling ==
  MaySample /\ Sustained /\ ~owned /\ ~CooldownReady /\ SupWait(NormalSince)

\* "optional_running": the project was up, the readiness lease is renewed.
SupKeep ==
  /\ MaySample /\ Sustained /\ owned
  /\ ready' = 0
  /\ Leave(Sup, "idle")
  /\ UNCHANGED <<procVars, child, heir, hostVars, lastStart, finished, supVars,
                 histVars>>

\* "optional_allowed", then start_optional, whose first test is stopping.
SupAllow ==
  /\ MaySample /\ Sustained /\ ~owned /\ CooldownReady
  /\ ready' = 0
  /\ nextStart' = Cooldown
  /\ \/ /\ Sup \in stopping
        /\ Defer(Sup)
     \/ /\ Sup \notin stopping
        /\ Goto(Sup, "health")
        /\ lease' = lease
  /\ UNCHANGED <<procVars, child, heir, hostVars, lastStart, finished,
                 normalFor, owned, histVars>>

\* The project is down after a stop that tick wanted.
SupStopped ==
  /\ pc[Sup] = "stopping"
  /\ child[Sup] = "none"
  /\ ~optional
  /\ SupWait(normalFor)

----------------------------------------------------------------------------
(* handoff.py gate and handoff.py recover *)

RecInvoke(r) ==
  /\ pc[r] = "off"
  /\ child[r] = "none"
  /\ \E entry \in {"gate", "reason"} : Take(r, entry)
  /\ UNCHANGED <<procVars, child, heir, hostVars, fileVars, supVars, histVars>>

\* gate reports its reason and releases the lease; recover with a reason to
\* wait does the same.
RecDecline(r) ==
  /\ \/ pc[r] = "gate"
     \/ /\ pc[r] = "reason"
        /\ paused \/ RunnerSeen \/ job \/ queued \/ "busy" \in Faults
     \/ /\ pc[r] = "stamps"
        /\ ~RunnerSettled \/ ~CooldownReady \/ ~SupervisorReady
  /\ Defer(r)
  /\ UNCHANGED <<procVars, child, heir, hostVars, fileVars, supVars, histVars>>

\* recovery_reason up to the queue, whose pages take their time ...
RecObserve(r) ==
  /\ pc[r] = "reason"
  /\ ~paused /\ ~RunnerSeen /\ ~job /\ ~queued
  /\ Goto(r, "stamps")
  /\ UNCHANGED <<procVars, lockVars, hostVars, fileVars, supVars, histVars>>

\* ... and then the three stamp files.
RecAdmit(r) ==
  /\ pc[r] = "stamps"
  /\ RunnerSettled /\ CooldownReady /\ SupervisorReady
  /\ Goto(r, "health")
  /\ UNCHANGED <<procVars, lockVars, hostVars, fileVars, supVars, histVars>>

----------------------------------------------------------------------------
(* start_optional, for the supervisor and for recover *)

\* Variant: only the supervisor records a start.
StampBySup(p) ==
  /\ pc[p] = "health"
  /\ lastStart' = IF p = Sup THEN 0 ELSE lastStart
  /\ Goto(p, "stamped")
  /\ UNCHANGED <<procVars, lockVars, hostVars, finished, ready, supVars,
                 histVars>>

\* The health command succeeds and last-start.json is written.
Stamp(p) ==
  /\ pc[p] = "health"
  /\ lastStart' = 0
  /\ Goto(p, "stamped")
  /\ UNCHANGED <<procVars, lockVars, hostVars, finished, ready, supVars,
                 histVars>>

\* admission_command + start_command, with the lease inherited.
Launch(p) ==
  /\ pc[p] = "stamped"
  /\ Goto(p, "starting")
  /\ Spawn(p, "starting")
  /\ sinceLaunch' = 0
  /\ UNCHANGED <<procVars, lease, hostVars, fileVars, supVars, sinceRunner,
                 sinceBusy>>

\* The start command returned 0 and pressure is still normal.
StartSucceeds(p) ==
  /\ pc[p] = "starting"
  /\ child[p] = "none"
  /\ \/ /\ p = Sup
        /\ ready' = 0
        /\ Leave(p, "idle")
     \/ /\ p # Sup
        /\ ready' = ready
        /\ Leave(p, "off")
  /\ UNCHANGED <<procVars, child, heir, hostVars, lastStart, finished, supVars,
                 histVars>>

\* The start command returned 0 and pressure is not normal any more.
StartUndone(p) ==
  /\ pc[p] = "starting"
  /\ child[p] = "none"
  /\ "busy" \in Faults
  /\ StopOptional(p, "undoing")
  /\ UNCHANGED <<procVars, hostVars, lastStart, finished, supVars, histVars>>

\* Deferred is raised: a probe or command of the current step failed, the
\* project is still up after a stop, or a start was just undone.
CommandFails(p) ==
  /\ \/ /\ "command" \in Faults
        /\ pc[p] \in {"observe", "decide", "reason", "stamps", "health",
                      "stamped", "starting", "stopping"}
     \/ pc[p] = "stopping" /\ optional
     \/ pc[p] = "undoing"
  /\ child[p] = "none"
  /\ Defer(p)
  /\ UNCHANGED <<procVars, child, heir, hostVars, fileVars, supVars, histVars>>

\* subprocess.run kills its child at the timeout and raises.  Descendants of
\* the child may survive it, and with them the inherited descriptor.
CommandTimesOut(p) ==
  /\ "timeout" \in Faults
  /\ pc[p] \in {"starting", "stopping", "undoing"}
  /\ child[p] # "none"
  /\ Defer(p)
  /\ \/ UNCHANGED <<child, heir>>
     \/ /\ child' = [child EXCEPT ![p] = "none"]
        /\ heir' = heir \ {p}
  /\ UNCHANGED <<procVars, hostVars, fileVars, supVars, histVars>>

\* The supervisor or recover is killed.  Its children go on.
Crash(p) ==
  /\ "crash" \in Faults
  /\ pc[p] # "off"
  /\ Leave(p, "off")
  /\ stopping' = stopping \ {p}
  /\ \/ /\ p = Sup
        /\ normalFor' = NoSample
        /\ nextStart' = 0
        /\ owned' = FALSE
     \/ /\ p # Sup
        /\ UNCHANGED supVars
  /\ UNCHANGED <<quit, burst, child, heir, hostVars, fileVars, histVars>>

----------------------------------------------------------------------------
(* The dispatcher: runner_dispatch.py *)

\* launchd or a user runs it; runner-dispatch.lock is not inherited by the
\* runner, so the lock is free once no dispatcher is alive.
DispActivate(d) ==
  /\ \A e \in Disp : pc[e] = "off"
  /\ child[d] = "none"
  /\ Goto(d, "hint")
  /\ UNCHANGED <<procVars, lockVars, hostVars, fileVars, supVars, histVars>>

\* The process is over.
DispExit(d) ==
  /\ Leave(d, "off")
  /\ stopping' = stopping \ {d}
  /\ burst' = [burst EXCEPT ![d] = 0]

\* The queue shows no eligible job, or shutdown was asked for.
DispIdle(d) ==
  /\ pc[d] = "hint"
  /\ ~queued \/ d \in stopping
  /\ DispExit(d)
  /\ UNCHANGED <<quit, child, heir, hostVars, fileVars, supVars, histVars>>

\* Variant: CI waits until the supervisor has published its readiness.
DispHintWhenReady(d) ==
  /\ pc[d] = "hint"
  /\ d \notin stopping
  /\ queued \/ "command" \in Faults
  /\ SupervisorReady
  /\ Goto(d, "want")
  /\ UNCHANGED <<procVars, lockVars, hostVars, fileVars, supVars, histVars>>

\* An eligible job, or an answer that cannot be trusted.
DispHint(d) ==
  /\ pc[d] = "hint"
  /\ d \notin stopping
  /\ queued \/ "command" \in Faults
  /\ Goto(d, "want")
  /\ UNCHANGED <<procVars, lockVars, hostVars, fileVars, supVars, histVars>>

DispAcquire(d) ==
  /\ pc[d] = "want"
  /\ Take(d, "observe")
  /\ UNCHANGED <<procVars, child, heir, hostVars, fileVars, supVars, histVars>>

DispLeaseHeld(d) ==
  /\ pc[d] = "want"
  /\ ~LeaseFree
  /\ DispExit(d)
  /\ UNCHANGED <<quit, child, heir, hostVars, fileVars, supVars, histVars>>

\* No runner and no foreign container: the project is stopped if it is up,
\* by a command that does not inherit the lease.
DispClear(d) ==
  /\ pc[d] = "observe"
  /\ ~RunnerSeen
  /\ ~job
  /\ \/ /\ optional
        /\ child' = [child EXCEPT ![d] = "stopping"]
        /\ Goto(d, "stopping")
     \/ /\ ~optional
        /\ child' = child
        /\ Goto(d, "verify")
  /\ UNCHANGED <<procVars, lease, heir, hostVars, fileVars, supVars, histVars>>

DispStopped(d) ==
  /\ pc[d] = "stopping"
  /\ child[d] = "none"
  /\ Goto(d, "verify")
  /\ UNCHANGED <<procVars, lockVars, hostVars, fileVars, supVars, histVars>>

\* Variant: the project is not looked at again after the stop command.
DispVerifyNothing(d) ==
  /\ pc[d] = "verify"
  /\ Goto(d, "admit")
  /\ UNCHANGED <<procVars, lockVars, hostVars, fileVars, supVars, histVars>>

\* containers() == ([], []).
DispVerify(d) ==
  /\ pc[d] = "verify"
  /\ ~optional
  /\ ~job
  /\ Goto(d, "admit")
  /\ UNCHANGED <<procVars, lockVars, hostVars, fileVars, supVars, histVars>>

\* The health command succeeds, then stopping is read for the last time.
DispAdmit(d) ==
  /\ pc[d] = "admit"
  /\ d \notin stopping
  /\ Goto(d, "spawn")
  /\ UNCHANGED <<procVars, lockVars, hostVars, fileVars, supVars, histVars>>

\* Popen: the child inherits the lease.
DispSpawn(d) ==
  /\ pc[d] = "spawn"
  /\ Goto(d, "waiting")
  /\ Spawn(d, "admitting")
  /\ sinceRunner' = 0
  /\ UNCHANGED <<procVars, lease, hostVars, fileVars, supVars, sinceLaunch,
                 sinceBusy>>

\* Variant: the stamp is written for a successful activation only.
DispReapUnstamped(d) ==
  /\ pc[d] = "waiting"
  /\ child[d] = "none"
  /\ \/ DispExit(d) /\ finished' = finished
     \/ /\ burst[d] + 1 < MaxActivations
        /\ d \notin stopping
        /\ finished' = 0
        /\ burst' = [burst EXCEPT ![d] = @ + 1]
        /\ stopping' = stopping
        /\ Leave(d, "hint")
  /\ UNCHANGED <<quit, child, heir, hostVars, lastStart, ready, supVars,
                 histVars>>

\* The child is reaped, runner-finished.json is written before the lease is
\* released.  Only a clean exit with a healthy node continues the burst.
DispReap(d) ==
  /\ pc[d] = "waiting"
  /\ child[d] = "none"
  /\ finished' = 0
  /\ \/ DispExit(d)
     \/ /\ burst[d] + 1 < MaxActivations
        /\ d \notin stopping
        /\ burst' = [burst EXCEPT ![d] = @ + 1]
        /\ stopping' = stopping
        /\ Leave(d, "hint")
  /\ UNCHANGED <<quit, child, heir, hostVars, lastStart, ready, supVars,
                 histVars>>

\* Deferred, at any point that raises it.
DispDefers(d) ==
  /\ \/ /\ pc[d] \in {"observe", "stopping", "verify", "admit", "spawn"}
        /\ "command" \in Faults
     \/ pc[d] = "observe" /\ (RunnerSeen \/ job \/ "busy" \in Faults)
     \/ pc[d] = "verify" /\ (optional \/ job \/ "busy" \in Faults)
     \/ pc[d] = "admit" /\ d \in stopping
  /\ child[d] = "none"
  /\ DispExit(d)
  /\ UNCHANGED <<quit, child, heir, hostVars, fileVars, supVars, histVars>>

\* SIGTERM or SIGINT: the flag, and SIGQUIT to the child if there is one in
\* self.child, which is set once Popen has returned.
DispTerm(d) ==
  /\ pc[d] # "off"
  /\ d \notin stopping
  /\ stopping' = stopping \cup {d}
  /\ quit' = IF pc[d] = "waiting" /\ child[d] # "none" THEN quit \cup {d}
                                                       ELSE quit
  /\ UNCHANGED <<pc, burst, lockVars, hostVars, fileVars, supVars, histVars>>

\* subprocess.run kills the stop command at its timeout and raises Deferred.
\* Descendants of the command may survive it; they do not have the lease.
DispStopTimesOut(d) ==
  /\ "timeout" \in Faults
  /\ pc[d] = "stopping"
  /\ child[d] = "stopping"
  /\ DispExit(d)
  /\ child' \in {child, [child EXCEPT ![d] = "none"]}
  /\ UNCHANGED <<quit, heir, hostVars, fileVars, supVars, histVars>>

\* SIGKILL (launchd sends it after ExitTimeOut): the dispatcher is gone, what
\* it spawned lives on.
DispKilled(d) ==
  /\ "dispatcher" \in Faults
  /\ pc[d] # "off"
  /\ DispExit(d)
  /\ UNCHANGED <<quit, child, heir, hostVars, fileVars, supVars, histVars>>

----------------------------------------------------------------------------
(* External commands, the native runner, GitLab, the operator, the clock *)

\* The start command brings the containers up, the stop command takes them
\* down, at some time of its life.
CommandActs(p) ==
  /\ child[p] \in {"starting", "stopping"}
  /\ optional' = (child[p] = "starting")
  /\ UNCHANGED <<pc, procVars, lockVars, job, queued, paused, fileVars,
                 supVars, histVars>>

ChildGone(p) ==
  /\ child' = [child EXCEPT ![p] = "none"]
  /\ heir' = heir \ {p}

\* A command that does not fail has done its work when it exits.
CommandExits(p) ==
  /\ \/ child[p] = "starting" /\ (optional \/ "command" \in Faults)
     \/ child[p] = "stopping" /\ (~optional \/ "command" \in Faults)
  /\ ChildGone(p)
  /\ UNCHANGED <<pc, procVars, lease, hostVars, fileVars, supVars, histVars>>

\* The admission guard execs gitlab-runner run-single.
RunnerAdmitted(d) ==
  /\ child[d] = "admitting"
  /\ child' = [child EXCEPT ![d] = "polling"]
  /\ UNCHANGED <<pc, procVars, lease, heir, hostVars, fileVars, supVars,
                 histVars>>

RunnerTakes(d) ==
  /\ child[d] = "polling"
  /\ d \notin quit
  /\ queued
  /\ queued' = FALSE
  /\ job' = TRUE
  /\ child' = [child EXCEPT ![d] = "building"]
  /\ UNCHANGED <<pc, procVars, lease, heir, optional, paused, fileVars,
                 supVars, histVars>>

\* Admission refused, --wait-timeout passed, or --max-builds reached after
\* the executor removed its containers.
RunnerExits(d) ==
  /\ \/ child[d] = "admitting" /\ ("busy" \in Faults \/ d \in quit)
     \/ child[d] = "polling" /\ (~queued \/ d \in quit)
     \/ child[d] = "building"
  /\ ChildGone(d)
  /\ quit' = quit \ {d}
  /\ job' = (job /\ child[d] # "building")
  /\ UNCHANGED <<pc, stopping, burst, lease, optional, queued, paused,
                 fileVars, supVars, histVars>>

RunnerKilled(d) ==
  /\ "runner" \in Faults
  /\ child[d] \in RunnerState
  /\ ChildGone(d)
  /\ quit' = quit \ {d}
  /\ UNCHANGED <<pc, stopping, burst, lease, hostVars, fileVars, supVars,
                 histVars>>

\* A container left behind is removed, or the project's containers die.
ContainersDie ==
  /\ \/ /\ job
        /\ \A d \in Disp : child[d] # "building"
        /\ job' = FALSE
        /\ optional' = optional
     \/ /\ optional
        /\ optional' = FALSE
        /\ job' = job
  /\ UNCHANGED <<pc, procVars, lockVars, queued, paused, fileVars, supVars,
                 histVars>>

\* Jobs arrive, are cancelled, or are taken by another runner.
QueueChanges ==
  /\ queued' = ~queued
  /\ UNCHANGED <<pc, procVars, lockVars, optional, job, paused, fileVars,
                 supVars, histVars>>

\* handoff.py pause-optional and resume-optional take no lock.
Pause(wanted) ==
  /\ paused # wanted
  /\ paused' = wanted
  /\ UNCHANGED <<pc, procVars, lockVars, optional, job, queued, fileVars,
                 supVars, histVars>>

\* Variant: an age that runs past its threshold.
OlderPast(age, limit) == IF age <= limit THEN age + 1 ELSE limit

Older(age, limit) == IF age < limit THEN age + 1 ELSE limit

\* One unit of time passes; the stamp and the launch after it are adjacent
\* statements with nothing to wait for, and count as one instant.
Tick ==
  /\ \A p \in Starter : pc[p] # "stamped"
  /\ lastStart' = Older(lastStart, Cooldown)
  /\ finished' = Older(finished, Settle)
  /\ ready' = Older(ready, NoLease)
  /\ normalFor' = IF normalFor = NoSample THEN NoSample
                                          ELSE Older(normalFor, Settle)
  /\ nextStart' = IF nextStart > 0 THEN nextStart - 1 ELSE 0
  /\ sinceLaunch' = Older(sinceLaunch, Cooldown)
  /\ sinceRunner' = IF RunnerAlive THEN 0 ELSE Older(sinceRunner, Settle)
  /\ sinceBusy' = Older(sinceBusy, Settle)
  /\ UNCHANGED <<pc, procVars, lockVars, hostVars, owned>>

----------------------------------------------------------------------------

\* Nothing runs, no stamp exists, no CI container is left (README, Deployment).
Init ==
  /\ pc = [p \in Proc |-> "off"]
  /\ child = [p \in Proc |-> "none"]
  /\ lease = {}
  /\ heir = {}
  /\ stopping = {}
  /\ quit = {}
  /\ burst = [d \in Disp |-> 0]
  /\ optional \in BOOLEAN
  /\ job = FALSE
  /\ queued \in BOOLEAN
  /\ paused \in BOOLEAN
  /\ lastStart = Cooldown
  /\ finished = Settle
  /\ ready = NoLease
  /\ normalFor = NoSample
  /\ nextStart = 0
  /\ owned = FALSE
  /\ sinceLaunch = Cooldown
  /\ sinceRunner = Settle
  /\ sinceBusy = Settle

SupNext ==
  \/ SupStart \/ SupExit \/ SupTerm \/ SupAcquire \/ SupLeaseHeld
  \/ SupDeferred \/ SupBusy \/ SupQuiet \/ SupYield \/ SupRunnerSettling
  \/ SupSettling \/ SupCooling \/ SupKeep \/ SupAllow \/ SupStopped

RecNext(r) ==
  RecInvoke(r) \/ RecDecline(r) \/ RecObserve(r) \/ RecAdmit(r)

StarterNext(p) ==
  \/ Stamp(p) \/ Launch(p) \/ StartSucceeds(p) \/ StartUndone(p)
  \/ CommandFails(p) \/ CommandTimesOut(p) \/ Crash(p)

DispNext(d) ==
  \/ DispActivate(d) \/ DispIdle(d) \/ DispHint(d) \/ DispAcquire(d)
  \/ DispLeaseHeld(d) \/ DispClear(d) \/ DispStopped(d) \/ DispVerify(d)
  \/ DispAdmit(d) \/ DispSpawn(d) \/ DispReap(d) \/ DispDefers(d)
  \/ DispTerm(d) \/ DispStopTimesOut(d) \/ DispKilled(d)

RunnerNext(d) ==
  RunnerAdmitted(d) \/ RunnerTakes(d) \/ RunnerExits(d) \/ RunnerKilled(d)

HostNext ==
  \/ \E p \in Proc : CommandActs(p) \/ CommandExits(p)
  \/ ContainersDie \/ QueueChanges
  \/ \E wanted \in BOOLEAN : Pause(wanted)
  \/ Tick

Next ==
  \/ SupNext
  \/ \E r \in Rec : RecNext(r)
  \/ \E p \in Starter : StarterNext(p)
  \/ \E d \in Disp : DispNext(d) \/ RunnerNext(d)
  \/ HostNext

Spec == Init /\ [][Next]_vars

(***************************************************************************)
(* Fairness.  Every program that runs takes its next step (its commands    *)
(* have timeouts), launchd restarts the supervisor and activates the       *)
(* dispatcher, commands and the runner end, time passes.  Signals, crashes,*)
(* operators, invocations of recover and gate, and arriving jobs owe       *)
(* nothing.                                                                *)
(***************************************************************************)
SupProgress ==
  \/ SupStart \/ SupExit \/ SupAcquire \/ SupLeaseHeld \/ SupDeferred
  \/ SupBusy \/ SupQuiet \/ SupYield \/ SupRunnerSettling \/ SupSettling
  \/ SupCooling \/ SupKeep \/ SupAllow \/ SupStopped

StarterProgress(p) ==
  Stamp(p) \/ Launch(p) \/ StartSucceeds(p) \/ StartUndone(p) \/ CommandFails(p)

RecProgress(r) ==
  RecDecline(r) \/ RecObserve(r) \/ RecAdmit(r) \/ StarterProgress(r)

DispProgress(d) ==
  \/ DispActivate(d) \/ DispIdle(d) \/ DispHint(d) \/ DispAcquire(d)
  \/ DispLeaseHeld(d) \/ DispClear(d) \/ DispStopped(d) \/ DispVerify(d)
  \/ DispAdmit(d) \/ DispSpawn(d) \/ DispReap(d) \/ DispDefers(d)

Fairness ==
  /\ WF_vars(SupProgress \/ StarterProgress(Sup))
  /\ SF_vars(SupAcquire)
  /\ \A r \in Rec : WF_vars(RecProgress(r))
  /\ \A d \in Disp :
       /\ WF_vars(DispProgress(d))
       /\ SF_vars(DispAcquire(d))
       /\ WF_vars(RunnerAdmitted(d))
       /\ WF_vars(RunnerTakes(d))
       /\ WF_vars(RunnerExits(d))
  /\ \A p \in Proc : WF_vars(CommandActs(p)) /\ WF_vars(CommandExits(p))
  /\ WF_vars(Tick)

FairSpec == Spec /\ Fairness

----------------------------------------------------------------------------
(* Properties *)

\* A CI runner or its job container and the optional project are never up
\* together, and there is never a second runner: whatever is killed, times
\* out or fails, as long as the work is started by the three programs.
Exclusive ==
  /\ optional => ~job /\ ~RunnerAlive
  /\ \A d, e \in Disp :
       child[d] \in RunnerState /\ child[e] \in RunnerState => d = e

\* A start command and a stop command of the optional project run at the same
\* time only if a dispatcher that is gone has left the stop command behind:
\* what it spawns for the stop does not inherit the lease.  The commands of
\* handoff.py do, also when the program that spawned one of them is gone.
CommandsSerialized ==
  \A p, q \in Proc :
    child[p] = "starting" /\ child[q] = "stopping" => q \in Disp /\ pc[q] = "off"

Starts(p) == child[p] # "starting" /\ child'[p] = "starting"

\* Two launches of the start command are restart_cooldown_seconds apart, by
\* whichever program, across its crash and the loss of next_start.
StartsSpaced ==
  [][\A p \in Proc : Starts(p) => sinceLaunch >= Cooldown]_vars

\* The project is not started until settle_seconds after a runner was last
\* alive, even if nobody saw that runner.
StartsAfterRunner ==
  [][\A p \in Proc : Starts(p) => sinceRunner >= Settle]_vars

\* The supervisor does not start the project until settle_seconds after the
\* last tick that found pressure, a runner or a foreign container.
SupStartsWhenCalm == [][Starts(Sup) => sinceBusy >= Settle]_vars

\* The same, of a start by recover.
RecStartsWhenCalm ==
  [][\A r \in Rec : Starts(r) => sinceBusy >= Settle]_vars

\* A dispatcher that was told to stop and waits for its runner has passed
\* SIGQUIT on to it.
RunnerToldToQuit ==
  \A d \in Disp :
    pc[d] = "waiting" /\ d \in stopping /\ child[d] # "none" => d \in quit

\* A program that polls for ever does not find the lease held every time.
NotAlwaysHeld(p, poll) ==
  []<>(pc[p] = poll) => []<>(pc[p] = poll /\ LeaseFree)

\* A pending job is taken in the end, or leaves the queue, whether the
\* supervisor and the watchdog work or keep being killed.
QueuedJobRuns ==
  /\ <>[](stopping \cap Disp = {})
  /\ \A d \in Disp : NotAlwaysHeld(d, "want")
  => (queued ~> ~queued)

\* The supervisor stays up from some time on.
SupStaysUp == <>[](pc[Sup] # "off" /\ Sup \notin stopping)

\* A manual pause is applied: the project goes down while the pause lasts.
PauseTakesEffect ==
  SupStaysUp /\ NotAlwaysHeld(Sup, "idle") => (paused ~> ~optional \/ ~paused)

\* On a host that stays quiet, where the dispatcher looks at the queue and
\* finds it empty, the project comes back however often its containers die.
Quiet ==
  /\ ~queued /\ ~paused
  /\ \A r \in Rec : pc[r] = "off"
  /\ \A d \in Disp : pc[d] \in {"off", "hint"}
OptionalReturns == SupStaysUp /\ <>[]Quiet => []<>optional

----------------------------------------------------------------------------
(* Why the programs exclude each other: the inductive invariant *)

\* A descriptor of the lock is open in the program or in its child.
Holds(p) == p \in lease \/ p \in heir

\* Who holds the lease.  A program holds it exactly inside the locked block,
\* a start command, a stop command of handoff.py and a runner as long as they
\* live, and all who hold it are one program and its child.
LeaseInv ==
  /\ \A p \in Proc : p \in lease <=> pc[p] \in LeasePC
  /\ \A p, q \in Proc : Holds(p) /\ Holds(q) => p = q
  /\ \A p \in Starter :
       /\ child[p] \in {"none", "starting", "stopping"}
       /\ child[p] # "none" => p \in heir
  /\ \A d \in Disp :
       /\ child[d] # "starting"
       /\ child[d] \in RunnerState => d \in heir /\ pc[d] \in {"off", "waiting"}

\* What the holder of the lease may rely on between its checks and its work.
HostInv ==
  /\ optional => ~job /\ ~RunnerAlive
  /\ \A p \in Starter :
       \/ child[p] = "starting"
       \/ pc[p] \in {"decide", "stamps", "health", "stamped", "starting"}
       => ~job
  /\ \A d \in Disp : pc[d] \in {"admit", "spawn"} => ~optional /\ ~job

----------------------------------------------------------------------------
(* The promise of the whole to the host *)

Starting == \E p \in Proc : child[p] = "starting"

Policy == INSTANCE WorkloadPolicy WITH runner <- RunnerAlive,
                                       starting <- Starting

\* The three programs together implement the policy: exclusion, spacing of
\* starts and settling after CI, as long as no dispatcher is killed.
ImplementsPolicy == Policy!Spec

=============================================================================
