# btc-infra-tools in TLA+

A verification development of this repository: TLA+ models of its concurrent
and time-driven parts, TLC configurations that check them on small instances,
and TLAPS proofs of the theorems that matter most, for every value of the
constants.

* [The system](#the-system): the inventory of components
* [The modules](#the-modules): which module models what, and how
* [The runs](#the-runs): what TLC checks, with which bounds
* [Fairness](#fairness)
* [The proofs](#the-proofs)
* [What the code does differently from what is said of it](#findings)
* [What is not modelled](#what-is-not-modelled)
* [The plan](#the-plan)

## The system

The repository runs Bitcoin infrastructure on one macOS host. Three groups of
programs share the host.

```
  launchd / user                         launchd / user
     |        |                              |
 handoff.py   runner_dispatch.py      belter-watchdog run ----> events.log <--- stats
   run           |  gitlab-runner            |   |    \--> watchdog.lock, watchdog.json <--- status
     \           |                           |   |
      workload.lock, stamp files <--- gate, recover (allow_command, recover_command)
      optional.paused                        |
                                             +--> belter service bring-up / status
                                                     |
                                        launchd, podman compose, podman machine
```

### Optional workload handoff (`contrib/workload-handoff`)

| | |
|---|---|
| `handoff.py run` | The supervisor. State: `normal_since`, `next_start` in memory. Each tick takes `workload.lock` without waiting, probes pressure, runners, containers and the GitLab queue, and stops, starts or keeps the optional Compose project. |
| `handoff.py gate`, `recover` | Invoked by Belter's watchdog. They take the same lock, give reasons to wait, and `recover` starts the project on its own if a fresh `status.json` carries the supervisor's permission. |
| `handoff.py pause-optional`, `resume-optional` | Create and remove `optional.paused`, without a lock. |
| `runner_dispatch.py` | A burst of single-job runner activations. Each takes the lock, stops the project, verifies that it is gone, runs one GitLab runner that inherits the lock, and stamps its end. |
| shared state | `workload.lock` (`flock`, given up only by closing every copy of the descriptor), `last-start.json`, `runner-finished.json`, `status.json`, `optional.paused` |

Hard: four programs without a common parent; crashes of each of them with
commands that live on; timeouts that kill only a direct child; a readiness
permission that is read by another program up to 150 s later; signals at any
instruction. Correct means: CI and the project are never up together; starts
keep their distance from each other and from CI; a queued job gets its turn; a
pause is applied; the project comes back.

### Belter watchdog (`crates/belter-watchdog`)

| | |
|---|---|
| process | `watchdog.lock`, `watchdog.json`, the `RuntimeStateGuard` and its `Drop`, `ShutdownToken` and its two signal handlers, the lock probe of `status` |
| command runner | `run_shell_command`: a process group for each command, a deadline, termination of the group at shutdown |
| watch cycle | `next_check` of each watch; one thread; admission, diagnosis, confirmation, recovery, stabilization; a delay chosen by the outcome |
| statistics | `WatchStatsBuilder`: an incident automaton over the log |

Hard: at most one instance across kills and probes; shutdown while a command
runs; every one of about a dozen ends of a cycle must set the right delay; the
admission answer gets stale; the log may end anywhere and two of its events
close one incident. Correct means: one watchdog; shutdown ends it; recoveries
only after confirmation and with admission, and spaced; no watch starves; the
report counts what happened.

### Belter CLI (`crates/infractl-cli`, `-core`, `-adapters`)

| | |
|---|---|
| bring-up, restart | dependency order, states of the services, a plan, its execution, a readiness wait, two retries |
| status, start, stop, logs | one service each, through its adapter |
| adapters, executor | launchd, Podman Compose, Podman machine (two attempts to start, fifteen checks) |
| config, env files, plan, use cases | parsing and validation; env files change the process environment |
| health, output, runtime, time | sequential |

Sequential programs, but against a world that changes under them: states are
read before the plan runs; a plan stops at its first failure; the same service
is read by three functions in two environments. Correct means: dependencies
first, each once; nothing is touched before the whole plan stands; a service
that was read as running is not restarted; success means that mempool answers;
bring-up can be repeated after any failure.

The other parts (the mining probe, configuration and `init` of the watchdog,
formatting) are listed in `PROJECT.json` with their reasons.

## The modules

```
WorkloadPolicy  <--implements--  WorkloadHandoff  <-- MCHandoff    <-- HandoffProofs
                                 WatchdogProcess  <-- MCWatchdog   <-- WatchdogProofs
WatchStats      <--EXTENDS-----  WatchCycle       <-- MCWatch      <-- CycleProofs

ServiceConfig   <--EXTENDS-----  DependencyOrder                   <-- DependencyProofs
                                       ^ EXTENDS
BringUpPolicy   <--implements--  Belter           <-- MCBelter     <-- BelterProofs
                                                                   <-- BelterStepsProofs
```

(The `MC` module and the proof module each extend the component's module, not
one another; `BelterProofs` also extends `DependencyProofs`, whose lemmas it
cites, and `BelterStepsProofs` extends `BelterProofs`. `CycleProofs` and
`BelterStepsProofs` extend `FiniteSums`, lemmas about sums over finite sets.)

### WorkloadHandoff

The supervisor `Sup`, slots `Rec` for `gate` and `recover`, and slots `Disp`
for dispatcher invocations, in the deployment that the handoff's README
prescribes (`runner_managed_externally = true`).

* `pc[p]` is the place between two external calls of the program. Two
  statements are separate actions when another program, a signal or a crash
  can come between them and matter: reading containers and reading the queue;
  the stamp and the launch after it; the last test of `stopping` and `Popen`;
  leaving the locked block and writing `"deferred"`.
* `lease` holds the programs whose own descriptor of `workload.lock` is
  locked, `heir` those whose child inherited it (`pass_fds`). A lock is free
  when both are empty. `child[p]` is the command or runner that `p` spawned
  last, which may outlive it.
* `optional`, `job`, `queued`, `paused` are the host: project containers, a
  job container, an eligible pending job, the pause file.
* The stamp files are ages: `lastStart` up to `Cooldown`, `finished` up to
  `Settle`, `ready` up to `ReadyAge + 1`. An age that has passed the only
  threshold it is compared with stops growing, so the clock has no bound.
* `sinceLaunch`, `sinceRunner`, `sinceBusy` are history; no program reads them.
* `Faults` says what goes wrong around the programs: pressure and foreign
  containers, failing commands, timeouts, crashes of the supervisor and of
  `recover`, kills of the dispatcher, kills of the runner.

`SupNext` is `tick`, with one action for each of its ends; `StarterNext` is
`start_optional`, shared by supervisor and `recover` as in the code; `RecNext`
is `recover` and `gate`; `DispNext` is `runner_dispatch.py`; `HostNext` and
`RunnerNext` are the commands, the runner, GitLab, the operator and the clock.

Assumed: one clock that is not set back; the legacy combined mode, `--once` and
`--dry-run` are not used; nobody starts the project or a runner behind the
programs' back (an administrator's bypass); a start command brings containers
up only while it or a descendant that holds its descriptor lives; the stamp of
a start and the spawn after it happen within one unit of time.

### WorkloadPolicy

The abstract specification: what the three programs promise the host, in six
variables and without locks, stamps or programs. `ImplementsPolicy` is
`WorkloadPolicy!Spec` under the mapping `runner <- RunnerAlive`,
`starting <- Starting`, the other variables by name.

### WatchdogProcess

Slots `Run` for watchdog processes, `Status` for status probes. `lock` is the
kernel lock, `stateFile` the writer of `watchdog.json`. A command is the shell
(`leader`), descendants that hold its pipes (`holder`), and members of its
process group that do not (`worker`): belter and `handoff.py` run `podman` behind
pipes of their own. What outlives the wait for its command, or a watchdog that is
killed, is in `stray`: at the deadline only the shell is killed, and at a shutdown
`terminate_child` is content when the shell has exited. `Guarded` are
the places at which the `RuntimeStateGuard` is alive. The two steps of `Drop`
are two actions, because another watchdog can come between them. What the loop
decides between two commands is left out; `SpawnCommand` is any command.

Assumed: the test of the token and the spawn are one step (a signal between
them is seen at the first poll, with the same effect). Strays change nothing in
the watchdog, so they are one flag for all of them.

### WatchStats, WatchCycle

`WatchCycle` is `run_watchdog` with `run_watch_cycle`: a pass over the due
watches in the order of the configuration, and in each cycle the stages
`check`, `confirm`, `repair`, `post` and `settle`. Admission is asked at each of
them (`asking`), then a diagnosis runs (`diagnosing`) or the recovery
(`recovering`); `waiting` is the sleep before the confirmation or between two
stabilization checks; `closing` lies between the two log events that follow a
successful check. `due` is `next_check` minus now; `left` the time left of the
running command or sleep; `settling` that of the stabilization.

`WatchStats` is `WatchStatsBuilder` as an operator on records: `Apply` for an
event, `Report` for `finish`. `WatchCycle` applies it to every event the cycle
of `Subject` logs, in the step that logs it, so that the report read from the
log at any moment can be compared with `truth`, which counts what happens.

Assumed: a command ends by its deadline (the other case is in
`WatchdogProcess`); the loop itself takes no time; a shutdown in the middle of
a cycle is a `Restart`, which may happen at every state; counts stop at
`MaxCount`. The two modules about the watchdog meet at the command: what
`WatchCycle` calls a command is one passage of `WatchdogProcess` from
`SpawnCommand` to `Reap`.

### ServiceConfig

`belter.toml` as a function from names to services: a manager, the field that
the manager cannot do without (`unit`, `compose_file`, `machine`), the optional
`extras` (`compose_override`, `project`), `env_file` and `depends_on`. A
template is `"plain"`, `"missing"`, or the variable it needs; the characters of
`${VAR:-default}` are left out. Four parts of the code look at a service, each
in its own way, and each is an operator: `Plannable` (`ServiceCommandRequest::plan`),
`Readable` (`compute_runtime_state`), `Valid` (`config validate`) and, in
`Belter`, `StatusFails` (`service status`). How they fit together is the
property `ValidPlans`. The manager `"other"` is one that no adapter knows; a block
without a manager makes the whole file unreadable (`config.rs:60`), and that is
not modelled: every command but `config init` fails on such a file.

### DependencyOrder

`resolve_bring_up_order`. The recursion of `visit_dependency` is unfolded into
steps: `path` is its call stack, `next[n]` the position of the loop in the
frame of `n`. Each return of the code is an action: `Skip`, `RejectCycle`,
`RejectMissing`, `Leave`; `Descend` is the recursive call. The reference
definition it is checked against says nothing of a search: `Closure` is what
lies in every closed set that contains the goal, and a cycle is an `Entangled`
set, each member of which needs a member.

### Belter

The host, and one command after the other on it: `service bring-up`, `start`,
`stop`, `restart`, each with or without `--dry-run`, `config init` and `config
validate`. A command is run in steps, one for each program it starts or query
it makes, because the host may change between two of them.

* `world` is the condition each service is really in, `forwarding` whether the
  machine forwards ports, `warm` the time until a started mempool answers. They
  are external, and so are `Effect`, `Redundant` and `CanRun`: what `launchctl`
  and `podman` make of a request.
* `RuntimeState` and `Status` are what belter makes of it; `Reads` adds that a
  query may fail (`Misread`): `launchctl print` that fails reads as "stopped",
  `podman info` that fails makes a machine "degraded", and so does a lost HTTP
  request with mempool. A reading is one step, its four requests included; the
  readiness wait sends one request per step (`at` is the next one), so the host
  may change between two of them.
* `todo` is the plan that is left, one program a step: a restart of Compose is
  `down` and `up`, that of a machine `machine stop` and `machine start` with its
  checks (`pc = "checking"`). A program that fails may have taken effect.
* `round` is which readiness wait comes next: after the plan, after the restart
  of mempool, after the restart of its machine.
* `Disturb` changes the condition of a service or breaks forwarding at any
  moment, `ComesUp` lets mempool answer; all that goes wrong is paid from `faults`.
* `seen`, `touched`, `downs` are history; `downs` counts the programs run on the
  service itself. What goes down with its machine is counted there.

Assumed: the checks of a machine and probes of mempool take no time but their
delays; the plan of the runtime retry is checked as a whole before it is run
(the code plans its second half after the first was run; that neither can fail
is proved, see `PlanFirst`); one belter command at a time, as there is no lock
between two of them and no promise about it.

What a reader may not expect of the code, and the model has as it is: an
operation that reports success is not read again, so "must be healthy before a
service bring-up can continue" (`docs/architecture.md:187`) means that its start
succeeded; `service status` and `config validate` do not load `env_file`, the
other commands do; `--write-missing` writes before the result is validated, and
the mempool it adds has no `depends_on`; `config validate` does not look at
`depends_on`; a restart of the machine stops all its containers, and only those
of mempool are started again.

### BringUpPolicy

What a bring-up promises: it takes a set of services that are due, sees to each
after everything it needs, reports success when nothing is due, and retries
twice at most, with the goal and its direct needs only. `FollowsPolicy` is
`BringUpPolicy!Spec` where `due` are the services in `todo`, and `retries` comes
from `round`.

## The runs

All instances are small, but each is chosen so that the case a property is
about happens: for every property of a passing run `PROJECT.json` has a mutant,
a plausible bug in the code, that violates it under the same configuration.

| run | instance | what it shows |
|---|---|---|
| `handoff_safety` | supervisor, one `recover`, one dispatcher, all faults but kills of the dispatcher; `Settle` 2, `Cooldown` 3, `ReadyAge` 1 | Exclusion, no start beside a stop but the dispatcher's orphan, settling after CI, settling after a busy tick, and `WorkloadPolicy` as a whole |
| `handoff_bursts` | two dispatchers, bursts of two, dispatchers killed; `Settle` 1, `Cooldown` 2, `ReadyAge` 2 | Exclusion and spacing hold when a dispatcher dies and leaves its runner or stop command |
| `handoff_liveness` | one of each, crashes; all times 1 | A queued job is taken, a pause is applied, the project returns |
| `handoff_lost_stamp`, `handoff_late_shutdown`, `handoff_late_deferral` | as little as the case needs | [Findings](#findings) |
| `watchdog_process` | three watchdogs, two probes, two kills or failures, two signals | One instance, commands followed under the lock only, the watchdog returns, shutdown completes |
| `watchdog_deaf_shutdown` | one watchdog | [Findings](#findings) |
| `watch_cycle` | two watches, one with everything and one with nothing, one restart | Confirmed and admitted recoveries, spacing, no starvation, a lasting outage is repaired again and again, statistics |
| `watch_deferral` | the same, without restart | [Findings](#findings) |
| `bring_up` | the search over every graph of three services with up to two dependencies each, one of which may be missing; the four services of the default configuration on hosts in every condition, with two faults at any place; ten configurations that lack something, and none | Order, verdict, complete plans, acting on readings only, bounded restarts, success means serving, the steps of a command run out, termination, convergence, and `BringUpPolicy` as a whole |
| `bring_up_forwarding` | the same, without faults | [Findings](#findings) |

Why the bounds are enough. Times are compared only with thresholds, and the
thresholds are pairwise distinct where the order of two matters: `handoff_safety` has
`Cooldown > Settle > ReadyAge` and `handoff_bursts` has
`ReadyAge > Settle`, as with the defaults of 150 s and 120 s, so that a
permission can be older than the settling time. One `recover` and one dispatcher suffice for exclusion because
the lease admits one program at a time; the second dispatcher of
`handoff_bursts` is there for what a killed one leaves behind. Three watchdogs
are one that departs, one that takes its place and one that finds the lock
held. In `watch_cycle` the second watch waits behind the first, its cooldown
differs from its interval, its confirmation takes a tick and its stabilization
two polls; the first has neither and reaches the other branch of each test.
`MaxRestarts` 1 is one crash at each possible place. `MaxCount` 2 lets a count
reach one, two, and its limit. Where dispatchers are symmetric, the run without
liveness properties uses symmetry.

In `bring_up` the delays (1, 2, 4, 8 s) and `Attempts` 5 are those of the code,
and `StartupTime` 15 is the longest start that they can wait for; `Checks` is 4
instead of 15, enough for a second start and a wait after it. Two faults are needed
to take a bring-up through both retries: a query that misreads mempool at first,
and a machine without forwarding whose API fails later. `MaxDowns` 3 counts one more than
`RestartsBounded` allows of a service.
Graphs are for the search alone (a dry run): what the plan does with an order is
seen with the default configuration, in which mempool needs two services.

Action properties worth a note:

* `StartsSpaced`, `StartsAfterRunner`, `SupStartsWhenCalm`, `RecStartsWhenCalm`
  look at the step that spawns a start command and compare it with history, so
  that a stamp that is lost, late or overwritten cannot hide a violation.
* `RepairsSpaced` is stated between restarts: `next_check` lives in memory, and
  `sinceRepair` is set back by `Restart`, as a fresh watchdog may repair at
  once. This is what the code does, and the hazard list says so.
* `StatsAgree` is exact (up to `MaxCount`): the recoveries of the report are the
  logged outcomes and the healthy first checks whose outcome is not logged, because
  it comes next or because the watchdog ended just then (`truth.unlogged`). This
  is what the code does, not what `README.md:143` says (see
  [Findings](#findings)). It is stated for `Confirm > 0`: without a confirmation
  nothing is counted.
* `CommandsUnderLock` is about the commands that a watchdog still waits for. It
  does not say that nothing else of a command runs: `stray` may be TRUE beside it.
* `CommandsSerialized` has one exception, which `handoff_safety` reaches by a stop
  command of the dispatcher that times out (90 s): no other pair of a start and a
  stop command overlaps.
* `RepairsSpaced` asks for the interval and the confirmation, not for a longer
  cooldown.
* `ActsOnReadings` relates what becomes of a service, by whatever program, to what
  was read of it, not to what it is: readings are taken before the plan runs and
  may be old or wrong. A healthy container goes down with a machine that was
  read as degraded, and the property says so.
* `RestartsBounded` bounds the programs that take a service itself down, and then
  mempool together with a machine, since its containers stop with it: read as
  degraded, taken down with its machine and by its own `down`, and once more by
  the retry of the runtime, it goes down three times; and four times when it
  could not be read at first, because it is then restarted by a retry of its own.
* `ReadyMeansServing` compares what belter concluded from four requests, between
  which the host may change, with the host after the last one, and with what
  `service status` would say then in the environment of the command (a status
  from another shell does not load `mempool.env`). The wait does not ask for the
  machine's API: if that fails, success is reported while status has the machine
  degraded and mempool unknown, and the property says so. `README.md:341` and
  `docs/architecture.md:202` name the first of the four requests only;
  `docs/belter-command-reference.md:330` has them all.
* `ValidPlans` is about fields: a validated file can still name a dependency that
  does not exist or an `env_file` that cannot be read.
* `StepsRunOut` counts what a command has left: the passes of its loops, and
  the retries with the waits that follow them (`StepsLeft`). The count is a sum
  over the services during the search, and what each service may still add to
  the plan is paid for in advance, so it is fixed when the command is given.
  `Terminates` says that commands end if they go on; `StepsRunOut` says after
  how many steps, and needs no fairness.
* `Punctual` allows a due watch two cycles of every other watch: those that
  are left in the pass in which it came due, and those before it in the next.
* `Converges` has no bound on the number of bring-ups; its premise
  (`Recoverable`) leaves out what no bring-up repairs: port forwarding (see
  finding 6), a wrong URL, and a machine that mempool does not name among what
  it needs.

## Fairness

Only what the code or the host justifies is assumed.

* `WorkloadHandoff`: each running program takes its next step, since every
  command it waits for has a timeout; launchd restarts the supervisor
  (`KeepAlive`) and activates the dispatcher; commands and runners end; time
  passes. `SupAcquire` and `DispAcquire` are strongly fair: the programs poll
  for ever and the lease is free again and again. That is not enough against a
  lease that is held at every poll, which the code cannot exclude because it
  never waits for the lock; therefore `QueuedJobRuns` and `PauseTakesEffect`
  name the premise `NotAlwaysHeld`. Signals, crashes, the operator, `gate`,
  `recover` and arriving jobs owe nothing.
* `WatchdogProcess`: a process takes its next step; somebody starts the
  watchdog again; a status probe ends. That the holder of a pipe ends is
  assumed only where `Daemons` is FALSE: with TRUE, shutdown may never complete.
* `WatchCycle`: the loop goes on and time passes. `DownIsRepaired` is about a
  service that stays down on a free host, so for `Subject` strong fairness of
  admission granted and of the answer "unhealthy"; everything else about
  commands, the other watch included, is left open.

* `Belter`: a command that runs takes its next step (`WF_vars(Proceed)`). The
  loops count their passes, and reads and writes of a probe end after two
  seconds. That `launchctl` and `podman` end, and that a TCP connection is made
  or refused, is assumed of them: the adapters wait without a timeout. The host
  and the user owe nothing; that bring-up is tried again and again is a premise
  of `Converges`.

## The proofs

TLAPS checks every leaf. The theorems hold for any sets of processes or
watches, any thresholds and bounds that meet the named assumptions
(`HandoffAssumption`, `WatchdogAssumption`, `CycleAssumption`,
`ConfigAssumption`, `BelterAssumption`), which TLC also
evaluates in every run.

**HandoffProofs.** `LeaseInv` says who holds the lease: a program exactly
inside its locked block; a start command, a stop command of `handoff.py` and a
runner as long as they live; and all holders are one program and its child.
`Exclusive` alone is not inductive, because nothing in it says that no start
is under way when a runner is spawned. `HostInv` adds what the holder may rely
on between its checks and its work: no job container from the first look to
the end of the start command, no project from the dispatcher's verification to
the spawn. `LeaseInv /\ HostInv` with the types is inductive (`LeaseCorrect`),
under every fault, and gives `Exclusion`.

On it rest `Spacing` (the stamp on disk is never older than the last launch,
except between stamp and launch), `Calm` (`normal_since` is never older than
the last busy tick) and `Serialization` (a stop command that runs beside a start
command is one whose dispatcher is gone, because what a dispatcher waits for runs
under its lease, and all other commands inherit it), each under every fault. **If
no dispatcher is killed**, whatever of its commands times out, also `Settling`
(the stamp of the runner's end is written before the lease is released) and
`Implementation`: every step of the programs is a step or a stutter of
`WorkloadPolicy`. The condition `"dispatcher" \notin Faults` is necessary:
`handoff_lost_stamp` is the counterexample to `StartsAfterRunner` without it.

`recover` does not look at the pressure itself: it trusts a permission of the
supervisor that may be `ReadyAge` old. `RecoverCalm` says that it still launches
nothing within `Settle` of a busy tick. Its invariant, `RecCalmInv`, is that a
permission and a recent busy observation exist together only while the tick that
made the observation holds the lease and has yet to stop the project, so
`recover`, which reads the permission under the lease, never sees them together.
The hypotheses are necessary: a failing command (`"command" \in Faults`) ends the
tick before it withdraws the permission, which is `handoff_late_deferral`, and so
does a kill (`"crash"`).

**WatchdogProofs.** `LockInv` (the lock is with the process whose guard is
alive or with the probe that took it) and `CommandInv` (a command is followed
inside `run_shell_command` only) are inductive and give `OneWatchdog` and
`FollowedUnderLock`: whoever waits for a command holds the lock.

**CycleProofs.** The invariant has five parts besides the types. `LoopInv`:
where the loop is fits the stage, and a pending watch is due. `SuspectInv`:
during the confirmation sleep, the time suspected and the time left make up
the confirmation; it gives `RecoveryNeedsConfirmation`. `SpacingInv`: as long
as the cycle of `Subject` has not begun, the time since its last recovery and
`due` together make up the interval, so it does not matter which of the ends of
a cycle was taken, only that each sets a delay of at least the interval; it
gives `RecoverySpacing`. `IncidentInv`: the reader has an incident open from
the confirmation to the outcome, except when a healthy first check has just
closed it; with `StatsAgree` itself it is
inductive and gives `ReportAgrees`. Lemmas about `Apply` and `Report`
(`ReadConfirmed`, `ReadStart`, `ReadExit`, `ReadRecovered`) state what one event
does to the report, for any reader.

`Punctuality` has an invariant of its own. `LeftInv` bounds what the cycle that
is running may still take, stage by stage, by `TimeLeft`, which is at most
`LongestCycle`. `TurnInv` says how late a watch can be:
what it is late by, what the running cycle has left and one `LongestCycle` of every
other pending watch are together at most one cycle of every other watch, or two
when the watch is itself pending: one that comes due during a pass waits for the
rest of that pass, and then for its turn in the next. In an idle tick the same sum
is within one cycle of every other watch. The sums range over any finite set of watches.

**FiniteSums.** `SumFunctionOnSet` of the community modules is defined by a
recursive function over the subsets of the set. `SubsetInduction` replaces the
induction theorems that take an operator: a set of subsets that contains each
subset whose proper subsets it contains has the whole set in it, because a least
counterexample would exist otherwise (`StrictSubsetOrdering` is well-founded).
With it, the equation of the recursion has exactly one solution (`SumUnique`,
`SumSolves`), elements can be taken out in any order (`SumTakeOut`), sums grow with
their sets (`SumMonotone`), and change with one value as that value does
(`SumChanges`).

**DependencyProofs.** The invariant of the search ties the call stack to the
graph: `path` begins with the goal, and each entry is the dependency at `next`
of the entry below it (`StackInv`); what lies before that position is visited;
what is visited lies in `Closure`, has all it needs before it and contains no
cycle (`ListInv`), and is disjoint from the path. A cycle found is then the part
of the path from its first member, and at the end `Closure` is what was visited,
because that is a closed set with the goal in it. No induction over the length of the path is needed.
The result, `OrderIsCorrect`, holds for every graph on any set of services.

**BelterProofs.** `IInv` is the conjunction of six parts. `TypeInv`: the types
and the invariant of the search, which each command starts anew. `PlaceInv`:
where a command is goes with what it is (only a bring-up of mempool waits).
`ReadableInv`: once the states were read, everything the plan and the retries
name is plannable in the environment, which no longer changes; this is why the
retries cannot fail half way (`PlanFirst`). `TouchedInv`: nothing is touched
before `"running"`. `SeenInv`: each program left in the plan fits the last
reading of its service; with what a program does to the services of the machine it
stops, this gives `ReadingsObeyed`. `SortedInv`: the plan is in the order
of the dependencies, and a service's programs are next to each other; with it
every step of `Belter` is one of `BringUpPolicy` (`PolicyFollowed`), with the set
of services that came before as the witness of `Fit`. Two more rest on `IInv`:
`EnvInv` and `ErrorInv` (variables are overridden, never unset, so what expands at
validation expands later; a file that fails to load is one that `Unreadable` names)
for `ValidSuffices`, and `DownsInv` (what was taken down and what the plan will
still take down, by `round`) for `RestartsAreBounded`.
`SuccessMeansServing` looks at each way a command can end: only `MempoolReady` ends
the bring-up of mempool with success. The answer to the last request says of each
layer (the URL, forwarding, the machine, mempool) that it is there now, whatever
the earlier ones said; an answer 503 of fees says the same of a mempool that is
syncing. `Status` reads the host in that same moment.
The first of several machines that mempool names is a least element of a set of
naturals, for which the well-foundedness of `<` is cited.

**BelterStepsProofs.** `CommandsRunOut` is what `Terminates` rests on besides
fairness. The arithmetic comes first: products are hidden behind lemmas that say
only what one program, service, file or retry more or less changes
(`ExecuteBounds`, `RetryBounds`, `ReadBounds`, `LoadBounds`). Of the search,
`SkipUses`, `DescendUses` and `LeaveUses` each change the share of one service, so
the sum over all of them falls (`VisitsUsed`); that a service is entered once
only comes from `StackInv` and `ListInv`. Then there is one lemma for each
action. A pass of the readiness wait pays for its four requests. A retry is paid
for because `round` grows with it, and the host pays nothing because the count reads nothing of the host. The set of names is assumed to be finite
(`BelterAssumption`): those of the configuration file, and what it names.

**Only model-checked.** The liveness properties (`QueuedJobRuns`,
`PauseTakesEffect`, `OptionalReturns`, `WatchdogReturns`, `ShutdownCompletes`,
`DownIsRepaired`, `Terminates`, `Converges`) are out of the prover's reach: they
need fairness, and `ENABLED`. Every safety and action property of a passing run
has a theorem. `RecStartsWhenCalm`, `StartsAfterRunner` and `ImplementsPolicy` are
proved under hypotheses on `Faults`, and do not hold without them.

## Findings

Eight places where the code does something else than the text beside it says.
Six have a run whose counterexample TLC prints.

1. **Lost completion stamp** (`runner_dispatch.py:177`). The stamp is written
   by the dispatcher. If it is killed while the runner works, the runner
   finishes without a stamp and the project may start at once.
2. **Late shutdown** (`runner_dispatch.py:166`). SIGTERM between the last test
   of `stopping` and the assignment of `self.child`: the runner is started
   after the request and never gets SIGQUIT.
3. **Late deferral** (`handoff.py:373`). A tick that fails after it found the
   host busy gives up the lease before it withdraws the readiness permission.
4. **Deaf shutdown** (`main.rs:1108` of the watchdog). After a timeout or the
   exit of the shell, `wait_with_output` waits for every process that has the
   pipe, and the token is not looked at.
5. **Deferrals counted as failures** (`main.rs:1454` of the watchdog).
   `recovery.done exit_code=75` is read as a failed recovery command.
6. **Forwarding not recognized** (`service.rs:1190`). `service status` derives a
   degraded machine from containers that are up and do not answer; bring-up
   asks `compute_runtime_state`, which does not, and never restarts it for that.

Two more are stated as the code has them by a property of a passing run:

7. **Recoveries without an outcome** (`main.rs:1407` of the watchdog). `stats`
   counts a recovery at `recovery.post_check state=healthy`, whether or not
   `outcome=recovered` follows; `README.md:143` says that only the outcome counts.
   `StatsAgree` states the difference.
8. **Groups that are not terminated** (`main.rs:1134` of the watchdog). At a
   shutdown the process group gets SIGKILL only if its shell outlives the second;
   a member that ignores SIGTERM and does not hold the pipe goes on.
   `README.md:103` says that the group is terminated. `CommandsUnderLock` states
   what is kept.

Three more that the models have as they are, without a run of their own: the
dispatcher's stop command does not inherit the lease, while that of
`handoff.py` does (`runner_dispatch.py:162`); `Drop` of the watchdog unlocks
first and removes the state file second, which may be the file of the next
instance by then (`main.rs:185`); and `config init` and `config validate
--write-missing` write under `--dry-run` (`main.rs:97` of the CLI).

## What is not modelled

* Of the CLI: `list`, the text of `status`, `logs` (which prints a line),
  `info`, the health checks (each is run once, sequentially), the TOML syntax,
  the search for the configuration and `.env` files.
* Two belter commands at once, or belter and the watchdog's recovery: nothing
  in the code keeps them apart, and nothing is promised.
* The legacy combined mode of `handoff.py` (`run_job`), `--once`, `--dry-run`.
* `mining_health.py`: a read-only probe; its answer is that of the health
  command.
* Durations, rates, `last_known_state` and `clear-log` of the statistics.
* Parsing, defaults, formatting, log rotation, `init` of the watchdog.
* A clock that is set back, the output of a command that fills its pipe, and a
  mempool that needs longer than fifteen seconds (listed as hazards).

## The plan

Done, in this order: `WorkloadHandoff` with `WorkloadPolicy` and its proofs;
`WatchdogProcess` and its proofs; `WatchStats` and `WatchCycle` and their
proofs; `ServiceConfig`, `DependencyOrder`, `Belter` with `BringUpPolicy` and
their proofs. Left:

1. **Watchdog over handoff**: `allow_command` and `recover_command` of
   `WatchCycle` answered by `gate` and `recover` of `WorkloadHandoff`: whether a
   watchdog that asks often can keep the supervisor from settling.
2. **Watchdog over Belter**: the recovery of a watch is a bring-up, cut off at
   the deadline of the command at any of its steps.
3. **Proofs**: spacing across restarts under a premise on the restart time; a
   count of the steps left for `run_shell_command` after a signal, as for
   belter's commands; an abstract specification of what the watchdog does to one
   service, which `WatchCycle` implements.
4. **The legacy mode** of `handoff.py`, if the deployment still uses it.
