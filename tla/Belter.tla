------------------------------- MODULE Belter -------------------------------
(***************************************************************************)
(* The belter command line on its host: one command after the other, each  *)
(* of them service bring-up, start, stop or restart, config init or config *)
(* validate, with the manager adapters, the readiness wait of mempool and  *)
(* its retries.  The host changes under a running command.                 *)
(*                                                                         *)
(* A command is run in steps, one for each program it starts or query it   *)
(* makes.  service status makes queries only: it is an operator here.      *)
(***************************************************************************)
EXTENDS DependencyOrder, Integers

CONSTANTS
  Hosts,        \* what there is to begin with, and how much may go wrong
  Commands(_),  \* the commands that are given under a configuration
  Listens,      \* where mempool really answers
  StartupTime,  \* seconds that mempool needs to answer once it was started
  Attempts,     \* probes of a readiness wait (5)
  Checks,       \* PODMAN_READY_CHECKS
  Starts,       \* PODMAN_START_ATTEMPTS
  MaxFaults     \* bound on it

VARIABLES
  present,     \* the configuration file exists
  command,     \* the command that runs, or ran last
  pc,          \* where it is
  outcome,     \* how it ended
  env,         \* its environment
  at,          \* position in a loop over services, or in a probe of mempool
  initial,     \* the first reading of mempool's state
  todo,        \* programs still to be run
  round,       \* which readiness wait: after the plan, or after a retry
  tries,       \* passes of the readiness wait, or of the machine's start
  starts,      \* podman machine start was called so often
  world,       \* condition of each service
  forwarding,  \* the machine forwards ports to its containers
  warm,        \* seconds until mempool answers
  faults,      \* what may still go wrong
  seen,        \* history: last reading of each service by this command
  touched,     \* history: services on which this command ran a program
  downs        \* history: how often it ran one that takes the service down

fileVars == <<config, present>>
jobVars == <<goal, command>>
planVars == <<env, at, initial, todo>>
loopVars == <<round, tries, starts>>
hostVars == <<world, forwarding, warm>>
histVars == <<seen, touched, downs>>
vars == <<fileVars, jobVars, searchVars, pc, outcome, planVars, loopVars,
          hostVars, faults, histVars>>

PC == {"idle", "resolving", "loading", "reading", "running", "checking",
       "probing", "failing"}
ServiceCommand == {"bring-up", "start", "stop", "restart"}
ConfigCommand == {"init", "init --force", "validate", "validate --write-missing"}
ConfigError == {"order error", "env error", "config error"}
Outcome == ConfigError \cup
  {"none", "ok", "command failed", "not ready", "valid", "invalid"}
State == {"running", "stopped", "syncing", "degraded", "unknown"}
Condition == {"stopped", "silent", "syncing", "broken", "degraded", "running"}
Program == {"bootstrap", "bootout", "kickstart", "up", "down",
            "machine start", "machine stop"}

Host == [config : Config, present : BOOLEAN, world : [Name -> Condition],
         forwarding : BOOLEAN, faults : 0..MaxFaults]

ASSUME BelterAssumption ==
  /\ IsFiniteSet(Name)
  /\ Hosts \subseteq Host
  /\ Attempts \in Nat \ {0} /\ Checks \in Nat \ {0} /\ Starts \in Nat \ {0}
  /\ StartupTime \in Nat /\ MaxFaults \in Nat

TypeOK ==
  /\ OrderTypeOK
  /\ present \in BOOLEAN
  /\ command \in [kind : ServiceCommand \cup ConfigCommand, dry : BOOLEAN]
  /\ pc \in PC
  /\ outcome \in Outcome
  /\ env \in Env
  /\ at \in Nat \ {0}
  /\ initial \in State
  /\ todo \in Seq([name : Name, program : Program])
  /\ round \in 1..3
  /\ tries \in 1..(Attempts + Checks)
  /\ starts \in 1..Starts
  /\ world \in [Name -> Condition]
  /\ forwarding \in BOOLEAN
  /\ warm \in 0..StartupTime
  /\ faults \in 0..MaxFaults
  /\ seen \in [Name -> State]
  /\ touched \subseteq Name
  /\ downs \in [Name -> 0..3]

----------------------------------------------------------------------------
(* The host *)

Is(n, m) == config[n] # Absent /\ config[n].manager = m

\* Containers live in the machine: Compose needs its API, HTTP its kernel.
PodmanUp == \A n \in Name : Is(n, "podman_machine") => world[n] = "running"
MachineUp == \A n \in Name : Is(n, "podman_machine") => world[n] # "stopped"

\* The conditions that a service can be in.
Conditions(n) ==
  IF Is(n, "podman_machine") THEN {"stopped", "degraded", "running"}
  ELSE IF Is(n, "podman_compose") /\ ~MachineUp THEN {"stopped"}
  ELSE IF n = Mempool THEN {"stopped", "silent", "syncing", "broken", "running"}
  ELSE {"stopped", "running"}

\* A service changes its condition; containers stop with their machine, and
\* mempool answers StartupTime after its containers came up.
Becomes(n, x) ==
  /\ world' = [m \in Name |->
                IF m = n THEN x
                ELSE IF Is(n, "podman_machine") /\ x = "stopped"
                        /\ Is(m, "podman_compose") THEN "stopped"
                ELSE world[m]]
  /\ warm' = IF world'[Mempool] # "silent" THEN 0
             ELSE IF n = Mempool /\ world[n] # x THEN StartupTime ELSE warm

\* Time passes.
Passes(seconds) ==
  IF world[Mempool] = "silent" /\ warm <= seconds
  THEN \E x \in {"syncing", "running"} : Becomes(Mempool, x)
  ELSE warm' = (IF warm > seconds THEN warm - seconds ELSE 0) /\ UNCHANGED world

\* One more thing goes wrong.
Fault == faults > 0 /\ faults' = faults - 1

\* The HTTP status code of an answer, 0 when there is none.
Answer(e) ==
  CASE world[Mempool] = "running" -> 200
    [] world[Mempool] = "syncing" -> IF e = "fees" THEN 503 ELSE 200
    [] world[Mempool] = "broken" -> IF e = "tip" THEN 0 ELSE 200
    [] OTHER -> 0

----------------------------------------------------------------------------
(* The state of a service, as belter reads it *)

\* probe_http_status under environment v.
Reached(e, v) ==
  IF MachineUp /\ forwarding /\ Url(v) = Listens THEN Answer(e) ELSE 0

\* Variant: an answer of backend-info is enough.
RequestInfo == <<"backend-info">>

\* The requests of a probe, in their order.
Requests == <<"backend-info", "fees", "mempool", "tip">>

\* probe_mempool_status, in a reading: the host does not change during it.
Probe(v) ==
  CASE Reached("backend-info", v) # 200 -> "degraded"
    [] Reached("backend-info", v) = 200 /\ Reached("fees", v) = 503 -> "syncing"
    [] \A i \in DOMAIN Requests : Reached(Requests[i], v) = 200 -> "running"
    [] OTHER -> "degraded"

\* running_container_ids, and the probe if something runs.
ComposeState(n, v) ==
  CASE ~PodmanUp -> "unknown"
    [] PodmanUp /\ world[n] = "stopped" -> "stopped"
    [] PodmanUp /\ world[n] # "stopped" -> IF n = Mempool THEN Probe(v) ELSE "running"

\* compute_runtime_state, when all its queries succeed.
RuntimeState(n, v) ==
  IF Is(n, "podman_compose") THEN ComposeState(n, v)
  ELSE IF world[n] = "stopped" THEN "stopped"
  ELSE IF Is(n, "podman_machine") /\ world[n] # "running" THEN "degraded"
  ELSE "running"

\* service status reports no state but an error.
StatusFails(n, v) ==
  \/ config[n] = Absent
  \/ Is(n, "launchd") /\ ~Expands(config[n].field, v)
  \/ config[n].manager \in Manager /\ config[n].field = "missing"

\* A dependent of a machine has containers up that do not answer.
Suffers(d, n, v) ==
  /\ Is(d, "podman_compose")
  /\ n \in Needs(d)
  /\ Readable(config, d, v)
  /\ ComposeState(d, v) = "degraded"

\* compute_status, when all its queries succeed.
Status(n, v) ==
  CASE ~Readable(config, n, v) -> "unknown"
    [] /\ Readable(config, n, v)
       /\ Is(n, "podman_machine") /\ world[n] = "running"
       /\ \E d \in Name : Suffers(d, n, v) -> "degraded"
    [] OTHER -> RuntimeState(n, v)

\* What a failing query is taken for: launchctl print gives no pid, podman info
\* fails on a machine that runs, or mempool does not answer one of the requests.
Misread(n) ==
  {s \in State :
     \/ s = "unknown"
     \/ s = "stopped" /\ Is(n, "launchd")
     \/ /\ s = "degraded" /\ world[n] # "stopped"
        /\ Is(n, "podman_machine") \/ (n = Mempool /\ Is(n, "podman_compose") /\ PodmanUp)}

\* A reading by the running command.
Reads(n, s) ==
  /\ \/ s = RuntimeState(n, env) /\ UNCHANGED faults
     \/ s \in Misread(n) /\ Fault
  /\ seen' = [seen EXCEPT ![n] = s]

----------------------------------------------------------------------------
(* Plans *)

\* The programs of an operation, in their order.
Programs(n, action) ==
  CASE Is(n, "launchd") ->
         (CASE action = "start" -> <<"bootstrap">>
            [] action = "stop" -> <<"bootout">>
            [] action = "restart" -> <<"kickstart">>)
    [] Is(n, "podman_compose") ->
         (CASE action = "start" -> <<"up">>
            [] action = "stop" -> <<"down">>
            [] action = "restart" -> <<"down", "up">>)
    [] Is(n, "podman_machine") ->
         (CASE action = "start" -> <<"machine start">>
            [] action = "stop" -> <<"machine stop">>
            [] action = "restart" -> <<"machine stop", "machine start">>)

Steps(n, action) ==
  [i \in DOMAIN Programs(n, action) |->
     [name |-> n, program |-> Programs(n, action)[i]]]

\* Variant: what does not answer is restarted, too.
RestartUnknown(n, s) ==
  CASE s = "stopped" -> "start"
    [] s = "unknown" \/ (s = "degraded" /\ n = Mempool) -> "restart"
    [] OTHER -> "none"

BringUpAction(n, s) ==
  CASE s \in {"stopped", "unknown"} -> "start"
    [] s = "degraded" /\ (n = Mempool \/ Is(n, "podman_machine")) -> "restart"
    [] OTHER -> "none"

BringUp == command.kind = "bring-up"

\* The services whose env_files are loaded and that are planned.
Listed == IF BringUp THEN ordered ELSE <<goal>>

\* The command returns.
Finish(o) == pc' = "idle" /\ outcome' = o /\ todo' = <<>>

----------------------------------------------------------------------------
(* The commands *)

Idle == pc = "idle"

Init ==
  /\ \E h \in Hosts :
       /\ config = h.config /\ present = h.present
       /\ world = h.world /\ forwarding = h.forwarding
       /\ faults = h.faults
       /\ warm = IF h.world[Mempool] = "silent" THEN StartupTime ELSE 0
  /\ Unsearched
  /\ goal = Mempool
  /\ command = [kind |-> "validate", dry |-> FALSE]
  /\ pc = "idle" /\ outcome = "none"
  /\ env = Environment /\ at = 1 /\ initial = "unknown" /\ todo = <<>>
  /\ round = 1 /\ tries = 1 /\ starts = 1
  /\ seen = [n \in Name |-> "unknown"]
  /\ touched = {} /\ downs = [n \in Name |-> 0]

\* A new process: nothing of the last command is left but what it did.
Fresh ==
  /\ path' = <<>> /\ next' = [n \in Name |-> 1]
  /\ ordered' = <<>> /\ verdict' = "pending"
  /\ env' = Environment /\ at' = 1 /\ initial' = "unknown"
  /\ round' = 1 /\ tries' = 1 /\ starts' = 1
  /\ seen' = [n \in Name |-> "unknown"]
  /\ touched' = {} /\ downs' = [n \in Name |-> 0]

\* A service command reads the configuration.
Invoke(kind, n, dry) ==
  /\ Idle
  /\ [kind |-> kind, goal |-> n, dry |-> dry] \in Commands(config)
  /\ command' = [kind |-> kind, dry |-> dry]
  /\ goal' = n
  /\ Fresh
  /\ IF present
     THEN /\ pc' = IF kind = "bring-up" THEN "resolving" ELSE "loading"
          /\ outcome' = "none" /\ todo' = <<>>
     ELSE Finish("config error")
  /\ UNCHANGED <<fileVars, hostVars, faults>>

\* A config command runs to its end; it does not know of --dry-run.
Configure(kind, dry) ==
  /\ Idle
  /\ [kind |-> kind, goal |-> goal, dry |-> dry] \in Commands(config)
  /\ command' = [kind |-> kind, dry |-> dry]
  /\ Fresh
  /\ UNCHANGED <<goal, hostVars, faults>>

\* config init
InitFile(kind, dry) ==
  /\ kind \in {"init", "init --force"}
  /\ Configure(kind, dry)
  /\ IF present /\ kind # "init --force"
     THEN Finish("config error") /\ UNCHANGED fileVars
     ELSE Finish("ok") /\ config' = DefaultConfig /\ present' = TRUE

\* config validate: the missing services are written before the rest is
\* looked at.
ValidateFile(kind, dry) ==
  /\ kind \in {"validate", "validate --write-missing"}
  /\ Configure(kind, dry)
  /\ UNCHANGED present
  /\ config' = IF present /\ kind = "validate --write-missing"
               THEN WithMissing(config) ELSE config
  /\ Finish(CASE ~present -> "config error"
              [] present /\ Valid(config', Environment) -> "valid"
              [] present /\ ~Valid(config', Environment) -> "invalid")

\* resolve_bring_up_order, one step of the search after the other.
Resolve ==
  /\ pc = "resolving"
  /\ Search
  /\ CASE verdict' = "pending" -> UNCHANGED <<pc, outcome, todo>>
       [] verdict' = "ok" -> pc' = "loading" /\ UNCHANGED <<outcome, todo>>
       [] OTHER -> Finish("order error")
  /\ UNCHANGED <<fileVars, jobVars, env, at, initial, loopVars, hostVars, faults,
                 histVars>>

\* maybe_load_service_env_file for the next service.
LoadEnv ==
  /\ pc = "loading" /\ at <= Len(Listed)
  /\ IF HasEnvFile(config, Listed[at])
     THEN IF Loads(config, Listed[at], env)
          THEN /\ env' = Overridden(Listed[at], env) /\ at' = at + 1
               /\ UNCHANGED <<pc, outcome, todo>>
          ELSE Finish("env error") /\ UNCHANGED <<env, at>>
     ELSE at' = at + 1 /\ UNCHANGED <<env, pc, outcome, todo>>
  /\ UNCHANGED <<fileVars, jobVars, searchVars, initial, loopVars, hostVars, faults,
                 histVars>>

\* Variant: a plan is executed, dry run or not.
ExecuteAnyway(plan) == pc' = "running" /\ todo' = plan /\ UNCHANGED outcome

\* A dry run only prints its plan.
Execute(plan) ==
  IF command.dry THEN Finish("ok")
  ELSE pc' = "running" /\ todo' = plan /\ UNCHANGED outcome

\* A plan without a look at the services: for start, stop and restart, and
\* for every dry run; that of a dry bring-up names all that is listed.
PlanBlindly ==
  /\ pc = "loading" /\ at > Len(Listed)
  /\ ~BringUp \/ command.dry
  /\ IF \A i \in DOMAIN Listed : Plannable(config, Listed[i], env)
     THEN Execute(Steps(goal, IF BringUp THEN "start" ELSE command.kind))
     ELSE Finish("config error")
  /\ UNCHANGED <<fileVars, jobVars, searchVars, env, at, initial, loopVars, hostVars,
                 faults, histVars>>

\* A real bring-up reads the state of the goal first.
ReadGoal ==
  /\ pc = "loading" /\ at > Len(Listed)
  /\ BringUp /\ ~command.dry
  /\ IF Readable(config, goal, env)
     THEN /\ \E s \in State : Reads(goal, s) /\ initial' = s
          /\ pc' = "reading" /\ at' = 1
          /\ UNCHANGED <<outcome, todo>>
     ELSE Finish("config error") /\ UNCHANGED <<initial, at, seen, faults>>
  /\ UNCHANGED <<fileVars, jobVars, searchVars, env, loopVars, hostVars, touched, downs>>

\* build_bring_up_plan: the next service is read and its action planned.
ReadNext ==
  /\ pc = "reading"
  /\ at <= Len(ordered)
  /\ LET n == ordered[at] IN
       IF Readable(config, n, env)
       THEN \E s \in State :
              LET action == BringUpAction(n, s) IN
              /\ Reads(n, s)
              /\ IF action = "none"
                 THEN at' = at + 1 /\ UNCHANGED <<pc, outcome, todo>>
                 ELSE IF Plannable(config, n, env)
                 THEN /\ todo' = todo \o Steps(n, action) /\ at' = at + 1
                      /\ UNCHANGED <<pc, outcome>>
                 ELSE Finish("config error") /\ UNCHANGED at
       ELSE Finish("config error") /\ UNCHANGED <<at, seen, faults>>
  /\ UNCHANGED <<fileVars, jobVars, searchVars, env, initial, loopVars, hostVars,
                 touched, downs>>

\* Every service has been read: the plan is executed.
Planned ==
  /\ pc = "reading"
  /\ at > Len(ordered)
  /\ pc' = "running"
  /\ UNCHANGED <<fileVars, jobVars, searchVars, outcome, planVars, loopVars, hostVars,
                 faults, histVars>>

----------------------------------------------------------------------------
(* The manager adapters *)

\* What a program makes of a service.
Effect(n, p) ==
  CASE p \in {"bootstrap", "kickstart"} -> "running"
    [] p \in {"bootout", "down", "machine stop"} -> "stopped"
    [] p \in {"up", "machine start"} /\ world[n] # "stopped" -> world[n]
    [] p = "up" /\ world[n] = "stopped" ->
         IF n = Mempool THEN "silent" ELSE "running"
    [] p = "machine start" /\ world[n] = "stopped" -> "running"

\* A program that takes a service down.  MaxDowns bounds what is counted.
MaxDowns == 3
Takes(p) == p \in {"bootout", "kickstart", "down", "machine stop"}

\* Compose needs the API of its machine.
CanRun(p) == p \in {"up", "down"} => PodmanUp

\* A program may refuse what is done already.
Redundant(n, p) ==
  \/ p \in {"bootstrap", "machine start"} /\ world[n] # "stopped"
  \/ p \in {"bootout", "kickstart"} /\ world[n] = "stopped"

\* The program runs, and a machine forwards ports once it has started.
Runs(n, p) ==
  /\ CanRun(p)
  /\ Becomes(n, Effect(n, p))
  /\ forwarding' = (forwarding \/ (p = "machine start" /\ world[n] = "stopped"))

Records(n, p) ==
  /\ touched' = touched \cup {n}
  /\ downs' = IF Takes(p) /\ downs[n] < MaxDowns THEN [downs EXCEPT ![n] = @ + 1] ELSE downs
  /\ UNCHANGED seen

\* The next program of the plan succeeds; a machine's start goes on.
RunProgram ==
  /\ pc = "running" /\ todo # <<>>
  /\ LET n == Head(todo).name
         p == Head(todo).program IN
       /\ Runs(n, p)
       /\ Records(n, p)
       /\ IF p = "machine start"
          THEN pc' = "checking" /\ tries' = 1 /\ starts' = 1 /\ UNCHANGED todo
          ELSE todo' = Tail(todo) /\ UNCHANGED <<pc, tries, starts>>
  /\ UNCHANGED <<fileVars, jobVars, searchVars, outcome, env, at, initial, round, faults>>

\* The next program fails, and nothing after it is run.  What it has done
\* until then is done.
ProgramFails ==
  /\ pc = "running" /\ todo # <<>>
  /\ LET n == Head(todo).name
         p == Head(todo).program IN
       /\ Records(n, p)
       /\ \/ /\ ~CanRun(p) \/ Redundant(n, p)
             /\ UNCHANGED <<hostVars, faults>>
          \/ /\ Fault
             /\ Runs(n, p) \/ UNCHANGED hostVars
  /\ Finish("command failed")
  /\ UNCHANGED <<fileVars, jobVars, searchVars, env, at, initial, loopVars>>

\* start_with: the machine is inspected until its API answers.  Variant: the
\* starts are not counted.
StartsWhenever == world[Head(todo).name] = "stopped" /\ tries < Checks
StartsAgain == world[Head(todo).name] = "stopped" /\ starts < Starts /\ tries < Checks

MachineReady ==
  /\ pc = "checking"
  /\ world[Head(todo).name] = "running"
  /\ pc' = "running" /\ todo' = Tail(todo)
  /\ UNCHANGED <<fileVars, jobVars, searchVars, outcome, env, at, initial, loopVars,
                 hostVars, faults, histVars>>

\* It is stopped again: it is started once more.  What stops with the machine
\* does not come up in the two seconds that follow, so they are left out.
MachineStartsAgain ==
  /\ pc = "checking"
  /\ StartsAgain
  /\ \/ /\ Runs(Head(todo).name, "machine start")
        /\ starts' = starts + 1 /\ tries' = tries + 1
        /\ UNCHANGED <<pc, outcome, todo, faults>>
     \/ /\ Fault /\ Finish("command failed")
        /\ UNCHANGED <<hostVars, starts, tries>>
  /\ UNCHANGED <<fileVars, jobVars, searchVars, env, at, initial, round, histVars>>

\* It is not there yet, or the query fails: it is looked at again later.
MachineNotReady ==
  /\ pc = "checking"
  /\ \/ world[Head(todo).name] # "running" /\ ~StartsAgain /\ UNCHANGED faults
     \/ Fault
  /\ IF tries < Checks
     THEN Passes(2) /\ tries' = tries + 1 /\ UNCHANGED <<pc, outcome, todo, forwarding>>
     ELSE Finish("not ready") /\ UNCHANGED <<hostVars, tries>>
  /\ UNCHANGED <<fileVars, jobVars, searchVars, env, at, initial, round, starts, histVars>>

\* The plan was executed.
Executed ==
  /\ pc = "running" /\ todo = <<>>
  /\ IF BringUp /\ goal = Mempool
     THEN pc' = "probing" /\ tries' = 1 /\ at' = 1 /\ UNCHANGED <<outcome, todo>>
     ELSE Finish("ok") /\ UNCHANGED <<tries, at>>
  /\ UNCHANGED <<fileVars, jobVars, searchVars, env, initial, round, starts,
                 hostVars, faults, histVars>>

----------------------------------------------------------------------------
(* The readiness of mempool *)

\* Variant: one second after each probe.
FixedDelay == 1

\* The delay after a probe: doubled each time, 8 seconds at most.
Delay == IF tries > 3 THEN 8 ELSE <<1, 2, 4>>[tries]

\* The answer to the next request of the probe; it may be lost.
Answered(code) ==
  \/ code = Reached(Requests[at], env) /\ UNCHANGED faults
  \/ code = 0 /\ Fault

\* It is answered, and the next request is sent.
ProbeGoesOn ==
  /\ pc = "probing" /\ at < Len(Requests)
  /\ Answered(200)
  /\ at' = at + 1
  /\ UNCHANGED <<fileVars, jobVars, searchVars, pc, outcome, env, initial, todo,
                 loopVars, hostVars, histVars>>

\* The last one is answered, or fees says that mempool is syncing: the wait is over.
MempoolReady ==
  /\ pc = "probing"
  /\ \/ /\ at = Len(Requests) /\ Answered(200)
        /\ seen' = [seen EXCEPT ![Mempool] = "running"]
     \/ /\ Requests[at] = "fees" /\ Answered(503)
        /\ seen' = [seen EXCEPT ![Mempool] = "syncing"]
  /\ Finish("ok")
  /\ UNCHANGED <<fileVars, jobVars, searchVars, env, at, initial, loopVars, hostVars,
                 touched, downs>>

\* It is not answered: another probe begins after the delay, if there is one.
MempoolNotReady ==
  /\ pc = "probing"
  /\ Answered(0)
  /\ seen' = [seen EXCEPT ![Mempool] = "degraded"]
  /\ IF tries < Attempts
     THEN /\ Passes(Delay) /\ tries' = tries + 1 /\ at' = 1
          /\ UNCHANGED <<pc, outcome, todo, forwarding>>
     ELSE pc' = "failing" /\ UNCHANGED <<outcome, todo, tries, at, hostVars>>
  /\ UNCHANGED <<fileVars, jobVars, searchVars, env, initial, round, starts,
                 touched, downs>>

\* A step of wait_for_mempool_readiness.
Await == ProbeGoesOn \/ MempoolReady \/ MempoolNotReady

\* Variant: the wait that follows is not told from the one before.
RetryForever(plan, r) ==
  pc' = "running" /\ todo' = plan /\ UNCHANGED <<round, outcome>>

\* Another plan is executed, and another wait follows it.
Retry(plan, r) ==
  IF \A i \in DOMAIN plan : Plannable(config, plan[i].name, env)
  THEN pc' = "running" /\ todo' = plan /\ round' = r /\ UNCHANGED outcome
  ELSE Finish("config error") /\ UNCHANGED round

\* Variant: mempool is restarted whatever was read of it at first.
AlwaysRetries == round = 1

\* bring_up_retry_action_after_failed_readiness gives an action.
RetriesService == round = 1 /\ initial = "unknown"

\* retry_mempool_service_after_failed_readiness.
RetryService ==
  /\ pc = "failing"
  /\ RetriesService
  /\ Retry(Steps(Mempool, "restart"), 2)
  /\ UNCHANGED <<fileVars, jobVars, searchVars, env, at, initial, tries, starts,
                 hostVars, faults, histVars>>

\* The first machine that mempool names among its dependencies.
Machines == {i \in DOMAIN DependsOn(Mempool) : Is(DependsOn(Mempool)[i], "podman_machine")}
Runtime == DependsOn(Mempool)[CHOOSE i \in Machines : \A j \in Machines : i <= j]

\* retry_mempool_runtime_after_failed_readiness.
RetryRuntime ==
  /\ pc = "failing"
  /\ round < 3 /\ ~RetriesService
  /\ Machines # {}
  /\ IF Readable(config, Runtime, env)
     THEN \E s \in State :
            /\ Reads(Runtime, s)
            /\ IF s = "degraded"
               THEN Retry(Steps(Runtime, "restart") \o Steps(Mempool, "start"), 3)
               ELSE Finish("not ready") /\ UNCHANGED round
     ELSE Finish("config error") /\ UNCHANGED <<round, seen, faults>>
  /\ UNCHANGED <<fileVars, jobVars, searchVars, env, at, initial, tries, starts,
                 hostVars, touched, downs>>

\* Nothing is left to be tried.
GiveUp ==
  /\ pc = "failing"
  /\ round = 3 \/ Machines = {}
  /\ ~RetriesService
  /\ Finish("not ready")
  /\ UNCHANGED <<fileVars, jobVars, searchVars, env, at, initial, loopVars, hostVars,
                 faults, histVars>>

----------------------------------------------------------------------------
(* The specification *)

\* The host changes on its own.
Disturb ==
  /\ Fault
  /\ \/ /\ \E n \in Name : config[n] # Absent /\
             \E x \in Conditions(n) \ {world[n]} : Becomes(n, x)
        /\ UNCHANGED forwarding
     \/ forwarding /\ forwarding' = FALSE /\ UNCHANGED <<world, warm>>
  /\ UNCHANGED <<fileVars, jobVars, searchVars, pc, outcome, planVars, loopVars,
                 histVars>>

\* Mempool comes up, however long belter has waited.
ComesUp ==
  /\ world[Mempool] = "silent"
  /\ Passes(StartupTime)
  /\ UNCHANGED <<fileVars, jobVars, searchVars, pc, outcome, planVars, loopVars,
                 forwarding, faults, histVars>>

\* The steps of the running command.
Proceed ==
  \/ Resolve \/ LoadEnv \/ PlanBlindly \/ ReadGoal \/ ReadNext \/ Planned
  \/ RunProgram \/ ProgramFails
  \/ MachineReady \/ MachineStartsAgain \/ MachineNotReady \/ Executed
  \/ Await \/ RetryService \/ RetryRuntime \/ GiveUp

Next ==
  \/ \E n \in Name, dry \in BOOLEAN :
       \E kind \in ServiceCommand : Invoke(kind, n, dry)
  \/ \E kind \in ConfigCommand, dry \in BOOLEAN :
       InitFile(kind, dry) \/ ValidateFile(kind, dry)
  \/ Proceed
  \/ Disturb
  \/ ComesUp

Spec == Init /\ [][Next]_vars

\* A command runs on.
FairSpec == Spec /\ WF_vars(Proceed)

----------------------------------------------------------------------------
(* Properties *)

\* A bring-up that acts.
Acting == BringUp /\ ~command.dry /\ pc \in {"running", "checking", "probing", "failing"}

\* A command that fails for what the configuration says, and a dry run of a
\* service command, leave every service alone: all is planned before the
\* first program is run, and the plan of a retry cannot fail.
PlansBeforeActing ==
  outcome \in ConfigError \/ command.dry => touched = {}

\* In a configuration that config validate accepts in the environment, no
\* field of a configured service fails a service command or service status,
\* whatever env_files are loaded; an env_file fails only if it cannot be read.
ValidPlans ==
  present /\ Valid(config, Environment) =>
    /\ command.kind \in ServiceCommand /\ config[goal] # Absent => outcome # "config error"
    /\ outcome = "env error" => \E n \in Name : HasEnvFile(config, n) /\ EnvFile[n] = Absent
    /\ \A n \in Name : config[n] # Absent => ~StatusFails(n, Environment)

\* A bring-up acts on what it has read, however long ago: it brings up only
\* what it read as stopped, unknown or degraded, and stops only what it read as
\* degraded, and the containers of a machine that it read so, healthy or not.
ActsOnReadings ==
  [][BringUp /\ Proceed =>
       \A n \in Name :
         /\ world[n] = "stopped" /\ world'[n] # "stopped" =>
              seen[n] \in {"stopped", "unknown", "degraded"}
         /\ world[n] # "stopped" /\ world'[n] = "stopped" =>
              \/ seen[n] = "degraded"
              \/ /\ Is(n, "podman_compose")
                 /\ \E m \in Name : Is(m, "podman_machine") /\ seen[m] = "degraded"]_vars

\* A bring-up takes a service down once; the machine that a retry restarts, and
\* mempool if its state could not be read at first, once more.  With its
\* machine, mempool goes down three times, or four if it could not be read.
RestartsBounded ==
  BringUp =>
    LET once == IF initial = "unknown" THEN 2 ELSE 1 IN
    \A n \in Name :
      /\ downs[n] <= IF n = Mempool THEN once ELSE 2
      /\ downs[n] = 2 => n = Mempool \/ n = Runtime
      /\ Is(n, "podman_machine") => downs[Mempool] + downs[n] <= once + 2

\* When a bring-up of mempool reports success, mempool serves under the URL
\* of its environment after the last answer, whatever has changed since the
\* first one; and service status in that environment raises no false alarm: it
\* reports mempool as it is, or as unknown if the API of a machine fails, which
\* the wait does not look at, and a machine as running if its API answers.
ReadyMeansServing ==
  [][/\ pc # "idle" /\ pc' = "idle"
     /\ BringUp /\ goal = Mempool /\ ~command.dry /\ outcome' = "ok"
     => /\ world[Mempool] \in {"running", "syncing"}
        /\ MachineUp /\ forwarding /\ Url(env) = Listens
        /\ Is(Mempool, "podman_compose") =>
             Status(Mempool, env) = IF PodmanUp THEN world[Mempool] ELSE "unknown"
        /\ \A n \in Name : Is(n, "podman_machine") /\ Readable(config, n, env) =>
             (Status(n, env) = "running" <=> world[n] = "running")]_vars

\* The bring-up follows its policy: it sees to services in the order of
\* their dependencies, reports success when it has seen to all, and retries
\* twice at most.
Policy == INSTANCE BringUpPolicy WITH
  needs <- [n \in Name |-> Needs(n)],
  due <- IF Acting THEN {todo[i].name : i \in DOMAIN todo} ELSE {},
  retries <- IF Acting THEN round - 1 ELSE 0,
  result <- IF ~BringUp \/ command.dry THEN "none"
            ELSE IF Acting THEN "working"
            ELSE IF pc # "idle" THEN "none"
            ELSE IF outcome = "ok" THEN "ok" ELSE "failed"

FollowsPolicy == Policy!Spec

\* Every command ends: the waits for the machine and for mempool, and the
\* retries, come to an end whatever the host does.
Terminates == pc # "idle" ~> pc = "idle"

\* The steps that a running command has left, at most: the passes that its
\* loops still make, those of a wait with four requests each, and the retries,
\* each with the wait that follows it.
Left(i, passes) == IF i <= passes THEN passes - i ELSE 0

ProgramSteps == Checks + 1
WaitSteps == 4 * Attempts + 2
RetrySteps == 3 * ProgramSteps + WaitSteps

\* ... for a plan of so many programs and the waits from round r on,
ExecuteSteps(programs, r) ==
  programs * ProgramSteps + WaitSteps + (3 - r) * RetrySteps

\* ... with services yet to be read, each of which adds two programs,
ReadSteps(services, programs) ==
  services + 1 + ExecuteSteps(programs + 2 * services, 1)

\* ... with env_files yet to be loaded,
LoadSteps(files, services) == files + 1 + ReadSteps(services, 0)

\* ... and with services yet to be visited, each of which may be listed.
VisitSteps(n) ==
  IF config[n] = Absent \/ n \in Range(ordered) THEN 0
  ELSE Len(DependsOn(n)) + 4 + 2 * ProgramSteps - (IF n \in Range(path) THEN next[n] ELSE 0)

StepsLeft ==
  CASE pc = "idle" -> 0
    [] pc = "resolving" ->
         SumFunctionOnSet([n \in Name |-> VisitSteps(n)], Name)
           + LoadSteps(Len(ordered), Len(ordered))
    [] pc = "loading" -> LoadSteps(Left(at, Len(Listed) + 1), Len(Listed))
    [] pc = "reading" -> ReadSteps(Left(at, Len(ordered) + 1), Len(todo))
    [] pc = "running" -> ExecuteSteps(Len(todo), round)
    [] pc = "checking" -> Left(tries, Checks) + 1 + ExecuteSteps(Len(todo) - 1, round)
    [] pc = "probing" -> 4 * Left(tries, Attempts) + Left(at, 4) + 2 + (3 - round) * RetrySteps
    [] pc = "failing" -> 1 + (3 - round) * RetrySteps

\* Each step of a running command uses up some of the steps it has left, and
\* the host gives it no more of them: no wait, no retry and no search goes
\* on for ever, and the length of a command is bounded when it is given.
StepsRunOut ==
  [][/\ StepsLeft \in Nat
     /\ pc # "idle" => \/ StepsLeft' < StepsLeft
                       \/ StepsLeft' = StepsLeft /\ (Disturb \/ ComesUp)]_vars

\* The bring-up of mempool, on a host that needs no more than belter can do.
Recoverable ==
  /\ command = [kind |-> "bring-up", dry |-> FALSE] /\ goal = Mempool
  /\ outcome \notin ConfigError
  /\ forwarding
  /\ Url(env) = Listens \/ pc \in {"resolving", "loading"}
  /\ \A n \in Name : Is(n, "podman_machine") => n \in Closure

\* Repeated bring-ups of mempool succeed in the end, from every state that
\* the services can be in: no state is left as it is, or treated in a way
\* that leads back to it.
Converges ==
  <>[]Recoverable /\ []<>(pc # "idle") => []<>(outcome = "ok")

\* CHANGELOG.md: bring-up mempool recognizes the failure of port forwarding
\* that service status reports for the machine, and restarts the machine.
RecoversForwarding ==
  /\ outcome = "not ready" /\ BringUp /\ goal = Mempool /\ Machines # {}
  /\ RuntimeState(Runtime, env) = "running" /\ Status(Runtime, env) = "degraded"
  => downs[Runtime] > 0

=============================================================================
