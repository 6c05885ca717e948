--------------------------- MODULE WorkloadPolicy ---------------------------
(***************************************************************************)
(* What contrib/workload-handoff promises to the host, without leases,     *)
(* stamps or programs: the optional project and CI exclude each other, a   *)
(* start command is launched only when Cooldown has passed since the last  *)
(* launch and Settle since a runner was alive, and while it runs no runner *)
(* appears.  WorkloadHandoff implements it.                                *)
(***************************************************************************)
EXTENDS Integers

CONSTANTS Settle, Cooldown

VARIABLES
  optional,     \* containers of the optional project are up
  starting,     \* a start command is running
  runner,       \* a CI runner is alive
  job,          \* a CI job container is up
  sinceLaunch,  \* time since the last launch, up to Cooldown
  sinceRunner   \* time since a runner was alive, up to Settle

policyVars == <<optional, starting, runner, job, sinceLaunch, sinceRunner>>

Elapse(age, limit) == IF age < limit THEN age + 1 ELSE limit

Init ==
  /\ optional \in BOOLEAN
  /\ starting = FALSE
  /\ runner = FALSE
  /\ job = FALSE
  /\ sinceLaunch = Cooldown
  /\ sinceRunner = Settle

Launch ==
  /\ ~starting /\ ~runner /\ ~job
  /\ sinceLaunch >= Cooldown
  /\ sinceRunner >= Settle
  /\ starting' = TRUE
  /\ sinceLaunch' = 0
  /\ UNCHANGED <<optional, runner, job, sinceRunner>>

\* Containers come up only under a start command; they may go at any time.
OptionalUp ==
  /\ starting /\ ~runner /\ ~job
  /\ optional' = TRUE
  /\ UNCHANGED <<starting, runner, job, sinceLaunch, sinceRunner>>

OptionalDown ==
  /\ optional' = FALSE
  /\ UNCHANGED <<starting, runner, job, sinceLaunch, sinceRunner>>

StartEnds ==
  /\ starting' = FALSE
  /\ UNCHANGED <<optional, runner, job, sinceLaunch, sinceRunner>>

RunnerUp ==
  /\ ~optional /\ ~starting /\ ~runner /\ ~job
  /\ runner' = TRUE
  /\ sinceRunner' = 0
  /\ UNCHANGED <<optional, starting, job, sinceLaunch>>

\* A job needs its runner to appear and may outlive it.
JobUp ==
  /\ runner
  /\ job' = TRUE
  /\ UNCHANGED <<optional, starting, runner, sinceLaunch, sinceRunner>>

CIDown ==
  /\ runner' \in {runner, FALSE}
  /\ job' \in {job, FALSE}
  /\ UNCHANGED <<optional, starting, sinceLaunch, sinceRunner>>

Tick ==
  /\ sinceLaunch' = Elapse(sinceLaunch, Cooldown)
  /\ sinceRunner' = IF runner THEN 0 ELSE Elapse(sinceRunner, Settle)
  /\ UNCHANGED <<optional, starting, runner, job>>

Next ==
  \/ Launch \/ OptionalUp \/ OptionalDown \/ StartEnds
  \/ RunnerUp \/ JobUp \/ CIDown \/ Tick

Spec == Init /\ [][Next]_policyVars
=============================================================================
