--------------------------- MODULE ServiceConfig ---------------------------
(***************************************************************************)
(* The configuration of belter: what belter.toml says of each service,     *)
(* what the commands need of it, and what config validate looks at.        *)
(*                                                                         *)
(* A configuration is a function from names to services, with Absent where *)
(* the file has no block.  A template is a text with placeholders: one     *)
(* that always expands, one that needs a variable, or a missing field.  An *)
(* environment gives each variable a value or leaves it unset.             *)
(***************************************************************************)
EXTENDS Naturals, Sequences

CONSTANTS
  Name,          \* names of services
  Mempool,       \* the service with a readiness contract over HTTP
  Required,      \* REQUIRED_SERVICES
  Absent,        \* no such service, or no env_file
  Var,           \* the environment variables the templates name
  Value,         \* their values
  Unset,         \* a variable without a value
  HostVar,       \* MEMPOOL_HOST and MEMPOOL_PORT
  DefaultHost,   \* 127.0.0.1:8080
  EnvFile,       \* what each service's env_file sets, or Absent if it is unreadable
  Environment,   \* the environment of the process, with the .env files loaded
  Example,       \* example_service_block
  DefaultConfig  \* default_config_template

Manager == {"launchd", "podman_compose", "podman_machine"}
Template == {"plain", "missing"} \cup Var
Env == [Var -> Value \cup {Unset}]

\* `field` is what the manager cannot do without: unit, compose_file or
\* machine.  `extras` are compose_override and project.  Any other manager is
\* "other"; a block without one does not parse, and with it the whole file.
Service == [manager : Manager \cup {"other"}, field : Template,
            extras : SUBSET Template, env_file : Template \cup {Absent},
            depends_on : Seq(Name)]

Config == [Name -> Service \cup {Absent}]

ASSUME ConfigAssumption ==
  /\ Mempool \in Name
  /\ Required \subseteq Name
  /\ Absent \notin Name \cup Service \cup Template \cup Env
  /\ Unset \notin Value
  /\ HostVar \in Var
  /\ {"plain", "missing"} \cap Var = {}
  /\ DefaultHost \in Value
  /\ EnvFile \in [Name -> Env \cup {Absent}]
  /\ Environment \in Env
  /\ Example \in [Required -> Service]
  /\ DefaultConfig \in Config

----------------------------------------------------------------------------
(* Placeholders and the environment *)

\* expand_placeholders succeeds.
Expands(t, env) == t = "plain" \/ (t \in Var /\ env[t] # Unset)

\* The env_file of a Compose service is loaded before anything is planned.
HasEnvFile(c, n) ==
  c[n] # Absent /\ c[n].manager = "podman_compose" /\ c[n].env_file # Absent

Loads(c, n, env) == Expands(c[n].env_file, env) /\ EnvFile[n] # Absent

\* Variant: the file takes the place of the environment.
Replaced(n, env) == EnvFile[n]

\* A variable of the file overrides the one of the environment.
Overridden(n, env) ==
  [v \in Var |-> IF EnvFile[n][v] = Unset THEN env[v] ELSE EnvFile[n][v]]

\* Where belter expects mempool to answer.
Url(env) == IF env[HostVar] = Unset THEN DefaultHost ELSE env[HostVar]

----------------------------------------------------------------------------
(* What the commands need of a service *)

\* ServiceCommandRequest::plan returns an operation.
Plannable(c, n, env) ==
  /\ c[n] # Absent
  /\ c[n].manager \in Manager
  /\ Expands(c[n].field, env)
  /\ c[n].manager = "podman_compose" => \A t \in c[n].extras : Expands(t, env)

\* compute_runtime_state returns a state, if only "unknown".
Readable(c, n, env) ==
  /\ c[n] # Absent
  /\ CASE c[n].manager = "podman_compose" ->
            \A t \in {c[n].field} \cup c[n].extras : Expands(t, env)
       [] c[n].manager \in {"launchd", "podman_machine"} -> Expands(c[n].field, env)
       [] OTHER -> FALSE

----------------------------------------------------------------------------
(* config validate *)

ValidService(s, env) ==
  /\ s.manager \in Manager
  /\ Expands(s.field, env)
  /\ s.manager = "podman_compose" =>
       \A t \in s.extras \cup ({s.env_file} \ {Absent}) : Expands(t, env)

\* depends_on is not looked at.
Valid(c, env) ==
  /\ \A n \in Required : c[n] # Absent
  /\ \A n \in Name : c[n] # Absent => ValidService(c[n], env)

\* append_missing_required_services.
WithMissing(c) ==
  [n \in Name |-> IF n \in Required /\ c[n] = Absent THEN Example[n] ELSE c[n]]

=============================================================================
