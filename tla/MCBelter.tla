------------------------------ MODULE MCBelter ------------------------------
(***************************************************************************)
(* The four services of the default configuration, on hosts in every       *)
(* condition; configurations that lack something; and every graph of       *)
(* dependencies of at most two for each of three services, one of which    *)
(* may not exist, for the search alone.                                    *)
(***************************************************************************)
EXTENDS Belter, TLC

CONSTANTS bitcoind, stratum, mempool, runtime, unset, absent

MCName == {bitcoind, stratum, mempool, runtime}
MCRequired == {bitcoind, stratum, mempool}
MCVar == {"HOST", "UNIT", "EXTRA"}
MCValue == {"here", "there"}
MCEnvironment == [v \in MCVar |-> IF v = "UNIT" THEN "here" ELSE unset]

\* mempool.env says where mempool answers.
MCEnvFile ==
  [n \in MCName |->
     IF n = mempool THEN [v \in MCVar |-> IF v = "HOST" THEN "there" ELSE unset]
     ELSE absent]

Launchd(needed) ==
  [manager |-> "launchd", field |-> "UNIT", extras |-> {}, env_file |-> absent,
   depends_on |-> needed]
Machine == [Launchd(<<>>) EXCEPT !.manager = "podman_machine"]
Compose(needed) ==
  [Launchd(needed) EXCEPT !.manager = "podman_compose", !.extras = {"plain"},
                          !.env_file = "plain"]

MCExample ==
  (bitcoind :> Launchd(<<>>)) @@ (stratum :> Launchd(<<>>)) @@ (mempool :> Compose(<<>>))

MCDefaultConfig ==
  [n \in MCName |->
     CASE n = bitcoind -> Launchd(<<>>)
       [] n = stratum -> Launchd(<<bitcoind>>)
       [] n = mempool -> Compose(<<bitcoind, runtime>>)
       [] n = runtime -> Machine]

NoConfig == [n \in MCName |-> absent]

\* One service has lost a field, a variable, a file, its manager or itself.
Broken ==
  LET With(n, s) == [MCDefaultConfig EXCEPT ![n] = s] IN
  {With(mempool, [Compose(<<bitcoind, runtime>>) EXCEPT !.field = "missing"]),
   With(mempool, [Compose(<<runtime>>) EXCEPT !.extras = {"EXTRA"}]),
   With(mempool, [Compose(<<runtime>>) EXCEPT !.env_file = "EXTRA"]),
   With(mempool, Launchd(<<bitcoind>>)),
   With(bitcoind, [Launchd(<<>>) EXCEPT !.field = "EXTRA"]),
   With(bitcoind, [Launchd(<<>>) EXCEPT !.manager = "other"]),
   With(stratum, Compose(<<runtime>>)),
   With(stratum, absent),
   With(mempool, absent),
   With(runtime, absent)}

\* Every small graph, for the search alone.
Graphs ==
  LET lists == {<<>>} \cup {<<a>> : a \in MCName}
                 \cup {<<a, b>> : a \in MCName, b \in MCName} IN
  {[n \in MCName |->
      CASE n = mempool -> Launchd(a) [] n = bitcoind -> Launchd(b)
        [] n = stratum -> Launchd(c) [] n = runtime -> absent] :
     a \in lists, b \in lists, c \in lists}

HostOf(c, w, f, faulty) ==
  [config |-> c, present |-> c # NoConfig, world |-> w, forwarding |-> f,
   faults |-> faulty]

\* The conditions in which the services of the default configuration can be.
Worlds ==
  {w \in [MCName -> {"stopped", "silent", "syncing", "broken", "degraded", "running"}] :
     /\ w[bitcoind] \in {"stopped", "running"}
     /\ w[stratum] = "running"
     /\ w[runtime] \in {"stopped", "degraded", "running"}
     /\ w[mempool] \in IF w[runtime] = "stopped" THEN {"stopped"}
                       ELSE {"stopped", "silent", "syncing", "broken", "running"}}
Up == [n \in MCName |-> "running"]
Down == [n \in MCName |-> "stopped"]

MCHosts ==
  {HostOf(MCDefaultConfig, w, f, MaxFaults) : w \in Worlds, f \in BOOLEAN}
    \cup {HostOf(c, Up, TRUE, MaxFaults) : c \in Broken \cup {NoConfig}}
    \cup {HostOf(c, Down, TRUE, 0) : c \in Graphs}

\* What is asked under a configuration: all of it under the default one.
MCCommands(c) ==
  IF c \in Graphs
  THEN [kind : {"bring-up"}, goal : {mempool}, dry : {TRUE}]
  ELSE IF c = MCDefaultConfig
  THEN [kind : {"bring-up", "stop"}, goal : {mempool, runtime}, dry : {FALSE}]
         \cup [kind : {"start", "restart"}, goal : {mempool, stratum}, dry : {FALSE}]
         \cup [kind : {"validate"}, goal : MCName, dry : {FALSE}]
  ELSE [kind : {"bring-up", "start"}, goal : {mempool}, dry : BOOLEAN]
         \cup [kind : ConfigCommand, goal : MCName, dry : {FALSE}]

MCListens == "there"
=============================================================================
