----------------------------- MODULE WatchStats -----------------------------
(***************************************************************************)
(* belter-watchdog stats: what the report says of one watch after reading  *)
(* its log from the start.  The reader keeps one open incident and pushes  *)
(* it on a list when it is closed; of the list only the sums that the      *)
(* report prints are kept here, each up to a limit.                        *)
(***************************************************************************)
EXTENDS Integers

\* The events that change the counts; Done carries the exit of the command.
Exit == {"zero", "failed", "deferred", "timeout"}
Event == {"confirmed", "start", "post_healthy", "recovered"} \cup Exit

NoIncident == [open |-> FALSE, started |-> FALSE, failed |-> FALSE]
Incident == [open : BOOLEAN, started : BOOLEAN, failed : BOOLEAN]

Counts(limit) ==
  [outages : 0..limit, recovered : 0..limit, attempts : 0..limit,
   failures : 0..limit]
Nothing == [outages |-> 0, recovered |-> 0, attempts |-> 0, failures |-> 0]

Plus(n, more, limit) == IF more /\ n < limit THEN n + 1 ELSE n

\* The counts with one more incident on the list.
Push(c, incident, recovered, limit) ==
  [outages   |-> Plus(c.outages, TRUE, limit),
   recovered |-> Plus(c.recovered, recovered, limit),
   attempts  |-> Plus(c.attempts, incident.started, limit),
   failures  |-> Plus(c.failures, incident.failed, limit)]

Reader(limit) == [counts : Counts(limit), incident : Incident]
EmptyReader == [counts |-> Nothing, incident |-> NoIncident]

\* Variant: an incident is pushed whether or not one is open.
CloseAny(r, recovered, limit) ==
  [counts |-> Push(r.counts, r.incident, recovered, limit),
   incident |-> NoIncident]

\* The open incident, if there is one, goes to the list.
Close(r, recovered, limit) ==
  IF r.incident.open
  THEN [counts |-> Push(r.counts, r.incident, recovered, limit),
        incident |-> NoIncident]
  ELSE r

\* WatchStatsBuilder::apply.
Apply(r, e, limit) ==
  CASE e = "confirmed" ->
         [Close(r, FALSE, limit) EXCEPT
            !.incident = [NoIncident EXCEPT !.open = TRUE]]
    [] e \in {"post_healthy", "recovered"} -> Close(r, TRUE, limit)
    [] e = "start" /\ r.incident.open -> [r EXCEPT !.incident.started = TRUE]
    [] e \in Exit /\ r.incident.open ->
         [r EXCEPT !.incident.failed = e # "zero"]
    [] OTHER -> r

\* WatchStatsBuilder::finish.
Report(r, limit) == Close(r, FALSE, limit).counts

=============================================================================
