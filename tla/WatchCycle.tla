----------------------------- MODULE WatchCycle -----------------------------
(***************************************************************************)
(* What belter-watchdog run does with its watches: one thread goes through *)
(* the due ones in the order of the configuration, and each cycle asks for *)
(* admission, diagnoses, waits, diagnoses again, repairs, and watches the  *)
(* service stabilize.  The events it logs feed the statistics of one watch *)
(* (belter-watchdog stats --watch Subject).                                *)
(*                                                                         *)
(* Time is counted in one coarse unit.  A command may end at any time up   *)
(* to its timeout; the loop itself takes no time.                          *)
(***************************************************************************)
EXTENDS Integers, Sequences, Functions, WatchStats

CONSTANTS
  Order,        \* the enabled watches, in the order of the configuration
  Admission,    \* those that have an allow_command
  Subject,      \* the watch whose history and statistics are kept
  NoWatch,      \* no cycle is running
  Interval,     \* interval_seconds of each watch
  Confirm,      \* confirm_after_seconds of each watch
  Cooldown,     \* cooldown_seconds of each watch
  Timeout,      \* timeout_seconds of each watch
  Stabilize,    \* recovery_stabilization_seconds of each watch
  Poll,         \* recovery_poll_seconds of each watch
  MaxRestarts,  \* bound on restarts of the watchdog
  MaxCount      \* limit of every count in the statistics

Position == DOMAIN Order
Watch == {Order[i] : i \in Position}

ASSUME CycleAssumption ==
  /\ Order \in Seq(Watch)
  /\ IsInjective(Order)
  /\ Admission \subseteq Watch
  /\ Subject \in Watch
  /\ NoWatch \notin Watch
  /\ Interval \in [Watch -> Nat \ {0}]
  /\ Confirm \in [Watch -> Nat]
  /\ Cooldown \in [Watch -> Nat]
  /\ Timeout \in [Watch -> Nat \ {0}]
  /\ Stabilize \in [Watch -> Nat]
  /\ Poll \in [Watch -> Nat \ {0}]
  /\ MaxRestarts \in Nat
  /\ MaxCount \in Nat \ {0}

VARIABLES
  pc,           \* where the loop is
  stage,        \* what the current question or diagnosis is for
  cur,          \* the watch whose cycle is running
  pending,      \* watches still to be visited in this pass
  due,          \* time to next_check of each watch, negative when overdue
  left,         \* time left of the running command or sleep
  settling,     \* time left of the stabilization
  restarts,     \* number of restarts so far
  stats,        \* the statistics, as read from the log so far
  truth,        \* history: what happened to Subject, counted as it happens
  suspect,      \* history: time since the first unhealthy answer in a row
  fresh,        \* history: admission was granted since the last answer
  sinceRepair   \* history: time since the last recovery of Subject ended

loopVars == <<pc, stage, cur, pending>>
timeVars == <<due, left, settling>>
logVars == <<stats, truth>>
histVars == <<suspect, fresh, sinceRepair>>
vars == <<loopVars, timeVars, restarts, logVars, histVars>>

InCycle == {"asking", "diagnosing", "waiting", "recovering", "closing"}
Stage == {"check", "confirm", "repair", "post", "settle"}
Health == {"healthy", "syncing", "unhealthy"}

Longer(a, b) == IF a > b THEN a ELSE b
Shorter(a, b) == IF a < b THEN a ELSE b
\* Variant: the cooldown comes on top of the interval.
LongSum(w) == Interval[w] + Cooldown[w]

\* The delay after a recovery and after an error.
Long(w) == Longer(Interval[w], Cooldown[w])

\* An unbroken series of unhealthy answers has not begun.
NoSuspicion == -1

\* The least time between two recoveries of Subject.
Spacing == Interval[Subject] + Confirm[Subject]

\* What is counted as it happens: recovered are the outcomes "recovered" in
\* the log, unlogged the healthy checks whose outcome never got there.
Truth ==
  [outages : 0..MaxCount, attempts : 0..MaxCount, recovered : 0..MaxCount,
   unlogged : 0..MaxCount]

TypeOK ==
  /\ pc \in InCycle \cup {"loop", "pass", "idle"}
  /\ stage \in Stage
  /\ cur \in Watch \cup {NoWatch}
  /\ pending \subseteq Watch
  /\ due \in [Watch -> Int]
  /\ \A w \in Watch : due[w] <= Interval[w] \/ due[w] <= Cooldown[w]
  /\ left \in Nat
  /\ settling \in Nat
  /\ restarts \in 0..MaxRestarts
  /\ stats \in Reader(MaxCount)
  /\ truth \in Truth
  /\ suspect \in Nat \cup {NoSuspicion}
  /\ fresh \in BOOLEAN
  /\ sinceRepair \in 0..Spacing

----------------------------------------------------------------------------
(* Steps that the operations are made of *)

\* Run the admission command, or go on at once if there is none.
Ask(w, s) ==
  /\ pc' = "asking"
  /\ stage' = s
  /\ left' = Timeout[w]

Sleep(time) ==
  /\ pc' = "waiting"
  /\ left' = time

\* run_watch_cycle has returned, with the delay until the next check.
EndCycle(delay) ==
  /\ pc' = "pass"
  /\ stage' = "check"
  /\ cur' = NoWatch
  /\ due' = [due EXCEPT ![cur] = delay]
  /\ left' = 0
  /\ settling' = 0

\* Write an event; the report of Subject leaves out every other watch.
Log(e) == stats' = IF cur = Subject THEN Apply(stats, e, MaxCount) ELSE stats

\* The same for the history, which counts the event under the given name.
Count(what) ==
  truth' = IF cur = Subject THEN [truth EXCEPT ![what] = Plus(@, TRUE, MaxCount)]
                            ELSE truth

----------------------------------------------------------------------------
(* The loop *)

\* A pass looks at the clock once.
StartPass ==
  /\ pc = "loop"
  /\ pending' = {w \in Watch : due[w] <= 0}
  /\ pc' = "pass"
  /\ UNCHANGED <<stage, cur, timeVars, restarts, logVars, histVars>>

\* The cycle of the next watch that was due when the pass began.
Visit(w) ==
  /\ pc = "pass"
  /\ w \in pending
  /\ \A i, j \in Position : Order[i] = w /\ Order[j] \in pending => i <= j
  /\ cur' = w
  /\ pending' = pending \ {w}
  /\ Ask(w, "check")
  /\ suspect' = NoSuspicion
  /\ fresh' = FALSE
  /\ UNCHANGED <<due, settling, restarts, logVars, sinceRepair>>

\* Sleep until the next check is due, but a unit of time at most.
EndPass ==
  /\ pc = "pass"
  /\ pending = {}
  /\ pc' = "idle"
  /\ left' = IF \E w \in Watch : due[w] <= 0 THEN 0 ELSE 1
  /\ UNCHANGED <<stage, cur, pending, due, settling, restarts, logVars, histVars>>

WakeUp ==
  /\ pc = "idle"
  /\ left = 0
  /\ pc' = "loop"
  /\ UNCHANGED <<stage, cur, pending, timeVars, restarts, logVars, histVars>>

----------------------------------------------------------------------------
(* Admission: recovery_allowed *)

\* Exit 0, or no allow_command.  Before a repair the recovery command starts
\* right away, in every other stage a diagnosis.
Granted ==
  /\ pc = "asking"
  /\ left' = Timeout[cur]
  /\ fresh' = TRUE
  /\ \/ stage = "repair" /\ pc' = "recovering" /\ Log("start") /\ Count("attempts")
     \/ stage # "repair" /\ pc' = "diagnosing" /\ UNCHANGED logVars
  /\ UNCHANGED <<stage, cur, pending, due, settling, restarts, suspect, sinceRepair>>

\* Variant: the watch is asked again at once.
RefusedAtOnce ==
  /\ pc = "asking"
  /\ cur \in Admission
  /\ EndCycle(0)
  /\ UNCHANGED <<pending, restarts, logVars, histVars>>

\* Exit 75 (paused), another exit code or the timeout (blocked).
Refused ==
  /\ pc = "asking"
  /\ cur \in Admission
  /\ EndCycle(Interval[cur])
  /\ UNCHANGED <<pending, restarts, logVars, histVars>>

\* A command cannot be spawned: the cycle ends with an error.
CommandBreaks ==
  /\ pc \in {"asking", "diagnosing", "recovering"}
  /\ pc = "asking" => cur \in Admission
  /\ left = Timeout[cur]
  /\ EndCycle(Long(cur))
  /\ UNCHANGED <<pending, restarts, logVars, histVars>>

----------------------------------------------------------------------------
(* Diagnosis: run_diagnose and what the cycle makes of the answer *)

\* The history of an answer.
Note(h) ==
  /\ fresh' = FALSE
  /\ suspect' = CASE h # "unhealthy" -> NoSuspicion
                  [] suspect = NoSuspicion -> 0
                  [] OTHER -> suspect
  /\ UNCHANGED sinceRepair

\* A diagnosis that is still running at its timeout counts as unhealthy.
Answer(h) ==
  /\ pc = "diagnosing"
  /\ left = 0 => h = "unhealthy"
  /\ Note(h)
  /\ UNCHANGED <<pending, restarts>>

\* The service is well, or catching up: nothing is repaired.
NothingToDo(h) ==
  /\ Answer(h)
  /\ stage \in {"check", "confirm"}
  /\ h # "unhealthy"
  /\ EndCycle(Interval[cur])
  /\ UNCHANGED logVars

Suspected ==
  /\ Answer("unhealthy")
  /\ stage = "check"
  /\ \/ Confirm[cur] > 0 /\ Sleep(Confirm[cur]) /\ UNCHANGED stage
     \/ Confirm[cur] = 0 /\ Ask(cur, "repair")
  /\ UNCHANGED <<cur, due, settling, logVars>>

\* Variant: no second look at admission after the confirmation.
ConfirmedAndRepaired ==
  /\ Answer("unhealthy")
  /\ stage = "confirm"
  /\ pc' = "recovering" /\ left' = Timeout[cur] /\ stage' = "repair"
  /\ Log("confirmed")
  /\ Count("outages")
  /\ UNCHANGED <<cur, due, settling>>

Confirmed ==
  /\ Answer("unhealthy")
  /\ stage = "confirm"
  /\ Ask(cur, "repair")
  /\ Log("confirmed")
  /\ Count("outages")
  /\ UNCHANGED <<cur, due, settling>>

\* The service is healthy after the recovery: the outcome is logged next.
\* Only the first check after the recovery closes an incident by itself.
Repaired ==
  /\ Answer("healthy")
  /\ stage \in {"post", "settle"}
  /\ pc' = "closing"
  /\ left' = 0
  /\ IF stage = "post" THEN Log("post_healthy") ELSE UNCHANGED stats
  /\ UNCHANGED <<stage, cur, due, settling, truth>>

\* outcome=stabilizing: no statistics are kept of it.
CatchingUp ==
  /\ Answer("syncing")
  /\ stage \in {"post", "settle"}
  /\ EndCycle(Long(cur))
  /\ UNCHANGED logVars

\* Variant: every unhealthy check starts the stabilization anew.
StabilizeAgain ==
  /\ Answer("unhealthy")
  /\ stage \in {"post", "settle"}
  /\ settling' = Stabilize[cur]
  /\ Sleep(Shorter(Poll[cur], Stabilize[cur]))
  /\ UNCHANGED <<stage, cur, due, logVars>>

\* Still unhealthy: sleep as long as the stabilization has time left.
Stabilizing ==
  /\ Answer("unhealthy")
  /\ stage \in {"post", "settle"}
  /\ settling' = IF stage = "post" THEN Stabilize[cur] ELSE settling
  /\ settling' > 0
  /\ Sleep(Shorter(Poll[cur], settling'))
  /\ UNCHANGED <<stage, cur, due, logVars>>

\* outcome=unrecovered, an error of the cycle.
Unrecovered ==
  /\ Answer("unhealthy")
  /\ \/ stage = "post" /\ Stabilize[cur] = 0
     \/ stage = "settle" /\ settling = 0
  /\ EndCycle(Long(cur))
  /\ UNCHANGED logVars

\* finish_recovery: outcome=recovered.
FinishRecovery ==
  /\ pc = "closing"
  /\ Log("recovered")
  /\ Count("recovered")
  /\ EndCycle(Long(cur))
  /\ UNCHANGED <<pending, restarts, histVars>>

\* Variant: the check after the sleep is a first check again.
SleepEndsAtCheck ==
  /\ pc = "waiting"
  /\ left = 0
  /\ Ask(cur, IF stage = "check" THEN "check" ELSE "settle")
  /\ UNCHANGED <<cur, pending, due, settling, restarts, logVars, histVars>>

\* The sleep before the confirmation, or between two checks, is over.
SleepEnds ==
  /\ pc = "waiting"
  /\ left = 0
  /\ Ask(cur, IF stage = "check" THEN "confirm" ELSE "settle")
  /\ UNCHANGED <<cur, pending, due, settling, restarts, logVars, histVars>>

----------------------------------------------------------------------------
(* Recovery *)

\* Exit 75 of a watch with an allow_command: the recovery was deferred.
DefersRecovery(x) == x = "deferred" /\ cur \in Admission

RecoveryEnds(x) ==
  /\ pc = "recovering"
  /\ x = "timeout" => left = 0
  /\ Log(x)
  /\ sinceRepair' = IF cur = Subject THEN 0 ELSE sinceRepair
  /\ \/ DefersRecovery(x) /\ EndCycle(Interval[cur])
     \/ ~DefersRecovery(x) /\ Ask(cur, "post") /\ UNCHANGED <<cur, due, settling>>
  /\ UNCHANGED <<pending, restarts, truth, suspect, fresh>>

----------------------------------------------------------------------------
(* Time, and the end of the process *)

\* Time passes in commands and sleeps.
Tick ==
  /\ pc \in InCycle \cup {"idle"}
  /\ pc = "asking" => cur \in Admission
  /\ left > 0
  /\ left' = left - 1
  /\ settling' = Longer(settling - 1, 0)
  /\ due' = [w \in Watch |-> IF w = cur THEN due[w] ELSE due[w] - 1]
  /\ suspect' = IF suspect = NoSuspicion \/ cur = NoWatch
                THEN NoSuspicion ELSE Shorter(suspect + 1, Confirm[cur])
  /\ sinceRepair' = Shorter(sinceRepair + 1, Spacing)
  /\ UNCHANGED <<loopVars, restarts, logVars, fresh>>

\* A healthy check closed the incident of Subject, and its outcome is not yet
\* logged.
Announced == pc = "closing" /\ stage = "post" /\ cur = Subject

\* The watchdog ends, by a signal or not, and is started again: next_check
\* of every watch is forgotten, the log is appended to.
Restart ==
  /\ restarts < MaxRestarts
  /\ restarts' = restarts + 1
  /\ pc' = "loop"
  /\ stage' = "check"
  /\ cur' = NoWatch
  /\ pending' = {}
  /\ due' = [w \in Watch |-> 0]
  /\ left' = 0
  /\ settling' = 0
  /\ suspect' = NoSuspicion
  /\ fresh' = FALSE
  /\ sinceRepair' = Spacing
  /\ truth' = [truth EXCEPT !.unlogged = Plus(@, Announced, MaxCount)]
  /\ UNCHANGED stats

----------------------------------------------------------------------------

Init ==
  /\ pc = "loop"
  /\ stage = "check"
  /\ cur = NoWatch
  /\ pending = {}
  /\ due = [w \in Watch |-> 0]
  /\ left = 0
  /\ settling = 0
  /\ restarts = 0
  /\ stats = EmptyReader
  /\ truth = [outages |-> 0, attempts |-> 0, recovered |-> 0, unlogged |-> 0]
  /\ suspect = NoSuspicion
  /\ fresh = FALSE
  /\ sinceRepair = Spacing

LoopNext == StartPass \/ (\E w \in Watch : Visit(w)) \/ EndPass \/ WakeUp

CycleNext ==
  \/ Granted \/ Refused \/ CommandBreaks
  \/ \E h \in Health : NothingToDo(h)
  \/ Suspected \/ Confirmed \/ Repaired \/ CatchingUp
  \/ Stabilizing \/ Unrecovered \/ FinishRecovery \/ SleepEnds
  \/ \E x \in Exit : RecoveryEnds(x)

Next == LoopNext \/ CycleNext \/ Tick \/ Restart

Spec == Init /\ [][Next]_vars

(***************************************************************************)
(* Fairness.  The loop takes its next step and time passes, so that every  *)
(* command is cut off in the end.  For the watch Subject, a question is    *)
(* granted and a diagnosis answered "unhealthy" some time when it is asked *)
(* for ever, which is the case of a service that stays down on a free host.*)
(***************************************************************************)
Fairness ==
  /\ WF_vars(LoopNext \/ CycleNext)
  /\ WF_vars(Tick)
  /\ \A s \in {"check", "confirm", "repair"} :
       SF_vars(Granted /\ cur = Subject /\ stage = s)
  /\ SF_vars(Suspected /\ cur = Subject)
  /\ SF_vars(Confirmed /\ cur = Subject)

FairSpec == Spec /\ Fairness

----------------------------------------------------------------------------
(* Properties *)

\* A recovery runs only for a service that was found unhealthy at each of the
\* checks of its cycle over the whole confirmation time, and only when
\* admission was granted after the last of them.
RepairsOnlyConfirmed == pc = "recovering" => suspect >= Confirm[cur] /\ fresh

\* However a cycle ends, the next recovery of the watch begins no earlier
\* than Interval and the confirmation after the last one ended.
RepairsSpaced ==
  [][pc # "recovering" /\ pc' = "recovering" /\ cur = Subject =>
       sinceRepair >= Spacing]_vars

\* The longest cycle: ten commands that run to their timeout, and the sleeps.
LongestCycle == [w \in Watch |-> 10 * Timeout[w] + Confirm[w] + Stabilize[w]]

\* A watch that is due waits for two cycles of every other watch at most.
Punctual ==
  \A w \in Watch :
    LET others == SumFunctionOnSet(LongestCycle, Watch \ {w})
    IN  due[w] >= -(2 * others)

\* A service that stays down on a free host is repaired again and again.
DownIsRepaired == []<>(pc = "recovering" /\ cur = Subject)

\* The report, read from the log at any time, counts the confirmed outages
\* and the recovery attempts once each.  A recovery it counts once too, but not
\* by its outcome alone: the healthy check before the outcome is enough, also
\* when the watchdog ends between the two and the outcome is never logged.
StatsAgree ==
  Confirm[Subject] > 0 =>
    LET report == Report(stats, MaxCount)
        silent == truth.unlogged + (IF Announced THEN 1 ELSE 0)
    IN
    /\ report.outages = truth.outages
    /\ report.attempts = truth.attempts
    /\ report.recovered = Shorter(truth.recovered + silent, MaxCount)

\* The report counts as failures only recovery commands that failed: "A
\* code-75 recovery is a deferral, not a failed repair."
DeferralIsNoFailure ==
  [][RecoveryEnds("deferred") /\ DefersRecovery("deferred") =>
       Report(stats', MaxCount).failures = Report(stats, MaxCount).failures]_vars

----------------------------------------------------------------------------
(* Why: the inductive invariant *)

\* A cycle is running for one watch, and its stage fits where it is.
LoopInv ==
  /\ pc \in InCycle <=> cur # NoWatch
  /\ \A w \in pending : due[w] <= 0 /\ w # cur
  /\ ~(pc \in InCycle) => stage = "check"
  /\ pc = "recovering" => stage = "repair"
  /\ pc = "diagnosing" => stage # "repair"
  /\ pc = "waiting" => stage \notin {"confirm", "repair"}
  /\ pc = "closing" => stage \in {"post", "settle"}

\* The service has been suspected for as long as the confirmation lasts.
SuspectInv ==
  /\ pc = "waiting" /\ stage = "check" =>
       suspect >= 0 /\ left <= Confirm[cur] /\ suspect + left >= Confirm[cur]
  /\ stage \in {"confirm", "repair"} => suspect >= Confirm[cur]
  /\ pc = "recovering" => fresh

\* How far back the last recovery of Subject lies.
SpacingInv ==
  /\ cur # Subject =>
       \/ sinceRepair >= Interval[Subject]
       \/ sinceRepair + due[Subject] >= Interval[Subject]
  /\ cur = Subject /\ stage = "check" =>
       /\ sinceRepair >= Interval[Subject]
       /\ pc = "waiting" => sinceRepair + left >= Spacing /\ left <= Confirm[Subject]
  /\ cur = Subject /\ stage \in {"confirm", "repair"} /\ pc # "recovering" =>
       sinceRepair >= Spacing

\* The reader of the log has an incident open from the confirmation of an
\* outage to the outcome of its recovery.
IncidentInv ==
  cur = Subject /\ Confirm[Subject] > 0 =>
    /\ stage = "repair" =>
         stats.incident.open /\ (pc = "asking" => ~stats.incident.started)
    /\ stage \in {"post", "settle"} /\ ~Announced => stats.incident.open
    /\ Announced => ~stats.incident.open

\* The longest that the running cycle may still take.
TimeLeft ==
  LET t == Timeout[cur]
      answer == IF pc = "asking" THEN left + t ELSE left
      stabilization == Stabilize[cur] + 2 * t
  IN
  CASE cur = NoWatch -> 0
    [] cur # NoWatch /\ stage = "check" ->
         (IF pc = "waiting" THEN left ELSE answer + Confirm[cur]) + 6 * t + stabilization
    [] cur # NoWatch /\ stage = "confirm" -> answer + 4 * t + stabilization
    [] cur # NoWatch /\ stage = "repair" -> answer + 2 * t + stabilization
    [] cur # NoWatch /\ stage = "post" /\ pc # "waiting" -> answer + stabilization
    [] OTHER -> IF pc = "waiting" \/ settling > 0 THEN settling + 2 * t ELSE answer

\* Commands and sleeps have no more time than they were given; nobody waits
\* outside of a pass.
LeftInv ==
  /\ pc \in {"asking", "diagnosing", "recovering"} => left <= Timeout[cur]
  /\ pc = "waiting" /\ stage # "check" => left <= settling
  /\ pc \in {"loop", "idle"} => pending = {}
  /\ pc = "idle" => left <= 1
  /\ pc = "closing" => left = 0

\* How late each watch may become while it waits for the running cycle and
\* for those before it: a watch that came due during a pass waits for the
\* rest of it, and then for its turn in the next one.
TurnInv ==
  \A w \in Watch :
    LET others == SumFunctionOnSet(LongestCycle, Watch \ {w})
        before == SumFunctionOnSet(LongestCycle, pending \ {w})
    IN
    /\ w = cur => due[w] >= -(2 * others)
    /\ w # cur => due[w] - TimeLeft - before >=
                    IF w \in pending THEN -(2 * others) ELSE -others
    /\ pc = "idle" => due[w] - left >= -others

=============================================================================
