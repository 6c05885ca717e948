---------------------------- MODULE CycleProofs ----------------------------
(***************************************************************************)
(* The watchdog repairs only what it confirmed, keeps its recoveries       *)
(* apart, counts each outage and recovery once, and visits every watch in  *)
(* time: proved of WatchCycle for any number of watches and any settings.  *)
(***************************************************************************)
EXTENDS WatchCycle, FiniteSums

----------------------------------------------------------------------------
(* The reader of the log *)

\* A count stays below its limit.
LEMMA PlusType ==
  ASSUME NEW limit \in Nat, NEW n \in 0..limit, NEW more \in BOOLEAN
  PROVE  Plus(n, more, limit) \in 0..limit
BY DEF Plus

\* Pushing an incident keeps the types of the counts.
LEMMA PushType ==
  ASSUME NEW limit \in Nat, NEW c \in Counts(limit), NEW i \in Incident,
         NEW recovered \in BOOLEAN
  PROVE  Push(c, i, recovered, limit) \in Counts(limit)
BY PlusType DEF Push, Counts, Incident

\* Closing an incident keeps the types of the reader.
LEMMA CloseType ==
  ASSUME NEW limit \in Nat, NEW r \in Reader(limit), NEW recovered \in BOOLEAN
  PROVE  Close(r, recovered, limit) \in Reader(limit)
BY PushType DEF Close, Reader, NoIncident, Incident

\* Reading an event keeps the types of the reader.
LEMMA ApplyType ==
  ASSUME NEW limit \in Nat, NEW r \in Reader(limit), NEW e \in Event
  PROVE  Apply(r, e, limit) \in Reader(limit)
<1> USE DEF Reader, Incident, Event, Exit
<1>1. CASE e = "confirmed"
  BY <1>1, CloseType DEF Apply, NoIncident
<1>2. CASE e \in {"post_healthy", "recovered"}
  BY <1>2, CloseType DEF Apply
<1>3. CASE e \in {"start"} \cup Exit
  BY <1>3 DEF Apply
<1> QED
  BY <1>1, <1>2, <1>3

\* A confirmation adds one outage and opens an incident.
LEMMA ReadConfirmed ==
  ASSUME NEW limit \in Nat, NEW r \in Reader(limit)
  PROVE  LET s == Apply(r, "confirmed", limit) IN
         /\ s.incident.open /\ ~s.incident.started
         /\ Report(s, limit).outages = Plus(Report(r, limit).outages, TRUE, limit)
         /\ Report(s, limit).attempts = Report(r, limit).attempts
         /\ Report(s, limit).recovered = Report(r, limit).recovered
<1> DEFINE c == Close(r, FALSE, limit)
           s == Apply(r, "confirmed", limit)
<1>1. /\ c.counts.outages = IF r.incident.open THEN Plus(r.counts.outages, TRUE, limit)
                                              ELSE r.counts.outages
      /\ c.counts = Report(r, limit)
      /\ c \in Reader(limit)
  BY CloseType DEF Close, Push, Report
<1>2. s = [c EXCEPT !.incident = [NoIncident EXCEPT !.open = TRUE]]
  BY DEF Apply, Exit
<1>3. /\ s.counts = c.counts
      /\ s.incident = [open |-> TRUE, started |-> FALSE, failed |-> FALSE]
  BY <1>1, <1>2 DEF Reader, NoIncident
<1> HIDE DEF c, s
<1>4. Report(s, limit) = Push(s.counts, s.incident, FALSE, limit)
  BY <1>3 DEF Report, Close
<1>5. c.counts \in Counts(limit)
  BY <1>1 DEF Reader
<1>6. /\ s.incident.open /\ ~s.incident.started
      /\ Report(s, limit).outages = Plus(c.counts.outages, TRUE, limit)
      /\ Report(s, limit).attempts = c.counts.attempts
      /\ Report(s, limit).recovered = c.counts.recovered
  BY <1>3, <1>4, <1>5 DEF Push, Plus, Counts
<1> QED
  BY <1>1, <1>6 DEF s

\* The start of a recovery adds one attempt to an incident that has none.
LEMMA ReadStart ==
  ASSUME NEW limit \in Nat, NEW r \in Reader(limit)
  PROVE  LET s == Apply(r, "start", limit) IN
         /\ s.incident.open = r.incident.open
         /\ Report(s, limit).outages = Report(r, limit).outages
         /\ Report(s, limit).recovered = Report(r, limit).recovered
         /\ r.incident.open /\ ~r.incident.started =>
              Report(s, limit).attempts = Plus(Report(r, limit).attempts, TRUE, limit)
BY DEF Apply, Close, Push, Report, Plus, Reader, Counts, Incident, NoIncident, Exit

\* The end of a recovery changes none of the three counts.
LEMMA ReadExit ==
  ASSUME NEW limit \in Nat, NEW r \in Reader(limit), NEW e \in Exit
  PROVE  LET s == Apply(r, e, limit) IN
         /\ s.incident.open = r.incident.open
         /\ Report(s, limit).outages = Report(r, limit).outages
         /\ Report(s, limit).attempts = Report(r, limit).attempts
         /\ Report(s, limit).recovered = Report(r, limit).recovered
<1>1. CASE r.incident.open
  <2>1. Apply(r, e, limit) = [r EXCEPT !.incident.failed = e # "zero"]
    BY <1>1 DEF Apply, Exit
  <2> QED
    BY <1>1, <2>1 DEF Close, Push, Report, Plus, Reader, Counts, Incident
<1>2. CASE ~r.incident.open
  BY <1>2 DEF Apply, Exit
<1> QED
  BY <1>1, <1>2 DEF Reader, Incident

\* A healthy check or an outcome closes the open incident, if there is one.
LEMMA ReadRecovered ==
  ASSUME NEW limit \in Nat, NEW r \in Reader(limit),
         NEW e \in {"post_healthy", "recovered"}
  PROVE  LET s == Apply(r, e, limit) IN
         /\ ~s.incident.open
         /\ Report(s, limit).outages = Report(r, limit).outages
         /\ Report(s, limit).attempts = Report(r, limit).attempts
         /\ Report(s, limit).recovered =
              Plus(Report(r, limit).recovered, r.incident.open, limit)
BY DEF Apply, Close, Push, Report, Plus, Reader, Counts, Incident, NoIncident, Exit

----------------------------------------------------------------------------
(* Types and the place of the loop *)

\* What the settings of a watch are.
LEMMA Settings ==
  /\ Subject \in Watch /\ NoWatch \notin Watch
  /\ MaxCount \in Nat /\ MaxRestarts \in Nat
  /\ \A w \in Watch :
       /\ Interval[w] \in Nat /\ Interval[w] > 0
       /\ Confirm[w] \in Nat /\ Cooldown[w] \in Nat
       /\ Timeout[w] \in Nat /\ Timeout[w] > 0
       /\ Stabilize[w] \in Nat /\ Poll[w] \in Nat /\ Poll[w] > 0
       /\ Long(w) \in Nat /\ Long(w) >= Interval[w]
       /\ Long(w) = Interval[w] \/ Long(w) = Cooldown[w]
BY CycleAssumption DEF Long, Longer

\* Events and counts keep the types of the statistics and of the history.
LEMMA LogTypes ==
  ASSUME TypeOK
  PROVE  /\ \A e \in Event : Log(e) => stats' \in Reader(MaxCount)
         /\ \A what \in {"outages", "attempts", "recovered"} :
              Count(what) => truth' \in Truth
<1>1. ASSUME NEW e \in Event, Log(e) PROVE stats' \in Reader(MaxCount)
  BY <1>1, ApplyType, Settings DEF Log, TypeOK
<1>2. ASSUME NEW what \in {"outages", "attempts", "recovered"}, Count(what)
      PROVE  truth' \in Truth
  BY <1>2, PlusType, Settings DEF Count, TypeOK, Truth
<1> QED
  BY <1>1, <1>2

\* The history of an answer keeps its types.
LEMMA NoteTypes ==
  ASSUME TypeOK, NEW h \in Health, Note(h)
  PROVE  /\ fresh' \in BOOLEAN
         /\ suspect' \in Nat \cup {NoSuspicion}
         /\ sinceRepair' \in 0..Spacing
BY DEF TypeOK, Note

\* A step keeps the types.
LEMMA TypesStep ==
  ASSUME TypeOK, LoopInv, [Next]_vars
  PROVE  TypeOK'
<1> USE Settings DEF TypeOK, LoopInv, InCycle, Stage, Spacing,
     loopVars, timeVars, logVars, histVars
<1>1. CASE StartPass
  BY <1>1 DEF StartPass
<1>2. CASE \E w \in Watch : Visit(w)
  BY <1>2 DEF Visit, Ask
<1>3. CASE EndPass
  BY <1>3 DEF EndPass
<1>4. CASE WakeUp
  BY <1>4 DEF WakeUp
<1>5. CASE Granted
  BY <1>5, LogTypes DEF Event, Exit, Granted
<1>6. CASE Refused
  BY <1>6 DEF Refused, EndCycle
<1>7. CASE CommandBreaks
  BY <1>7 DEF CommandBreaks, EndCycle
<1>8. CASE \E h \in Health : NothingToDo(h)
  BY <1>8, NoteTypes DEF NothingToDo, Answer, EndCycle, Health
<1>9. CASE Suspected
  BY <1>9, NoteTypes DEF Suspected, Answer, Health, Sleep, Ask
<1>10. CASE Confirmed
  BY <1>10, LogTypes, NoteTypes DEF Event, Exit, Confirmed, Answer, Health, Ask
<1>11. CASE Repaired
  BY <1>11, LogTypes, NoteTypes DEF Event, Exit, Repaired, Answer, Health
<1>12. CASE CatchingUp
  BY <1>12, NoteTypes DEF CatchingUp, Answer, Health, EndCycle
<1>13. CASE Stabilizing
  BY <1>13, NoteTypes DEF Stabilizing, Answer, Health, Sleep, Shorter
<1>14. CASE Unrecovered
  BY <1>14, NoteTypes DEF Unrecovered, Answer, Health, EndCycle
<1>15. CASE FinishRecovery
  BY <1>15, LogTypes DEF Event, Exit, FinishRecovery, EndCycle
<1>16. CASE SleepEnds
  BY <1>16 DEF SleepEnds, Ask
<1>17. CASE \E x \in Exit : RecoveryEnds(x)
  BY <1>17, LogTypes DEF Event, Exit, RecoveryEnds, DefersRecovery, EndCycle, Ask
<1>18. CASE Tick
  BY <1>18 DEF Tick, Longer, Shorter
<1>19. CASE Restart
  <2>1. /\ due' \in [Watch -> Int]
        /\ \A w \in Watch : due'[w] <= Interval[w] \/ due'[w] <= Cooldown[w]
    BY <1>19 DEF Restart
  <2>2. sinceRepair' \in 0..Spacing
    BY <1>19 DEF Restart
  <2>3. /\ pc' \in InCycle \cup {"loop", "pass", "idle"}
        /\ stage' \in Stage
        /\ cur' \in Watch \cup {NoWatch}
        /\ pending' \subseteq Watch
    BY <1>19 DEF Restart
  <2>4. /\ left' \in Nat /\ settling' \in Nat
        /\ restarts' \in 0..MaxRestarts
    BY <1>19 DEF Restart
  <2>5. /\ suspect' \in Nat \cup {NoSuspicion}
        /\ fresh' \in BOOLEAN
    BY <1>19 DEF Restart
  <2>6. stats' \in Reader(MaxCount)
    BY <1>19 DEF Restart
  <2>7. truth' \in Truth
    <3>1. /\ truth' = [truth EXCEPT !.unlogged = Plus(@, Announced, MaxCount)]
          /\ truth \in Truth
      BY <1>19 DEF Restart
    <3>2. Plus(truth.unlogged, Announced, MaxCount) \in 0..MaxCount
      BY <3>1, Settings DEF Plus, Truth
    <3> QED
      BY <3>1, <3>2 DEF Truth
  <2> QED
    BY <2>1, <2>2, <2>3, <2>4, <2>5, <2>6, <2>7
<1>20. CASE UNCHANGED vars
  BY <1>20 DEF vars
<1> QED
  BY <1>1, <1>2, <1>3, <1>4, <1>5, <1>6, <1>7, <1>8, <1>9, <1>10, <1>11, <1>12, <1>13, <1>14, <1>15, <1>16, <1>17, <1>18, <1>19, <1>20
  DEF Next, LoopNext, CycleNext

\* A step keeps the place of the loop.
LEMMA LoopStep ==
  ASSUME TypeOK, LoopInv, [Next]_vars
  PROVE  LoopInv'
<1> USE Settings DEF TypeOK, LoopInv, InCycle, Stage, loopVars, timeVars, logVars, histVars
<1>1. CASE StartPass
  BY <1>1 DEF StartPass
<1>2. CASE \E w \in Watch : Visit(w)
  BY <1>2 DEF Visit, Ask
<1>3. CASE EndPass
  BY <1>3 DEF EndPass
<1>4. CASE WakeUp
  BY <1>4 DEF WakeUp
<1>5. CASE Granted
  BY <1>5 DEF Granted
<1>6. CASE Refused
  BY <1>6 DEF Refused, EndCycle
<1>7. CASE CommandBreaks
  BY <1>7 DEF CommandBreaks, EndCycle
<1>8. CASE \E h \in Health : NothingToDo(h)
  BY <1>8 DEF NothingToDo, Answer, Note, EndCycle, Health
<1>9. CASE Suspected
  BY <1>9 DEF Suspected, Answer, Note, Sleep, Ask
<1>10. CASE Confirmed
  BY <1>10 DEF Confirmed, Answer, Note, Ask
<1>11. CASE Repaired
  BY <1>11 DEF Repaired, Answer, Note
<1>12. CASE CatchingUp
  BY <1>12 DEF CatchingUp, Answer, Note, EndCycle
<1>13. CASE Stabilizing
  BY <1>13 DEF Stabilizing, Answer, Note, Sleep, Shorter
<1>14. CASE Unrecovered
  BY <1>14 DEF Unrecovered, Answer, Note, EndCycle
<1>15. CASE FinishRecovery
  BY <1>15 DEF FinishRecovery, EndCycle
<1>16. CASE SleepEnds
  BY <1>16 DEF SleepEnds, Ask
<1>17. CASE \E x \in Exit : RecoveryEnds(x)
  BY <1>17 DEF RecoveryEnds, DefersRecovery, EndCycle, Ask
<1>18. CASE Tick
  BY <1>18 DEF Tick, Longer, Shorter
<1>19. CASE Restart
  BY <1>19 DEF Restart
<1>20. CASE UNCHANGED vars
  BY <1>20 DEF vars
<1> QED
  BY <1>1, <1>2, <1>3, <1>4, <1>5, <1>6, <1>7, <1>8, <1>9, <1>10, <1>11, <1>12, <1>13, <1>14, <1>15, <1>16, <1>17, <1>18, <1>19, <1>20
  DEF Next, LoopNext, CycleNext

\* A step keeps the suspicion as long as the stage says.
LEMMA SuspectStep ==
  ASSUME TypeOK, LoopInv, SuspectInv, [Next]_vars
  PROVE  SuspectInv'
<1> USE Settings DEF TypeOK, LoopInv, SuspectInv, InCycle, NoSuspicion, loopVars, timeVars, logVars, histVars
<1>1. CASE StartPass
  BY <1>1 DEF StartPass
<1>2. CASE \E w \in Watch : Visit(w)
  BY <1>2 DEF Visit, Ask
<1>3. CASE EndPass
  BY <1>3 DEF EndPass
<1>4. CASE WakeUp
  BY <1>4 DEF WakeUp
<1>5. CASE Granted
  BY <1>5 DEF Granted
<1>6. CASE Refused
  BY <1>6 DEF Refused, EndCycle
<1>7. CASE CommandBreaks
  BY <1>7 DEF CommandBreaks, EndCycle
<1>8. CASE \E h \in Health : NothingToDo(h)
  BY <1>8 DEF NothingToDo, Answer, Note, EndCycle, Health
<1>9. CASE Suspected
  BY <1>9 DEF Suspected, Answer, Note, Sleep, Ask
<1>10. CASE Confirmed
  BY <1>10 DEF Confirmed, Answer, Note, Ask
<1>11. CASE Repaired
  BY <1>11 DEF Repaired, Answer, Note
<1>12. CASE CatchingUp
  BY <1>12 DEF CatchingUp, Answer, Note, EndCycle
<1>13. CASE Stabilizing
  BY <1>13 DEF Stabilizing, Answer, Note, Sleep, Shorter
<1>14. CASE Unrecovered
  BY <1>14 DEF Unrecovered, Answer, Note, EndCycle
<1>15. CASE FinishRecovery
  BY <1>15 DEF FinishRecovery, EndCycle
<1>16. CASE SleepEnds
  BY <1>16 DEF SleepEnds, Ask
<1>17. CASE \E x \in Exit : RecoveryEnds(x)
  BY <1>17 DEF RecoveryEnds, DefersRecovery, EndCycle, Ask
<1>18. CASE Tick
  BY <1>18 DEF Tick, Longer, Shorter
<1>19. CASE Restart
  BY <1>19 DEF Restart
<1>20. CASE UNCHANGED vars
  BY <1>20 DEF vars
<1> QED
  BY <1>1, <1>2, <1>3, <1>4, <1>5, <1>6, <1>7, <1>8, <1>9, <1>10, <1>11, <1>12, <1>13, <1>14, <1>15, <1>16, <1>17, <1>18, <1>19, <1>20
  DEF Next, LoopNext, CycleNext

\* A step keeps the distance to the last recovery.
LEMMA SpacingStep ==
  ASSUME TypeOK, LoopInv, SpacingInv, [Next]_vars
  PROVE  SpacingInv'
<1> USE Settings DEF TypeOK, LoopInv, SpacingInv, Spacing, InCycle, loopVars, timeVars, logVars, histVars
<1>1. CASE StartPass
  BY <1>1 DEF StartPass
<1>2. CASE \E w \in Watch : Visit(w)
  BY <1>2 DEF Visit, Ask
<1>3. CASE EndPass
  BY <1>3 DEF EndPass
<1>4. CASE WakeUp
  BY <1>4 DEF WakeUp
<1>5. CASE Granted
  BY <1>5 DEF Granted
<1>6. CASE Refused
  BY <1>6 DEF Refused, EndCycle
<1>7. CASE CommandBreaks
  BY <1>7 DEF CommandBreaks, EndCycle
<1>8. CASE \E h \in Health : NothingToDo(h)
  BY <1>8 DEF NothingToDo, Answer, Note, EndCycle, Health
<1>9. CASE Suspected
  BY <1>9 DEF Suspected, Answer, Note, Sleep, Ask
<1>10. CASE Confirmed
  BY <1>10 DEF Confirmed, Answer, Note, Ask
<1>11. CASE Repaired
  BY <1>11 DEF Repaired, Answer, Note
<1>12. CASE CatchingUp
  BY <1>12 DEF CatchingUp, Answer, Note, EndCycle
<1>13. CASE Stabilizing
  BY <1>13 DEF Stabilizing, Answer, Note, Sleep, Shorter
<1>14. CASE Unrecovered
  BY <1>14 DEF Unrecovered, Answer, Note, EndCycle
<1>15. CASE FinishRecovery
  BY <1>15 DEF FinishRecovery, EndCycle
<1>16. CASE SleepEnds
  BY <1>16 DEF SleepEnds, Ask
<1>17. CASE \E x \in Exit : RecoveryEnds(x)
  BY <1>17 DEF RecoveryEnds, DefersRecovery, EndCycle, Ask
<1>18. CASE Tick
  BY <1>18 DEF Tick, Longer, Shorter
<1>19. CASE Restart
  BY <1>19 DEF Restart
<1>20. CASE UNCHANGED vars
  BY <1>20 DEF vars
<1> QED
  BY <1>1, <1>2, <1>3, <1>4, <1>5, <1>6, <1>7, <1>8, <1>9, <1>10, <1>11, <1>12, <1>13, <1>14, <1>15, <1>16, <1>17, <1>18, <1>19, <1>20
  DEF Next, LoopNext, CycleNext

----------------------------------------------------------------------------
(* The statistics *)

\* The report has the type of its counts.
LEMMA ReportType ==
  ASSUME TypeOK
  PROVE  Report(stats, MaxCount) \in Counts(MaxCount)
BY CloseType, Settings DEF TypeOK, Report, Reader

\* A step that logs nothing of Subject, before or after the announcement of a
\* recovery, keeps the agreement.
LEMMA Unlogged ==
  ASSUME StatsAgree, stats' = stats, truth' = truth, Announced' = Announced
  PROVE  StatsAgree'
BY DEF StatsAgree

\* Announced is a place of the cycle of Subject.
LEMMA Unannounced ==
  /\ pc # "closing" => Announced = FALSE
  /\ cur # Subject => Announced = FALSE
BY DEF Announced

\* The start of a recovery of Subject is counted.
LEMMA StartCounted ==
  ASSUME TypeOK, LoopInv, IncidentInv, StatsAgree, Granted
  PROVE  IncidentInv' /\ StatsAgree'
<1>1. /\ Announced = FALSE /\ Announced' = FALSE
      /\ restarts' = restarts /\ cur' = cur /\ stage' = stage
  BY DEF Granted, Announced
<1>2. CASE cur # Subject \/ stage # "repair"
  <2>1. stats' = stats /\ truth' = truth
    BY <1>2 DEF Granted, Log, Count, logVars
  <2>2. StatsAgree'
    BY <1>1, <2>1, Unlogged
  <2> QED
    BY <1>1, <1>2, <2>1, <2>2 DEF IncidentInv, Granted
<1>3. CASE cur = Subject /\ stage = "repair" /\ Confirm[Subject] > 0
  <2>1. /\ stats' = Apply(stats, "start", MaxCount)
        /\ truth' = [truth EXCEPT !["attempts"] = Plus(@, TRUE, MaxCount)]
        /\ stats.incident.open /\ ~stats.incident.started
        /\ pc' = "recovering"
    BY <1>1, <1>3 DEF Granted, Log, Count, IncidentInv
  <2>2. /\ truth'.outages = truth.outages
        /\ truth'.attempts = Plus(truth.attempts, TRUE, MaxCount)
        /\ truth'.recovered = truth.recovered
        /\ truth'.unlogged = truth.unlogged
    BY <2>1 DEF TypeOK, Truth
  <2>3. /\ stats'.incident.open
        /\ Report(stats', MaxCount).outages = Report(stats, MaxCount).outages
        /\ Report(stats', MaxCount).recovered = Report(stats, MaxCount).recovered
        /\ Report(stats', MaxCount).attempts =
             Plus(Report(stats, MaxCount).attempts, TRUE, MaxCount)
    <3>1. stats \in Reader(MaxCount) /\ MaxCount \in Nat
      BY Settings DEF TypeOK
    <3> QED
      BY <2>1, <3>1, ReadStart
  <2>4. StatsAgree'
    BY <1>1, <1>3, <2>2, <2>3 DEF StatsAgree
  <2> QED
    BY <1>1, <1>3, <2>1, <2>3, <2>4 DEF IncidentInv
<1>4. CASE ~(Confirm[Subject] > 0)
  BY <1>4 DEF IncidentInv, StatsAgree
<1> QED
  BY <1>2, <1>3, <1>4

\* The confirmation of an outage of Subject is counted.
LEMMA OutageCounted ==
  ASSUME TypeOK, LoopInv, IncidentInv, StatsAgree, Confirmed
  PROVE  IncidentInv' /\ StatsAgree'
<1>1. /\ Announced = FALSE /\ Announced' = FALSE
      /\ restarts' = restarts /\ cur' = cur
      /\ stage' = "repair" /\ pc' = "asking"
  BY DEF Confirmed, Answer, Ask, Announced
<1>2. CASE cur # Subject
  <2>1. stats' = stats /\ truth' = truth
    BY <1>2 DEF Confirmed, Log, Count
  <2> QED
    BY <1>1, <1>2, <2>1, Unlogged DEF IncidentInv
<1>3. CASE cur = Subject
  <2>1. /\ stats' = Apply(stats, "confirmed", MaxCount)
        /\ truth' = [truth EXCEPT !["outages"] = Plus(@, TRUE, MaxCount)]
    BY <1>3 DEF Confirmed, Log, Count
  <2>2. /\ truth'.outages = Plus(truth.outages, TRUE, MaxCount)
        /\ truth'.attempts = truth.attempts
        /\ truth'.recovered = truth.recovered
        /\ truth'.unlogged = truth.unlogged
    BY <2>1 DEF TypeOK, Truth
  <2>3. /\ stats'.incident.open /\ ~stats'.incident.started
        /\ Report(stats', MaxCount).outages =
             Plus(Report(stats, MaxCount).outages, TRUE, MaxCount)
        /\ Report(stats', MaxCount).attempts = Report(stats, MaxCount).attempts
        /\ Report(stats', MaxCount).recovered = Report(stats, MaxCount).recovered
    BY <2>1, ReadConfirmed, Settings DEF TypeOK
  <2>4. StatsAgree'
    BY <1>1, <2>2, <2>3 DEF StatsAgree
  <2> QED
    BY <1>1, <2>3, <2>4 DEF IncidentInv
<1> QED
  BY <1>2, <1>3

\* The end of a recovery command changes no count that is compared.
LEMMA ExitIgnored ==
  ASSUME TypeOK, LoopInv, IncidentInv, StatsAgree, NEW x \in Exit, RecoveryEnds(x)
  PROVE  IncidentInv' /\ StatsAgree'
<1>1. /\ Announced = FALSE /\ Announced' = FALSE /\ stage = "repair"
      /\ restarts' = restarts /\ truth' = truth
      /\ pc' # "closing"
      /\ \/ cur' = cur /\ stage' = "post"
         \/ cur' = NoWatch
  BY DEF RecoveryEnds, EndCycle, Ask, Announced, LoopInv
<1>2. CASE cur # Subject
  <2>1. stats' = stats
    BY <1>2 DEF RecoveryEnds, Log
  <2> QED
    BY <1>1, <1>2, <2>1, Unlogged, Settings DEF IncidentInv
<1>3. CASE cur = Subject
  <2>1. stats' = Apply(stats, x, MaxCount)
    BY <1>3 DEF RecoveryEnds, Log
  <2>2. /\ stats'.incident.open = stats.incident.open
        /\ Report(stats', MaxCount).outages = Report(stats, MaxCount).outages
        /\ Report(stats', MaxCount).attempts = Report(stats, MaxCount).attempts
        /\ Report(stats', MaxCount).recovered = Report(stats, MaxCount).recovered
    BY <2>1, ReadExit, Settings DEF TypeOK
  <2>3. StatsAgree'
    BY <1>1, <2>2 DEF StatsAgree
  <2> QED
    BY <1>1, <1>3, <2>2, <2>3, Settings DEF IncidentInv
<1> QED
  BY <1>2, <1>3

\* A healthy first check closes the incident of Subject and announces its
\* recovery; after a later check the incident stays open for the outcome.
LEMMA RecoveryAnnounced ==
  ASSUME TypeOK, LoopInv, IncidentInv, StatsAgree, Repaired
  PROVE  IncidentInv' /\ StatsAgree'
<1>1. /\ Announced = FALSE /\ stage \in {"post", "settle"}
      /\ restarts' = restarts /\ truth' = truth
      /\ pc' = "closing" /\ stage' = stage /\ cur' = cur
  BY DEF Repaired, Answer, Announced
<1>2. CASE cur # Subject \/ stage # "post"
  <2>1. stats' = stats /\ Announced' = FALSE
    BY <1>1, <1>2 DEF Repaired, Log, Announced
  <2> QED
    BY <1>1, <1>2, <2>1, Unlogged DEF IncidentInv
<1>3. CASE cur = Subject /\ stage = "post" /\ Confirm[Subject] > 0
  <2>1. /\ stats' = Apply(stats, "post_healthy", MaxCount)
        /\ Announced' = TRUE
        /\ stats.incident.open
    BY <1>1, <1>3 DEF Repaired, Log, Announced, IncidentInv
  <2>2. /\ ~stats'.incident.open
        /\ Report(stats', MaxCount).outages = Report(stats, MaxCount).outages
        /\ Report(stats', MaxCount).attempts = Report(stats, MaxCount).attempts
        /\ Report(stats', MaxCount).recovered =
             Plus(Report(stats, MaxCount).recovered, stats.incident.open, MaxCount)
    BY <2>1, ReadRecovered, Settings DEF TypeOK
  <2>3. /\ truth.recovered \in 0..MaxCount /\ truth.unlogged \in 0..MaxCount
        /\ Report(stats, MaxCount).recovered =
             Shorter(truth.recovered + truth.unlogged, MaxCount)
    BY <1>1, <1>3 DEF TypeOK, Truth, StatsAgree
  <2>4. Report(stats', MaxCount).recovered =
          Shorter(truth.recovered + (truth.unlogged + 1), MaxCount)
    BY <2>1, <2>2, <2>3, Settings DEF Plus, Shorter
  <2>5. StatsAgree'
    BY <1>1, <1>3, <2>1, <2>2, <2>4 DEF StatsAgree
  <2> QED
    BY <1>1, <2>1, <2>2, <2>5 DEF IncidentInv
<1>4. CASE ~(Confirm[Subject] > 0)
  BY <1>4 DEF IncidentInv, StatsAgree
<1> QED
  BY <1>2, <1>3, <1>4

\* The outcome of a recovery of Subject is counted once.
LEMMA OutcomeCounted ==
  ASSUME TypeOK, LoopInv, IncidentInv, StatsAgree, FinishRecovery
  PROVE  IncidentInv' /\ StatsAgree'
<1>1. /\ Announced' = FALSE /\ stage \in {"post", "settle"}
      /\ restarts' = restarts /\ cur' = NoWatch /\ cur' # Subject
  BY Settings DEF FinishRecovery, EndCycle, Announced, LoopInv
<1>2. CASE cur # Subject
  <2>1. stats' = stats /\ truth' = truth /\ Announced = FALSE
    BY <1>2 DEF FinishRecovery, Log, Count, Announced
  <2> QED
    BY <1>1, <2>1, Unlogged DEF IncidentInv
<1>3. CASE cur = Subject /\ Confirm[Subject] > 0
  <2>1. /\ stats' = Apply(stats, "recovered", MaxCount)
        /\ truth' = [truth EXCEPT !["recovered"] = Plus(@, TRUE, MaxCount)]
        /\ Announced = (stage = "post")
    BY <1>3 DEF FinishRecovery, Log, Count, Announced
  <2>2. /\ truth'.outages = truth.outages
        /\ truth'.attempts = truth.attempts
        /\ truth'.recovered = Plus(truth.recovered, TRUE, MaxCount)
        /\ truth'.unlogged = truth.unlogged
    BY <2>1 DEF TypeOK, Truth
  <2>3. /\ Report(stats', MaxCount).outages = Report(stats, MaxCount).outages
        /\ Report(stats', MaxCount).attempts = Report(stats, MaxCount).attempts
        /\ Report(stats', MaxCount).recovered =
             Plus(Report(stats, MaxCount).recovered, stats.incident.open, MaxCount)
    BY <2>1, ReadRecovered, Settings DEF TypeOK
  <2>4. /\ truth.recovered \in 0..MaxCount /\ truth.unlogged \in 0..MaxCount
        /\ Announced => ~stats.incident.open
        /\ ~Announced => stats.incident.open
    BY <1>1, <1>3, <2>1 DEF IncidentInv, TypeOK, Truth
  <2>5. IncidentInv'
    BY <1>1 DEF IncidentInv
  <2>6. /\ Report(stats, MaxCount).outages = truth.outages
        /\ Report(stats, MaxCount).attempts = truth.attempts
    BY <1>3 DEF StatsAgree
  <2>7. Report(stats, MaxCount).recovered =
          Shorter(truth.recovered + (truth.unlogged + (IF Announced THEN 1 ELSE 0)),
                  MaxCount)
    BY <1>3 DEF StatsAgree
  <2>8. Report(stats', MaxCount).recovered =
          Shorter(truth'.recovered + truth'.unlogged, MaxCount)
    <3>1. CASE Announced
      BY <2>2, <2>3, <2>4, <2>7, <3>1, Settings DEF Plus, Shorter
    <3>2. CASE ~Announced
      BY <2>2, <2>3, <2>4, <2>7, <3>2, Settings DEF Plus, Shorter
    <3> QED
      BY <3>1, <3>2
  <2>9. StatsAgree'
    <3>1. truth'.recovered \in 0..MaxCount /\ truth'.unlogged \in 0..MaxCount
      BY <2>2, <2>4, Settings DEF Plus
    <3>2. Shorter(truth'.recovered + truth'.unlogged, MaxCount) =
            Shorter(truth'.recovered
                      + (truth'.unlogged + (IF Announced' THEN 1 ELSE 0)), MaxCount)
      BY <1>1, <3>1
    <3> QED
      BY <2>2, <2>3, <2>6, <2>8, <3>2 DEF StatsAgree
  <2> QED
    BY <2>5, <2>9
<1>4. CASE ~(Confirm[Subject] > 0)
  BY <1>4 DEF IncidentInv, StatsAgree
<1> QED
  BY <1>2, <1>3, <1>4

\* A step keeps the incident of Subject and the agreement of the report.
LEMMA StatsStep ==
  ASSUME TypeOK, LoopInv, IncidentInv, StatsAgree, [Next]_vars
  PROVE  IncidentInv' /\ StatsAgree'
<1>1. ASSUME UNCHANGED <<stats, truth, restarts>>, pc # "closing", pc' # "closing",
             \/ cur' = NoWatch
             \/ stage' \notin {"repair", "post", "settle"}
             \/ /\ cur' = cur /\ stage' \in {"post", "settle"}
                /\ stage \in {"post", "settle"}
      PROVE  IncidentInv' /\ StatsAgree'
  <2>1. Announced = FALSE /\ Announced' = FALSE
    BY <1>1 DEF Announced
  <2>2. StatsAgree'
    BY <1>1, <2>1, Unlogged
  <2> QED
    BY <1>1, <2>1, <2>2, Settings DEF IncidentInv
<1>2. CASE LoopNext
  BY <1>1, <1>2 DEF LoopNext, StartPass, Visit, EndPass, WakeUp, Ask,
     loopVars, timeVars, logVars, LoopInv, InCycle
<1>3. CASE Granted
  BY <1>3, StartCounted
<1>4. CASE Refused \/ CommandBreaks
  BY <1>1, <1>4 DEF Refused, CommandBreaks, EndCycle, logVars
<1>5. CASE \E h \in Health : NothingToDo(h)
  BY <1>1, <1>5 DEF NothingToDo, Answer, EndCycle, logVars
<1>6. CASE Suspected
  <2>1. CASE stage' = "check"
    BY <1>1, <1>6, <2>1 DEF Suspected, Answer, Sleep, Ask, logVars
  <2>2. CASE stage' = "repair" /\ Confirm[cur] = 0
    <3>1. /\ UNCHANGED <<stats, truth, restarts>> /\ cur' = cur
          /\ Announced = FALSE /\ Announced' = FALSE
      BY <1>6, <2>2 DEF Suspected, Answer, Sleep, Ask, logVars, Announced
    <3>2. StatsAgree'
      BY <3>1, Unlogged
    <3>3. cur' = Subject => ~(Confirm[Subject] > 0)
      BY <2>2, <3>1
    <3>4. IncidentInv'
      BY <3>3 DEF IncidentInv
    <3> QED
      BY <3>2, <3>4
  <2> QED
    BY <1>6, <2>1, <2>2 DEF Suspected, Ask
<1>7. CASE Confirmed
  BY <1>7, OutageCounted
<1>8. CASE Repaired
  BY <1>8, RecoveryAnnounced
<1>9. CASE CatchingUp \/ Unrecovered
  BY <1>1, <1>9 DEF CatchingUp, Unrecovered, Answer, EndCycle, logVars
<1>10. CASE Stabilizing
  BY <1>1, <1>10 DEF Stabilizing, Answer, Sleep, logVars
<1>11. CASE FinishRecovery
  BY <1>11, OutcomeCounted
<1>12. CASE SleepEnds
  BY <1>1, <1>12 DEF SleepEnds, Ask, logVars, LoopInv, TypeOK, Stage
<1>13. CASE \E x \in Exit : RecoveryEnds(x)
  BY <1>13, ExitIgnored
<1>14. CASE Tick \/ UNCHANGED vars
  <2>1. UNCHANGED <<pc, stage, cur, stats, truth, restarts>>
    BY <1>14 DEF Tick, vars, loopVars, logVars
  <2>2. Announced' = Announced
    BY <2>1 DEF Announced
  <2>3. StatsAgree'
    BY <2>1, <2>2, Unlogged
  <2> QED
    BY <2>1, <2>2, <2>3 DEF IncidentInv
<1>15. CASE Restart
  <2>1. /\ stats' = stats /\ cur' = NoWatch /\ Announced' = FALSE
        /\ truth' = [truth EXCEPT !.unlogged = Plus(@, Announced, MaxCount)]
    BY <1>15 DEF Restart, Announced
  <2>2. /\ truth'.outages = truth.outages
        /\ truth'.attempts = truth.attempts
        /\ truth'.recovered = truth.recovered
        /\ truth'.unlogged = Plus(truth.unlogged, Announced, MaxCount)
        /\ truth.recovered \in 0..MaxCount
        /\ truth.unlogged \in 0..MaxCount
    BY <2>1 DEF TypeOK, Truth
  <2>3. Shorter(truth'.recovered + (truth'.unlogged
                                      + (IF Announced' THEN 1 ELSE 0)), MaxCount) =
          Shorter(truth.recovered + (truth.unlogged
                                      + (IF Announced THEN 1 ELSE 0)), MaxCount)
    <3>1. truth'.unlogged + (IF Announced' THEN 1 ELSE 0) = truth'.unlogged
      BY <2>1, <2>2, Settings DEF Plus
    <3>2. CASE Announced
      BY <2>2, <3>1, <3>2, Settings DEF Plus, Shorter
    <3>3. CASE ~Announced
      BY <2>2, <3>1, <3>3, Settings DEF Plus, Shorter
    <3> QED
      BY <3>2, <3>3
  <2>4. StatsAgree'
    BY <2>1, <2>2, <2>3 DEF StatsAgree
  <2> QED
    BY <2>1, <2>4, Settings DEF IncidentInv
<1> QED
  BY <1>2, <1>3, <1>4, <1>5, <1>6, <1>7, <1>8, <1>9, <1>10, <1>11, <1>12, <1>13,
     <1>14, <1>15 DEF Next, CycleNext

----------------------------------------------------------------------------
(* The theorems *)

IInv == TypeOK /\ LoopInv /\ SuspectInv /\ SpacingInv /\ IncidentInv /\ StatsAgree

\* The watchdog starts with an empty log and every check due.
LEMMA InitInv == Init => IInv
<1> SUFFICES ASSUME Init PROVE IInv
  OBVIOUS
<1> USE DEF Init
<1>1. TypeOK
  <2>1. stats \in Reader(MaxCount) /\ truth \in Truth
    BY Settings DEF EmptyReader, Nothing, NoIncident, Reader, Counts, Incident, Truth
  <2>2. /\ due \in [Watch -> Int]
        /\ \A w \in Watch : due[w] <= Interval[w] \/ due[w] <= Cooldown[w]
        /\ sinceRepair \in 0..Spacing
    BY Settings DEF Spacing
  <2>3. restarts \in 0..MaxRestarts /\ suspect \in Nat \cup {NoSuspicion}
    BY Settings
  <2>4. /\ pc \in InCycle \cup {"loop", "pass", "idle"}
        /\ stage \in Stage /\ cur \in Watch \cup {NoWatch}
        /\ pending \subseteq Watch /\ left \in Nat /\ settling \in Nat
        /\ fresh \in BOOLEAN
    BY DEF Stage
  <2> HIDE DEF Init
  <2> QED
    BY <2>1, <2>2, <2>3, <2>4 DEF TypeOK
<1>2. LoopInv
  BY DEF LoopInv, InCycle
<1>3. SuspectInv
  BY DEF SuspectInv
<1>4. SpacingInv
  BY Settings DEF SpacingInv, Spacing
<1>5. IncidentInv
  BY Settings DEF IncidentInv
<1>6. Report(stats, MaxCount) = Nothing
  BY DEF Report, Close, EmptyReader, NoIncident
<1>7. StatsAgree
  <2>1. /\ truth.outages = 0 /\ truth.attempts = 0
        /\ truth.recovered = 0 /\ truth.unlogged = 0
        /\ Announced = FALSE
    BY DEF Announced
  <2>2. Shorter(truth.recovered + (truth.unlogged
                                     + (IF Announced THEN 1 ELSE 0)), MaxCount) = 0
    BY <2>1, Settings DEF Shorter
  <2> QED
    BY <1>6, <2>1, <2>2 DEF StatsAgree, Nothing
<1> QED
  BY <1>1, <1>2, <1>3, <1>4, <1>5, <1>7 DEF IInv

\* The invariant is inductive, for any watches and any settings.
THEOREM CycleInvariant == Spec => []IInv
<1>1. IInv /\ [Next]_vars => IInv'
  BY TypesStep, LoopStep, SuspectStep, SpacingStep, StatsStep DEF IInv
<1> QED
  BY <1>1, InitInv, PTL DEF Spec

\* The state of the loop, the statistics and the history keep their types;
\* next_check never lies further ahead than the interval or the cooldown.
THEOREM CycleTypes == Spec => []TypeOK
<1>1. IInv => TypeOK
  BY DEF IInv
<1> QED
  BY <1>1, CycleInvariant, PTL

\* A recovery command runs only after every check of its cycle found the
\* service unhealthy for the confirmation time, and only with an admission
\* granted after the last of them (run_watch_cycle).
THEOREM RecoveryNeedsConfirmation == Spec => []RepairsOnlyConfirmed
<1>1. IInv => RepairsOnlyConfirmed
  BY DEF IInv, LoopInv, SuspectInv, RepairsOnlyConfirmed
<1> QED
  BY <1>1, CycleInvariant, PTL

\* Two recoveries of a watch are the interval and the confirmation apart,
\* whatever the cycle between them came to and whichever way it ended.
THEOREM RecoverySpacing == Spec => RepairsSpaced
<1>1. ASSUME IInv, [Next]_vars, pc # "recovering", pc' = "recovering", cur = Subject
      PROVE  sinceRepair >= Spacing
  <2>1. Granted /\ stage = "repair"
    BY <1>1 DEF Next, LoopNext, CycleNext, StartPass, Visit, EndPass, WakeUp, Granted,
       Refused, CommandBreaks, NothingToDo, Suspected, Confirmed, Repaired, CatchingUp,
       Stabilizing, Unrecovered, FinishRecovery, SleepEnds, RecoveryEnds, Tick, Restart,
       Ask, Sleep, EndCycle, vars, loopVars
  <2> QED
    BY <1>1, <2>1 DEF IInv, SpacingInv
<1>2. IInv /\ [Next]_vars =>
        [pc # "recovering" /\ pc' = "recovering" /\ cur = Subject =>
           sinceRepair >= Spacing]_vars
  BY <1>1
<1> QED
  BY <1>2, CycleInvariant, PTL DEF Spec, RepairsSpaced

\* The report read from the log counts every confirmed outage, every attempt
\* and every recovery once, a recovery from the healthy check on, whether or
\* not its outcome is logged (WatchStatsBuilder).
THEOREM ReportAgrees == Spec => []StatsAgree
<1>1. IInv => StatsAgree
  BY DEF IInv
<1> QED
  BY <1>1, CycleInvariant, PTL

----------------------------------------------------------------------------
(* The turns of the watches *)

\* The longest that all other watches may take, and those yet to be visited.
Others(w) == SumFunctionOnSet(LongestCycle, Watch \ {w})
Before(w) == SumFunctionOnSet(LongestCycle, pending \ {w})

\* The configuration lists finitely many watches.
LEMMA WatchesFinite == IsFiniteSet(Watch)
<1>1. Position = 1..Len(Order)
  BY CycleAssumption DEF Position
<1>2. IsFiniteSet(Position)
  BY <1>1, CycleAssumption, FS_Interval
<1>3. Order \in Surjection(Position, Watch)
  BY CycleAssumption DEF Surjection, Watch, Position
<1> QED
  BY <1>2, <1>3, FS_Surjection

\* What the sums over watches are, and what the next watch takes out of them.
LEMMA Sums ==
  TypeOK =>
    /\ \A w \in Watch : /\ LongestCycle[w] = 10 * Timeout[w] + Confirm[w] + Stabilize[w]
                         /\ LongestCycle[w] \in Nat
    /\ \A w \in Watch : Others(w) \in Nat /\ Before(w) \in Nat /\ Before(w) <= Others(w)
    /\ \A w \in Watch, v \in pending : v # w =>
         Before(w) = LongestCycle[v] + SumFunctionOnSet(LongestCycle, (pending \ {v}) \ {w})
<1> SUFFICES ASSUME TypeOK
             PROVE  /\ \A w \in Watch :
                         /\ LongestCycle[w] = 10 * Timeout[w] + Confirm[w] + Stabilize[w]
                         /\ LongestCycle[w] \in Nat
                    /\ \A w \in Watch :
                         Others(w) \in Nat /\ Before(w) \in Nat /\ Before(w) <= Others(w)
                    /\ \A w \in Watch, v \in pending : v # w =>
                         Before(w) = LongestCycle[v]
                           + SumFunctionOnSet(LongestCycle, (pending \ {v}) \ {w})
  OBVIOUS
<1>1. \A w \in Watch : /\ LongestCycle[w] = 10 * Timeout[w] + Confirm[w] + Stabilize[w]
                       /\ LongestCycle[w] \in Nat
  BY Settings DEF LongestCycle
<1>2. \A R \in SUBSET Watch : IsFiniteSet(R) /\ \A w \in R : LongestCycle[w] \in Nat
  BY <1>1, WatchesFinite, FS_Subset
<1>3. pending \in SUBSET Watch
  BY DEF TypeOK
<1>4. ASSUME NEW w \in Watch
      PROVE  Others(w) \in Nat /\ Before(w) \in Nat /\ Before(w) <= Others(w)
  <2>1. pending \ {w} \in SUBSET (Watch \ {w}) /\ Watch \ {w} \in SUBSET Watch
    BY <1>3
  <2> QED
    BY <1>2, <2>1, SumType, SumMonotone DEF Others, Before
<1>5. ASSUME NEW w \in Watch, NEW v \in pending, v # w
      PROVE  Before(w) = LongestCycle[v] + SumFunctionOnSet(LongestCycle, (pending \ {v}) \ {w})
  <2>1. /\ pending \ {w} \in SUBSET Watch /\ v \in pending \ {w}
        /\ (pending \ {w}) \ {v} = (pending \ {v}) \ {w}
    BY <1>3, <1>5
  <2> QED
    BY <1>2, <2>1, SumTakeOut DEF Before
<1> QED
  BY <1>1, <1>4, <1>5

\* The invariant in terms of the two sums.
LEMMA TurnInvIs ==
  /\ TurnInv <=>
       \A w \in Watch :
         /\ w = cur => due[w] >= -(2 * Others(w))
         /\ w # cur => due[w] - TimeLeft - Before(w) >=
                         IF w \in pending THEN -(2 * Others(w)) ELSE -Others(w)
         /\ pc = "idle" => due[w] - left >= -Others(w)
  /\ TurnInv' <=>
       \A w \in Watch :
         /\ w = cur' => due'[w] >= -(2 * Others(w))
         /\ w # cur' => due'[w] - TimeLeft' - Before(w)' >=
                         IF w \in pending' THEN -(2 * Others(w)) ELSE -Others(w)
         /\ pc' = "idle" => due'[w] - left' >= -Others(w)
BY DEF TurnInv, Others, Before

\* The time left is no debt.
LEMMA TimeLeftType ==
  TypeOK /\ LoopInv => TimeLeft \in Nat /\ (cur = NoWatch => TimeLeft = 0)
BY Settings DEF TypeOK, LoopInv, InCycle, TimeLeft

\* A step keeps the bounds of the time that is left.
\* The same of the next state.
LEMMA TimeLeftNext ==
  TypeOK' /\ LoopInv' => TimeLeft' \in Nat /\ (cur' = NoWatch => TimeLeft' = 0)
<1>1. (TypeOK /\ LoopInv => TimeLeft \in Nat /\ (cur = NoWatch => TimeLeft = 0))'
  BY TimeLeftType, PTL
<1> QED
  BY <1>1

\* The sums of the next state.
LEMMA BeforeNext ==
  TypeOK' => \A w \in Watch :
               Others(w) \in Nat /\ Before(w)' \in Nat /\ Before(w)' <= Others(w)
<1>1. TypeOK => \A w \in Watch :
                 Others(w) \in Nat /\ Before(w) \in Nat /\ Before(w) <= Others(w)
  BY Sums
<1>2. (TypeOK => \A w \in Watch :
                   Others(w) \in Nat /\ Before(w) \in Nat /\ Before(w) <= Others(w))'
  BY <1>1, PTL
<1> QED
  BY <1>2 DEF Others

LEMMA LeftStep ==
  ASSUME TypeOK, LoopInv, LeftInv, [Next]_vars
  PROVE  LeftInv'
<1> USE Settings DEF TypeOK, LoopInv, LeftInv, InCycle, Stage, loopVars, timeVars, logVars, histVars
<1>1. CASE StartPass
  BY <1>1 DEF StartPass
<1>2. CASE \E w \in Watch : Visit(w)
  BY <1>2 DEF Visit, Ask
<1>3. CASE EndPass
  BY <1>3 DEF EndPass
<1>4. CASE WakeUp
  BY <1>4 DEF WakeUp
<1>5. CASE Granted
  BY <1>5 DEF Granted
<1>6. CASE Refused
  BY <1>6 DEF Refused, EndCycle
<1>7. CASE CommandBreaks
  BY <1>7 DEF CommandBreaks, EndCycle
<1>8. CASE \E h \in Health : NothingToDo(h)
  BY <1>8 DEF NothingToDo, Answer, EndCycle
<1>9. CASE Suspected
  BY <1>9 DEF Suspected, Answer, Sleep, Ask
<1>10. CASE Confirmed
  BY <1>10 DEF Confirmed, Answer, Ask
<1>11. CASE Repaired
  BY <1>11 DEF Repaired, Answer
<1>12. CASE CatchingUp
  BY <1>12 DEF CatchingUp, Answer, EndCycle
<1>13. CASE Stabilizing
  BY <1>13 DEF Stabilizing, Answer, Sleep, Shorter
<1>14. CASE Unrecovered
  BY <1>14 DEF Unrecovered, Answer, EndCycle
<1>15. CASE FinishRecovery
  BY <1>15 DEF FinishRecovery, EndCycle
<1>16. CASE SleepEnds
  BY <1>16 DEF SleepEnds, Ask
<1>17. CASE \E x \in Exit : RecoveryEnds(x)
  BY <1>17 DEF RecoveryEnds, EndCycle, Ask
<1>18. CASE Tick
  BY <1>18 DEF Tick, Longer
<1>19. CASE Restart
  BY <1>19 DEF Restart
<1>20. CASE UNCHANGED vars
  BY <1>20 DEF vars
<1> QED
  BY <1>1, <1>2, <1>3, <1>4, <1>5, <1>6, <1>7, <1>8, <1>9, <1>10, <1>11, <1>12, <1>13, <1>14, <1>15, <1>16, <1>17, <1>18, <1>19, <1>20
  DEF Next, LoopNext, CycleNext

\* A step within a cycle takes no time.
LEMMA TurnKept ==
  ASSUME TypeOK, TypeOK', LoopInv, LoopInv', TurnInv,
         UNCHANGED <<cur, pending, due>>, TimeLeft' <= TimeLeft, pc' # "idle"
  PROVE  TurnInv'
<1> SUFFICES ASSUME NEW w \in Watch
             PROVE  /\ w = cur' => due'[w] >= -(2 * Others(w))
                    /\ w # cur' => due'[w] - TimeLeft' - Before(w)' >=
                         IF w \in pending' THEN -(2 * Others(w)) ELSE -Others(w)
  BY TurnInvIs
<1>1. Before(w)' = Before(w)
  BY DEF Before
<1>2. TimeLeft \in Nat /\ TimeLeft' \in Nat /\ due[w] \in Int
  BY TimeLeftType, TimeLeftNext DEF TypeOK
<1>3. Others(w) \in Nat /\ Before(w) \in Nat
  BY Sums
<1> QED
  BY <1>1, <1>2, <1>3, TurnInvIs

\* The end of a cycle frees the loop for the next watch.
LEMMA TurnEnds ==
  ASSUME TypeOK, TypeOK', LoopInv, LoopInv', TurnInv, NEW delay \in Nat,
         EndCycle(delay), pending' = pending, cur # NoWatch
  PROVE  TurnInv'
<1>1. cur' = NoWatch /\ pc' = "pass" /\ due' = [due EXCEPT ![cur] = delay]
  BY DEF EndCycle
<1> SUFFICES ASSUME NEW w \in Watch
             PROVE  due'[w] - TimeLeft' - Before(w)' >=
                      IF w \in pending' THEN -(2 * Others(w)) ELSE -Others(w)
  BY <1>1, TurnInvIs, Settings
<1>2. Before(w)' = Before(w)
  BY DEF Before
<1>3. TimeLeft \in Nat /\ TimeLeft' = 0 /\ due[w] \in Int
  BY <1>1, TimeLeftType, TimeLeftNext DEF TypeOK
<1>4. Others(w) \in Nat /\ Before(w) \in Nat /\ Before(w) <= Others(w)
  BY Sums
<1>5. CASE w = cur
  <2>1. due'[w] = delay /\ w \notin pending
    BY <1>1, <1>5 DEF TypeOK, LoopInv
  <2> QED
    BY <1>2, <1>3, <1>4, <2>1
<1>6. CASE w # cur
  <2>1. due'[w] = due[w]
    BY <1>1, <1>6 DEF TypeOK
  <2> QED
    BY <1>2, <1>3, <1>4, <1>6, <2>1, TurnInvIs
<1> QED
  BY <1>5, <1>6

\* A pass begins for the watches that are due; nobody was waiting before.
LEMMA TurnBegins ==
  ASSUME TypeOK, TypeOK', LoopInv, LoopInv', LeftInv, TurnInv, StartPass
  PROVE  TurnInv'
<1>1. /\ pc = "loop" /\ pc' = "pass" /\ cur = NoWatch /\ cur' = NoWatch
      /\ pending = {} /\ pending' = {w \in Watch : due[w] <= 0} /\ due' = due
  BY DEF StartPass, LeftInv, LoopInv, InCycle, timeVars
<1> SUFFICES ASSUME NEW w \in Watch
             PROVE  due[w] - TimeLeft' - Before(w)' >=
                      IF w \in pending' THEN -(2 * Others(w)) ELSE -Others(w)
  BY <1>1, TurnInvIs, Settings
<1>2. TimeLeft = 0 /\ TimeLeft' = 0 /\ due[w] \in Int
  BY <1>1, TimeLeftType, TimeLeftNext DEF TypeOK
<1>3. Others(w) \in Nat /\ Before(w) \in Nat
  BY Sums
<1>4. Before(w)' \in Nat /\ Before(w)' <= Others(w)
  BY BeforeNext, Sums
<1>5. due[w] >= -Others(w)
  BY <1>1, <1>2, <1>3, TurnInvIs, Settings
<1> QED
  BY <1>1, <1>2, <1>3, <1>4, <1>5

\* A watch is visited that was due, and that those behind it have waited for.
LEMMA TurnTaken ==
  ASSUME TypeOK, TypeOK', LoopInv, LoopInv', TurnInv, NEW v \in Watch, Visit(v)
  PROVE  TurnInv'
<1>1. /\ pc = "pass" /\ pc' = "asking" /\ stage' = "check" /\ cur = NoWatch
      /\ cur' = v /\ left' = Timeout[v] /\ v \in pending /\ pending' = pending \ {v}
      /\ due' = due
  BY DEF Visit, Ask, LoopInv, InCycle
<1>2. TimeLeft' = LongestCycle[v]
  <2>1. /\ LongestCycle[v] = 10 * Timeout[v] + Confirm[v] + Stabilize[v]
        /\ Timeout[v] \in Nat /\ Confirm[v] \in Nat /\ Stabilize[v] \in Nat
    BY Sums, Settings
  <2>2. TimeLeft' = Timeout[v] + Timeout[v] + Confirm[v] + 6 * Timeout[v]
                      + (Stabilize[v] + 2 * Timeout[v])
    BY <1>1, Settings DEF TimeLeft
  <2> QED
    BY <2>1, <2>2
<1>3. TimeLeft = 0 /\ LongestCycle[v] \in Nat
  BY <1>1, TimeLeftType, Sums
<1> SUFFICES ASSUME NEW w \in Watch
             PROVE  /\ w = v => due[w] >= -(2 * Others(w))
                    /\ w # v => due[w] - TimeLeft' - Before(w)' >=
                         IF w \in pending' THEN -(2 * Others(w)) ELSE -Others(w)
  BY <1>1, TurnInvIs
<1>4. Others(w) \in Nat /\ Before(w) \in Nat /\ Before(w)' \in Nat /\ due[w] \in Int
  BY Sums, BeforeNext DEF TypeOK
<1>5. due[w] - Before(w) >= IF w \in pending THEN -(2 * Others(w)) ELSE -Others(w)
  BY <1>1, <1>3, <1>4, TurnInvIs, Settings
<1>6. CASE w = v
  BY <1>1, <1>4, <1>5, <1>6
<1>7. CASE w # v
  <2>1. Before(w) = LongestCycle[v] + Before(w)'
    BY <1>1, <1>7, Sums DEF Before
  <2> QED
    BY <1>1, <1>2, <1>3, <1>4, <1>5, <1>7, <2>1
<1> QED
  BY <1>6, <1>7

\* The loop sleeps only when no watch is due.
LEMMA TurnsOver ==
  ASSUME TypeOK, TypeOK', LoopInv, LoopInv', LeftInv, TurnInv, EndPass \/ WakeUp
  PROVE  TurnInv'
<1>1. /\ cur = NoWatch /\ UNCHANGED <<cur, pending, due>> /\ pending = {}
      /\ pc' = "idle" => left' = IF \E w \in Watch : due[w] <= 0 THEN 0 ELSE 1
  BY DEF EndPass, WakeUp, LeftInv, LoopInv, InCycle, timeVars
<1> SUFFICES ASSUME NEW w \in Watch
             PROVE  /\ due[w] - TimeLeft' - Before(w)' >= -Others(w)
                    /\ pc' = "idle" => due[w] - left' >= -Others(w)
  BY <1>1, TurnInvIs, Settings
<1>2. TimeLeft = 0 /\ TimeLeft' = 0 /\ due[w] \in Int
  BY <1>1, TimeLeftType, TimeLeftNext DEF TypeOK
<1>3. Before(w)' = Before(w) /\ Others(w) \in Nat /\ Before(w) \in Nat
  BY <1>1, Sums DEF Before
<1>4. due[w] - Before(w) >= -Others(w)
  BY <1>1, <1>2, <1>3, TurnInvIs, Settings
<1> QED
  BY <1>1, <1>2, <1>3, <1>4

\* Time that passes is time less to wait for.
LEMMA TurnWaits ==
  ASSUME TypeOK, TypeOK', LoopInv, LoopInv', LeftInv, TurnInv, Tick
  PROVE  TurnInv'
<1>1. /\ UNCHANGED <<pc, stage, cur, pending>> /\ left > 0 /\ left' = left - 1
      /\ due' = [w \in Watch |-> IF w = cur THEN due[w] ELSE due[w] - 1]
      /\ settling' = IF settling > 0 THEN settling - 1 ELSE 0
  BY DEF Tick, loopVars, Longer, TypeOK
<1>2. cur # NoWatch => TimeLeft' <= TimeLeft - 1
  <2> SUFFICES ASSUME cur # NoWatch PROVE TimeLeft' <= TimeLeft - 1
    OBVIOUS
  <2>1. /\ cur \in Watch /\ Timeout[cur] \in Nat /\ Confirm[cur] \in Nat /\ Stabilize[cur] \in Nat
        /\ left \in Nat /\ settling \in Nat
        /\ pc \in InCycle /\ stage \in Stage
        /\ pc \in {"asking", "diagnosing", "recovering"} => left <= Timeout[cur]
        /\ pc = "waiting" /\ stage # "check" => left <= settling
        /\ pc = "recovering" => stage = "repair"
        /\ pc # "closing"
        /\ pc = "waiting" => stage \notin {"confirm", "repair"}
    BY <1>1, Settings DEF TypeOK, LoopInv, LeftInv
  <2>2. CASE stage \in {"check", "confirm", "repair"}
    BY <1>1, <2>1, <2>2 DEF TimeLeft
  <2>3. CASE stage = "post"
    BY <1>1, <2>1, <2>3 DEF TimeLeft
  <2>4. CASE stage = "settle" /\ pc = "waiting"
    BY <1>1, <2>1, <2>4 DEF TimeLeft
  <2>5. CASE stage = "settle" /\ pc # "waiting"
    <3>1. pc \in {"asking", "diagnosing"}
      BY <2>1, <2>5 DEF InCycle
    <3>2. TimeLeft = IF settling > 0 THEN settling + 2 * Timeout[cur]
                     ELSE IF pc = "asking" THEN left + Timeout[cur] ELSE left
      BY <2>1, <2>5 DEF TimeLeft
    <3>3. TimeLeft' = IF settling' > 0 THEN settling' + 2 * Timeout[cur]
                      ELSE IF pc = "asking" THEN left' + Timeout[cur] ELSE left'
      BY <1>1, <2>1, <2>5 DEF TimeLeft
    <3> QED
      BY <1>1, <2>1, <3>1, <3>2, <3>3
  <2> QED
    BY <2>1, <2>2, <2>3, <2>4, <2>5 DEF Stage
<1> SUFFICES ASSUME NEW w \in Watch
             PROVE  /\ w = cur => due'[w] >= -(2 * Others(w))
                    /\ w # cur => due'[w] - TimeLeft' - Before(w)' >=
                         IF w \in pending THEN -(2 * Others(w)) ELSE -Others(w)
                    /\ pc = "idle" => due'[w] - left' >= -Others(w)
  BY <1>1, TurnInvIs
<1>3. TimeLeft \in Nat /\ TimeLeft' \in Nat /\ due[w] \in Int /\ left \in Nat
  BY TimeLeftType, TimeLeftNext DEF TypeOK
<1>4. Before(w)' = Before(w) /\ Others(w) \in Nat /\ Before(w) \in Nat
  BY <1>1, Sums DEF Before
<1>5. CASE cur # NoWatch
  <2>1. pc # "idle"
    BY <1>5 DEF LoopInv, InCycle
  <2>2. due'[w] = IF w = cur THEN due[w] ELSE due[w] - 1
    BY <1>1
  <2> QED
    BY <1>2, <1>3, <1>4, <1>5, <2>1, <2>2, TurnInvIs
<1>6. CASE cur = NoWatch
  <2>1. pc = "idle" /\ pending = {} /\ left = 1
    BY <1>1, <1>6 DEF Tick, LoopInv, LeftInv, TypeOK
  <2>2. TimeLeft' = 0 /\ due'[w] = due[w] - 1
    BY <1>1, <1>6, TimeLeftNext, Settings
  <2>3. due[w] - left >= -Others(w)
    BY <2>1, TurnInvIs
  <2>4. Before(w) = 0
    <3>1. pending \ {w} = {}
      BY <2>1
    <3> QED
      BY <3>1, SumOfNone DEF Before
  <2> QED
    BY <1>1, <1>3, <1>4, <1>6, <2>1, <2>2, <2>3, <2>4, Settings
<1> QED
  BY <1>5, <1>6

\* A restart forgets who was waiting.
LEMMA TurnsForgotten ==
  ASSUME TypeOK', LoopInv', Restart
  PROVE  TurnInv'
<1>1. /\ pc' = "loop" /\ cur' = NoWatch /\ pending' = {} /\ due' = [w \in Watch |-> 0]
  BY DEF Restart
<1> SUFFICES ASSUME NEW w \in Watch
             PROVE  0 - TimeLeft' - Before(w)' >= -Others(w)
  BY <1>1, TurnInvIs, Settings
<1>2. TimeLeft' = 0
  BY <1>1, TimeLeftNext
<1>3. Before(w)' \in Nat /\ Before(w)' <= Others(w) /\ Others(w) \in Nat
  BY BeforeNext, Sums
<1> QED
  BY <1>2, <1>3

\* A step keeps the turns.
LEMMA TurnStep ==
  ASSUME TypeOK, TypeOK', LoopInv, LoopInv', LeftInv, TurnInv, [Next]_vars
  PROVE  TurnInv'
<1>1. CASE LoopNext
  BY <1>1, TurnBegins, TurnTaken, TurnsOver DEF LoopNext
<1>2. ASSUME NEW delay \in Nat, EndCycle(delay), pending' = pending, pc \in InCycle
      PROVE  TurnInv'
  BY <1>2, TurnEnds DEF LoopInv
<1>3. CASE Refused \/ CommandBreaks
  BY <1>2, <1>3, Settings DEF Refused, CommandBreaks, InCycle, TypeOK, LoopInv
<1>4. CASE (\E h \in Health : NothingToDo(h)) \/ CatchingUp \/ Unrecovered
  BY <1>2, <1>4, Settings DEF NothingToDo, CatchingUp, Unrecovered, Answer, InCycle,
     TypeOK, LoopInv
<1>5. CASE FinishRecovery
  BY <1>2, <1>5, Settings DEF FinishRecovery, InCycle, TypeOK, LoopInv
<1>6. ASSUME UNCHANGED <<cur, pending, due>>, pc' \in InCycle, TimeLeft' <= TimeLeft
      PROVE  TurnInv'
  BY <1>6, TurnKept DEF InCycle
<1>7. CASE Granted
  BY <1>6, <1>7, Settings DEF Granted, TimeLeft, TypeOK, LoopInv, InCycle, Stage
<1>8. CASE Suspected
  BY <1>6, <1>8, Settings DEF Suspected, Answer, Sleep, Ask, TimeLeft, TypeOK,
     LoopInv, InCycle, Stage
<1>9. CASE Confirmed
  BY <1>6, <1>9, Settings DEF Confirmed, Answer, Ask, TimeLeft, TypeOK,
     LoopInv, InCycle, Stage
<1>10. CASE Repaired
  BY <1>6, <1>10, Settings DEF Repaired, Answer, TimeLeft, TypeOK,
     LoopInv, InCycle, Stage
<1>11. CASE Stabilizing
  BY <1>6, <1>11, Settings DEF Stabilizing, Answer, Sleep, TimeLeft, TypeOK,
     LoopInv, InCycle, Stage, Shorter
<1>12. CASE SleepEnds
  BY <1>6, <1>12, Settings DEF SleepEnds, Ask, TimeLeft, TypeOK,
     LoopInv, LeftInv, InCycle, Stage
<1>13. CASE \E x \in Exit : RecoveryEnds(x)
  <2> PICK x \in Exit : RecoveryEnds(x)
    BY <1>13
  <2>1. CASE DefersRecovery(x)
    BY <1>2, <2>1, Settings DEF RecoveryEnds, InCycle, TypeOK, LoopInv
  <2>2. CASE ~DefersRecovery(x)
    BY <1>6, <2>2, Settings DEF RecoveryEnds, Ask, TimeLeft, TypeOK, LoopInv, InCycle, Stage
  <2> QED
    BY <2>1, <2>2
<1>14. CASE Tick
  BY <1>14, TurnWaits
<1>15. CASE Restart
  BY <1>15, TurnsForgotten
<1>16. CASE UNCHANGED vars
  BY <1>16 DEF vars, loopVars, timeVars, TurnInv, TimeLeft
<1> QED
  BY <1>1, <1>3, <1>4, <1>5, <1>7, <1>8, <1>9, <1>10, <1>11, <1>12, <1>13, <1>14,
     <1>15, <1>16 DEF Next, CycleNext

\* At the start every watch is due, and none is late.
LEMMA TurnInit == Init => LeftInv /\ TurnInv
<1> SUFFICES ASSUME Init PROVE LeftInv /\ TurnInv
  OBVIOUS
<1>1. TypeOK /\ LoopInv
  BY InitInv DEF IInv
<1>2. LeftInv
  BY DEF Init, LeftInv
<1>3. /\ pc = "loop" /\ cur = NoWatch /\ pending = {} /\ due = [w \in Watch |-> 0]
  BY DEF Init
<1>4. ASSUME NEW w \in Watch PROVE 0 - TimeLeft - Before(w) >= -Others(w)
  BY <1>1, <1>3, TimeLeftType, Sums
<1>5. TurnInv
  BY <1>3, <1>4, TurnInvIs, Settings
<1> QED
  BY <1>2, <1>5

\* A watch that is due waits for the rest of the pass it came due in and for
\* its turn in the next, at most two cycles of every other watch, whatever
\* their commands do (run_watchdog).
THEOREM Punctuality == Spec => []Punctual
<1> DEFINE Inv == IInv /\ LeftInv /\ TurnInv
<1>1. Init => Inv
  BY InitInv, TurnInit
<1>2. Inv /\ [Next]_vars => Inv'
  <2>1. IInv /\ [Next]_vars => IInv'
    BY TypesStep, LoopStep, SuspectStep, SpacingStep, StatsStep DEF IInv
  <2> QED
    BY <2>1, LeftStep, TurnStep DEF IInv
<1>3. Inv => Punctual
  <2> SUFFICES ASSUME Inv, NEW w \in Watch PROVE due[w] >= -(2 * Others(w))
    BY DEF Punctual, Others
  <2>1. due[w] \in Int /\ TimeLeft \in Nat /\ Others(w) \in Nat /\ Before(w) \in Nat
    BY TimeLeftType, Sums DEF IInv, TypeOK
  <2> QED
    BY <2>1, TurnInvIs
<1> QED
  BY <1>1, <1>2, <1>3, PTL DEF Spec

=============================================================================
