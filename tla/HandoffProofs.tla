---------------------------- MODULE HandoffProofs ----------------------------
(* Theorems about WorkloadHandoff, for every set of programs, every         *)
(* duration and every set of faults.                                        *)
EXTENDS WorkloadHandoff, TLAPS

USE DEF procVars, lockVars, hostVars, fileVars, supVars, histVars, Goto

----------------------------------------------------------------------------
(* Types *)

\* The supervisor, recover slots and dispatchers are different programs.
LEMMA StarterProc ==
  /\ Starter \subseteq Proc /\ Disp \subseteq Proc
  /\ Sup \in Proc /\ Sup \in Starter
  /\ Proc = Starter \cup Disp
  /\ \A p \in Starter : p \notin Disp
BY HandoffAssumption DEF Starter, Proc

\* The values a variable restarts from are in its type.
LEMMA ResetTypes ==
  /\ NoSample \in NoSample..Settle
  /\ NoLease \in 0..NoLease
  /\ 0 \in 0..Cooldown /\ 0 \in 0..Settle /\ 0 \in 0..MaxActivations
  /\ Cooldown \in 0..Cooldown /\ Settle \in 0..Settle
BY HandoffAssumption DEF NoSample, NoLease

\* The steps of the supervisor keep every variable in its type.
LEMMA SupTypes == TypeOK /\ SupNext => TypeOK'
<1> SUFFICES ASSUME TypeOK, SupNext PROVE TypeOK'
  OBVIOUS
<1> USE HandoffAssumption, StarterProc DEF TypeOK
<1>1. CASE SupStart
  BY <1>1 DEF SupStart, PC
<1>2. CASE SupExit
  BY <1>2, ResetTypes DEF SupExit, PC
<1>3. CASE SupTerm
  BY <1>3 DEF SupTerm
<1>4. CASE SupAcquire
  BY <1>4 DEF SupAcquire, Take, PC, LeasePC
<1>5. CASE SupLeaseHeld
  BY <1>5 DEF SupLeaseHeld, PC
<1>6. CASE SupDeferred
  BY <1>6 DEF SupDeferred, PC, NoSample, NoLease
<1>7. CASE SupBusy
  BY <1>7 DEF SupBusy, StopOptional, Spawn, PC, LeasePC, ChildState, NoSample, NoLease
<1>8. CASE SupQuiet
  BY <1>8 DEF SupQuiet, PC, LeasePC
<1>9. CASE SupYield
  BY <1>9 DEF SupYield, StopOptional, Spawn, PC, LeasePC, ChildState, NoSample, NoLease
<1>10. CASE SupRunnerSettling
  BY <1>10 DEF SupRunnerSettling, SupWait, Leave, PC, NoSample, NoLease
<1>11. CASE SupSettling
  BY <1>11 DEF SupSettling, SupWait, NormalSince, Leave, PC, NoSample, NoLease
<1>12. CASE SupCooling
  BY <1>12 DEF SupCooling, SupWait, NormalSince, Leave, PC, NoSample, NoLease
<1>13. CASE SupKeep
  BY <1>13 DEF SupKeep, Leave, PC, NoLease
<1>14. CASE SupAllow
  BY <1>14 DEF SupAllow, Defer, Leave, PC, LeasePC, NoLease
<1>15. CASE SupStopped
  BY <1>15 DEF SupStopped, SupWait, Leave, PC, NoLease
<1> QED
  BY <1>1, <1>2, <1>3, <1>4, <1>5, <1>6, <1>7, <1>8, <1>9, <1>10, <1>11,
     <1>12, <1>13, <1>14, <1>15 DEF SupNext

\* The steps of recover, gate and start_optional keep the types.
LEMMA StarterTypes ==
  ASSUME TypeOK, NEW p \in Starter, (p \in Rec /\ RecNext(p)) \/ StarterNext(p)
  PROVE  TypeOK'
<1> USE HandoffAssumption, StarterProc DEF TypeOK
<1>0. p \in Proc
  OBVIOUS
<1>1. CASE RecInvoke(p)
  BY <1>0, <1>1 DEF RecInvoke, Take, PC, LeasePC
<1>2. CASE RecDecline(p)
  BY <1>0, <1>2 DEF RecDecline, Defer, Leave, PC
<1>3. CASE RecObserve(p)
  BY <1>0, <1>3 DEF RecObserve, PC, LeasePC
<1>4. CASE RecAdmit(p)
  BY <1>0, <1>4 DEF RecAdmit, PC, LeasePC
<1>5. CASE Stamp(p)
  BY <1>0, <1>5 DEF Stamp, PC, LeasePC
<1>6. CASE Launch(p)
  BY <1>0, <1>6 DEF Launch, Spawn, PC, LeasePC, ChildState
<1>7. CASE StartSucceeds(p)
  BY <1>0, <1>7 DEF StartSucceeds, Leave, PC, NoLease
<1>8. CASE StartUndone(p)
  BY <1>0, <1>8 DEF StartUndone, StopOptional, Spawn, PC, LeasePC, ChildState, NoLease
<1>9. CASE CommandFails(p)
  BY <1>0, <1>9 DEF CommandFails, Defer, Leave, PC
<1>10. CASE CommandTimesOut(p)
  BY <1>0, <1>10 DEF CommandTimesOut, Defer, Leave, PC, ChildState
<1>11. CASE Crash(p)
  BY <1>0, <1>11, ResetTypes DEF Crash, Leave, PC
<1> QED
  BY <1>1, <1>2, <1>3, <1>4, <1>5, <1>6, <1>7, <1>8, <1>9, <1>10, <1>11
  DEF RecNext, StarterNext

\* The steps of the dispatcher and of the runner keep the types.
LEMMA DispTypes ==
  ASSUME TypeOK, NEW d \in Disp, DispNext(d) \/ RunnerNext(d)
  PROVE  TypeOK'
<1> USE HandoffAssumption, StarterProc DEF TypeOK
<1>0. d \in Proc
  OBVIOUS
<1>1. CASE DispActivate(d)
  BY <1>0, <1>1 DEF DispActivate, PC
<1>2. CASE DispIdle(d)
  BY <1>0, <1>2 DEF DispIdle, DispExit, Leave, PC
<1>3. CASE DispHint(d)
  BY <1>0, <1>3 DEF DispHint, PC
<1>4. CASE DispAcquire(d)
  BY <1>0, <1>4 DEF DispAcquire, Take, PC, LeasePC
<1>5. CASE DispLeaseHeld(d)
  BY <1>0, <1>5 DEF DispLeaseHeld, DispExit, Leave, PC
<1>6. CASE DispClear(d)
  BY <1>0, <1>6 DEF DispClear, PC, LeasePC, ChildState
<1>7. CASE DispStopped(d)
  BY <1>0, <1>7 DEF DispStopped, PC, LeasePC
<1>8. CASE DispVerify(d)
  BY <1>0, <1>8 DEF DispVerify, PC, LeasePC
<1>9. CASE DispAdmit(d)
  BY <1>0, <1>9 DEF DispAdmit, PC, LeasePC
<1>10. CASE DispSpawn(d)
  BY <1>0, <1>10 DEF DispSpawn, Spawn, PC, LeasePC, ChildState, RunnerState
<1>11. CASE DispReap(d)
  BY <1>0, <1>11 DEF DispReap, DispExit, Leave, PC
<1>12. CASE DispDefers(d)
  BY <1>0, <1>12 DEF DispDefers, DispExit, Leave, PC
<1>13. CASE DispTerm(d)
  BY <1>0, <1>13 DEF DispTerm
<1>14. CASE DispKilled(d)
  BY <1>0, <1>14 DEF DispKilled, DispExit, Leave, PC
<1>15. CASE RunnerAdmitted(d)
  BY <1>0, <1>15 DEF RunnerAdmitted, ChildState, RunnerState
<1>16. CASE RunnerTakes(d)
  BY <1>0, <1>16 DEF RunnerTakes, ChildState, RunnerState
<1>17. CASE RunnerExits(d)
  BY <1>0, <1>17 DEF RunnerExits, ChildGone, ChildState
<1>18. CASE RunnerKilled(d)
  BY <1>0, <1>18 DEF RunnerKilled, ChildGone, ChildState
<1>19. CASE DispStopTimesOut(d)
  <2>1. child' \in [Proc -> ChildState]
    BY <1>0, <1>19 DEF DispStopTimesOut, ChildState
  <2>2. DispExit(d) /\ UNCHANGED <<quit, heir, hostVars, fileVars, supVars,
                                   histVars>>
    BY <1>19 DEF DispStopTimesOut
  <2> QED
    BY <1>0, <2>1, <2>2 DEF DispExit, Leave, PC
<1> QED
  BY <1>1, <1>2, <1>3, <1>4, <1>5, <1>6, <1>7, <1>8, <1>9, <1>10, <1>11,
     <1>12, <1>13, <1>14, <1>15, <1>16, <1>17, <1>18, <1>19
  DEF DispNext, RunnerNext

\* What an age becomes stays between 0 and its limit.
LEMMA OlderType ==
  ASSUME NEW limit \in Nat, NEW age \in 0..limit
  PROVE  Older(age, limit) \in 0..limit
BY DEF Older

\* The steps of commands, containers, operators and the clock keep the types.
LEMMA HostTypes == ASSUME TypeOK, HostNext PROVE TypeOK'
<1> USE HandoffAssumption, StarterProc DEF TypeOK
<1>1. ASSUME NEW p \in Proc, CommandActs(p) PROVE TypeOK'
  BY <1>1 DEF CommandActs
<1>2. ASSUME NEW p \in Proc, CommandExits(p) PROVE TypeOK'
  BY <1>2 DEF CommandExits, ChildGone, ChildState
<1>3. CASE ContainersDie
  BY <1>3 DEF ContainersDie
<1>4. CASE QueueChanges
  BY <1>4 DEF QueueChanges
<1>5. ASSUME NEW wanted \in BOOLEAN, Pause(wanted) PROVE TypeOK'
  BY <1>5 DEF Pause
<1>6. CASE Tick
  <2>1. NoLease \in Nat
    BY DEF NoLease
  <2>2. /\ lastStart' \in 0..Cooldown
        /\ finished' \in 0..Settle
        /\ ready' \in 0..NoLease
    BY <1>6, <2>1, OlderType DEF Tick
  <2>3. /\ sinceLaunch' \in 0..Cooldown
        /\ sinceRunner' \in 0..Settle
        /\ sinceBusy' \in 0..Settle
    BY <1>6, OlderType DEF Tick
  <2>4. normalFor' \in NoSample..Settle
    BY <1>6 DEF Tick, Older, NoSample
  <2>5. nextStart' \in 0..Cooldown
    BY <1>6 DEF Tick
  <2> QED
    BY <1>6, <2>2, <2>3, <2>4, <2>5 DEF Tick
<1> QED
  BY <1>1, <1>2, <1>3, <1>4, <1>5, <1>6 DEF HostNext

\* Type correctness of the whole system.
THEOREM TypeCorrect == Spec => []TypeOK
<1>1. Init => TypeOK
  BY ResetTypes DEF Init, TypeOK, PC, ChildState
<1>2. TypeOK /\ [Next]_vars => TypeOK'
  <2> SUFFICES ASSUME TypeOK, [Next]_vars PROVE TypeOK'
    OBVIOUS
  <2>1. CASE SupNext
    BY <2>1, SupTypes
  <2>2. ASSUME NEW r \in Rec, RecNext(r) PROVE TypeOK'
    BY <2>2, StarterTypes DEF Starter
  <2>3. ASSUME NEW p \in Starter, StarterNext(p) PROVE TypeOK'
    BY <2>3, StarterTypes
  <2>4. ASSUME NEW d \in Disp, DispNext(d) \/ RunnerNext(d) PROVE TypeOK'
    BY <2>4, DispTypes
  <2>5. CASE HostNext
    BY <2>5, HostTypes
  <2>6. CASE UNCHANGED vars
    BY <2>6 DEF TypeOK, vars
  <2> QED
    BY <2>1, <2>2, <2>3, <2>4, <2>5, <2>6 DEF Next
<1> QED
  BY <1>1, <1>2, PTL DEF Spec

----------------------------------------------------------------------------
(* Exclusion *)

\* The part of the types that exclusion rests on.
LEMMA Shapes ==
  TypeOK => /\ pc \in [Proc -> PC]
            /\ child \in [Proc -> ChildState]
            /\ lease \subseteq Proc
            /\ heir \subseteq Proc
BY DEF TypeOK

\* The supervisor's steps keep the lease with one program.
LEMMA SupLease ==
  ASSUME TypeOK, LeaseInv, SupNext
  PROVE  LeaseInv'
<1> USE HandoffAssumption, StarterProc, Shapes DEF LeaseInv, Holds, LeasePC, RunnerState
<1>1. CASE SupStart
  BY <1>1 DEF SupStart
<1>2. CASE SupExit
  BY <1>2 DEF SupExit
<1>3. CASE SupTerm
  BY <1>3 DEF SupTerm
<1>4. CASE SupAcquire
  BY <1>4 DEF SupAcquire, Take, LeaseFree
<1>5. CASE SupLeaseHeld
  BY <1>5 DEF SupLeaseHeld
<1>6. CASE SupDeferred
  BY <1>6 DEF SupDeferred
<1>7. CASE SupBusy
  BY <1>7 DEF SupBusy, StopOptional, Spawn
<1>8. CASE SupQuiet
  BY <1>8 DEF SupQuiet
<1>9. CASE SupYield
  BY <1>9 DEF SupYield, StopOptional, Spawn
<1>10. CASE SupRunnerSettling
  BY <1>10 DEF SupRunnerSettling, SupWait, Leave
<1>11. CASE SupSettling
  BY <1>11 DEF SupSettling, SupWait, Leave
<1>12. CASE SupCooling
  BY <1>12 DEF SupCooling, SupWait, Leave
<1>13. CASE SupKeep
  BY <1>13 DEF SupKeep, Leave
<1>14. CASE SupAllow
  <2>1. CASE Sup \in stopping
    BY <1>14, <2>1 DEF SupAllow, MaySample, Defer, Leave
  <2>2. CASE Sup \notin stopping
    BY <1>14, <2>2 DEF SupAllow, MaySample
  <2> QED
    BY <2>1, <2>2
<1>15. CASE SupStopped
  BY <1>15 DEF SupStopped, SupWait, Leave
<1> QED
  BY <1>1, <1>2, <1>3, <1>4, <1>5, <1>6, <1>7, <1>8, <1>9, <1>10, <1>11, <1>12, <1>13, <1>14, <1>15
  DEF SupNext

\* So do the steps of recover, gate and start_optional.
LEMMA StarterLease ==
  ASSUME TypeOK, LeaseInv, NEW p \in Starter,
         (p \in Rec /\ RecNext(p)) \/ StarterNext(p)
  PROVE  LeaseInv'
<1> USE HandoffAssumption, StarterProc, Shapes DEF LeaseInv, Holds, LeasePC, RunnerState
<1>1. CASE RecInvoke(p)
  BY <1>1 DEF RecInvoke, Take, LeaseFree
<1>2. CASE RecDecline(p)
  BY <1>2 DEF RecDecline, Defer, Leave
<1>3. CASE RecObserve(p)
  BY <1>3 DEF RecObserve
<1>4. CASE RecAdmit(p)
  BY <1>4 DEF RecAdmit
<1>5. CASE Stamp(p)
  BY <1>5 DEF Stamp
<1>6. CASE Launch(p)
  <2> USE <1>6 DEF Launch, Spawn
  <2>1. \A q \in Proc : q \in lease' <=> pc'[q] \in LeasePC
    OBVIOUS
  <2>2. \A p1, q \in Proc : Holds(p1)' /\ Holds(q)' => p1 = q
    OBVIOUS
  <2>3. \A q \in Starter : /\ child'[q] \in {"none", "starting", "stopping"}
                          /\ child'[q] # "none" => q \in heir'
    OBVIOUS
  <2>4. \A e \in Disp :
          /\ child'[e] # "starting"
          /\ child'[e] \in RunnerState => e \in heir' /\ pc'[e] \in {"off", "waiting"}
    OBVIOUS
  <2> QED
    BY <2>1, <2>2, <2>3, <2>4
<1>7. CASE StartSucceeds(p)
  BY <1>7 DEF StartSucceeds, Leave
<1>8. CASE StartUndone(p)
  BY <1>8 DEF StartUndone, StopOptional, Spawn
<1>9. CASE CommandFails(p)
  BY <1>9 DEF CommandFails, Defer, Leave
<1>10. CASE CommandTimesOut(p)
  BY <1>10 DEF CommandTimesOut, Defer, Leave
<1>11. CASE Crash(p)
  BY <1>11 DEF Crash, Leave
<1> QED
  BY <1>1, <1>2, <1>3, <1>4, <1>5, <1>6, <1>7, <1>8, <1>9, <1>10, <1>11
  DEF RecNext, StarterNext

\* So do the steps of the dispatcher and of its runner.
LEMMA DispLease ==
  ASSUME TypeOK, LeaseInv, NEW d \in Disp, DispNext(d) \/ RunnerNext(d)
  PROVE  LeaseInv'
<1> USE HandoffAssumption, StarterProc, Shapes DEF LeaseInv, Holds, LeasePC, RunnerState
<1>1. CASE DispActivate(d)
  BY <1>1 DEF DispActivate
<1>2. CASE DispIdle(d)
  BY <1>2 DEF DispIdle, DispExit, Leave
<1>3. CASE DispHint(d)
  BY <1>3 DEF DispHint
<1>4. CASE DispAcquire(d)
  BY <1>4 DEF DispAcquire, Take, LeaseFree
<1>5. CASE DispLeaseHeld(d)
  BY <1>5 DEF DispLeaseHeld, DispExit, Leave
<1>6. CASE DispClear(d)
  <2> USE <1>6 DEF DispClear
  <2>1. \A q \in Proc : q \in lease' <=> pc'[q] \in LeasePC
    OBVIOUS
  <2>2. \A p1, q \in Proc : Holds(p1)' /\ Holds(q)' => p1 = q
    OBVIOUS
  <2>3. \A q \in Starter : /\ child'[q] \in {"none", "starting", "stopping"}
                          /\ child'[q] # "none" => q \in heir'
    OBVIOUS
  <2>4. \A e \in Disp :
          /\ child'[e] # "starting"
          /\ child'[e] \in RunnerState => e \in heir' /\ pc'[e] \in {"off", "waiting"}
    OBVIOUS
  <2> QED
    BY <2>1, <2>2, <2>3, <2>4
<1>7. CASE DispStopped(d)
  BY <1>7 DEF DispStopped
<1>8. CASE DispVerify(d)
  BY <1>8 DEF DispVerify
<1>9. CASE DispAdmit(d)
  BY <1>9 DEF DispAdmit
<1>10. CASE DispSpawn(d)
  <2> USE <1>10 DEF DispSpawn, Spawn
  <2>1. \A q \in Proc : q \in lease' <=> pc'[q] \in LeasePC
    OBVIOUS
  <2>2. \A p1, q \in Proc : Holds(p1)' /\ Holds(q)' => p1 = q
    OBVIOUS
  <2>3. \A q \in Starter : /\ child'[q] \in {"none", "starting", "stopping"}
                          /\ child'[q] # "none" => q \in heir'
    OBVIOUS
  <2>4. \A e \in Disp :
          /\ child'[e] # "starting"
          /\ child'[e] \in RunnerState => e \in heir' /\ pc'[e] \in {"off", "waiting"}
    OBVIOUS
  <2> QED
    BY <2>1, <2>2, <2>3, <2>4
<1>11. CASE DispReap(d)
  BY <1>11 DEF DispReap, DispExit, Leave
<1>12. CASE DispDefers(d)
  BY <1>12 DEF DispDefers, DispExit, Leave
<1>13. CASE DispTerm(d)
  BY <1>13 DEF DispTerm
<1>14. CASE DispKilled(d) \/ DispStopTimesOut(d)
  BY <1>14 DEF DispKilled, DispStopTimesOut, DispExit, Leave
<1>15. CASE RunnerAdmitted(d)
  BY <1>15 DEF RunnerAdmitted
<1>16. CASE RunnerTakes(d)
  BY <1>16 DEF RunnerTakes
<1>17. CASE RunnerExits(d)
  BY <1>17 DEF RunnerExits, ChildGone
<1>18. CASE RunnerKilled(d)
  BY <1>18 DEF RunnerKilled, ChildGone
<1> QED
  BY <1>1, <1>2, <1>3, <1>4, <1>5, <1>6, <1>7, <1>8, <1>9, <1>10, <1>11, <1>12, <1>13, <1>14, <1>15, <1>16, <1>17, <1>18
  DEF DispNext, RunnerNext

\* The supervisor relies on its observation under the lease.
LEMMA SupHost ==
  ASSUME TypeOK, LeaseInv, HostInv, SupNext
  PROVE  HostInv'
<1> USE StarterProc, Shapes
    DEF HostInv, LeaseInv, Holds, LeasePC, RunnerState, RunnerAlive
<1>1. CASE SupStart
  BY <1>1 DEF SupStart
<1>2. CASE SupExit
  BY <1>2 DEF SupExit
<1>3. CASE SupTerm
  BY <1>3 DEF SupTerm
<1>4. CASE SupAcquire
  BY <1>4 DEF SupAcquire, Take, LeaseFree
<1>5. CASE SupLeaseHeld
  BY <1>5 DEF SupLeaseHeld
<1>6. CASE SupDeferred
  BY <1>6 DEF SupDeferred
<1>7. CASE SupBusy
  BY <1>7 DEF SupBusy, StopOptional, Spawn
<1>8. CASE SupQuiet
  BY <1>8 DEF SupQuiet, RunnerSeen
<1>9. CASE SupYield
  BY <1>9 DEF SupYield, StopOptional, Spawn
<1>10. CASE SupRunnerSettling
  BY <1>10 DEF SupRunnerSettling, SupWait, Leave
<1>11. CASE SupSettling
  BY <1>11 DEF SupSettling, SupWait, Leave
<1>12. CASE SupCooling
  BY <1>12 DEF SupCooling, SupWait, Leave
<1>13. CASE SupKeep
  BY <1>13 DEF SupKeep, Leave
<1>14. CASE SupAllow
  BY <1>14 DEF SupAllow, MaySample, Defer, Leave
<1>15. CASE SupStopped
  BY <1>15 DEF SupStopped, SupWait, Leave
<1> QED
  BY <1>1, <1>2, <1>3, <1>4, <1>5, <1>6, <1>7, <1>8, <1>9, <1>10, <1>11, <1>12, <1>13, <1>14, <1>15
  DEF SupNext

\* A start is admitted and runs while no runner and no job can appear.
LEMMA StarterHost ==
  ASSUME TypeOK, LeaseInv, HostInv, NEW p \in Starter,
         (p \in Rec /\ RecNext(p)) \/ StarterNext(p)
  PROVE  HostInv'
<1> USE StarterProc, Shapes
    DEF HostInv, LeaseInv, Holds, LeasePC, RunnerState, RunnerAlive
<1>1. CASE RecInvoke(p)
  BY <1>1 DEF RecInvoke, Take, LeaseFree
<1>2. CASE RecDecline(p)
  BY <1>2 DEF RecDecline, Defer, Leave
<1>3. CASE RecObserve(p)
  BY <1>3 DEF RecObserve, RunnerSeen
<1>4. CASE RecAdmit(p)
  BY <1>4 DEF RecAdmit
<1>5. CASE Stamp(p)
  BY <1>5 DEF Stamp
<1>6. CASE Launch(p)
  BY <1>6 DEF Launch, Spawn
<1>7. CASE StartSucceeds(p)
  BY <1>7 DEF StartSucceeds, Leave
<1>8. CASE StartUndone(p)
  BY <1>8 DEF StartUndone, StopOptional, Spawn
<1>9. CASE CommandFails(p)
  BY <1>9 DEF CommandFails, Defer, Leave
<1>10. CASE CommandTimesOut(p)
  BY <1>10 DEF CommandTimesOut, Defer, Leave
<1>11. CASE Crash(p)
  BY <1>11 DEF Crash, Leave
<1> QED
  BY <1>1, <1>2, <1>3, <1>4, <1>5, <1>6, <1>7, <1>8, <1>9, <1>10, <1>11
  DEF RecNext, StarterNext

\* A runner is spawned and lives while the project cannot come up.
LEMMA DispHost ==
  ASSUME TypeOK, LeaseInv, HostInv, NEW d \in Disp, DispNext(d) \/ RunnerNext(d)
  PROVE  HostInv'
<1> USE StarterProc, Shapes
    DEF HostInv, LeaseInv, Holds, LeasePC, RunnerState, RunnerAlive
<1>1. CASE DispActivate(d)
  BY <1>1 DEF DispActivate
<1>2. CASE DispIdle(d)
  BY <1>2 DEF DispIdle, DispExit, Leave
<1>3. CASE DispHint(d)
  BY <1>3 DEF DispHint
<1>4. CASE DispAcquire(d)
  BY <1>4 DEF DispAcquire, Take, LeaseFree
<1>5. CASE DispLeaseHeld(d)
  BY <1>5 DEF DispLeaseHeld, DispExit, Leave
<1>6. CASE DispClear(d)
  BY <1>6 DEF DispClear
<1>7. CASE DispStopped(d)
  BY <1>7 DEF DispStopped
<1>8. CASE DispVerify(d)
  BY <1>8 DEF DispVerify
<1>9. CASE DispAdmit(d)
  BY <1>9 DEF DispAdmit
<1>10. CASE DispSpawn(d)
  BY <1>10 DEF DispSpawn, Spawn
<1>11. CASE DispReap(d)
  BY <1>11 DEF DispReap, DispExit, Leave
<1>12. CASE DispDefers(d)
  BY <1>12 DEF DispDefers, DispExit, Leave
<1>13. CASE DispTerm(d)
  BY <1>13 DEF DispTerm
<1>14. CASE DispKilled(d) \/ DispStopTimesOut(d)
  BY <1>14 DEF DispKilled, DispStopTimesOut, DispExit, Leave
<1>15. CASE RunnerAdmitted(d)
  BY <1>15 DEF RunnerAdmitted
<1>16. CASE RunnerTakes(d)
  BY <1>16 DEF RunnerTakes
<1>17. CASE RunnerExits(d)
  BY <1>17 DEF RunnerExits, ChildGone
<1>18. CASE RunnerKilled(d)
  BY <1>18 DEF RunnerKilled, ChildGone
<1> QED
  BY <1>1, <1>2, <1>3, <1>4, <1>5, <1>6, <1>7, <1>8, <1>9, <1>10, <1>11, <1>12, <1>13, <1>14, <1>15, <1>16, <1>17, <1>18
  DEF DispNext, RunnerNext

\* Commands act on the project only within the lease their parent took.
LEMMA HostHost ==
  ASSUME TypeOK, LeaseInv, HostInv, HostNext
  PROVE  LeaseInv' /\ HostInv'
<1> USE StarterProc, Shapes
    DEF HostInv, LeaseInv, Holds, LeasePC, RunnerState, RunnerAlive
<1>1. ASSUME NEW p \in Proc, CommandActs(p) PROVE LeaseInv' /\ HostInv'
  BY <1>1 DEF CommandActs
<1>2. ASSUME NEW p \in Proc, CommandExits(p) PROVE LeaseInv' /\ HostInv'
  BY <1>2 DEF CommandExits, ChildGone
<1>3. CASE ContainersDie
  BY <1>3 DEF ContainersDie
<1>4. CASE QueueChanges
  BY <1>4 DEF QueueChanges
<1>5. ASSUME NEW wanted \in BOOLEAN, Pause(wanted) PROVE LeaseInv' /\ HostInv'
  BY <1>5 DEF Pause
<1>6. CASE Tick
  BY <1>6 DEF Tick
<1> QED
  BY <1>1, <1>2, <1>3, <1>4, <1>5, <1>6 DEF HostNext

\* The inductive invariant behind exclusion.
IInv == TypeOK /\ LeaseInv /\ HostInv

THEOREM LeaseCorrect == Spec => []IInv
<1>1. Init => LeaseInv /\ HostInv
  BY StarterProc
  DEF Init, LeaseInv, HostInv, Holds, LeasePC, RunnerState, RunnerAlive
<1>2. TypeOK /\ LeaseInv /\ HostInv /\ [Next]_vars => LeaseInv' /\ HostInv'
  <2> SUFFICES ASSUME TypeOK, LeaseInv, HostInv, [Next]_vars
               PROVE  LeaseInv' /\ HostInv'
    OBVIOUS
  <2>1. CASE SupNext
    BY <2>1, SupLease, SupHost
  <2>2. ASSUME NEW r \in Rec, RecNext(r) PROVE LeaseInv' /\ HostInv'
    BY <2>2, StarterLease, StarterHost DEF Starter
  <2>3. ASSUME NEW p \in Starter, StarterNext(p) PROVE LeaseInv' /\ HostInv'
    BY <2>3, StarterLease, StarterHost
  <2>4. ASSUME NEW d \in Disp, DispNext(d) \/ RunnerNext(d)
        PROVE  LeaseInv' /\ HostInv'
    BY <2>4, DispLease, DispHost
  <2>5. CASE HostNext
    BY <2>5, HostHost
  <2>6. CASE UNCHANGED vars
    BY <2>6 DEF LeaseInv, HostInv, Holds, RunnerAlive, vars
  <2> QED
    BY <2>1, <2>2, <2>3, <2>4, <2>5, <2>6 DEF Next
<1> QED
  BY <1>1, <1>2, TypeCorrect, PTL DEF Spec, IInv

\* CI and the optional project exclude each other, and there is one runner.
THEOREM Exclusion == Spec => []Exclusive
<1>1. IInv => Exclusive
  BY StarterProc DEF IInv, LeaseInv, HostInv, Holds, Exclusive
<1> QED
  BY <1>1, LeaseCorrect, PTL

----------------------------------------------------------------------------
(* Spacing of starts *)

\* The stamp is never older than the launch it stands for, and a program past
\* its test of the stamp still has the cooldown behind it.
SpacingInv ==
  /\ sinceLaunch >= lastStart
  /\ \A p \in Starter :
       /\ pc[p] \in {"health", "stamped"} => sinceLaunch >= Cooldown
       /\ pc[p] = "stamped" => lastStart = 0

\* The types that the ages need.
LEMMA Ages ==
  TypeOK => /\ lastStart \in Nat /\ lastStart <= Cooldown
            /\ sinceLaunch \in Nat /\ sinceLaunch <= Cooldown
            /\ finished \in Nat /\ finished <= Settle
            /\ sinceRunner \in Nat /\ sinceRunner <= Settle
BY HandoffAssumption DEF TypeOK

\* A start only happens in Launch, under the lease.
LEMMA StartsByLaunch ==
  ASSUME TypeOK, [Next]_vars, NEW p \in Proc, Starts(p)
  PROVE  p \in Starter /\ Launch(p)
<1> USE StarterProc, Shapes DEF Starts
<1>1. CASE SupNext
  BY <1>1 DEF SupNext, SupStart, SupExit, SupTerm, SupAcquire, SupLeaseHeld,
     SupDeferred, SupBusy, SupQuiet, SupYield, SupRunnerSettling, SupSettling,
     SupCooling, SupKeep, SupAllow, SupStopped, SupWait, StopOptional, Spawn
<1>2. ASSUME NEW r \in Rec, RecNext(r) PROVE FALSE
  BY <1>2 DEF RecNext, RecInvoke, RecDecline, RecObserve, RecAdmit
<1>3. ASSUME NEW q \in Starter, StarterNext(q) PROVE p \in Starter /\ Launch(p)
  <2>1. CASE Launch(q)
    BY <2>1 DEF Launch, Spawn
  <2>2. CASE ~Launch(q)
    BY <1>3, <2>2 DEF StarterNext, Stamp, StartSucceeds, StartUndone,
       CommandFails, CommandTimesOut, Crash, StopOptional, Spawn
  <2> QED
    BY <2>1, <2>2
<1>4. ASSUME NEW d \in Disp, DispNext(d) \/ RunnerNext(d) PROVE FALSE
  BY <1>4 DEF DispNext, RunnerNext, DispActivate, DispIdle, DispHint,
     DispAcquire, DispLeaseHeld, DispClear, DispStopped, DispVerify,
     DispAdmit, DispSpawn, DispReap, DispDefers, DispTerm,
     DispStopTimesOut, DispKilled, Spawn,
     RunnerAdmitted, RunnerTakes, RunnerExits, RunnerKilled, ChildGone
<1>5. CASE HostNext
  BY <1>5 DEF HostNext, CommandActs, CommandExits, ContainersDie,
     QueueChanges, Pause, Tick, ChildGone
<1>6. CASE UNCHANGED vars
  BY <1>6 DEF vars
<1> QED
  BY <1>1, <1>2, <1>3, <1>4, <1>5, <1>6 DEF Next

LEMMA SpacingStep ==
  ASSUME IInv, SpacingInv, [Next]_vars
  PROVE  SpacingInv'
<1> USE HandoffAssumption, StarterProc, Shapes, Ages DEF SpacingInv, IInv
<1>1. CASE SupNext
  BY <1>1 DEF SupNext, SupStart, SupExit, SupTerm, SupAcquire, SupLeaseHeld,
     SupDeferred, SupBusy, SupQuiet, SupYield, SupRunnerSettling, SupSettling,
     SupCooling, SupKeep, SupAllow, SupStopped, SupWait, StopOptional, Take,
     Leave, Defer, MaySample, CooldownReady
<1>2. ASSUME NEW r \in Rec, RecNext(r) PROVE SpacingInv'
  BY <1>2 DEF RecNext, RecInvoke, RecDecline, RecObserve, RecAdmit, Take,
     Leave, Defer, CooldownReady
<1>3. ASSUME NEW p \in Starter, StarterNext(p) PROVE SpacingInv'
  <2>1. CASE Stamp(p)
    BY <2>1 DEF Stamp
  <2>2. CASE Launch(p)
    BY <2>2 DEF Launch, LeaseInv, Holds, LeasePC
  <2>3. CASE ~Stamp(p) /\ ~Launch(p)
    BY <1>3, <2>3 DEF StarterNext, StartSucceeds, StartUndone, CommandFails,
       CommandTimesOut, Crash, StopOptional, Leave, Defer
  <2> QED
    BY <2>1, <2>2, <2>3
<1>4. ASSUME NEW d \in Disp, DispNext(d) \/ RunnerNext(d) PROVE SpacingInv'
  BY <1>4 DEF DispNext, RunnerNext, DispActivate, DispIdle, DispHint,
     DispAcquire, DispLeaseHeld, DispClear, DispStopped, DispVerify,
     DispAdmit, DispSpawn, DispReap, DispDefers, DispTerm,
     DispStopTimesOut, DispKilled,
     DispExit, Leave, Take, RunnerAdmitted, RunnerTakes, RunnerExits,
     RunnerKilled
<1>5. CASE HostNext
  <2>1. CASE Tick
    BY <2>1 DEF Tick, Older
  <2>2. CASE ~Tick
    BY <1>5, <2>2 DEF HostNext, CommandActs, CommandExits, ContainersDie,
       QueueChanges, Pause
  <2> QED
    BY <2>1, <2>2
<1>6. CASE UNCHANGED vars
  BY <1>6 DEF vars
<1> QED
  BY <1>1, <1>2, <1>3, <1>4, <1>5, <1>6 DEF Next

\* restart_cooldown_seconds lie between any two launches, whoever launches
\* and whatever is killed in between.
THEOREM Spacing == Spec => StartsSpaced
<1>1. Init => SpacingInv
  BY HandoffAssumption, StarterProc DEF Init, SpacingInv
<1>2. IInv /\ SpacingInv /\ [Next]_vars => SpacingInv'
  BY SpacingStep
<1>3. IInv /\ SpacingInv /\ [Next]_vars
        => [\A p \in Proc : Starts(p) => sinceLaunch >= Cooldown]_vars
  BY StartsByLaunch DEF IInv, SpacingInv, Launch
<1> QED
  BY <1>1, <1>2, <1>3, LeaseCorrect, PTL DEF Spec, StartsSpaced

----------------------------------------------------------------------------
(* Settling after a runner, if no dispatcher is killed *)

\* A runner has its dispatcher waiting for it; unless one waits, the stamp is
\* not older than the runner's end; who is admitted has settled.
SettlingInv ==
  /\ \A d \in Disp : child[d] \in RunnerState => pc[d] = "waiting"
  /\ (\A d \in Disp : pc[d] # "waiting") => sinceRunner >= finished
  /\ \A p \in Starter : pc[p] \in {"health", "stamped"} => sinceRunner >= Settle

LEMMA SettlingStep ==
  ASSUME "dispatcher" \notin Faults, IInv, SettlingInv, [Next]_vars
  PROVE  SettlingInv'
<1> USE HandoffAssumption, StarterProc, Shapes, Ages
    DEF SettlingInv, IInv, LeaseInv, Holds, LeasePC
<1>1. CASE SupNext
  BY <1>1 DEF SupNext, SupStart, SupExit, SupTerm, SupAcquire, SupLeaseHeld,
     SupDeferred, SupBusy, SupQuiet, SupYield, SupRunnerSettling, SupSettling,
     SupCooling, SupKeep, SupAllow, SupStopped, SupWait, StopOptional, Spawn,
     Take, Leave, Defer, MaySample, RunnerSettled
<1>2. ASSUME NEW r \in Rec, RecNext(r) PROVE SettlingInv'
  BY <1>2 DEF RecNext, RecInvoke, RecDecline, RecObserve, RecAdmit, Take,
     Leave, Defer, RunnerSettled, Starter
<1>3. ASSUME NEW p \in Starter, StarterNext(p) PROVE SettlingInv'
  BY <1>3 DEF StarterNext, Stamp, Launch, StartSucceeds, StartUndone,
     CommandFails, CommandTimesOut, Crash, StopOptional, Spawn, Leave, Defer
<1>4. ASSUME NEW d \in Disp, DispNext(d) PROVE SettlingInv'
  <2>1. CASE DispSpawn(d)
    BY <2>1 DEF DispSpawn, Spawn
  <2>2. CASE DispReap(d)
    BY <2>2 DEF DispReap, DispExit, Leave, RunnerState
  <2>3. CASE ~DispSpawn(d) /\ ~DispReap(d)
    BY <1>4, <2>3 DEF DispNext, DispActivate, DispIdle, DispHint,
       DispAcquire, DispLeaseHeld, DispClear, DispStopped, DispVerify,
       DispAdmit, DispDefers, DispTerm,
       DispStopTimesOut, DispKilled, DispExit, Leave, Take,
       RunnerState
  <2> QED
    BY <2>1, <2>2, <2>3
<1>5. ASSUME NEW d \in Disp, RunnerNext(d) PROVE SettlingInv'
  BY <1>5 DEF RunnerNext, RunnerAdmitted, RunnerTakes, RunnerExits,
     RunnerKilled, ChildGone, RunnerState
<1>6. CASE HostNext
  <2>1. CASE Tick
    BY <2>1 DEF Tick, Older, RunnerAlive
  <2>2. CASE ~Tick
    BY <1>6, <2>2 DEF HostNext, CommandActs, CommandExits, ContainersDie,
       QueueChanges, Pause, ChildGone, RunnerState
  <2> QED
    BY <2>1, <2>2
<1>7. CASE UNCHANGED vars
  BY <1>7 DEF vars
<1> QED
  BY <1>1, <1>2, <1>3, <1>4, <1>5, <1>6, <1>7 DEF Next

\* settle_seconds lie between the last moment of a runner and the next start,
\* seen or unseen, if every runner is outlived by its dispatcher.
THEOREM Settling ==
  ASSUME "dispatcher" \notin Faults
  PROVE  Spec => StartsAfterRunner
<1>1. Init => SettlingInv
  BY HandoffAssumption, StarterProc DEF Init, SettlingInv, RunnerState
<1>2. IInv /\ SettlingInv /\ [Next]_vars => SettlingInv'
  BY SettlingStep
<1>3. IInv /\ SettlingInv /\ [Next]_vars
        => [\A p \in Proc : Starts(p) => sinceRunner >= Settle]_vars
  BY StartsByLaunch DEF IInv, SettlingInv, Launch
<1> QED
  BY <1>1, <1>2, <1>3, LeaseCorrect, PTL DEF Spec, StartsAfterRunner

----------------------------------------------------------------------------
(* Start and stop commands *)

\* A dispatcher waits for its stop command, or is gone.
SerialInv ==
  \A d \in Disp : child[d] = "stopping" => pc[d] \in {"stopping", "off"}

LEMMA SerialStep ==
  ASSUME IInv, SerialInv, [Next]_vars
  PROVE  SerialInv'
<1> USE StarterProc, Shapes DEF SerialInv, IInv
<1>1. CASE SupNext
  BY <1>1 DEF SupNext, SupStart, SupExit, SupTerm, SupAcquire, SupLeaseHeld,
     SupDeferred, SupBusy, SupQuiet, SupYield, SupRunnerSettling, SupSettling,
     SupCooling, SupKeep, SupAllow, SupStopped, SupWait, StopOptional, Spawn,
     Take, Leave, Defer
<1>2. ASSUME NEW r \in Rec, RecNext(r) PROVE SerialInv'
  BY <1>2 DEF RecNext, RecInvoke, RecDecline, RecObserve, RecAdmit, Take,
     Leave, Defer, Starter
<1>3. ASSUME NEW p \in Starter, StarterNext(p) PROVE SerialInv'
  BY <1>3 DEF StarterNext, Stamp, Launch, StartSucceeds, StartUndone,
     CommandFails, CommandTimesOut, Crash, StopOptional, Spawn, Leave, Defer
<1>4. ASSUME NEW d \in Disp, DispNext(d) PROVE SerialInv'
  BY <1>4 DEF DispNext, DispActivate, DispIdle, DispHint, DispAcquire,
     DispLeaseHeld, DispClear, DispStopped, DispVerify, DispAdmit, DispSpawn,
     DispReap, DispDefers, DispTerm,
     DispStopTimesOut, DispKilled, DispExit, Leave, Take, Spawn
<1>5. ASSUME NEW d \in Disp, RunnerNext(d) PROVE SerialInv'
  BY <1>5 DEF RunnerNext, RunnerAdmitted, RunnerTakes, RunnerExits,
     RunnerKilled, ChildGone
<1>6. CASE HostNext
  BY <1>6 DEF HostNext, CommandActs, CommandExits, ContainersDie,
     QueueChanges, Pause, Tick, ChildGone
<1>7. CASE UNCHANGED vars
  BY <1>7 DEF vars
<1> QED
  BY <1>1, <1>2, <1>3, <1>4, <1>5, <1>6, <1>7 DEF Next

\* No start command runs beside a stop command, except one that a dispatcher
\* has left behind when it was killed or its command timed out.
THEOREM Serialization == Spec => []CommandsSerialized
<1>1. Init => SerialInv
  BY StarterProc DEF Init, SerialInv
<1>2. IInv /\ SerialInv /\ [Next]_vars => SerialInv'
  BY SerialStep
<1>3. IInv /\ SerialInv => CommandsSerialized
  BY StarterProc
  DEF IInv, LeaseInv, LeasePC, Holds, SerialInv, CommandsSerialized
<1> QED
  BY <1>1, <1>2, <1>3, LeaseCorrect, PTL DEF Spec

----------------------------------------------------------------------------
(* Sustained calm before the supervisor starts the project *)

\* normal_since never reaches back before the last busy observation.
CalmInv ==
  /\ normalFor # NoSample => sinceBusy >= normalFor
  /\ pc[Sup] \in {"health", "stamped"} => sinceBusy >= Settle

LEMMA CalmStep ==
  ASSUME TypeOK, CalmInv, [Next]_vars
  PROVE  CalmInv'
<1>0. normalFor \in Int /\ sinceBusy \in Nat /\ sinceBusy <= Settle
      /\ (normalFor # NoSample => normalFor \in Nat /\ normalFor <= Settle)
  BY HandoffAssumption DEF TypeOK, NoSample
<1> USE HandoffAssumption, StarterProc, Shapes, <1>0 DEF CalmInv
<1>1. CASE SupNext
  <2>1. CASE SupAllow
    BY <2>1 DEF SupAllow, MaySample, Sustained, NormalSince, Defer, Leave
  <2>2. CASE SupBusy
    BY <2>2 DEF SupBusy, StopOptional
  <2>3. CASE SupSettling \/ SupCooling \/ SupRunnerSettling \/ SupStopped
    BY <2>3 DEF SupSettling, SupCooling, SupRunnerSettling, SupStopped,
       SupWait, NormalSince, Leave, NoSample
  <2>4. CASE SupYield
    BY <2>4 DEF SupYield, StopOptional
  <2>5. CASE SupStart \/ SupExit \/ SupTerm \/ SupAcquire \/ SupLeaseHeld
             \/ SupDeferred \/ SupQuiet \/ SupKeep
    BY <2>5 DEF SupStart, SupExit, SupTerm, SupAcquire, SupLeaseHeld,
       SupDeferred, SupQuiet, SupKeep, Take, Leave
  <2> QED
    BY <1>1, <2>1, <2>2, <2>3, <2>4, <2>5 DEF SupNext
<1>2. ASSUME NEW r \in Rec, RecNext(r) PROVE CalmInv'
  BY <1>2 DEF RecNext, RecInvoke, RecDecline, RecObserve, RecAdmit, Take,
     Leave, Defer
<1>3. ASSUME NEW p \in Starter, StarterNext(p) PROVE CalmInv'
  BY <1>3 DEF StarterNext, Stamp, Launch, StartSucceeds, StartUndone,
     CommandFails, CommandTimesOut, Crash, StopOptional, Leave, Defer
<1>4. ASSUME NEW d \in Disp, DispNext(d) \/ RunnerNext(d) PROVE CalmInv'
  BY <1>4 DEF DispNext, RunnerNext, DispActivate, DispIdle, DispHint,
     DispAcquire, DispLeaseHeld, DispClear, DispStopped, DispVerify,
     DispAdmit, DispSpawn, DispReap, DispDefers, DispTerm,
     DispStopTimesOut, DispKilled,
     DispExit, Leave, Take, RunnerAdmitted, RunnerTakes, RunnerExits,
     RunnerKilled
<1>5. CASE HostNext
  <2>1. CASE Tick
    BY <2>1 DEF Tick, Older, NoSample
  <2>2. CASE ~Tick
    BY <1>5, <2>2 DEF HostNext, CommandActs, CommandExits, ContainersDie,
       QueueChanges, Pause
  <2> QED
    BY <2>1, <2>2
<1>6. CASE UNCHANGED vars
  BY <1>6 DEF vars
<1> QED
  BY <1>1, <1>2, <1>3, <1>4, <1>5, <1>6 DEF Next

\* The supervisor starts the project only settle_seconds after its last busy
\* observation, whatever fails.
THEOREM Calm == Spec => SupStartsWhenCalm
<1>1. Init => CalmInv
  BY StarterProc DEF Init, CalmInv
<1>2. TypeOK /\ CalmInv /\ [Next]_vars => CalmInv'
  BY CalmStep
<1>3. TypeOK /\ CalmInv /\ [Next]_vars
        => [Starts(Sup) => sinceBusy >= Settle]_vars
  BY StartsByLaunch, StarterProc DEF CalmInv, Launch
<1> QED
  BY <1>1, <1>2, <1>3, TypeCorrect, PTL DEF Spec, SupStartsWhenCalm

----------------------------------------------------------------------------
(* The programs implement the policy *)

\* Nothing that was spawned before is alive when a start is launched.
FreshInv ==
  \A p \in Starter :
    pc[p] \in {"observe", "decide", "reason", "stamps", "health", "stamped"}
    => child[p] = "none"

LEMMA FreshStep ==
  ASSUME IInv, FreshInv, [Next]_vars
  PROVE  FreshInv'
<1> USE StarterProc, Shapes DEF FreshInv, IInv
<1>1. CASE SupNext
  <2>1. CASE SupAcquire
    BY <2>1 DEF SupAcquire, Take, LeaseFree, LeaseInv
  <2>2. CASE SupBusy \/ SupYield
    BY <2>2 DEF SupBusy, SupYield, StopOptional, Spawn
  <2>3. CASE ~SupAcquire /\ ~SupBusy /\ ~SupYield
    BY <1>1, <2>3 DEF SupNext, SupStart, SupExit, SupTerm, SupLeaseHeld,
       SupDeferred, SupQuiet, SupRunnerSettling, SupSettling, SupCooling,
       SupKeep, SupAllow, SupStopped, SupWait, Leave, Defer, MaySample
  <2> QED
    BY <2>1, <2>2, <2>3
<1>2. ASSUME NEW r \in Rec, RecNext(r) PROVE FreshInv'
  BY <1>2 DEF RecNext, RecInvoke, RecDecline, RecObserve, RecAdmit, Take,
     Leave, Defer, Starter
<1>3. ASSUME NEW p \in Starter, StarterNext(p) PROVE FreshInv'
  BY <1>3 DEF StarterNext, Stamp, Launch, StartSucceeds, StartUndone,
     CommandFails, CommandTimesOut, Crash, StopOptional, Spawn, Leave, Defer
<1>4. ASSUME NEW d \in Disp, DispNext(d) PROVE FreshInv'
  BY <1>4 DEF DispNext, DispActivate, DispIdle, DispHint, DispAcquire,
     DispLeaseHeld, DispClear, DispStopped, DispVerify, DispAdmit, DispSpawn,
     DispReap, DispDefers, DispTerm,
     DispStopTimesOut, DispKilled, DispExit, Leave, Take, Spawn
<1>5. ASSUME NEW d \in Disp, RunnerNext(d) PROVE FreshInv'
  BY <1>5 DEF RunnerNext, RunnerAdmitted, RunnerTakes, RunnerExits,
     RunnerKilled, ChildGone
<1>6. CASE HostNext
  BY <1>6 DEF HostNext, CommandActs, CommandExits, ContainersDie,
     QueueChanges, Pause, Tick, ChildGone
<1>7. CASE UNCHANGED vars
  BY <1>7 DEF vars
<1> QED
  BY <1>1, <1>2, <1>3, <1>4, <1>5, <1>6, <1>7 DEF Next

\* What the policy cannot see: a step that leaves its variables alone.
LEMMA Stutter ==
  ASSUME child' = child, optional' = optional, job' = job,
         sinceLaunch' = sinceLaunch, sinceRunner' = sinceRunner
  PROVE  UNCHANGED Policy!policyVars
BY DEF Policy!policyVars, RunnerAlive, Starting

\* A stop command takes the place of a child that is no runner.
LEMMA StopStutter ==
  ASSUME TypeOK, NEW p \in Proc, child[p] \notin RunnerState \cup {"starting"},
         child' = [child EXCEPT ![p] = "stopping"], optional' = optional,
         job' = job, sinceLaunch' = sinceLaunch, sinceRunner' = sinceRunner
  PROVE  UNCHANGED Policy!policyVars
<1>1. \A q \in Proc : child'[q] = "starting" <=> child[q] = "starting"
  BY Shapes
<1>2. \A q \in Proc : child'[q] \in RunnerState <=> child[q] \in RunnerState
  BY Shapes DEF RunnerState
<1>3. Starting' = Starting /\ RunnerAlive' = RunnerAlive
  BY <1>1, <1>2, StarterProc DEF Starting, RunnerAlive
<1> QED
  BY <1>3 DEF Policy!policyVars

\* What the policy needs to know of a state.
PolicyInv == IInv /\ SpacingInv /\ SettlingInv /\ FreshInv

LEMMA PolicyStep ==
  ASSUME PolicyInv, [Next]_vars
  PROVE  [Policy!Next]_(Policy!policyVars)
<1> USE StarterProc, Shapes DEF PolicyInv, IInv
<1>1. CASE SupNext
  <2>1. CASE SupBusy \/ SupYield
    <3>1. child[Sup] = "none"
      BY <2>1 DEF SupBusy, SupYield, FreshInv
    <3>2. CASE optional
      BY <2>1, <3>1, <3>2, StopStutter
      DEF SupBusy, SupYield, StopOptional, Spawn, RunnerState
    <3>3. CASE ~optional
      BY <2>1, <3>3, Stutter DEF SupBusy, SupYield, StopOptional
    <3> QED
      BY <3>2, <3>3
  <2>2. CASE ~SupBusy /\ ~SupYield
    BY <1>1, <2>2, Stutter DEF SupNext, SupStart, SupExit, SupTerm,
       SupAcquire, SupLeaseHeld, SupDeferred, SupQuiet, SupRunnerSettling,
       SupSettling, SupCooling, SupKeep, SupAllow, SupStopped, SupWait
  <2> QED
    BY <2>1, <2>2
<1>2. ASSUME NEW r \in Rec, RecNext(r) PROVE UNCHANGED Policy!policyVars
  BY <1>2, Stutter DEF RecNext, RecInvoke, RecDecline, RecObserve, RecAdmit
<1>3. ASSUME NEW p \in Starter, StarterNext(p)
      PROVE  [Policy!Next]_(Policy!policyVars)
  <2>1. CASE Launch(p)
    <3>1. ~Starting /\ ~RunnerAlive /\ ~job
      BY <2>1 DEF Launch, FreshInv, LeaseInv, HostInv, Holds, LeasePC,
         Starting, RunnerAlive
    <3>2. sinceLaunch >= Cooldown /\ sinceRunner >= Settle
      BY <2>1 DEF Launch, SpacingInv, SettlingInv
    <3>3. Starting' /\ ~RunnerAlive'
      BY <2>1, <3>1 DEF Launch, Spawn, Starting, RunnerAlive, RunnerState
    <3>4. (Starting' = TRUE) /\ (RunnerAlive' = RunnerAlive)
      BY <3>1, <3>3 DEF Starting, RunnerAlive
    <3>5. /\ sinceLaunch' = 0
          /\ UNCHANGED <<optional, job, sinceRunner>>
      BY <2>1 DEF Launch, hostVars
    <3>6. Policy!Launch
      BY <3>1, <3>2, <3>4, <3>5 DEF Policy!Launch
    <3> QED
      BY <3>6 DEF Policy!Next
  <2>2. CASE StartUndone(p)
    <3>1. CASE optional
      BY <2>2, <3>1, StopStutter
      DEF StartUndone, StopOptional, Spawn, RunnerState
    <3>2. CASE ~optional
      BY <2>2, <3>2, Stutter DEF StartUndone, StopOptional
    <3> QED
      BY <3>1, <3>2
  <2>3. CASE CommandTimesOut(p)
    <3>1. CASE UNCHANGED child
      BY <2>3, <3>1, Stutter DEF CommandTimesOut
    <3>2. CASE child' = [child EXCEPT ![p] = "none"]
      <4>1. RunnerAlive' = RunnerAlive /\ Starting' \in {Starting, FALSE}
        BY <3>2 DEF RunnerAlive, RunnerState, Starting
      <4> QED
        BY <2>3, <4>1
        DEF CommandTimesOut, Policy!Next, Policy!StartEnds, Policy!policyVars
    <3> QED
      BY <2>3, <3>1, <3>2 DEF CommandTimesOut
  <2>4. CASE Stamp(p) \/ StartSucceeds(p) \/ CommandFails(p) \/ Crash(p)
    BY <2>4, Stutter DEF Stamp, StartSucceeds, CommandFails, Crash
  <2> QED
    BY <1>3, <2>1, <2>2, <2>3, <2>4 DEF StarterNext
<1>4. ASSUME NEW d \in Disp, DispNext(d)
      PROVE  [Policy!Next]_(Policy!policyVars)
  <2>1. CASE DispSpawn(d)
    <3>1. ~optional /\ ~job /\ ~Starting /\ ~RunnerAlive
      BY <2>1 DEF DispSpawn, LeaseInv, HostInv, Holds, LeasePC, RunnerAlive,
         Starting
    <3>2. RunnerAlive' /\ ~Starting'
      BY <2>1, <3>1 DEF DispSpawn, Spawn, Starting, RunnerAlive, RunnerState
    <3>3. (RunnerAlive' = TRUE) /\ (Starting' = Starting)
      BY <3>1, <3>2 DEF Starting, RunnerAlive
    <3>4. /\ sinceRunner' = 0
          /\ UNCHANGED <<optional, job, sinceLaunch>>
      BY <2>1 DEF DispSpawn, hostVars
    <3>5. Policy!RunnerUp
      BY <3>1, <3>3, <3>4 DEF Policy!RunnerUp
    <3> QED
      BY <3>5 DEF Policy!Next
  <2>2. CASE DispClear(d)
    <3>1. CASE optional
      BY <2>2, <3>1, StopStutter DEF DispClear, LeaseInv
    <3>2. CASE ~optional
      BY <2>2, <3>2, Stutter DEF DispClear
    <3> QED
      BY <3>1, <3>2
  <2>3. CASE DispStopTimesOut(d)
    <3>1. CASE UNCHANGED child
      BY <2>3, <3>1, Stutter DEF DispStopTimesOut
    <3>2. CASE child' = [child EXCEPT ![d] = "none"]
      <4>1. RunnerAlive' = RunnerAlive /\ Starting' = Starting
        BY <2>3, <3>2 DEF DispStopTimesOut, RunnerAlive, RunnerState, Starting
      <4> QED
        BY <2>3, <4>1 DEF DispStopTimesOut, Policy!policyVars
    <3> QED
      BY <2>3, <3>1, <3>2 DEF DispStopTimesOut
  <2>4. CASE ~DispSpawn(d) /\ ~DispClear(d) /\ ~DispStopTimesOut(d)
    BY <1>4, <2>4, Stutter DEF DispNext, DispActivate, DispIdle, DispHint,
       DispAcquire, DispLeaseHeld, DispStopped, DispVerify, DispAdmit,
       DispReap, DispDefers, DispTerm, DispKilled
  <2> QED
    BY <2>1, <2>2, <2>3, <2>4
<1>5. ASSUME NEW d \in Disp, RunnerNext(d)
      PROVE  [Policy!Next]_(Policy!policyVars)
  <2>1. Starting' = Starting
    BY <1>5 DEF RunnerNext, RunnerAdmitted, RunnerTakes, RunnerExits,
       RunnerKilled, ChildGone, Starting, RunnerState
  <2>2. CASE RunnerAdmitted(d)
    <3>1. RunnerAlive' = RunnerAlive
      BY <2>2 DEF RunnerAdmitted, RunnerAlive, RunnerState
    <3> QED
      BY <2>1, <2>2, <3>1 DEF RunnerAdmitted, Policy!policyVars
  <2>3. CASE RunnerTakes(d)
    <3>1. RunnerAlive /\ RunnerAlive'
      BY <2>3 DEF RunnerTakes, RunnerAlive, RunnerState
    <3> QED
      BY <2>1, <2>3, <3>1 DEF RunnerTakes, Policy!Next, Policy!JobUp
  <2>4. CASE RunnerExits(d) \/ RunnerKilled(d)
    <3>1. RunnerAlive' \in {RunnerAlive, FALSE}
      BY <2>4 DEF RunnerExits, RunnerKilled, ChildGone, RunnerAlive, RunnerState
    <3>2. job' \in {job, FALSE}
      BY <2>4 DEF RunnerExits, RunnerKilled, hostVars, TypeOK
    <3> QED
      BY <2>1, <2>4, <3>1, <3>2
      DEF RunnerExits, RunnerKilled, Policy!Next, Policy!CIDown
  <2> QED
    BY <1>5, <2>2, <2>3, <2>4 DEF RunnerNext
<1>6. CASE HostNext
  <2>1. ASSUME NEW p \in Proc, CommandActs(p)
        PROVE  [Policy!Next]_(Policy!policyVars)
    <3>1. RunnerAlive' = RunnerAlive /\ Starting' = Starting
      BY <2>1 DEF CommandActs, RunnerAlive, Starting
    <3>2. CASE child[p] = "starting"
      <4>1. Starting /\ ~RunnerAlive /\ ~job
        BY <3>2 DEF Starting, RunnerAlive, RunnerState, LeaseInv, HostInv, Holds
      <4> QED
        BY <2>1, <3>1, <3>2, <4>1 DEF CommandActs, Policy!Next, Policy!OptionalUp
    <3>3. CASE child[p] # "starting"
      BY <2>1, <3>1, <3>3 DEF CommandActs, Policy!Next, Policy!OptionalDown
    <3> QED
      BY <3>2, <3>3
  <2>2. ASSUME NEW p \in Proc, CommandExits(p)
        PROVE  [Policy!Next]_(Policy!policyVars)
    <3>1. RunnerAlive' = RunnerAlive /\ Starting' \in {Starting, FALSE}
      BY <2>2 DEF CommandExits, ChildGone, RunnerAlive, RunnerState, Starting
    <3> QED
      BY <2>2, <3>1
      DEF CommandExits, Policy!Next, Policy!StartEnds, Policy!policyVars
  <2>3. CASE ContainersDie
    <3>1. RunnerAlive' = RunnerAlive /\ Starting' = Starting
      BY <2>3 DEF ContainersDie, RunnerAlive, Starting
    <3> QED
      BY <2>3, <3>1
      DEF ContainersDie, Policy!Next, Policy!CIDown, Policy!OptionalDown
  <2>4. CASE QueueChanges \/ \E wanted \in BOOLEAN : Pause(wanted)
    BY <2>4, Stutter DEF QueueChanges, Pause
  <2>5. CASE Tick
    <3>1. RunnerAlive' = RunnerAlive /\ Starting' = Starting
      BY <2>5 DEF Tick, RunnerAlive, Starting
    <3>2. Policy!Tick
      BY <2>5, <3>1 DEF Tick, Older, Policy!Tick, Policy!Elapse
    <3> QED
      BY <3>2 DEF Policy!Next
  <2> QED
    BY <1>6, <2>1, <2>2, <2>3, <2>4, <2>5 DEF HostNext
<1>7. CASE UNCHANGED vars
  BY <1>7, Stutter DEF vars
<1> QED
  BY <1>1, <1>2, <1>3, <1>4, <1>5, <1>6, <1>7 DEF Next

\* Supervisor, recover and dispatcher together implement the policy, if every
\* runner is outlived by its dispatcher.
THEOREM Implementation ==
  ASSUME "dispatcher" \notin Faults
  PROVE  Spec => ImplementsPolicy
<1>1. Init => SpacingInv /\ SettlingInv /\ FreshInv
  BY HandoffAssumption, StarterProc
  DEF Init, SpacingInv, SettlingInv, FreshInv, RunnerState
<1>2. Init => Policy!Init
  BY StarterProc DEF Init, Policy!Init, Starting, RunnerAlive, RunnerState
<1>3. IInv /\ SpacingInv /\ [Next]_vars => SpacingInv'
  BY SpacingStep
<1>4. IInv /\ SettlingInv /\ [Next]_vars => SettlingInv'
  BY SettlingStep
<1>5. IInv /\ FreshInv /\ [Next]_vars => FreshInv'
  BY FreshStep
<1>6. IInv /\ SpacingInv /\ SettlingInv /\ FreshInv /\ [Next]_vars
        => [Policy!Next]_(Policy!policyVars)
  BY PolicyStep DEF PolicyInv
<1> QED
  BY <1>1, <1>2, <1>3, <1>4, <1>5, <1>6, LeaseCorrect, PTL
  DEF Spec, ImplementsPolicy, Policy!Spec

----------------------------------------------------------------------------
(* Sustained calm before recover starts the project *)

\* A readiness lease that outlives a busy observation is about to be replaced
\* by the tick that observed it, under workload.lock; what the supervisor has
\* launched, and what recover was admitted to, came after a calm time.
RecCalmInv ==
  /\ SupervisorReady /\ sinceBusy < Settle =>
       pc[Sup] = "stopping" /\ child[Sup] = "none" /\ ~optional
  /\ pc[Sup] = "starting" => sinceBusy >= Settle
  /\ \A r \in Rec : pc[r] \in {"health", "stamped"} => sinceBusy >= Settle

\* A step keeps them, if no command fails unexpectedly and nobody is killed
\* between the observation and the event that replaces the lease.
LEMMA RecCalmStep ==
  ASSUME "command" \notin Faults, "crash" \notin Faults,
         IInv, FreshInv, CalmInv, RecCalmInv, [Next]_vars
  PROVE  RecCalmInv'
<1>0. /\ normalFor \in Int /\ sinceBusy \in Nat /\ sinceBusy <= Settle
      /\ Settle \in Nat /\ Settle > 0 /\ ready \in 0..NoLease /\ ReadyAge \in Nat
      /\ Sup \notin Rec /\ Sup \in Proc /\ Rec \subseteq Proc
  BY HandoffAssumption DEF IInv, TypeOK, NoSample, Proc, Starter
<1>1. /\ \A p \in Proc : p \in lease <=> pc[p] \in LeasePC
      /\ \A p, q \in Proc : Holds(p) /\ Holds(q) => p = q
      /\ \A p \in Starter : child[p] # "none" => p \in heir
      /\ \A d \in Disp : child[d] # "starting"
  BY DEF IInv, LeaseInv
<1> USE StarterProc, Shapes, <1>0 DEF RecCalmInv, IInv, SupervisorReady, NoLease
<1>2. CASE SupNext
  <2>1. CASE SupAllow
    <3>1. sinceBusy >= Settle
      BY <2>1 DEF SupAllow, Sustained, NormalSince, CalmInv, NoSample
    <3>2. /\ \A r \in Rec : pc'[r] = pc[r]
          /\ pc'[Sup] # "starting" /\ sinceBusy' = sinceBusy
      BY <2>1 DEF SupAllow, Defer, Leave, Goto, histVars, MaySample
    <3> QED
      BY <3>1, <3>2
  <2>2. CASE SupKeep
    <3>1. sinceBusy >= Settle
      BY <2>2 DEF SupKeep, Sustained, NormalSince, CalmInv, NoSample
    <3>2. /\ \A r \in Rec : pc'[r] = pc[r]
          /\ pc'[Sup] # "starting" /\ sinceBusy' = sinceBusy
      BY <2>2 DEF SupKeep, Leave, Goto, histVars, MaySample
    <3> QED
      BY <3>1, <3>2
  <2>3. CASE SupBusy
    <3>1. \A r \in Rec : pc[r] \notin {"health", "stamped"}
      BY <1>1, <2>3 DEF SupBusy, Holds, LeasePC
    <3>2. child[Sup] = "none"
      BY <2>3 DEF SupBusy, FreshInv
    <3> QED
      BY <2>3, <3>1, <3>2 DEF SupBusy, StopOptional, Goto, hostVars
  <2>4. CASE SupYield
    BY <2>4 DEF SupYield, StopOptional, Goto, hostVars, histVars
  <2>5. CASE SupSettling \/ SupCooling \/ SupRunnerSettling \/ SupStopped
    BY <2>5 DEF SupSettling, SupCooling, SupRunnerSettling, SupStopped,
       SupWait, Leave, Goto, hostVars, histVars
  <2>6. CASE SupDeferred
    BY <2>6 DEF SupDeferred, Goto, hostVars, histVars
  <2>7. CASE SupStart \/ SupExit \/ SupTerm \/ SupAcquire \/ SupLeaseHeld \/ SupQuiet
    BY <2>7 DEF SupStart, SupExit, SupTerm, SupAcquire, SupLeaseHeld, SupQuiet,
       Take, Goto, hostVars, histVars, fileVars, lockVars
  <2> QED
    BY <1>2, <2>1, <2>2, <2>3, <2>4, <2>5, <2>6, <2>7 DEF SupNext
<1>3. ASSUME NEW r \in Rec, RecNext(r) PROVE RecCalmInv'
  <2>1. CASE RecAdmit(r)
    <3>1. sinceBusy >= Settle
      BY <1>1, <2>1 DEF RecAdmit, Holds, LeasePC
    <3> QED
      BY <2>1, <3>1 DEF RecAdmit, Goto, hostVars, histVars, fileVars, lockVars
  <2>2. CASE RecInvoke(r) \/ RecDecline(r) \/ RecObserve(r)
    BY <2>2 DEF RecInvoke, RecDecline, RecObserve, Take, Leave, Defer, Goto,
       hostVars, histVars, fileVars, lockVars
  <2> QED
    BY <1>3, <2>1, <2>2 DEF RecNext
<1>4. ASSUME NEW p \in Starter, StarterNext(p) PROVE RecCalmInv'
  <2>1. CASE Stamp(p)
    BY <2>1 DEF Stamp, Goto, hostVars, histVars, lockVars, Starter
  <2>2. CASE Launch(p)
    <3>1. sinceBusy >= Settle
      BY <2>2 DEF Launch, CalmInv, Starter
    <3> QED
      BY <2>2, <3>1 DEF Launch, Goto
  <2>3. CASE StartSucceeds(p)
    BY <2>3 DEF StartSucceeds, Leave, Goto, hostVars, histVars, Starter
  <2>4. CASE StartUndone(p)
    BY <1>1, <2>4 DEF StartUndone, StopOptional, Spawn, Goto, hostVars, histVars,
       Holds, LeasePC, Starter
  <2>5. CASE CommandFails(p)
    BY <2>5 DEF CommandFails, Defer, Leave, Goto, hostVars, histVars, fileVars, Starter
  <2>6. CASE CommandTimesOut(p)
    BY <2>6 DEF CommandTimesOut, Defer, Leave, Goto, hostVars, histVars, fileVars, Starter
  <2>7. CASE Crash(p)
    BY <2>7 DEF Crash
  <2> QED
    BY <1>4, <2>1, <2>2, <2>3, <2>4, <2>5, <2>6, <2>7 DEF StarterNext
<1>5. ASSUME NEW d \in Disp, DispNext(d) \/ RunnerNext(d) PROVE RecCalmInv'
  <2>1. /\ \A p \in Starter : pc'[p] = pc[p] /\ child'[p] = child[p]
        /\ UNCHANGED <<ready, optional, sinceBusy>>
    BY <1>5, HandoffAssumption DEF DispNext, RunnerNext, DispActivate, DispIdle, DispHint,
       DispAcquire, DispLeaseHeld, DispClear, DispStopped, DispVerify,
       DispAdmit, DispSpawn, DispReap, DispDefers, DispTerm,
       DispStopTimesOut, DispKilled,
       DispExit, Leave, Take, Goto, Spawn, RunnerAdmitted, RunnerTakes, RunnerExits,
       RunnerKilled, ChildGone, hostVars, histVars, fileVars, lockVars, Starter
  <2> QED
    BY <2>1 DEF Starter
<1>6. CASE HostNext
  <2>1. CASE Tick
    BY <2>1 DEF Tick, Older, lockVars, hostVars
  <2>2. ASSUME NEW p \in Proc, CommandActs(p) PROVE RecCalmInv'
    <3>1. child[p] = "starting" => p \in Starter /\ Holds(p)
      BY <1>1 DEF Proc, Holds
    <3>2. pc[Sup] = "stopping" => Holds(Sup)
      BY <1>1 DEF Holds, LeasePC
    <3>3. pc[Sup] = "stopping" /\ child[Sup] = "none" => child[p] # "starting"
      BY <1>1, <3>1, <3>2
    <3> QED
      BY <2>2, <3>3 DEF CommandActs, lockVars, fileVars, histVars
  <2>3. ASSUME NEW p \in Proc, CommandExits(p) PROVE RecCalmInv'
    BY <2>3 DEF CommandExits, ChildGone, hostVars, fileVars, histVars
  <2>4. CASE ContainersDie \/ QueueChanges \/ (\E wanted \in BOOLEAN : Pause(wanted))
    BY <2>4 DEF ContainersDie, QueueChanges, Pause, lockVars, fileVars, histVars
  <2> QED
    BY <1>6, <2>1, <2>2, <2>3, <2>4 DEF HostNext
<1>7. CASE UNCHANGED vars
  BY <1>7 DEF vars, lockVars, hostVars, fileVars, histVars
<1> QED
  BY <1>2, <1>3, <1>4, <1>5, <1>6, <1>7 DEF Next

\* recover starts the project only settle_seconds after the supervisor's last
\* busy observation, although it asks only for a readiness lease that may be
\* ReadyAge old: the tick that observes replaces the lease before it gives up
\* workload.lock.  It may not when a command of it fails or when it is killed.
THEOREM RecoverCalm ==
  ASSUME "command" \notin Faults, "crash" \notin Faults
  PROVE  Spec => RecStartsWhenCalm
<1> DEFINE Inv == FreshInv /\ CalmInv /\ RecCalmInv
<1>1. Init => Inv
  BY StarterProc, HandoffAssumption
  DEF Init, FreshInv, CalmInv, RecCalmInv, SupervisorReady, NoLease
<1>2. IInv /\ Inv /\ [Next]_vars => Inv'
  BY FreshStep, CalmStep, RecCalmStep DEF IInv
<1>3. IInv /\ Inv /\ [Next]_vars
        => [\A r \in Rec : Starts(r) => sinceBusy >= Settle]_vars
  BY StartsByLaunch, StarterProc DEF IInv, RecCalmInv, Launch, Starter
<1> QED
  BY <1>1, <1>2, <1>3, LeaseCorrect, PTL DEF Spec, RecStartsWhenCalm

=============================================================================
