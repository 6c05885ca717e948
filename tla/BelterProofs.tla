---------------------------- MODULE BelterProofs ----------------------------
(***************************************************************************)
(* Proved of Belter, for every configuration, host and number of faults:   *)
(* the types, that plans are complete before anything is run, that a valid *)
(* configuration has the fields they need, that a bring-up acts on what it *)
(* has read, that restarts are bounded, that a bring-up follows its        *)
(* policy, and what its success means.                                     *)
(***************************************************************************)
EXTENDS Belter, DependencyProofs, WellFoundedInduction

Step == [name : Name, program : Program]

\* A bring-up that is past its search.
Resolved == BringUp /\ pc \in {"loading", "reading", "running", "checking", "probing", "failing"}

\* Where a command is goes with what it is.
PlaceInv ==
  /\ Resolved => verdict = "ok"
  /\ pc \in {"resolving", "reading"} => BringUp
  /\ pc \in {"probing", "failing"} => BringUp /\ goal = Mempool
  /\ pc \in {"reading", "running", "checking", "probing", "failing"} => ~command.dry
  /\ pc = "checking" => todo # <<>> /\ Head(todo).program = "machine start"
  /\ pc = "probing" => at \in 1..4
  /\ pc \in {"idle", "resolving", "loading", "probing", "failing"} => todo = <<>>
  /\ pc \in {"resolving", "loading", "reading"} => round = 1
  /\ pc # "idle" => outcome = "none"
  /\ command.kind \in ServiceCommand \/ pc = "idle"

\* Everything that a bring-up is past could be read; once it acts, all could.
ReadableInv ==
  BringUp =>
    /\ pc = "reading" => \A i \in 1..Len(ordered) : i < at => Readable(config, ordered[i], env)
    /\ Acting => \A i \in 1..Len(ordered) : Readable(config, ordered[i], env)

\* Nothing is touched before the plan is complete.
TouchedInv ==
  /\ pc \in {"resolving", "loading", "reading"} => touched = {}
  /\ command.dry => touched = {}
  /\ outcome \in ConfigError => touched = {}

\* What is planned was last read unhealthy; mempool is tried again after a
\* failed probe only.
SeenInv ==
  /\ BringUp /\ pc \in {"reading", "running", "checking"} =>
       \A i \in 1..Len(todo) :
         /\ seen[todo[i].name] \in {"stopped", "unknown", "degraded"}
         /\ Takes(todo[i].program) => seen[todo[i].name] = "degraded"
  /\ pc = "failing" => seen[Mempool] = "degraded"

\* The plan follows the order.
SortedInv ==
  BringUp /\ pc \in {"reading", "running", "checking"} =>
    /\ \A i \in 1..Len(todo) :
         \E p \in 1..Len(ordered) : todo[i].name = ordered[p] /\ (pc = "reading" => p < at)
    /\ \A i, j \in 1..Len(todo), p, q \in 1..Len(ordered) :
         i <= j /\ todo[i].name = ordered[p] /\ todo[j].name = ordered[q] => p <= q

TypeInv == TypeOK /\ OrderInv
IInv == TypeInv /\ PlaceInv /\ ReadableInv /\ TouchedInv /\ SeenInv /\ SortedInv

----------------------------------------------------------------------------
(* The operators *)

\* What can be read can be planned.
LEMMA ReadablePlannable ==
  ASSUME NEW c \in Config, NEW n \in Name, NEW v \in Env, Readable(c, n, v)
  PROVE  Plannable(c, n, v)
BY DEF Readable, Plannable, Manager

\* An operation is one program or two on the service.
LEMMA StepsType ==
  ASSUME config \in Config, NEW n \in Name, NEW v, Plannable(config, n, v),
         NEW action \in {"start", "stop", "restart"}
  PROVE  /\ Steps(n, action) \in Seq(Step)
         /\ Steps(n, action) # <<>>
         /\ DOMAIN Steps(n, action) = 1..Len(Steps(n, action))
         /\ \A i \in DOMAIN Steps(n, action) : Steps(n, action)[i].name = n
         /\ action = "start" => \A i \in DOMAIN Steps(n, action) : ~Takes(Steps(n, action)[i].program)
<1>1. Is(n, "launchd") \/ Is(n, "podman_compose") \/ Is(n, "podman_machine")
  BY DEF Plannable, Manager, Is
<1>2. \E p, q \in Program :
        /\ Programs(n, action) = <<p>> \/ Programs(n, action) = <<p, q>>
        /\ action = "start" => Programs(n, action) = <<p>> /\ ~Takes(p)
  <2>1. CASE Is(n, "launchd")
    BY <2>1 DEF Programs, Program, Takes, Is
  <2>2. CASE Is(n, "podman_compose")
    BY <2>2 DEF Programs, Program, Takes, Is
  <2>3. CASE Is(n, "podman_machine")
    BY <2>3 DEF Programs, Program, Takes, Is
  <2> QED
    BY <1>1, <2>1, <2>2, <2>3
<1>3. PICK p \in Program, q \in Program :
        /\ Programs(n, action) = <<p>> \/ Programs(n, action) = <<p, q>>
        /\ action = "start" => Programs(n, action) = <<p>> /\ ~Takes(p)
  BY <1>2
<1>4. CASE Programs(n, action) = <<p>>
  <2>1. Steps(n, action) = <<[name |-> n, program |-> p]>>
    BY <1>4 DEF Steps
  <2> QED
    BY <2>1, <1>3, <1>4 DEF Step
<1>5. CASE Programs(n, action) = <<p, q>> /\ action # "start"
  <2>1. Steps(n, action) = <<[name |-> n, program |-> p], [name |-> n, program |-> q]>>
    BY <1>5 DEF Steps
  <2> QED
    BY <2>1, <1>3, <1>5 DEF Step
<1> QED
  BY <1>3, <1>4, <1>5

\* One program of a plan takes a service down, or none.
TakesOnce(plan) ==
  \A i, j \in DOMAIN plan : Takes(plan[i].program) /\ Takes(plan[j].program) => i = j

LEMMA StepsOnce ==
  ASSUME config \in Config, NEW n \in Name, NEW v, Plannable(config, n, v),
         NEW action \in {"start", "stop", "restart"}
  PROVE  TakesOnce(Steps(n, action))
<1>1. \E p, q \in Program :
        \/ Programs(n, action) = <<p>>
        \/ Programs(n, action) = <<p, q>> /\ ~Takes(q)
  BY DEF Plannable, Manager, Is, Programs, Program, Takes
<1>2. PICK p \in Program, q \in Program :
        \/ Programs(n, action) = <<p>>
        \/ Programs(n, action) = <<p, q>> /\ ~Takes(q)
  BY <1>1
<1>3. CASE Programs(n, action) = <<p>>
  BY <1>3 DEF Steps, TakesOnce
<1>4. CASE Programs(n, action) = <<p, q>> /\ ~Takes(q)
  <2>1. Steps(n, action) = <<[name |-> n, program |-> p], [name |-> n, program |-> q]>>
    BY <1>4 DEF Steps
  <2> QED
    BY <1>4, <2>1 DEF TakesOnce
<1> QED
  BY <1>2, <1>3, <1>4

\* The host keeps its types.
LEMMA BecomesType ==
  ASSUME TypeOK, NEW n \in Name, NEW x \in Condition, Becomes(n, x)
  PROVE  world' \in [Name -> Condition] /\ warm' \in 0..StartupTime
<1>1. world' \in [Name -> Condition]
  BY DEF TypeOK, Becomes, Condition
<1>2. warm' \in 0..StartupTime
  BY BelterAssumption DEF TypeOK, Becomes
<1> QED
  BY <1>1, <1>2

LEMMA PassesType ==
  ASSUME TypeOK, NEW seconds \in Nat, Passes(seconds)
  PROVE  world' \in [Name -> Condition] /\ warm' \in 0..StartupTime
<1>1. CASE world[Mempool] = "silent" /\ warm <= seconds
  <2>1. PICK x \in {"syncing", "running"} : Becomes(Mempool, x)
    BY <1>1 DEF Passes
  <2> QED
    BY <2>1, BecomesType, ConfigAssumption DEF Condition
<1>2. CASE ~(world[Mempool] = "silent" /\ warm <= seconds)
  <2>1. UNCHANGED world /\ warm' = (IF warm > seconds THEN warm - seconds ELSE 0)
    BY <1>2 DEF Passes
  <2> QED
    BY <2>1, BelterAssumption DEF TypeOK
<1> QED
  BY <1>1, <1>2

LEMMA EffectType ==
  ASSUME TypeOK, NEW n \in Name, NEW p \in Program
  PROVE  Effect(n, p) \in Condition
<1>1. world[n] \in Condition
  BY DEF TypeOK
<1> QED
  BY <1>1 DEF Effect, Program, Condition

LEMMA RunsType ==
  ASSUME TypeOK, NEW n \in Name, NEW p \in Program, Runs(n, p)
  PROVE  /\ world' \in [Name -> Condition] /\ warm' \in 0..StartupTime
         /\ forwarding' \in BOOLEAN
<1>1. Becomes(n, Effect(n, p)) /\ Effect(n, p) \in Condition
  BY EffectType DEF Runs
<1>2. forwarding' \in BOOLEAN
  BY DEF Runs
<1> QED
  BY <1>1, <1>2, BecomesType

LEMMA FaultType ==
  ASSUME TypeOK, Fault
  PROVE  faults' \in 0..MaxFaults
BY BelterAssumption DEF TypeOK, Fault

LEMMA ReadsType ==
  ASSUME TypeOK, NEW n \in Name, NEW s \in State, Reads(n, s)
  PROVE  faults' \in 0..MaxFaults /\ seen' \in [Name -> State] /\ seen' = [seen EXCEPT ![n] = s]
<1>1. faults' \in 0..MaxFaults
  BY FaultType DEF Reads, TypeOK
<1>2. seen' \in [Name -> State] /\ seen' = [seen EXCEPT ![n] = s]
  BY DEF Reads, TypeOK
<1> QED
  BY <1>1, <1>2

LEMMA RecordsType ==
  ASSUME TypeOK, NEW n \in Name, NEW p \in Program, Records(n, p)
  PROVE  touched' \subseteq Name /\ downs' \in [Name -> 0..3] /\ seen' = seen
BY DEF TypeOK, Records, MaxDowns

\* The services that are listed are configured names.
LEMMA ListedType ==
  ASSUME TypeOK
  PROVE  /\ Listed \in Seq(Name) /\ Len(Listed) \in Nat
         /\ \A i \in 1..Len(Listed) : Listed[i] \in Name
<1>1. Listed \in Seq(Name)
  BY DEF TypeOK, OrderTypeOK, Listed
<1> QED
  BY <1>1, LenProperties, ElementOfSeq

\* The head and the tail of a plan that is not empty.
LEMMA PlanType ==
  ASSUME TypeOK, todo # <<>>
  PROVE  /\ Head(todo) \in Step /\ Head(todo).name \in Name /\ Head(todo).program \in Program
         /\ Head(todo) = todo[1] /\ Len(todo) \in Nat \ {0}
         /\ Tail(todo) \in Seq(Step)
         /\ Len(Tail(todo)) = Len(todo) - 1
         /\ \A i \in 1..(Len(todo) - 1) : Tail(todo)[i] = todo[i + 1]
<1>1. todo \in Seq(Step)
  BY DEF TypeOK, Step
<1>2. Head(todo) \in Step /\ Head(todo) = todo[1] /\ Len(todo) \in Nat \ {0}
  BY <1>1, HeadTailProperties, EmptySeq, ElementOfSeq
<1>3. /\ Tail(todo) \in Seq(Step)
      /\ Len(Tail(todo)) = Len(todo) - 1
      /\ \A i \in 1..(Len(todo) - 1) : Tail(todo)[i] = todo[i + 1]
  BY <1>1, HeadTailProperties
<1> QED
  BY <1>2, <1>3 DEF Step

----------------------------------------------------------------------------
(* The search and the types *)

LEMMA UnsearchedOrder == config \in Config /\ goal \in Name /\ Unsearched => OrderInv
BY UnsearchedStarts

LEMMA UnsearchedPrimed == (config \in Config /\ goal \in Name /\ Unsearched => OrderInv)'
BY UnsearchedOrder, PTL

\* Every command begins with a new search.
LEMMA FreshOrder ==
  ASSUME Fresh, config' \in Config, goal' \in Name
  PROVE  OrderInv'
<1>1. Unsearched'
  BY DEF Fresh, Unsearched
<1> QED
  BY <1>1, UnsearchedPrimed

LEMMA WithMissingType ==
  ASSUME config \in Config
  PROVE  WithMissing(config) \in Config
BY ConfigAssumption DEF WithMissing, Config

\* A step keeps what is proved of the search.
LEMMA OrderStep ==
  ASSUME IInv, Next
  PROVE  OrderInv'
<1>0. OrderInv /\ config \in Config /\ goal \in Name
  BY DEF IInv, TypeInv, OrderInv, OrderTypeOK
<1>1. ASSUME NEW n \in Name, NEW dry \in BOOLEAN, NEW kind \in ServiceCommand,
             Invoke(kind, n, dry)
      PROVE  OrderInv'
  BY <1>0, <1>1, FreshOrder DEF Invoke, fileVars
<1>2. ASSUME NEW kind \in ConfigCommand, NEW dry \in BOOLEAN, InitFile(kind, dry)
      PROVE  OrderInv'
  <2>1. config' \in Config /\ goal' \in Name /\ Fresh
    BY <1>0, <1>2, ConfigAssumption DEF InitFile, Configure, fileVars
  <2> QED
    BY <2>1, FreshOrder
<1>3. ASSUME NEW kind \in ConfigCommand, NEW dry \in BOOLEAN, ValidateFile(kind, dry)
      PROVE  OrderInv'
  <2>1. config' \in Config /\ goal' \in Name /\ Fresh
    BY <1>0, <1>3, WithMissingType DEF ValidateFile, Configure
  <2> QED
    BY <2>1, FreshOrder
<1>4. CASE Resolve
  BY <1>0, <1>4, SearchKeeps DEF Resolve, fileVars, jobVars
<1>5. CASE ~Resolve /\ (Proceed \/ Disturb \/ ComesUp)
  <2>1. UNCHANGED <<fileVars, jobVars, searchVars>>
    BY <1>5 DEF Proceed, LoadEnv, PlanBlindly, ReadGoal, ReadNext, Planned, RunProgram,
       ProgramFails, MachineReady, MachineStartsAgain, MachineNotReady, Executed, Await,
       ProbeGoesOn, MempoolReady, MempoolNotReady,
       RetryService, RetryRuntime, GiveUp, Disturb, ComesUp
  <2>2. UNCHANGED <<config, goal, path, next, ordered, verdict>>
    BY <2>1 DEF fileVars, jobVars, searchVars
  <2> QED
    BY <1>0, <2>2, Stutters
<1> QED
  BY <1>1, <1>2, <1>3, <1>4, <1>5 DEF Next

\* What a fresh process starts with is of its types.
LEMMA FreshType ==
  ASSUME Fresh
  PROVE  /\ env' \in Env /\ at' \in Nat \ {0} /\ initial' \in State /\ round' \in 1..3
         /\ tries' \in 1..(Attempts + Checks) /\ starts' \in 1..Starts
         /\ seen' \in [Name -> State] /\ touched' \subseteq Name /\ downs' \in [Name -> 0..3]
BY ConfigAssumption, BelterAssumption DEF Fresh, State

LEMMA FinishType ==
  ASSUME NEW o \in Outcome, Finish(o)
  PROVE  pc' \in PC /\ outcome' \in Outcome /\ todo' \in Seq(Step)
BY EmptySeq DEF Finish, PC

\* The commands themselves.
LEMMA CommandTypes ==
  ASSUME IInv, OrderTypeOK',
         NEW n \in Name, NEW dry \in BOOLEAN,
         \/ \E kind \in ServiceCommand : Invoke(kind, n, dry)
         \/ \E kind \in ConfigCommand : InitFile(kind, dry) \/ ValidateFile(kind, dry)
  PROVE  TypeOK'
<1> USE DEF fileVars, hostVars
<1>1. TypeOK /\ Fresh
  BY DEF IInv, TypeInv, Invoke, InitFile, ValidateFile, Configure
<1>2. ASSUME NEW kind \in ServiceCommand, Invoke(kind, n, dry) PROVE TypeOK'
  <2>1. command' \in [kind : ServiceCommand \cup ConfigCommand, dry : BOOLEAN]
    <3>1. command' = [kind |-> kind, dry |-> dry] /\ kind \in ServiceCommand \cup ConfigCommand
      BY <1>2 DEF Invoke
    <3> QED
      BY <3>1
  <2>2. pc' \in PC /\ outcome' \in Outcome /\ todo' \in Seq(Step)
    BY <1>2, FinishType, EmptySeq DEF Invoke, PC, Outcome, ConfigError
  <2>3. /\ present' \in BOOLEAN /\ world' \in [Name -> Condition] /\ forwarding' \in BOOLEAN
        /\ warm' \in 0..StartupTime /\ faults' \in 0..MaxFaults
    BY <1>1, <1>2 DEF Invoke, TypeOK
  <2> QED
    BY <1>1, <2>1, <2>2, <2>3, FreshType DEF TypeOK, Step
<1>3. ASSUME NEW kind \in ConfigCommand, InitFile(kind, dry) \/ ValidateFile(kind, dry)
      PROVE  TypeOK'
  <2>1. command' \in [kind : ServiceCommand \cup ConfigCommand, dry : BOOLEAN]
    <3>1. command' = [kind |-> kind, dry |-> dry] /\ kind \in ServiceCommand \cup ConfigCommand
      BY <1>3 DEF InitFile, ValidateFile, Configure
    <3> QED
      BY <3>1
  <2>2. \E o \in Outcome : Finish(o)
    BY <1>3 DEF InitFile, ValidateFile, Outcome, ConfigError
  <2>3. pc' \in PC /\ outcome' \in Outcome /\ todo' \in Seq(Step)
    BY <2>2, FinishType
  <2>4. /\ present' \in BOOLEAN /\ world' \in [Name -> Condition] /\ forwarding' \in BOOLEAN
        /\ warm' \in 0..StartupTime /\ faults' \in 0..MaxFaults
    BY <1>1, <1>3 DEF InitFile, ValidateFile, Configure, TypeOK
  <2> QED
    BY <1>1, <2>1, <2>3, <2>4, FreshType DEF TypeOK, Step
<1> QED
  BY <1>2, <1>3

\* Planning.
LEMMA PlanningTypes ==
  ASSUME IInv, OrderTypeOK', Resolve \/ LoadEnv \/ PlanBlindly \/ ReadGoal \/ Planned
  PROVE  TypeOK'
<1> USE DEF fileVars, jobVars, searchVars, planVars, loopVars, hostVars, histVars
<1>1. TypeOK
  BY DEF IInv, TypeInv
<1>2. CASE Resolve
  <2>1. pc' \in PC /\ outcome' \in Outcome /\ todo' \in Seq(Step)
    BY <1>1, <1>2, FinishType DEF Resolve, PC, Outcome, ConfigError, TypeOK, Step
  <2> QED
    BY <1>1, <1>2, <2>1 DEF Resolve, TypeOK, Step
<1>3. CASE LoadEnv
  <2>1. pc' \in PC /\ outcome' \in Outcome /\ todo' \in Seq(Step)
    BY <1>1, <1>3, FinishType DEF LoadEnv, Outcome, ConfigError, TypeOK, Step
  <2>2. Listed[at] \in Name
    <3>1. at \in Nat \ {0} /\ at <= Len(Listed) /\ Len(Listed) \in Nat
      BY <1>1, <1>3, ListedType DEF LoadEnv, TypeOK
    <3>2. at \in 1..Len(Listed)
      BY <3>1
    <3> QED
      BY <1>1, <3>2, ListedType
  <2>3. env' \in Env
    <3>1. CASE UNCHANGED env
      BY <1>1, <3>1 DEF TypeOK
    <3>2. CASE Loads(config, Listed[at], env) /\ env' = Overridden(Listed[at], env)
      <4>1. EnvFile[Listed[at]] \in Env /\ env \in Env
        BY <1>1, <2>2, <3>2, ConfigAssumption DEF Loads, TypeOK
      <4> QED
        BY <3>2, <4>1 DEF Overridden, Env
    <3> QED
      BY <1>3, <3>1, <3>2 DEF LoadEnv
  <2>4. at' \in Nat \ {0}
    <3>1. at \in Nat \ {0} /\ (at' = at + 1 \/ at' = at)
      BY <1>1, <1>3 DEF LoadEnv, TypeOK
    <3> QED
      BY <3>1
  <2> QED
    BY <1>1, <1>3, <2>1, <2>3, <2>4 DEF LoadEnv, TypeOK, Step
<1>4. CASE PlanBlindly
  <2>1. CASE BringUp
    <3>1. \E o \in Outcome : Finish(o)
      BY <1>4, <2>1 DEF PlanBlindly, Execute, Outcome, ConfigError
    <3>2. pc' \in PC /\ outcome' \in Outcome /\ todo' \in Seq(Step)
      BY <3>1, FinishType
    <3> QED
      BY <1>1, <1>4, <3>2 DEF PlanBlindly, TypeOK, Step
  <2>2. CASE ~BringUp
    <3>1. CASE \E o \in Outcome : Finish(o)
      <4>1. pc' \in PC /\ outcome' \in Outcome /\ todo' \in Seq(Step)
        BY <3>1, FinishType
      <4> QED
        BY <1>1, <1>4, <4>1 DEF PlanBlindly, TypeOK, Step
    <3>2. CASE ~\E o \in Outcome : Finish(o)
      <4>1. /\ \A i \in DOMAIN Listed : Plannable(config, Listed[i], env)
            /\ pc' = "running" /\ todo' = Steps(goal, command.kind) /\ UNCHANGED outcome
        BY <1>4, <2>2, <3>2 DEF PlanBlindly, Execute, Outcome, ConfigError
      <4>2. Plannable(config, goal, env)
        BY <2>2, <4>1 DEF Listed
      <4>3. command.kind \in {"start", "stop", "restart"}
        BY <1>4, <2>2 DEF IInv, PlaceInv, PlanBlindly, ServiceCommand, BringUp
      <4>4. todo' \in Seq(Step)
        BY <1>1, <4>1, <4>2, <4>3, StepsType DEF TypeOK, OrderTypeOK
      <4> QED
        BY <1>1, <1>4, <4>1, <4>4 DEF PlanBlindly, TypeOK, PC, Step
    <3> QED
      BY <3>1, <3>2
  <2> QED
    BY <2>1, <2>2
<1>5. CASE ReadGoal
  <2>1. goal \in Name
    BY <1>1 DEF TypeOK, OrderTypeOK
  <2>2. CASE Readable(config, goal, env)
    <3>1. PICK s \in State : Reads(goal, s) /\ initial' = s
      BY <1>5, <2>2 DEF ReadGoal
    <3>2. faults' \in 0..MaxFaults /\ seen' \in [Name -> State]
      BY <1>1, <2>1, <3>1, ReadsType
    <3>3. pc' \in PC /\ at' \in Nat \ {0} /\ UNCHANGED <<outcome, todo>>
      BY <1>5, <2>2 DEF ReadGoal, PC
    <3> QED
      BY <1>1, <1>5, <3>1, <3>2, <3>3 DEF ReadGoal, TypeOK
  <2>3. CASE ~Readable(config, goal, env)
    <3>1. Finish("config error") /\ UNCHANGED <<initial, at, seen, faults>>
      BY <1>5, <2>3 DEF ReadGoal
    <3>2. pc' \in PC /\ outcome' \in Outcome /\ todo' \in Seq(Step)
      BY <3>1, FinishType DEF Outcome, ConfigError
    <3> QED
      BY <1>1, <1>5, <3>1, <3>2 DEF ReadGoal, TypeOK, Step
  <2> QED
    BY <2>2, <2>3
<1>6. CASE Planned
  BY <1>1, <1>6 DEF Planned, TypeOK, PC
<1> QED
  BY <1>2, <1>3, <1>4, <1>5, <1>6

\* The next service is read, and its action is planned if it needs one.
LEMMA ReadNextEffect ==
  ASSUME IInv, ReadNext
  PROVE  /\ pc = "reading" /\ at \in 1..Len(ordered) /\ Len(ordered) \in Nat
         /\ ordered[at] \in Name
         /\ \/ /\ Readable(config, ordered[at], env)
               /\ at' = at + 1 /\ UNCHANGED <<pc, outcome>>
               /\ \E s \in State :
                    /\ Reads(ordered[at], s)
                    /\ \/ UNCHANGED todo
                       \/ /\ BringUpAction(ordered[at], s) \in {"start", "restart"}
                          /\ Plannable(config, ordered[at], env)
                          /\ todo' = todo \o Steps(ordered[at], BringUpAction(ordered[at], s))
            \/ /\ Finish("config error") /\ UNCHANGED <<at, seen, faults>>
               /\ ~Readable(config, ordered[at], env)
<1> DEFINE n == ordered[at]
<1>1. at \in Nat \ {0} /\ ordered \in Seq(Name) /\ pc = "reading" /\ at <= Len(ordered)
      /\ config \in Config /\ env \in Env
  BY DEF IInv, TypeInv, TypeOK, OrderTypeOK, ReadNext
<1>2. Len(ordered) \in Nat
  BY <1>1, LenProperties
<1>3. at \in 1..Len(ordered)
  BY <1>1, <1>2
<1>4. n \in Name
  BY <1>1, <1>3, ElementOfSeq
<1>5. CASE Readable(config, n, env)
  <2>1. PICK s \in State :
          /\ Reads(n, s)
          /\ IF BringUpAction(n, s) = "none"
             THEN at' = at + 1 /\ UNCHANGED <<pc, outcome, todo>>
             ELSE IF Plannable(config, n, env)
             THEN /\ todo' = todo \o Steps(n, BringUpAction(n, s)) /\ at' = at + 1
                  /\ UNCHANGED <<pc, outcome>>
             ELSE Finish("config error") /\ UNCHANGED at
    BY <1>5 DEF ReadNext
  <2>2. Plannable(config, n, env)
    BY <1>1, <1>4, <1>5, ReadablePlannable
  <2>3. BringUpAction(n, s) = "none" \/ BringUpAction(n, s) \in {"start", "restart"}
    BY DEF BringUpAction
  <2>4. at' = at + 1 /\ UNCHANGED <<pc, outcome>>
    BY <2>1, <2>2
  <2>5. \/ UNCHANGED todo
        \/ /\ BringUpAction(n, s) \in {"start", "restart"}
           /\ todo' = todo \o Steps(n, BringUpAction(n, s))
    BY <2>1, <2>2, <2>3
  <2> QED
    BY <1>1, <1>2, <1>3, <1>4, <1>5, <2>1, <2>2, <2>4, <2>5
<1>6. CASE ~Readable(config, n, env)
  <2>1. Finish("config error") /\ UNCHANGED <<at, seen, faults>>
    BY <1>6 DEF ReadNext
  <2> QED
    BY <1>1, <1>2, <1>3, <1>4, <1>6, <2>1
<1> QED
  BY <1>5, <1>6

LEMMA ReadNextTypes ==
  ASSUME IInv, OrderTypeOK', ReadNext
  PROVE  TypeOK'
<1> DEFINE n == ordered[at]
<1>1. TypeOK /\ at \in Nat \ {0} /\ todo \in Seq(Step) /\ config \in Config /\ env \in Env
  BY DEF IInv, TypeInv, TypeOK, OrderTypeOK, Step
<1>2. n \in Name
  BY ReadNextEffect
<1>3. /\ UNCHANGED <<config, present, goal, command, path, next, ordered, verdict>>
      /\ UNCHANGED <<env, initial, round, tries, starts, world, forwarding, warm>>
      /\ UNCHANGED <<touched, downs>>
  BY DEF ReadNext, fileVars, jobVars, searchVars, loopVars, hostVars
<1>4. /\ faults' \in 0..MaxFaults /\ seen' \in [Name -> State]
      /\ at' \in Nat \ {0} /\ pc' \in PC /\ outcome' \in Outcome /\ todo' \in Seq(Step)
  <2>1. CASE Finish("config error") /\ UNCHANGED <<at, seen, faults>>
    <3>1. pc' \in PC /\ outcome' \in Outcome /\ todo' \in Seq(Step)
      BY <2>1, FinishType DEF Outcome, ConfigError
    <3> QED
      BY <1>1, <2>1, <3>1 DEF TypeOK
  <2>2. CASE ~(Finish("config error") /\ UNCHANGED <<at, seen, faults>>)
    <3>1. at' = at + 1 /\ UNCHANGED <<pc, outcome>>
      BY <2>2, ReadNextEffect
    <3>2. PICK s \in State :
            /\ Reads(n, s)
            /\ \/ UNCHANGED todo
               \/ /\ BringUpAction(n, s) \in {"start", "restart"}
                  /\ Plannable(config, n, env)
                  /\ todo' = todo \o Steps(n, BringUpAction(n, s))
      BY <2>2, ReadNextEffect
    <3>3. faults' \in 0..MaxFaults /\ seen' \in [Name -> State]
      BY <1>1, <1>2, <3>2, ReadsType
    <3>4. at' \in Nat \ {0} /\ pc' \in PC /\ outcome' \in Outcome
      BY <1>1, <3>1 DEF TypeOK
    <3>5. todo' \in Seq(Step)
      <4>1. CASE UNCHANGED todo
        BY <1>1, <4>1
      <4>2. CASE ~UNCHANGED todo
        <5>1. Steps(n, BringUpAction(n, s)) \in Seq(Step)
          BY <1>1, <1>2, <3>2, <4>2, StepsType
        <5>2. todo' = todo \o Steps(n, BringUpAction(n, s))
          BY <3>2, <4>2
        <5> QED
          BY <1>1, <5>1, <5>2, ConcatProperties
      <4> QED
        BY <4>1, <4>2
    <3> QED
      BY <3>3, <3>4, <3>5
  <2> QED
    BY <2>1, <2>2
<1> QED
  BY <1>1, <1>3, <1>4 DEF TypeOK, Step

\* The programs.
LEMMA RunningTypes ==
  ASSUME IInv, OrderTypeOK', RunProgram \/ ProgramFails
  PROVE  TypeOK'
<1> USE DEF fileVars, jobVars, searchVars, planVars, loopVars, hostVars
<1>1. TypeOK
  BY DEF IInv, TypeInv
<1>2. todo # <<>>
  BY DEF RunProgram, ProgramFails
<1>3. Head(todo).name \in Name /\ Head(todo).program \in Program /\ Tail(todo) \in Seq(Step)
  BY <1>1, <1>2, PlanType
<1>4. touched' \subseteq Name /\ downs' \in [Name -> 0..3] /\ seen' \in [Name -> State]
  <2>1. Records(Head(todo).name, Head(todo).program)
    BY DEF RunProgram, ProgramFails
  <2> QED
    BY <1>1, <1>3, <2>1, RecordsType DEF TypeOK
<1>5. /\ world' \in [Name -> Condition] /\ warm' \in 0..StartupTime
      /\ forwarding' \in BOOLEAN
  <2>1. Runs(Head(todo).name, Head(todo).program) \/ UNCHANGED hostVars
    BY DEF RunProgram, ProgramFails
  <2>2. CASE Runs(Head(todo).name, Head(todo).program)
    BY <1>1, <1>3, <2>2, RunsType
  <2>3. CASE UNCHANGED hostVars
    BY <1>1, <2>3 DEF TypeOK
  <2> QED
    BY <2>1, <2>2, <2>3
<1>6. CASE RunProgram
  <2>1. pc' \in PC /\ todo' \in Seq(Step) /\ UNCHANGED <<outcome, faults>>
    BY <1>1, <1>3, <1>6 DEF RunProgram, TypeOK, PC, Step
  <2>2. tries' \in 1..(Attempts + Checks) /\ starts' \in 1..Starts
    <3>1. (tries' = 1 /\ starts' = 1) \/ UNCHANGED <<tries, starts>>
      BY <1>6 DEF RunProgram
    <3> QED
      BY <1>1, <3>1, BelterAssumption DEF TypeOK
  <2>3. UNCHANGED <<config, present, goal, command, env, at, initial, round>>
    BY <1>6 DEF RunProgram
  <2> QED
    BY <1>1, <1>4, <1>5, <2>1, <2>2, <2>3 DEF TypeOK, Step
<1>7. CASE ProgramFails
  <2>1. pc' \in PC /\ outcome' \in Outcome /\ todo' \in Seq(Step)
    BY <1>7, FinishType DEF ProgramFails, Outcome
  <2>2. faults' \in 0..MaxFaults
    BY <1>1, <1>7, FaultType DEF ProgramFails, TypeOK
  <2>3. UNCHANGED <<config, present, goal, command, env, at, initial, round, tries, starts>>
    BY <1>7 DEF ProgramFails
  <2> QED
    BY <1>1, <1>4, <1>5, <2>1, <2>2, <2>3 DEF TypeOK, Step
<1> QED
  BY <1>6, <1>7

\* The start of a machine.
LEMMA CheckingTypes ==
  ASSUME IInv, OrderTypeOK', MachineReady \/ MachineStartsAgain \/ MachineNotReady
  PROVE  TypeOK'
<1> USE DEF fileVars, jobVars, searchVars, planVars, loopVars, hostVars, histVars
<1>1. TypeOK /\ todo # <<>>
  BY DEF IInv, TypeInv, PlaceInv, MachineReady, MachineStartsAgain, MachineNotReady
<1>2. Head(todo).name \in Name /\ Tail(todo) \in Seq(Step)
  BY <1>1, PlanType
<1>3. CASE MachineReady
  BY <1>1, <1>2, <1>3 DEF MachineReady, TypeOK, PC, Step
<1>4. CASE MachineStartsAgain
  <2>1. UNCHANGED <<config, present, goal, command, env, at, initial, round, seen, touched, downs>>
    BY <1>4 DEF MachineStartsAgain
  <2>2. CASE /\ Runs(Head(todo).name, "machine start")
             /\ starts' = starts + 1 /\ tries' = tries + 1
             /\ UNCHANGED <<pc, outcome, todo, faults>>
    <3>1. /\ world' \in [Name -> Condition] /\ warm' \in 0..StartupTime
          /\ forwarding' \in BOOLEAN
      BY <1>1, <1>2, <2>2, RunsType DEF Program
    <3>2. tries' \in 1..(Attempts + Checks) /\ starts' \in 1..Starts
      <4>1. starts < Starts /\ tries < Checks
        BY <1>4 DEF MachineStartsAgain, StartsAgain
      <4>2. tries \in Nat /\ tries >= 1 /\ starts \in Nat /\ starts >= 1
        BY <1>1, BelterAssumption DEF TypeOK
      <4>3. tries' = tries + 1 /\ starts' = starts + 1
        BY <2>2
      <4> QED
        BY <4>1, <4>2, <4>3, BelterAssumption
    <3> QED
      BY <1>1, <2>1, <2>2, <3>1, <3>2 DEF TypeOK
  <2>3. CASE /\ Fault /\ Finish("command failed")
             /\ UNCHANGED <<hostVars, starts, tries>>
    <3>1. pc' \in PC /\ outcome' \in Outcome /\ todo' \in Seq(Step)
      BY <2>3, FinishType DEF Outcome
    <3>2. faults' \in 0..MaxFaults
      BY <1>1, <2>3, FaultType
    <3> QED
      BY <1>1, <2>1, <2>3, <3>1, <3>2 DEF TypeOK, Step
  <2> QED
    BY <1>4, <2>2, <2>3 DEF MachineStartsAgain
<1>5. CASE MachineNotReady
  <2>1. UNCHANGED <<config, present, goal, command, env, at, initial, round, starts, seen, touched, downs>>
    BY <1>5 DEF MachineNotReady
  <2>2. faults' \in 0..MaxFaults
    BY <1>1, <1>5, FaultType DEF MachineNotReady, TypeOK
  <2>3. CASE tries < Checks
    <3>1. Passes(2) /\ tries' = tries + 1 /\ UNCHANGED <<pc, outcome, todo, forwarding>>
      BY <1>5, <2>3 DEF MachineNotReady
    <3>2. world' \in [Name -> Condition] /\ warm' \in 0..StartupTime
      BY <1>1, <3>1, PassesType
    <3>3. tries' \in 1..(Attempts + Checks)
      BY <1>1, <2>3, <3>1, BelterAssumption DEF TypeOK
    <3> QED
      BY <1>1, <2>1, <2>2, <3>1, <3>2, <3>3 DEF TypeOK
  <2>4. CASE ~(tries < Checks)
    <3>1. Finish("not ready") /\ UNCHANGED <<hostVars, tries>>
      BY <1>5, <2>4 DEF MachineNotReady
    <3>2. pc' \in PC /\ outcome' \in Outcome /\ todo' \in Seq(Step)
      BY <3>1, FinishType DEF Outcome
    <3> QED
      BY <1>1, <2>1, <2>2, <3>1, <3>2 DEF TypeOK, Step
  <2> QED
    BY <2>3, <2>4
<1> QED
  BY <1>3, <1>4, <1>5

\* The delay is a number of seconds.
LEMMA DelayType ==
  ASSUME TypeOK
  PROVE  Delay \in Nat
<1>1. tries \in Nat \ {0}
  BY BelterAssumption DEF TypeOK
<1>2. CASE tries > 3
  BY <1>2 DEF Delay
<1>3. CASE ~(tries > 3)
  <2>1. tries = 1 \/ tries = 2 \/ tries = 3
    BY <1>1, <1>3
  <2>2. Delay = <<1, 2, 4>>[tries]
    BY <1>3 DEF Delay
  <2> QED
    BY <2>1, <2>2
<1> QED
  BY <1>2, <1>3

\* The waits for mempool.
LEMMA WaitingTypes ==
  ASSUME IInv, OrderTypeOK', Executed \/ Await \/ GiveUp
  PROVE  TypeOK'
<1> USE DEF fileVars, jobVars, searchVars, planVars, loopVars, hostVars, histVars
<1>1. TypeOK
  BY DEF IInv, TypeInv
<1>2. CASE Executed
  <2>1. tries' \in 1..(Attempts + Checks)
    BY <1>1, <1>2, BelterAssumption DEF Executed, TypeOK
  <2>2. pc' \in PC /\ outcome' \in Outcome /\ todo' \in Seq(Step)
    BY <1>1, <1>2, FinishType DEF Executed, Outcome, PC, TypeOK, Step
  <2> QED
    BY <1>1, <1>2, <2>1, <2>2 DEF Executed, TypeOK, Step
<1>3. CASE GiveUp
  <2>1. pc' \in PC /\ outcome' \in Outcome /\ todo' \in Seq(Step)
    BY <1>3, FinishType DEF GiveUp, Outcome
  <2> QED
    BY <1>1, <1>3, <2>1 DEF GiveUp, TypeOK, Step
<1>4. CASE Await
  <2>1. UNCHANGED <<config, present, goal, command, env, initial, round, starts, touched, downs>>
    BY <1>4 DEF Await, ProbeGoesOn, MempoolReady, MempoolNotReady
  <2>2. faults' \in 0..MaxFaults
    BY <1>1, <1>4, FaultType
    DEF TypeOK, Await, ProbeGoesOn, MempoolReady, MempoolNotReady, Answered
  <2>3. CASE ProbeGoesOn
    <3>1. at' \in Nat \ {0}
      BY <1>1, <2>3 DEF ProbeGoesOn, TypeOK
    <3> QED
      BY <1>1, <2>1, <2>2, <2>3, <3>1 DEF ProbeGoesOn, TypeOK
  <2>4. CASE MempoolReady
    <3>1. pc' \in PC /\ outcome' \in Outcome /\ todo' \in Seq(Step)
      BY <2>4, FinishType DEF MempoolReady, Outcome
    <3>2. seen' \in [Name -> State]
      BY <1>1, <2>4 DEF MempoolReady, TypeOK, State
    <3> QED
      BY <1>1, <2>1, <2>2, <2>4, <3>1, <3>2 DEF MempoolReady, TypeOK, Step
  <2>5. CASE MempoolNotReady
    <3>1. seen' \in [Name -> State]
      BY <1>1, <2>5 DEF MempoolNotReady, TypeOK, State
    <3>2. CASE tries < Attempts
      <4>1. /\ Passes(Delay) /\ tries' = tries + 1 /\ at' = 1
            /\ UNCHANGED <<pc, outcome, todo, forwarding>>
        BY <2>5, <3>2 DEF MempoolNotReady
      <4>2. world' \in [Name -> Condition] /\ warm' \in 0..StartupTime
        BY <1>1, <4>1, DelayType, PassesType
      <4>3. tries' \in 1..(Attempts + Checks)
        BY <1>1, <3>2, <4>1, BelterAssumption DEF TypeOK
      <4> QED
        BY <1>1, <2>1, <2>2, <3>1, <4>1, <4>2, <4>3 DEF TypeOK
    <3>3. CASE ~(tries < Attempts)
      <4>1. pc' = "failing" /\ UNCHANGED <<outcome, todo, tries, at, hostVars>>
        BY <2>5, <3>3 DEF MempoolNotReady
      <4> QED
        BY <1>1, <2>1, <2>2, <3>1, <4>1 DEF TypeOK, PC
    <3> QED
      BY <3>2, <3>3
  <2> QED
    BY <1>4, <2>3, <2>4, <2>5 DEF Await
<1> QED
  BY <1>2, <1>3, <1>4

----------------------------------------------------------------------------
(* Retries, and the host *)

\* A set of numbers has a least one.
LEMMA Least ==
  ASSUME NEW T \in SUBSET Nat, T # {}
  PROVE  \E i \in T : \A j \in T : i <= j
<1> DEFINE Less == OpToRel(<, Nat)
<1>1. \A j \in Nat, i \in Nat : j < i => <<j, i>> \in Less
  BY Zenon DEF OpToRel
<1>2. IsWellFoundedOn(Less, Nat)
  BY Zenon, NatLessThanWellFounded
<1> HIDE DEF Less
<1>3. PICK i \in T : \A j \in T : ~(<<j, i>> \in Less)
  BY <1>2, WFMin
<1>4. \A j \in T : ~(j < i)
  BY <1>1, <1>3
<1> QED
  BY <1>4

\* The runtime is a machine that mempool needs.
LEMMA RuntimeType ==
  ASSUME config \in Config, config[Mempool] # Absent, Machines # {}
  PROVE  Runtime \in Needs(Mempool) /\ Is(Runtime, "podman_machine")
<1>1. DependsOn(Mempool) \in Seq(Name) /\ DOMAIN DependsOn(Mempool) \in SUBSET Nat
  BY DependsType, ConfigAssumption
<1>2. Machines \in SUBSET Nat /\ Machines \subseteq DOMAIN DependsOn(Mempool)
  BY <1>1 DEF Machines
<1>3. \E i \in Machines : \A j \in Machines : i <= j
  BY <1>2, Least
<1> DEFINE k == CHOOSE i \in Machines : \A j \in Machines : i <= j
<1>4. k \in Machines
  BY <1>3
<1>5. Runtime = DependsOn(Mempool)[k] /\ k \in DOMAIN DependsOn(Mempool)
  BY <1>2, <1>4 DEF Runtime
<1> HIDE DEF k
<1>6. Runtime \in Needs(Mempool)
  BY <1>1, <1>5, DependsType, ConfigAssumption DEF Needs, Range
<1>7. Is(Runtime, "podman_machine")
  BY <1>4, <1>5 DEF Machines
<1> QED
  BY <1>6, <1>7

\* What a bring-up of mempool tries again could be read, and so planned.
LEMMA RetriesReadable ==
  ASSUME IInv, pc \in {"probing", "failing"}
  PROVE  /\ config[Mempool] # Absent
         /\ Readable(config, Mempool, env)
         /\ Machines # {} =>
              /\ Runtime \in Name /\ Runtime \in Needs(Mempool)
              /\ Readable(config, Runtime, env)
<1>1. /\ config \in Config /\ ordered \in Seq(Name) /\ goal = Mempool /\ verdict = "ok"
      /\ OrderCorrect
  BY OrderInvRight DEF IInv, TypeInv, OrderInv, OrderTypeOK, PlaceInv, Resolved
<1>2. \A i \in 1..Len(ordered) : Readable(config, ordered[i], env)
  BY DEF IInv, ReadableInv, Acting, PlaceInv
<1>3. \A n \in Range(ordered) : Readable(config, n, env)
  BY <1>1, <1>2, RangeSeq
<1>4. Mempool \in Range(ordered)
  BY <1>1, ClosureClosed, ConfigAssumption DEF OrderCorrect
<1>5. Readable(config, Mempool, env) /\ config[Mempool] # Absent
  BY <1>3, <1>4 DEF Readable
<1>6. ASSUME Machines # {}
      PROVE  Runtime \in Name /\ Runtime \in Needs(Mempool) /\ Readable(config, Runtime, env)
  <2>1. Runtime \in Needs(Mempool)
    BY <1>1, <1>5, <1>6, RuntimeType
  <2>2. Needs(Mempool) \subseteq Range(ordered)
    BY <1>1, <1>4, ClosureClosed, ConfigAssumption DEF OrderCorrect
  <2> QED
    BY <1>1, <1>3, <2>1, <2>2, NeedsType, ConfigAssumption
<1> QED
  BY <1>5, <1>6

\* The plans of the retries: mempool again, or its machine and mempool.
LEMMA RetryPlans ==
  ASSUME IInv, pc \in {"probing", "failing"}
  PROVE  /\ Plannable(config, Mempool, env)
         /\ Steps(Mempool, "restart") \in Seq(Step)
         /\ \A i \in DOMAIN Steps(Mempool, "restart") : Steps(Mempool, "restart")[i].name = Mempool
         /\ Machines # {} =>
              LET plan == Steps(Runtime, "restart") \o Steps(Mempool, "start") IN
              /\ Plannable(config, Runtime, env)
              /\ plan \in Seq(Step)
              /\ \A i \in DOMAIN plan :
                   \/ plan[i].name = Runtime
                   \/ plan[i].name = Mempool /\ ~Takes(plan[i].program)
              /\ \A i, j \in DOMAIN plan :
                   plan[i].name = Mempool /\ plan[j].name = Runtime => j < i \/ Runtime = Mempool
              /\ \E i \in DOMAIN plan : plan[i].name = Mempool
<1>1. config \in Config /\ env \in Env /\ Mempool \in Name
  BY ConfigAssumption DEF IInv, TypeInv, TypeOK, OrderTypeOK
<1>2. Plannable(config, Mempool, env)
  BY <1>1, RetriesReadable, ReadablePlannable
<1>3. /\ Steps(Mempool, "restart") \in Seq(Step)
      /\ \A i \in DOMAIN Steps(Mempool, "restart") : Steps(Mempool, "restart")[i].name = Mempool
  BY <1>1, <1>2, StepsType
<1>4. ASSUME Machines # {}
      PROVE  LET plan == Steps(Runtime, "restart") \o Steps(Mempool, "start") IN
              /\ Plannable(config, Runtime, env)
              /\ plan \in Seq(Step)
              /\ \A i \in DOMAIN plan :
                   \/ plan[i].name = Runtime
                   \/ plan[i].name = Mempool /\ ~Takes(plan[i].program)
              /\ \A i, j \in DOMAIN plan :
                   plan[i].name = Mempool /\ plan[j].name = Runtime => j < i \/ Runtime = Mempool
              /\ \E i \in DOMAIN plan : plan[i].name = Mempool
  <2> DEFINE a == Steps(Runtime, "restart")
             b == Steps(Mempool, "start")
             plan == a \o b
  <2>1. Runtime \in Name /\ Plannable(config, Runtime, env)
    BY <1>1, <1>4, RetriesReadable, ReadablePlannable
  <2>2. /\ a \in Seq(Step) /\ DOMAIN a = 1..Len(a)
        /\ \A i \in DOMAIN a : a[i].name = Runtime
    BY <1>1, <2>1, StepsType
  <2>3. /\ b \in Seq(Step) /\ DOMAIN b = 1..Len(b) /\ b # <<>>
        /\ \A i \in DOMAIN b : b[i].name = Mempool /\ ~Takes(b[i].program)
    BY <1>1, <1>2, StepsType
  <2> HIDE DEF a, b
  <2>4. /\ plan \in Seq(Step) /\ DOMAIN plan = 1..(Len(a) + Len(b))
        /\ Len(a) \in Nat /\ Len(b) \in Nat \ {0}
        /\ \A i \in 1..(Len(a) + Len(b)) :
             plan[i] = IF i <= Len(a) THEN a[i] ELSE b[i - Len(a)]
    BY <2>2, <2>3, ConcatProperties, LenProperties, EmptySeq
  <2> HIDE DEF plan
  <2>5. \A i \in DOMAIN plan :
          \/ i <= Len(a) /\ plan[i].name = Runtime
          \/ i > Len(a) /\ plan[i].name = Mempool /\ ~Takes(plan[i].program)
    <3> SUFFICES ASSUME NEW i \in DOMAIN plan
                 PROVE  \/ i <= Len(a) /\ plan[i].name = Runtime
                        \/ i > Len(a) /\ plan[i].name = Mempool /\ ~Takes(plan[i].program)
      OBVIOUS
    <3>1. CASE i <= Len(a)
      <4>1. i \in DOMAIN a /\ plan[i] = a[i]
        BY <2>2, <2>4, <3>1
      <4> QED
        BY <2>2, <3>1, <4>1
    <3>2. CASE ~(i <= Len(a))
      <4>1. i - Len(a) \in DOMAIN b /\ plan[i] = b[i - Len(a)] /\ i > Len(a)
        BY <2>3, <2>4, <3>2
      <4> QED
        BY <2>3, <4>1
    <3> QED
      BY <3>1, <3>2
  <2>6. Len(a) + 1 \in DOMAIN plan /\ plan[Len(a) + 1].name = Mempool
    <3>1. Len(a) + 1 \in DOMAIN plan /\ Len(a) + 1 > Len(a)
      BY <2>4
    <3> QED
      BY <2>4, <2>5, <3>1
  <2>7. \A i, j \in DOMAIN plan :
          plan[i].name = Mempool /\ plan[j].name = Runtime => j < i \/ Runtime = Mempool
    <3>1. \A i \in DOMAIN plan : i \in Nat
      BY <2>4
    <3> QED
      BY <2>4, <2>5, <3>1
  <2>8. \A i \in DOMAIN plan :
          \/ plan[i].name = Runtime
          \/ plan[i].name = Mempool /\ ~Takes(plan[i].program)
    BY <2>5
  <2> QED
    BY <2>1, <2>4, <2>6, <2>7, <2>8 DEF plan, a, b
<1> QED
  BY <1>2, <1>3, <1>4

LEMMA RetryPlansOnce ==
  ASSUME IInv, pc \in {"probing", "failing"}
  PROVE  /\ TakesOnce(Steps(Mempool, "restart"))
         /\ Machines # {} => TakesOnce(Steps(Runtime, "restart") \o Steps(Mempool, "start"))
<1>1. config \in Config /\ env \in Env /\ Mempool \in Name
  BY ConfigAssumption DEF IInv, TypeInv, TypeOK, OrderTypeOK
<1>2. Plannable(config, Mempool, env)
  BY RetryPlans
<1>3. TakesOnce(Steps(Mempool, "restart"))
  BY <1>1, <1>2, StepsOnce
<1>4. ASSUME Machines # {}
      PROVE  TakesOnce(Steps(Runtime, "restart") \o Steps(Mempool, "start"))
  <2> DEFINE a == Steps(Runtime, "restart")
             b == Steps(Mempool, "start")
             plan == a \o b
  <2>1. Runtime \in Name /\ Plannable(config, Runtime, env)
    BY <1>4, RetriesReadable, RetryPlans
  <2>2. a \in Seq(Step) /\ DOMAIN a = 1..Len(a) /\ TakesOnce(a)
    BY <1>1, <2>1, StepsType, StepsOnce
  <2>3. b \in Seq(Step) /\ DOMAIN b = 1..Len(b) /\ \A i \in DOMAIN b : ~Takes(b[i].program)
    BY <1>1, <1>2, StepsType
  <2> HIDE DEF a, b
  <2>4. /\ plan \in Seq(Step) /\ DOMAIN plan = 1..(Len(a) + Len(b))
        /\ Len(a) \in Nat /\ Len(b) \in Nat
        /\ \A i \in 1..(Len(a) + Len(b)) :
             plan[i] = IF i <= Len(a) THEN a[i] ELSE b[i - Len(a)]
    BY <2>2, <2>3, ConcatProperties, LenProperties
  <2> HIDE DEF plan
  <2>5. ASSUME NEW i \in DOMAIN plan, Takes(plan[i].program)
        PROVE  i \in DOMAIN a /\ plan[i] = a[i]
    <3>1. CASE i <= Len(a)
      BY <2>2, <2>4, <3>1
    <3>2. CASE ~(i <= Len(a))
      <4>1. i - Len(a) \in DOMAIN b /\ plan[i] = b[i - Len(a)]
        BY <2>3, <2>4, <3>2
      <4> QED
        BY <2>3, <2>5, <4>1
    <3> QED
      BY <3>1, <3>2
  <2>6. TakesOnce(plan)
    BY <2>2, <2>5 DEF TakesOnce
  <2> QED
    BY <2>6 DEF plan, a, b
<1> QED
  BY <1>3, <1>4

\* What the retries do.
LEMMA RetryServiceEffect ==
  ASSUME IInv, RetryService
  PROVE  /\ pc' = "running" /\ todo' = Steps(Mempool, "restart") /\ round' = 2
         /\ UNCHANGED outcome
<1> DEFINE plan == Steps(Mempool, "restart")
<1>1. pc = "failing" /\ Retry(plan, 2)
  BY DEF RetryService
<1>2. \A i \in DOMAIN plan : Plannable(config, plan[i].name, env)
  BY <1>1, RetryPlans
<1> QED
  BY <1>1, <1>2 DEF Retry

LEMMA RetryRuntimeEffect ==
  ASSUME IInv, RetryRuntime
  PROVE  /\ Machines # {}
         /\ \E s \in State :
              /\ Reads(Runtime, s)
              /\ \/ /\ s = "degraded"
                    /\ pc' = "running" /\ round' = 3
                    /\ todo' = Steps(Runtime, "restart") \o Steps(Mempool, "start")
                    /\ UNCHANGED outcome
                 \/ s # "degraded" /\ Finish("not ready") /\ UNCHANGED round
<1> DEFINE plan == Steps(Runtime, "restart") \o Steps(Mempool, "start")
<1>1. pc = "failing" /\ Machines # {}
  BY DEF RetryRuntime
<1>2. Readable(config, Runtime, env)
  BY <1>1, RetriesReadable
<1>3. \A i \in DOMAIN plan : Plannable(config, plan[i].name, env)
  BY <1>1, RetryPlans
<1>4. PICK s \in State :
        /\ Reads(Runtime, s)
        /\ IF s = "degraded" THEN Retry(plan, 3) ELSE Finish("not ready") /\ UNCHANGED round
  BY <1>2 DEF RetryRuntime
<1>5. s = "degraded" => /\ pc' = "running" /\ round' = 3 /\ todo' = plan /\ UNCHANGED outcome
  BY <1>3, <1>4 DEF Retry
<1> QED
  BY <1>1, <1>4, <1>5

LEMMA RetryTypes ==
  ASSUME IInv, OrderTypeOK', RetryService \/ RetryRuntime
  PROVE  TypeOK'
<1> USE DEF fileVars, jobVars, searchVars, planVars, hostVars, histVars
<1>1. TypeOK /\ pc = "failing"
  BY DEF IInv, TypeInv, RetryService, RetryRuntime
<1>2. CASE RetryService
  <2>1. todo' \in Seq(Step) /\ pc' = "running" /\ round' = 2 /\ UNCHANGED outcome
    BY <1>1, <1>2, RetryServiceEffect, RetryPlans
  <2> QED
    BY <1>1, <1>2, <2>1 DEF RetryService, TypeOK, PC, Step
<1>3. CASE RetryRuntime
  <2>1. PICK s \in State :
          /\ Reads(Runtime, s)
          /\ \/ /\ s = "degraded"
                /\ pc' = "running" /\ round' = 3
                /\ todo' = Steps(Runtime, "restart") \o Steps(Mempool, "start")
                /\ UNCHANGED outcome
             \/ s # "degraded" /\ Finish("not ready") /\ UNCHANGED round
    BY <1>3, RetryRuntimeEffect
  <2>2. Machines # {} /\ Runtime \in Name
    BY <1>1, <1>3, RetryRuntimeEffect, RetriesReadable
  <2>3. faults' \in 0..MaxFaults /\ seen' \in [Name -> State]
    BY <1>1, <2>1, <2>2, ReadsType
  <2>4. pc' \in PC /\ outcome' \in Outcome /\ todo' \in Seq(Step) /\ round' \in 1..3
    <3>1. CASE Finish("not ready") /\ UNCHANGED round
      BY <1>1, <3>1, FinishType DEF TypeOK, Outcome
    <3>2. CASE ~(Finish("not ready") /\ UNCHANGED round)
      <4>1. pc' = "running" /\ round' = 3 /\ UNCHANGED outcome
        BY <2>1, <3>2
      <4>2. todo' \in Seq(Step)
        BY <1>1, <2>1, <2>2, <3>2, RetryPlans
      <4> QED
        BY <1>1, <4>1, <4>2 DEF TypeOK, PC
    <3> QED
      BY <3>1, <3>2
  <2>5. UNCHANGED <<config, present, goal, command, env, at, initial, tries, starts,
                    world, forwarding, warm, touched, downs>>
    BY <1>3 DEF RetryRuntime
  <2> QED
    BY <1>1, <2>3, <2>4, <2>5 DEF TypeOK, Step
<1> QED
  BY <1>2, <1>3

LEMMA HostTypes ==
  ASSUME IInv, OrderTypeOK', Disturb \/ ComesUp
  PROVE  TypeOK'
<1> USE DEF fileVars, jobVars, searchVars, planVars, loopVars, histVars
<1>1. TypeOK /\ Mempool \in Name
  BY ConfigAssumption DEF IInv, TypeInv
<1>2. UNCHANGED <<config, present, goal, command, pc, outcome, env, at, initial, todo, round,
                  tries, starts, seen, touched, downs>>
  BY DEF Disturb, ComesUp
<1>3. CASE Disturb
  <2>1. faults' \in 0..MaxFaults
    BY <1>1, <1>3, FaultType DEF Disturb
  <2>2. CASE /\ \E n \in Name : config[n] # Absent /\
                   \E x \in Conditions(n) \ {world[n]} : Becomes(n, x)
             /\ UNCHANGED forwarding
    <3>1. PICK n \in Name, x \in Condition : Becomes(n, x)
      BY <2>2 DEF Conditions, Condition
    <3> QED
      BY <1>1, <1>2, <2>1, <2>2, <3>1, BecomesType DEF TypeOK
  <2>3. CASE forwarding /\ forwarding' = FALSE /\ UNCHANGED <<world, warm>>
    BY <1>1, <1>2, <2>1, <2>3 DEF TypeOK
  <2> QED
    BY <1>3, <2>2, <2>3 DEF Disturb
<1>4. CASE ComesUp
  <2>1. Passes(StartupTime) /\ UNCHANGED <<forwarding, faults>>
    BY <1>4 DEF ComesUp
  <2>2. world' \in [Name -> Condition] /\ warm' \in 0..StartupTime
    BY <1>1, <2>1, PassesType, BelterAssumption
  <2> QED
    BY <1>1, <1>2, <2>1, <2>2 DEF TypeOK
<1> QED
  BY <1>3, <1>4

\* Every step keeps the types.
LEMMA TypeStep ==
  ASSUME IInv, Next
  PROVE  TypeOK'
<1>1. OrderTypeOK'
  BY OrderStep DEF OrderInv
<1>2. ASSUME NEW n \in Name, NEW dry \in BOOLEAN,
             \/ \E kind \in ServiceCommand : Invoke(kind, n, dry)
             \/ \E kind \in ConfigCommand : InitFile(kind, dry) \/ ValidateFile(kind, dry)
      PROVE  TypeOK'
  BY <1>1, <1>2, CommandTypes
<1>3. CASE Proceed
  BY <1>1, <1>3, PlanningTypes, ReadNextTypes, RunningTypes, CheckingTypes, WaitingTypes,
     RetryTypes DEF Proceed
<1>4. CASE Disturb \/ ComesUp
  BY <1>1, <1>4, HostTypes
<1>5. Mempool \in Name
  BY ConfigAssumption
<1> QED
  BY <1>2, <1>3, <1>4, <1>5 DEF Next

----------------------------------------------------------------------------
(* The invariants *)

\* A command that begins.
LEMMA CommandPlaces ==
  ASSUME IInv, NEW n \in Name, NEW dry \in BOOLEAN,
         \/ \E kind \in ServiceCommand : Invoke(kind, n, dry)
         \/ \E kind \in ConfigCommand : InitFile(kind, dry) \/ ValidateFile(kind, dry)
  PROVE  /\ PlaceInv' /\ touched' = {} /\ todo' = <<>>
         /\ pc' \in {"idle", "resolving", "loading"}
         /\ pc' = "idle" \/ (UNCHANGED config /\ outcome' = "none" /\ command'.kind \in ServiceCommand)
         /\ outcome' = "ok" => command'.kind \in ConfigCommand
         /\ round' = 1 /\ pc = "idle"
<1>1. ASSUME NEW kind \in ServiceCommand, Invoke(kind, n, dry)
      PROVE  /\ touched' = {} /\ todo' = <<>> /\ round' = 1 /\ pc = "idle"
             /\ \/ pc' = "idle" /\ outcome' = "config error"
                \/ /\ pc' = IF kind = "bring-up" THEN "resolving" ELSE "loading"
                   /\ outcome' = "none"
             /\ command' = [kind |-> kind, dry |-> dry] /\ UNCHANGED config
  BY <1>1 DEF Invoke, Fresh, Finish, fileVars, Idle
<1>2. ASSUME NEW kind \in ConfigCommand, InitFile(kind, dry) \/ ValidateFile(kind, dry)
      PROVE  /\ touched' = {} /\ todo' = <<>> /\ round' = 1 /\ pc = "idle"
             /\ pc' = "idle" /\ command' = [kind |-> kind, dry |-> dry] /\ PlaceInv'
  <2>1. /\ touched' = {} /\ todo' = <<>> /\ round' = 1 /\ pc = "idle"
        /\ pc' = "idle" /\ command' = [kind |-> kind, dry |-> dry]
    BY <1>2 DEF InitFile, ValidateFile, Configure, Fresh, Finish, Idle
  <2> QED
    BY <2>1 DEF PlaceInv, Resolved
<1>3. CASE \E kind \in ServiceCommand : Invoke(kind, n, dry)
  <2>1. PICK kind \in ServiceCommand : Invoke(kind, n, dry)
    BY <1>3
  <2>2. /\ touched' = {} /\ todo' = <<>> /\ round' = 1 /\ pc = "idle" /\ UNCHANGED config
        /\ command' = [kind |-> kind, dry |-> dry]
        /\ \/ pc' = "idle" /\ outcome' = "config error"
           \/ pc' = (IF kind = "bring-up" THEN "resolving" ELSE "loading") /\ outcome' = "none"
    BY <1>1, <2>1
  <2>3. command'.kind = kind /\ kind \in ServiceCommand
    BY <2>2
  <2>4. \/ pc' = "idle" /\ outcome' = "config error"
        \/ pc' = "resolving" /\ kind = "bring-up" /\ outcome' = "none"
        \/ pc' = "loading" /\ kind # "bring-up" /\ outcome' = "none"
    BY <2>2
  <2>5. PlaceInv'
    BY <2>2, <2>3, <2>4 DEF PlaceInv, Resolved, BringUp
  <2> QED
    BY <2>2, <2>3, <2>4, <2>5
<1>4. CASE \E kind \in ConfigCommand : InitFile(kind, dry) \/ ValidateFile(kind, dry)
  <2>1. PICK kind \in ConfigCommand : InitFile(kind, dry) \/ ValidateFile(kind, dry)
    BY <1>4
  <2> QED
    BY <1>2, <2>1
<1> QED
  BY <1>3, <1>4

\* The end of a command.
LEMMA FinishPlaces ==
  ASSUME NEW o, Finish(o)
  PROVE  /\ PlaceInv' /\ ReadableInv' /\ SeenInv' /\ SortedInv'
         /\ pc' = "idle" /\ outcome' = o /\ todo' = <<>>
BY DEF Finish, PlaceInv, Resolved, ReadableInv, Acting, SeenInv, SortedInv

\* Steps of a command leave the command alone.
LEMMA ProceedKeeps ==
  ASSUME Proceed \/ Disturb \/ ComesUp
  PROVE  UNCHANGED <<config, present, goal, command>>
BY DEF Proceed, Resolve, LoadEnv, PlanBlindly, ReadGoal, ReadNext, Planned, RunProgram,
   ProgramFails, MachineReady, MachineStartsAgain, MachineNotReady, Executed, Await,
   ProbeGoesOn, MempoolReady, MempoolNotReady,
   RetryService, RetryRuntime, GiveUp, Disturb, ComesUp, fileVars, jobVars

LEMMA PlaceStep ==
  ASSUME IInv, Next
  PROVE  PlaceInv'
<1> USE DEF fileVars, jobVars, searchVars, planVars, loopVars, hostVars, histVars
<1>1. PlaceInv
  BY DEF IInv
<1>2. CASE Resolve
  <2>1. CASE verdict' = "pending"
    <3>1. UNCHANGED <<pc, outcome, todo, command, round>> /\ pc = "resolving"
      BY <1>2, <2>1 DEF Resolve
    <3> QED
      BY <1>1, <3>1 DEF PlaceInv, Resolved, BringUp
  <2>2. CASE verdict' = "ok"
    <3>1. UNCHANGED <<outcome, todo, command, round>> /\ pc' = "loading" /\ pc = "resolving"
      BY <1>2, <2>2 DEF Resolve
    <3> QED
      BY <1>1, <2>2, <3>1 DEF PlaceInv, Resolved, BringUp
  <2>3. CASE verdict' # "pending" /\ verdict' # "ok"
    BY <1>2, <2>3, FinishPlaces DEF Resolve
  <2> QED
    BY <2>1, <2>2, <2>3
<1>3. CASE LoadEnv
  <2>1. CASE Finish("env error")
    BY <2>1, FinishPlaces
  <2>2. CASE UNCHANGED <<pc, outcome, todo>>
    BY <1>1, <1>3, <2>2 DEF LoadEnv, PlaceInv, Resolved, BringUp
  <2> QED
    BY <1>3, <2>1, <2>2 DEF LoadEnv
<1>4. CASE PlanBlindly
  <2>1. CASE \E o : Finish(o)
    BY <2>1, FinishPlaces
  <2>2. CASE ~\E o : Finish(o)
    <3>1. pc' = "running" /\ ~command.dry /\ ~BringUp /\ UNCHANGED <<outcome, command, round>>
      BY <1>4, <2>2 DEF PlanBlindly, Execute
    <3> QED
      BY <1>1, <1>4, <3>1 DEF PlanBlindly, PlaceInv, Resolved, BringUp
  <2> QED
    BY <2>1, <2>2
<1>5. CASE ReadGoal
  <2>1. CASE Finish("config error")
    BY <2>1, FinishPlaces
  <2>2. CASE ~Finish("config error")
    <3>1. pc' = "reading" /\ BringUp /\ ~command.dry /\ UNCHANGED <<outcome, todo, verdict, command, round>>
      BY <1>5, <2>2 DEF ReadGoal
    <3> QED
      BY <1>1, <1>5, <3>1 DEF ReadGoal, PlaceInv, Resolved, BringUp
  <2> QED
    BY <2>1, <2>2
<1>6. CASE ReadNext
  <2>1. CASE Finish("config error")
    BY <2>1, FinishPlaces
  <2>2. CASE ~Finish("config error")
    <3>1. pc = "reading" /\ UNCHANGED <<pc, outcome>>
      BY <1>6, <2>2, ReadNextEffect
    <3>2. UNCHANGED <<verdict, command, round>>
      BY <1>6 DEF ReadNext
    <3> QED
      BY <1>1, <3>1, <3>2 DEF PlaceInv, Resolved, BringUp
  <2> QED
    BY <2>1, <2>2
<1>7. CASE Planned
  BY <1>1, <1>7 DEF Planned, PlaceInv, Resolved, BringUp
<1>8. CASE RunProgram
  <2>1. UNCHANGED <<verdict, command, outcome>> /\ pc = "running" /\ todo # <<>>
        /\ (\/ pc' = "checking" /\ Head(todo).program = "machine start" /\ UNCHANGED todo
            \/ pc' = "running")
    BY <1>8 DEF RunProgram
  <2> QED
    BY <1>1, <2>1 DEF PlaceInv, Resolved, BringUp
<1>9. CASE ProgramFails
  BY <1>9, FinishPlaces DEF ProgramFails
<1>10. CASE MachineReady
  BY <1>1, <1>10 DEF MachineReady, PlaceInv, Resolved, BringUp
<1>11. CASE MachineStartsAgain \/ MachineNotReady
  <2>1. CASE \E o : Finish(o)
    BY <2>1, FinishPlaces
  <2>2. CASE ~\E o : Finish(o)
    <3>1. UNCHANGED <<verdict, command, goal, outcome, pc, todo, round, at>>
      BY <1>11, <2>2 DEF MachineStartsAgain, MachineNotReady
    <3> QED
      BY <1>1, <3>1 DEF PlaceInv, Resolved, BringUp
  <2> QED
    BY <2>1, <2>2
<1>12. CASE Executed
  <2>1. CASE Finish("ok")
    BY <2>1, FinishPlaces
  <2>2. CASE ~Finish("ok")
    <3>1. /\ BringUp /\ goal = Mempool /\ pc = "running" /\ todo = <<>> /\ pc' = "probing"
          /\ UNCHANGED <<verdict, command, goal, outcome, todo, round>> /\ at' = 1
      BY <1>12, <2>2 DEF Executed
    <3> QED
      BY <1>1, <3>1 DEF PlaceInv, Resolved, BringUp
  <2> QED
    BY <2>1, <2>2
<1>13. CASE Await
  <2>1. CASE Finish("ok")
    BY <2>1, FinishPlaces
  <2>2. CASE ~Finish("ok")
    <3>1. /\ pc = "probing" /\ pc' \in {"probing", "failing"}
          /\ UNCHANGED <<verdict, command, goal, outcome, todo, round>>
          /\ pc' = "probing" => at' \in 1..4
      <4>1. CASE ProbeGoesOn
        BY <1>1, <4>1 DEF ProbeGoesOn, PlaceInv, Requests
      <4>2. CASE MempoolNotReady
        BY <4>2 DEF MempoolNotReady
      <4> QED
        BY <1>13, <2>2, <4>1, <4>2 DEF Await, MempoolReady
    <3> QED
      BY <1>1, <3>1 DEF PlaceInv, Resolved, BringUp
  <2> QED
    BY <2>1, <2>2
<1>14. CASE RetryService \/ RetryRuntime
  <2>1. CASE Finish("not ready")
    BY <2>1, FinishPlaces
  <2>2. CASE ~Finish("not ready")
    <3>1. pc = "failing" /\ pc' = "running" /\ UNCHANGED <<verdict, command, outcome>>
      BY <1>14, <2>2, RetryServiceEffect, RetryRuntimeEffect DEF RetryService, RetryRuntime
    <3> QED
      BY <1>1, <3>1 DEF PlaceInv, Resolved, BringUp
  <2> QED
    BY <2>1, <2>2
<1>15. CASE GiveUp
  BY <1>15, FinishPlaces DEF GiveUp
<1>16. CASE Disturb \/ ComesUp
  <2>1. UNCHANGED <<verdict, command, goal, outcome, pc, todo, round, at>>
    BY <1>16 DEF Disturb, ComesUp
  <2> QED
    BY <1>1, <2>1 DEF PlaceInv, Resolved, BringUp
<1>17. Mempool \in Name
  BY ConfigAssumption
<1> QED
  BY <1>2, <1>3, <1>4, <1>5, <1>6, <1>7, <1>8, <1>9, <1>10, <1>11, <1>12, <1>13, <1>14,
     <1>15, <1>16, <1>17, CommandPlaces DEF Next, Proceed

\* The steps of a command that runs programs, or waits for mempool.
Acts ==
  \/ RunProgram \/ ProgramFails \/ MachineReady \/ MachineStartsAgain \/ MachineNotReady
  \/ Executed \/ Await \/ RetryService \/ RetryRuntime \/ GiveUp

ActingPlace == {"running", "checking", "probing", "failing"}

\* They keep the order and the environment, and end in no error of the
\* configuration.
LEMMA ActsEffect ==
  ASSUME IInv, Acts
  PROVE  /\ UNCHANGED <<config, goal, command, ordered, verdict, env, initial>>
         /\ pc \in ActingPlace /\ ~command.dry /\ outcome = "none"
         /\ \/ pc' \in ActingPlace /\ outcome' = "none"
            \/ \E o \in {"ok", "command failed", "not ready"} : Finish(o)
<1> USE DEF fileVars, jobVars, searchVars, planVars
<1>1. UNCHANGED <<config, goal, command, ordered, verdict, env, initial>>
  BY DEF Acts, RunProgram, ProgramFails, MachineReady, MachineStartsAgain, MachineNotReady,
     Executed, Await, ProbeGoesOn, MempoolReady, MempoolNotReady, RetryService, RetryRuntime,
     GiveUp
<1>2. pc \in ActingPlace
  BY DEF Acts, RunProgram, ProgramFails, MachineReady, MachineStartsAgain, MachineNotReady,
     Executed, Await, ProbeGoesOn, MempoolReady, MempoolNotReady, RetryService, RetryRuntime,
     GiveUp, ActingPlace
<1>3. ~command.dry /\ outcome = "none"
  BY <1>2 DEF IInv, PlaceInv, ActingPlace
<1>4. CASE RunProgram \/ ProgramFails \/ MachineReady \/ Executed \/ GiveUp
  <2>1. \/ pc' \in ActingPlace /\ outcome' = outcome
        \/ Finish("ok") \/ Finish("command failed") \/ Finish("not ready")
    BY <1>4 DEF RunProgram, ProgramFails, MachineReady, Executed, GiveUp, ActingPlace
  <2> QED
    BY <1>1, <1>2, <1>3, <2>1
<1>5. CASE MachineStartsAgain \/ MachineNotReady \/ Await
  <2>1. \/ pc' \in ActingPlace /\ outcome' = outcome
        \/ Finish("ok") \/ Finish("command failed") \/ Finish("not ready")
    BY <1>5
    DEF MachineStartsAgain, MachineNotReady, Await, ProbeGoesOn, MempoolReady, MempoolNotReady,
        ActingPlace
  <2> QED
    BY <1>1, <1>2, <1>3, <2>1
<1>6. CASE RetryService
  BY <1>1, <1>2, <1>3, <1>6, RetryServiceEffect DEF ActingPlace
<1>7. CASE RetryRuntime
  <2>1. \/ pc' = "running" /\ outcome' = outcome
        \/ Finish("not ready")
    BY <1>7, RetryRuntimeEffect
  <2> QED
    BY <1>1, <1>2, <1>3, <2>1 DEF ActingPlace
<1> QED
  BY <1>4, <1>5, <1>6, <1>7 DEF Acts

\* What has been run of a plan is gone from its front.
LEMMA Shrinks ==
  ASSUME TypeOK, todo # <<>>, todo' = todo \/ todo' = Tail(todo)
  PROVE  \E d \in {0, 1} :
           /\ Len(todo') = Len(todo) - d
           /\ \A i \in 1..Len(todo') : i + d \in 1..Len(todo) /\ todo'[i] = todo[i + d]
<1>1. Len(todo) \in Nat \ {0}
  BY PlanType
<1>2. CASE todo' = todo
  BY <1>1, <1>2
<1>3. CASE todo' = Tail(todo)
  <2>1. Len(todo') = Len(todo) - 1
    BY <1>3, PlanType
  <2>2. \A i \in 1..Len(todo') : i + 1 \in 1..Len(todo) /\ todo'[i] = todo[i + 1]
    BY <1>1, <1>3, <2>1, PlanType
  <2> QED
    BY <2>1, <2>2
<1> QED
  BY <1>2, <1>3

\* What is planned is added at the end.
LEMMA Extended ==
  ASSUME IInv, NEW n \in Name, NEW action \in {"start", "restart"},
         Plannable(config, n, env), todo' = todo \o Steps(n, action)
  PROVE  /\ Len(todo) \in Nat /\ Len(todo') \in Nat
         /\ \A i \in 1..Len(todo') :
              \/ i \in 1..Len(todo) /\ todo'[i] = todo[i]
              \/ /\ i > Len(todo) /\ todo'[i].name = n
                 /\ Takes(todo'[i].program) => action = "restart"
<1> DEFINE b == Steps(n, action)
<1>1. todo \in Seq(Step) /\ config \in Config
  BY DEF IInv, TypeInv, TypeOK, OrderTypeOK, Step
<1>2. /\ b \in Seq(Step) /\ DOMAIN b = 1..Len(b)
      /\ \A i \in DOMAIN b : b[i].name = n
      /\ action = "start" => \A i \in DOMAIN b : ~Takes(b[i].program)
  BY <1>1, StepsType
<1> HIDE DEF b
<1>3. todo' = todo \o b
  BY DEF b
<1>4. /\ Len(todo) \in Nat /\ Len(b) \in Nat /\ Len(todo') = Len(todo) + Len(b)
      /\ \A i \in 1..(Len(todo) + Len(b)) :
           todo'[i] = IF i <= Len(todo) THEN todo[i] ELSE b[i - Len(todo)]
  BY <1>1, <1>2, <1>3, ConcatProperties, LenProperties
<1>5. ASSUME NEW i \in 1..Len(todo')
      PROVE  \/ i \in 1..Len(todo) /\ todo'[i] = todo[i]
             \/ /\ i > Len(todo) /\ todo'[i].name = n
                /\ Takes(todo'[i].program) => action = "restart"
  <2>1. CASE i <= Len(todo)
    BY <1>4, <2>1
  <2>2. CASE ~(i <= Len(todo))
    <3>1. i - Len(todo) \in DOMAIN b /\ todo'[i] = b[i - Len(todo)] /\ i > Len(todo)
      BY <1>2, <1>4, <2>2
    <3> QED
      BY <1>2, <3>1
  <2> QED
    BY <2>1, <2>2
<1> QED
  BY <1>4, <1>5

LEMMA ExtendedOnce ==
  ASSUME IInv, NEW n \in Name, NEW action \in {"start", "restart"},
         Plannable(config, n, env), todo' = todo \o Steps(n, action)
  PROVE  \A i, j \in 1..Len(todo') :
           i > Len(todo) /\ j > Len(todo) /\ Takes(todo'[i].program) /\ Takes(todo'[j].program)
             => i = j
<1> DEFINE b == Steps(n, action)
<1>1. todo \in Seq(Step) /\ config \in Config
  BY DEF IInv, TypeInv, TypeOK, OrderTypeOK, Step
<1>2. b \in Seq(Step) /\ DOMAIN b = 1..Len(b) /\ TakesOnce(b)
  BY <1>1, StepsType, StepsOnce
<1> HIDE DEF b
<1>3. todo' = todo \o b
  BY DEF b
<1>4. /\ Len(todo) \in Nat /\ Len(b) \in Nat /\ Len(todo') = Len(todo) + Len(b)
      /\ \A i \in 1..(Len(todo) + Len(b)) :
           todo'[i] = IF i <= Len(todo) THEN todo[i] ELSE b[i - Len(todo)]
  BY <1>1, <1>2, <1>3, ConcatProperties, LenProperties
<1>5. ASSUME NEW i \in 1..Len(todo'), NEW j \in 1..Len(todo'),
             i > Len(todo), Takes(todo'[i].program), j > Len(todo), Takes(todo'[j].program)
      PROVE  i = j
  <2>1. /\ i - Len(todo) \in DOMAIN b /\ todo'[i] = b[i - Len(todo)]
        /\ j - Len(todo) \in DOMAIN b /\ todo'[j] = b[j - Len(todo)]
    BY <1>2, <1>4, <1>5
  <2>2. i - Len(todo) = j - Len(todo)
    BY <1>2, <1>5, <2>1 DEF TakesOnce
  <2> QED
    BY <1>4, <2>2
<1> QED
  BY <1>5

LEMMA ReadableStep ==
  ASSUME IInv, Next
  PROVE  ReadableInv'
<1> USE DEF fileVars, jobVars, searchVars, planVars, loopVars, hostVars, histVars
<1>1. ReadableInv /\ PlaceInv /\ TypeOK
  BY DEF IInv, TypeInv
<1>2. CASE pc' \in {"idle", "resolving", "loading"}
  BY <1>2 DEF ReadableInv, Acting
<1>3. CASE Resolve \/ LoadEnv
  <2>1. pc' \in {"idle", "resolving", "loading"}
    BY <1>3 DEF Resolve, LoadEnv, Finish
  <2> QED
    BY <1>2, <2>1
<1>4. CASE PlanBlindly
  <2>1. pc' = "idle" \/ (~command.dry /\ ~BringUp /\ UNCHANGED command)
    BY <1>4 DEF PlanBlindly, Execute, Finish
  <2> QED
    BY <1>2, <2>1 DEF ReadableInv, BringUp
<1>5. CASE ReadGoal
  <2>1. pc' = "idle" \/ (pc' = "reading" /\ at' = 1)
    BY <1>5 DEF ReadGoal, Finish
  <2>2. CASE pc' = "reading" /\ at' = 1
    BY <2>2 DEF ReadableInv, Acting
  <2> QED
    BY <1>2, <2>1, <2>2
<1>6. CASE ReadNext
  <2>1. CASE Finish("config error")
    BY <2>1, FinishPlaces
  <2>2. CASE ~Finish("config error")
    <3>1. /\ pc = "reading" /\ UNCHANGED pc /\ at' = at + 1 /\ Readable(config, ordered[at], env)
          /\ at \in 1..Len(ordered) /\ Len(ordered) \in Nat
      BY <2>2, <1>6, ReadNextEffect
    <3>2. UNCHANGED <<config, ordered, env, command>>
      BY <1>6 DEF ReadNext
    <3>3. \A i \in 1..Len(ordered) : i < at + 1 => i < at \/ i = at
      BY <3>1
    <3>4. BringUp => \A i \in 1..Len(ordered) : i < at => Readable(config, ordered[i], env)
      BY <1>1, <3>1 DEF ReadableInv
    <3>5. BringUp => \A i \in 1..Len(ordered) : i < at' => Readable(config, ordered[i], env)
      BY <3>1, <3>3, <3>4
    <3> QED
      BY <3>1, <3>2, <3>5 DEF ReadableInv, Acting, BringUp
  <2> QED
    BY <2>1, <2>2
<1>7. CASE Planned
  <2>1. /\ pc = "reading" /\ at > Len(ordered) /\ pc' = "running"
        /\ UNCHANGED <<config, ordered, env, command>>
    BY <1>7 DEF Planned
  <2>2. at \in Nat /\ ordered \in Seq(Name) /\ Len(ordered) \in Nat
    BY <1>1, LenProperties DEF TypeOK, OrderTypeOK
  <2>3. BringUp => \A i \in 1..Len(ordered) : i < at => Readable(config, ordered[i], env)
    BY <1>1, <2>1 DEF ReadableInv
  <2>4. BringUp => \A i \in 1..Len(ordered) : Readable(config, ordered[i], env)
    BY <2>1, <2>2, <2>3
  <2> QED
    BY <2>1, <2>4 DEF ReadableInv, BringUp
<1>8. CASE Acts
  <2>1. UNCHANGED <<config, command, ordered, env>> /\ pc \in ActingPlace
    BY <1>8, ActsEffect
  <2>2. pc' = "idle" \/ pc' \in ActingPlace
    BY <1>8, ActsEffect DEF Finish
  <2>3. CASE pc' \in ActingPlace
    BY <1>1, <2>1, <2>3 DEF ReadableInv, Acting, BringUp, ActingPlace
  <2> QED
    BY <1>2, <2>2, <2>3
<1>9. CASE Disturb \/ ComesUp
  <2>1. UNCHANGED <<config, command, ordered, env, at, pc>>
    BY <1>9 DEF Disturb, ComesUp
  <2> QED
    BY <1>1, <2>1 DEF ReadableInv, Acting, BringUp
<1>10. Mempool \in Name
  BY ConfigAssumption
<1> QED
  BY <1>2, <1>3, <1>4, <1>5, <1>6, <1>7, <1>8, <1>9, <1>10, CommandPlaces DEF Next, Proceed, Acts

LEMMA TouchedStep ==
  ASSUME IInv, Next
  PROVE  TouchedInv'
<1> USE DEF fileVars, jobVars, searchVars, planVars, loopVars, hostVars, histVars
<1>1. TouchedInv /\ PlaceInv
  BY DEF IInv
<1>2. CASE touched' = {}
  BY <1>2 DEF TouchedInv
<1>3. CASE Resolve \/ LoadEnv \/ PlanBlindly \/ ReadGoal \/ ReadNext \/ Planned
  <2>1. UNCHANGED touched /\ pc \in {"resolving", "loading", "reading"}
    BY <1>3 DEF Resolve, LoadEnv, PlanBlindly, ReadGoal, ReadNext, Planned
  <2> QED
    BY <1>1, <1>2, <2>1 DEF TouchedInv
<1>4. CASE Acts
  <2>1. UNCHANGED command /\ ~command.dry
    BY <1>4, ActsEffect
  <2>2. /\ pc' \in ActingPlace \/ pc' = "idle"
        /\ outcome' \notin ConfigError
    BY <1>4, ActsEffect DEF Finish, ConfigError
  <2> QED
    BY <2>1, <2>2 DEF TouchedInv, ActingPlace
<1>5. CASE Disturb \/ ComesUp
  <2>1. UNCHANGED <<touched, pc, command, outcome>>
    BY <1>5 DEF Disturb, ComesUp
  <2> QED
    BY <1>1, <2>1 DEF TouchedInv
<1>6. Mempool \in Name
  BY ConfigAssumption
<1> QED
  BY <1>2, <1>3, <1>4, <1>5, <1>6, CommandPlaces DEF Next, Proceed, Acts

\* The steps of a plan in execution: it is kept, or its head goes.
Shrinking == RunProgram \/ MachineReady \/ MachineStartsAgain \/ MachineNotReady

LEMMA ShrinkingEffect ==
  ASSUME IInv, Shrinking
  PROVE  /\ pc \in {"running", "checking"} /\ todo # <<>> /\ UNCHANGED seen
         /\ \/ \E o \in {"command failed", "not ready"} : Finish(o)
            \/ pc' \in {"running", "checking"} /\ (todo' = todo \/ todo' = Tail(todo))
<1> USE DEF histVars
<1>1. PlaceInv
  BY DEF IInv
<1>2. CASE RunProgram
  BY <1>2 DEF RunProgram, Records
<1>3. CASE MachineReady
  BY <1>1, <1>3 DEF MachineReady, PlaceInv
<1>4. CASE MachineStartsAgain \/ MachineNotReady
  <2>1. pc = "checking" /\ todo # <<>> /\ UNCHANGED seen
    BY <1>1, <1>4 DEF MachineStartsAgain, MachineNotReady, PlaceInv
  <2>2. Finish("command failed") \/ Finish("not ready") \/ UNCHANGED <<pc, todo>>
    BY <1>4 DEF MachineStartsAgain, MachineNotReady
  <2> QED
    BY <2>1, <2>2
<1> QED
  BY <1>2, <1>3, <1>4 DEF Shrinking

LEMMA SeenStep ==
  ASSUME IInv, Next
  PROVE  SeenInv'
<1> USE DEF fileVars, jobVars, searchVars, planVars, loopVars, hostVars, histVars
<1>1. SeenInv /\ PlaceInv /\ TypeOK /\ Mempool \in Name
  BY ConfigAssumption DEF IInv, TypeInv
<1>2. CASE pc' \in {"idle", "resolving", "loading", "probing"}
  BY <1>2 DEF SeenInv
<1>3. CASE Resolve \/ LoadEnv
  <2>1. pc' \in {"idle", "resolving", "loading"}
    BY <1>3 DEF Resolve, LoadEnv, Finish
  <2> QED
    BY <1>2, <2>1
<1>4. CASE PlanBlindly
  <2>1. pc' = "idle" \/ (~BringUp /\ pc' = "running" /\ UNCHANGED command)
    BY <1>4 DEF PlanBlindly, Execute, Finish
  <2> QED
    BY <1>2, <2>1 DEF SeenInv, BringUp
<1>5. CASE ReadGoal
  <2>1. pc' = "idle" \/ (pc' = "reading" /\ todo' = <<>>)
    BY <1>1, <1>5 DEF ReadGoal, Finish, PlaceInv
  <2>2. CASE pc' = "reading" /\ todo' = <<>>
    BY <2>2 DEF SeenInv
  <2> QED
    BY <1>2, <2>1, <2>2
<1>6. CASE ReadNext
  <2> DEFINE n == ordered[at]
  <2>1. CASE Finish("config error")
    BY <2>1, FinishPlaces
  <2>2. CASE ~Finish("config error")
    <3>1. /\ pc = "reading" /\ UNCHANGED pc /\ at \in 1..Len(ordered) /\ n \in Name /\ BringUp
      BY <1>1, <2>2, <1>6, ReadNextEffect DEF PlaceInv
    <3>2. PICK s \in State :
            /\ Reads(n, s)
            /\ \/ UNCHANGED todo
               \/ /\ BringUpAction(n, s) \in {"start", "restart"}
                  /\ Plannable(config, n, env)
                  /\ todo' = todo \o Steps(n, BringUpAction(n, s))
      BY <2>2, <1>6, ReadNextEffect
    <3>3. seen' = [seen EXCEPT ![n] = s] /\ seen \in [Name -> State]
      BY <1>1, <3>2 DEF Reads, TypeOK
    <3>4. \A i \in 1..Len(todo) :
            /\ todo[i].name \in Name
            /\ seen'[todo[i].name] = seen[todo[i].name]
      <4>1. SUFFICES ASSUME NEW i \in 1..Len(todo)
                     PROVE  todo[i].name \in Name /\ seen'[todo[i].name] = seen[todo[i].name]
        OBVIOUS
      <4>2. PICK p \in 1..Len(ordered) : todo[i].name = ordered[p] /\ p < at
        BY <3>1 DEF IInv, SortedInv
      <4>3. ordered[p] # ordered[at]
        BY <3>1, <4>2 DEF IInv, TypeInv, OrderInv, ListInv
      <4>4. ordered[p] \in Name
        BY <1>1, ElementOfSeq DEF TypeOK, OrderTypeOK
      <4> QED
        BY <3>3, <4>2, <4>3, <4>4
    <3>5. \A i \in 1..Len(todo) :
            /\ seen'[todo[i].name] \in {"stopped", "unknown", "degraded"}
            /\ Takes(todo[i].program) => seen'[todo[i].name] = "degraded"
      BY <1>1, <3>1, <3>4 DEF SeenInv
    <3>6. CASE UNCHANGED todo
      BY <3>1, <3>5, <3>6 DEF SeenInv
    <3>7. CASE ~UNCHANGED todo
      <4>1. /\ BringUpAction(n, s) \in {"start", "restart"}
            /\ Plannable(config, n, env)
            /\ todo' = todo \o Steps(n, BringUpAction(n, s))
        BY <3>2, <3>7
      <4>2. \A i \in 1..Len(todo') :
              \/ i \in 1..Len(todo) /\ todo'[i] = todo[i]
              \/ /\ i > Len(todo) /\ todo'[i].name = n
                 /\ Takes(todo'[i].program) => BringUpAction(n, s) = "restart"
        BY <3>1, <4>1, Extended
      <4>3. seen'[n] = s
        BY <3>1, <3>3
      <4>4. /\ s \in {"stopped", "unknown", "degraded"}
            /\ BringUpAction(n, s) = "restart" => s = "degraded"
        BY <4>1 DEF BringUpAction
      <4>5. \A i \in 1..Len(todo') :
              /\ seen'[todo'[i].name] \in {"stopped", "unknown", "degraded"}
              /\ Takes(todo'[i].program) => seen'[todo'[i].name] = "degraded"
        BY <3>5, <4>2, <4>3, <4>4
      <4> QED
        BY <3>1, <4>5 DEF SeenInv, Takes
    <3> QED
      BY <3>6, <3>7
  <2> QED
    BY <2>1, <2>2
<1>7. CASE Planned
  BY <1>1, <1>7 DEF Planned, SeenInv, BringUp
<1>8. CASE Shrinking
  <2>1. CASE \E o : Finish(o)
    BY <2>1, FinishPlaces
  <2>2. CASE ~\E o : Finish(o)
    <3>1. /\ pc \in {"running", "checking"} /\ todo # <<>> /\ UNCHANGED seen
          /\ pc' \in {"running", "checking"} /\ (todo' = todo \/ todo' = Tail(todo))
      BY <1>8, <2>2, ShrinkingEffect
    <3>2. PICK d \in {0, 1} :
             /\ Len(todo') = Len(todo) - d
             /\ \A i \in 1..Len(todo') : i + d \in 1..Len(todo) /\ todo'[i] = todo[i + d]
      BY <1>1, <3>1, Shrinks
    <3>3. UNCHANGED command
      BY <1>8, ActsEffect DEF Shrinking, Acts
    <3>4. BringUp => \A i \in 1..Len(todo') :
              /\ seen[todo'[i].name] \in {"stopped", "unknown", "degraded"}
              /\ Takes(todo'[i].program) => seen[todo'[i].name] = "degraded"
      BY <1>1, <3>1, <3>2 DEF SeenInv
    <3> QED
      BY <3>1, <3>3, <3>4 DEF SeenInv, BringUp, Takes
  <2> QED
    BY <2>1, <2>2
<1>9. CASE ProgramFails \/ GiveUp
  BY <1>9, FinishPlaces DEF ProgramFails, GiveUp
<1>10. CASE Executed
  BY <1>10, <1>2 DEF Executed, Finish
<1>11. CASE Await
  <2>1. CASE ProbeGoesOn \/ MempoolReady
    BY <1>2, <2>1 DEF ProbeGoesOn, MempoolReady, Finish
  <2>2. CASE MempoolNotReady
    <3>1. seen'[Mempool] = "degraded" /\ pc' \in {"probing", "failing"}
      BY <1>1, <2>2 DEF MempoolNotReady, TypeOK
    <3> QED
      BY <3>1 DEF SeenInv
  <2> QED
    BY <1>11, <2>1, <2>2 DEF Await
<1>12. CASE RetryService
  <2>1. /\ pc = "failing" /\ pc' = "running" /\ todo' = Steps(Mempool, "restart")
        /\ UNCHANGED <<seen, command>>
    BY <1>12, RetryServiceEffect DEF RetryService
  <2>2. \A i \in 1..Len(todo') : todo'[i].name = Mempool
    BY <1>1, <2>1, RetryPlans, StepsType DEF TypeOK, OrderTypeOK
  <2>3. seen[Mempool] = "degraded"
    BY <1>1, <2>1 DEF SeenInv
  <2> QED
    BY <2>1, <2>2, <2>3 DEF SeenInv
<1>13. CASE RetryRuntime
  <2>1. CASE Finish("not ready")
    BY <2>1, FinishPlaces
  <2>2. CASE ~Finish("not ready")
    <3>1. /\ Reads(Runtime, "degraded") /\ pc' = "running" /\ Machines # {} /\ pc = "failing"
          /\ todo' = Steps(Runtime, "restart") \o Steps(Mempool, "start")
      BY <1>13, <2>2, RetryRuntimeEffect DEF RetryRuntime
    <3>2. seen' = [seen EXCEPT ![Runtime] = "degraded"] /\ seen[Mempool] = "degraded"
          /\ seen \in [Name -> State] /\ Runtime \in Name
      BY <1>1, <3>1, RetriesReadable DEF Reads, SeenInv, TypeOK
    <3>3. seen'[Runtime] = "degraded" /\ seen'[Mempool] = "degraded"
      BY <1>1, <3>2
    <3>4. todo' \in Seq(Step) /\ \A i \in DOMAIN todo' : todo'[i].name \in {Runtime, Mempool}
      BY <3>1, RetryPlans
    <3>5. \A i \in 1..Len(todo') : todo'[i].name \in {Runtime, Mempool}
      BY <3>4
    <3> QED
      BY <3>1, <3>3, <3>5 DEF SeenInv
  <2> QED
    BY <2>1, <2>2
<1>14. CASE Disturb \/ ComesUp
  <2>1. UNCHANGED <<seen, pc, command, todo>>
    BY <1>14 DEF Disturb, ComesUp
  <2> QED
    BY <1>1, <2>1 DEF SeenInv, BringUp
<1> QED
  BY <1>1, <1>2, <1>3, <1>4, <1>5, <1>6, <1>7, <1>8, <1>9, <1>10, <1>11, <1>12, <1>13, <1>14,
     CommandPlaces DEF Next, Proceed, Shrinking

LEMMA SortedStep ==
  ASSUME IInv, Next
  PROVE  SortedInv'
<1> USE DEF fileVars, jobVars, searchVars, planVars, loopVars, hostVars, histVars
<1>1. SortedInv /\ PlaceInv /\ TypeOK /\ Mempool \in Name
  BY ConfigAssumption DEF IInv, TypeInv
<1>2. /\ ordered \in Seq(Name) /\ Len(ordered) \in Nat /\ at \in Nat
      /\ \A p, q \in 1..Len(ordered) : ordered[p] = ordered[q] => p = q
  BY <1>1, LenProperties DEF IInv, TypeInv, OrderInv, ListInv, TypeOK, OrderTypeOK
<1>3. CASE pc' \in {"idle", "resolving", "loading", "probing", "failing"}
  BY <1>3 DEF SortedInv
<1>4. CASE Resolve \/ LoadEnv
  <2>1. pc' \in {"idle", "resolving", "loading"}
    BY <1>4 DEF Resolve, LoadEnv, Finish
  <2> QED
    BY <1>3, <2>1
<1>5. CASE PlanBlindly
  <2>1. pc' = "idle" \/ (~BringUp /\ pc' = "running" /\ UNCHANGED command)
    BY <1>5 DEF PlanBlindly, Execute, Finish
  <2> QED
    BY <1>3, <2>1 DEF SortedInv, BringUp
<1>6. CASE ReadGoal
  <2>1. pc' = "idle" \/ (pc' = "reading" /\ todo' = <<>>)
    BY <1>1, <1>6 DEF ReadGoal, Finish, PlaceInv
  <2>2. CASE pc' = "reading" /\ todo' = <<>>
    <3>1. Len(todo') = 0
      BY <2>2
    <3> QED
      BY <3>1 DEF SortedInv
  <2> QED
    BY <1>3, <2>1, <2>2
<1>7. CASE ReadNext
  <2> DEFINE n == ordered[at]
  <2>1. CASE Finish("config error")
    BY <2>1, FinishPlaces
  <2>2. CASE ~Finish("config error")
    <3>1. /\ pc = "reading" /\ UNCHANGED pc /\ at \in 1..Len(ordered) /\ n \in Name /\ BringUp
          /\ at' = at + 1
      BY <1>1, <2>2, <1>7, ReadNextEffect DEF PlaceInv
    <3>2. UNCHANGED ordered
      BY <1>7 DEF ReadNext
    <3>3. PICK s \in State :
            \/ UNCHANGED todo
            \/ /\ BringUpAction(n, s) \in {"start", "restart"}
               /\ Plannable(config, n, env)
               /\ todo' = todo \o Steps(n, BringUpAction(n, s))
      BY <2>2, <1>7, ReadNextEffect
    <3>4. /\ \A i \in 1..Len(todo) : \E p \in 1..Len(ordered) : todo[i].name = ordered[p] /\ p < at
          /\ \A i, j \in 1..Len(todo), p, q \in 1..Len(ordered) :
               i <= j /\ todo[i].name = ordered[p] /\ todo[j].name = ordered[q] => p <= q
      BY <1>1, <3>1 DEF SortedInv
    <3>5. CASE UNCHANGED todo
      <4>1. \A p \in 1..Len(ordered) : p < at => p < at'
        BY <1>2, <3>1
      <4>2. \A i \in 1..Len(todo) : \E p \in 1..Len(ordered) : todo[i].name = ordered[p] /\ p < at'
        BY <3>4, <4>1
      <4> QED
        BY <3>1, <3>2, <3>4, <3>5, <4>2 DEF SortedInv
    <3>6. CASE ~UNCHANGED todo
      <4>1. /\ BringUpAction(n, s) \in {"start", "restart"}
            /\ Plannable(config, n, env)
            /\ todo' = todo \o Steps(n, BringUpAction(n, s))
        BY <3>3, <3>6
      <4>2. /\ Len(todo) \in Nat /\ Len(todo') \in Nat
            /\ \A i \in 1..Len(todo') :
                 \/ i \in 1..Len(todo) /\ todo'[i] = todo[i]
                 \/ i > Len(todo) /\ todo'[i].name = n
        BY <3>1, <4>1, Extended
      <4>3. \A i \in 1..Len(todo') :
              \E p \in 1..Len(ordered) : todo'[i].name = ordered[p] /\ p < at'
        <5> SUFFICES ASSUME NEW i \in 1..Len(todo')
                     PROVE  \E p \in 1..Len(ordered) : todo'[i].name = ordered[p] /\ p < at'
          OBVIOUS
        <5>1. CASE i \in 1..Len(todo) /\ todo'[i] = todo[i]
          <6>1. PICK p \in 1..Len(ordered) : todo[i].name = ordered[p] /\ p < at
            BY <3>4, <5>1
          <6>2. p < at'
            BY <1>2, <3>1, <6>1
          <6> QED
            BY <5>1, <6>1, <6>2
        <5>2. CASE todo'[i].name = n
          BY <1>2, <3>1, <5>2
        <5> QED
          BY <4>2, <5>1, <5>2
      <4>4. ASSUME NEW i \in 1..Len(todo'), NEW j \in 1..Len(todo'),
                   NEW p \in 1..Len(ordered), NEW q \in 1..Len(ordered),
                   i <= j, todo'[i].name = ordered[p], todo'[j].name = ordered[q]
            PROVE  p <= q
        <5>1. CASE j \in 1..Len(todo) /\ todo'[j] = todo[j]
          <6>1. i \in 1..Len(todo) /\ todo'[i] = todo[i]
            BY <4>2, <4>4, <5>1
          <6> QED
            BY <3>4, <4>4, <5>1, <6>1
        <5>2. CASE todo'[j].name = n
          <6>1. q = at
            BY <1>2, <3>1, <4>4, <5>2
          <6>2. CASE i \in 1..Len(todo) /\ todo'[i] = todo[i]
            <7>1. PICK r \in 1..Len(ordered) : todo[i].name = ordered[r] /\ r < at
              BY <3>4, <6>2
            <7>2. p = r
              BY <1>2, <4>4, <6>2, <7>1
            <7> QED
              BY <1>2, <6>1, <7>1, <7>2
          <6>3. CASE todo'[i].name = n
            <7>1. p = at
              BY <1>2, <3>1, <4>4, <6>3
            <7> QED
              BY <1>2, <6>1, <7>1
          <6> QED
            BY <4>2, <6>2, <6>3
        <5> QED
          BY <4>2, <5>1, <5>2
      <4> QED
        BY <3>1, <3>2, <4>3, <4>4 DEF SortedInv
    <3> QED
      BY <3>5, <3>6
  <2> QED
    BY <2>1, <2>2
<1>8. CASE Planned
  <2>1. pc = "reading" /\ pc' = "running" /\ UNCHANGED <<ordered, todo, command>>
    BY <1>8 DEF Planned
  <2>2. BringUp =>
          /\ \A i \in 1..Len(todo) : \E p \in 1..Len(ordered) : todo[i].name = ordered[p]
          /\ \A i, j \in 1..Len(todo), p, q \in 1..Len(ordered) :
               i <= j /\ todo[i].name = ordered[p] /\ todo[j].name = ordered[q] => p <= q
    BY <1>1, <2>1 DEF SortedInv
  <2> QED
    BY <2>1, <2>2 DEF SortedInv, BringUp
<1>9. CASE Shrinking
  <2>1. CASE \E o : Finish(o)
    BY <2>1, FinishPlaces
  <2>2. CASE ~\E o : Finish(o)
    <3>1. /\ pc \in {"running", "checking"} /\ todo # <<>>
          /\ pc' \in {"running", "checking"} /\ (todo' = todo \/ todo' = Tail(todo))
      BY <1>9, <2>2, ShrinkingEffect
    <3>2. PICK d \in {0, 1} :
             /\ Len(todo') = Len(todo) - d
             /\ \A i \in 1..Len(todo') : i + d \in 1..Len(todo) /\ todo'[i] = todo[i + d]
      BY <1>1, <3>1, Shrinks
    <3>3. UNCHANGED <<command, ordered>>
      BY <1>9, ActsEffect DEF Shrinking, Acts
    <3>4. BringUp =>
            /\ \A i \in 1..Len(todo) : \E p \in 1..Len(ordered) : todo[i].name = ordered[p]
            /\ \A i, j \in 1..Len(todo), p, q \in 1..Len(ordered) :
                 i <= j /\ todo[i].name = ordered[p] /\ todo[j].name = ordered[q] => p <= q
      BY <1>1, <3>1 DEF SortedInv
    <3>5. BringUp => \A i \in 1..Len(todo') : \E p \in 1..Len(ordered) : todo'[i].name = ordered[p]
      BY <3>2, <3>4
    <3>6. ASSUME BringUp, NEW i \in 1..Len(todo'), NEW j \in 1..Len(todo'),
                 NEW p \in 1..Len(ordered), NEW q \in 1..Len(ordered),
                 i <= j, todo'[i].name = ordered[p], todo'[j].name = ordered[q]
          PROVE  p <= q
      <4>1. /\ i + d \in 1..Len(todo) /\ todo'[i] = todo[i + d]
            /\ j + d \in 1..Len(todo) /\ todo'[j] = todo[j + d]
        BY <3>2
      <4>2. i + d <= j + d
        BY <3>6
      <4> QED
        BY <3>4, <3>6, <4>1, <4>2
    <3> QED
      BY <3>1, <3>3, <3>5, <3>6 DEF SortedInv, BringUp
  <2> QED
    BY <2>1, <2>2
<1>10. CASE ProgramFails \/ GiveUp
  BY <1>10, FinishPlaces DEF ProgramFails, GiveUp
<1>11. CASE Executed \/ Await
  <2>1. pc' \in {"idle", "probing", "failing"}
    BY <1>11 DEF Executed, Await, ProbeGoesOn, MempoolReady, MempoolNotReady, Finish
  <2> QED
    BY <1>3, <2>1
<1>12. CASE RetryService \/ RetryRuntime
  <2>1. CASE Finish("not ready")
    BY <2>1, FinishPlaces
  <2>2. CASE ~Finish("not ready")
    <3>1. pc = "failing" /\ pc' = "running" /\ UNCHANGED ordered
      BY <1>12, <2>2, RetryServiceEffect, RetryRuntimeEffect DEF RetryService, RetryRuntime
    <3>2. goal = Mempool /\ verdict = "ok" /\ OrderCorrect /\ config \in Config
      BY <1>1, <3>1, OrderInvRight DEF IInv, TypeInv, OrderInv, OrderTypeOK, PlaceInv, Resolved
    <3>3. /\ goal \in Range(ordered) /\ Needs(goal) \subseteq Range(ordered)
      BY <3>2, ClosureClosed, <1>1 DEF OrderCorrect
    <3>4. PICK m \in 1..Len(ordered) : ordered[m] = Mempool
      BY <1>2, <3>2, <3>3, RangeSeq
    <3>5. CASE RetryService
      <4>1. \A i \in 1..Len(todo') : todo'[i].name = Mempool
        <5>1. todo' = Steps(Mempool, "restart")
          BY <3>5, RetryServiceEffect
        <5>2. todo' \in Seq(Step) /\ \A i \in DOMAIN todo' : todo'[i].name = Mempool
          BY <3>1, <5>1, RetryPlans
        <5> QED
          BY <5>2
      <4>2. \A p, q \in 1..Len(ordered) : ordered[p] = Mempool /\ ordered[q] = Mempool => p <= q
        BY <1>2
      <4> QED
        BY <3>1, <3>4, <4>1, <4>2 DEF SortedInv
    <3>6. CASE RetryRuntime
      <4>1. /\ todo' \in Seq(Step) /\ \A i \in DOMAIN todo' : todo'[i].name \in {Runtime, Mempool}
            /\ \A i, j \in DOMAIN todo' :
                 todo'[i].name = Mempool /\ todo'[j].name = Runtime => j < i \/ Runtime = Mempool
            /\ Runtime \in Needs(Mempool)
        BY <2>2, <3>1, <3>6, RetryRuntimeEffect, RetryPlans, RetriesReadable
      <4>2. DOMAIN todo' = 1..Len(todo') /\ Len(todo') \in Nat
        BY <4>1, LenProperties
      <4>3. PICK k \in 1..Len(ordered) : ordered[k] = Runtime /\ k < m
        <5>1. Needs(ordered[m]) \subseteq {ordered[j] : j \in 1..(m - 1)}
          BY <3>2, <3>4, <1>2 DEF OrderCorrect
        <5>2. PICK k \in 1..(m - 1) : ordered[k] = Runtime
          BY <3>4, <4>1, <5>1
        <5> QED
          BY <1>2, <3>4, <5>2
      <4>4. \A i \in 1..Len(todo') : \E p \in 1..Len(ordered) : todo'[i].name = ordered[p]
        BY <3>4, <4>1, <4>2, <4>3
      <4>5. Runtime # Mempool
        BY <1>2, <3>4, <4>3
      <4>6. ASSUME NEW i \in 1..Len(todo'), NEW j \in 1..Len(todo'),
                   NEW p \in 1..Len(ordered), NEW q \in 1..Len(ordered),
                   i <= j, todo'[i].name = ordered[p], todo'[j].name = ordered[q]
            PROVE  p <= q
        <5>1. \/ ordered[p] = ordered[q]
              \/ ordered[p] = Runtime /\ ordered[q] = Mempool
              \/ ordered[p] = Mempool /\ ordered[q] = Runtime
          BY <4>1, <4>2, <4>6
        <5>2. CASE ordered[p] = ordered[q]
          BY <1>2, <5>2
        <5>3. CASE ordered[p] = Runtime /\ ordered[q] = Mempool
          <6>1. p = k /\ q = m
            BY <1>2, <3>4, <4>3, <5>3
          <6> QED
            BY <4>3, <6>1
        <5>4. CASE ordered[p] = Mempool /\ ordered[q] = Runtime
          <6>1. j < i
            BY <4>1, <4>2, <4>5, <4>6, <5>4
          <6> QED
            BY <4>2, <4>6, <6>1
        <5> QED
          BY <5>1, <5>2, <5>3, <5>4
      <4> QED
        BY <3>1, <4>4, <4>6 DEF SortedInv
    <3> QED
      BY <1>12, <3>5, <3>6
  <2> QED
    BY <2>1, <2>2
<1>13. CASE Disturb \/ ComesUp
  <2>1. UNCHANGED <<ordered, at, pc, command, todo>>
    BY <1>13 DEF Disturb, ComesUp
  <2> QED
    BY <1>1, <2>1 DEF SortedInv, BringUp
<1> QED
  BY <1>1, <1>3, <1>4, <1>5, <1>6, <1>7, <1>8, <1>9, <1>10, <1>11, <1>12, <1>13,
     CommandPlaces DEF Next, Proceed, Shrinking

\* The invariant holds at first and is kept.
LEMMA InitInv == Init => IInv
<1> SUFFICES ASSUME Init PROVE IInv
  OBVIOUS
<1>1. PICK h \in Hosts :
        /\ config = h.config /\ present = h.present
        /\ world = h.world /\ forwarding = h.forwarding
        /\ faults = h.faults
        /\ warm = IF h.world[Mempool] = "silent" THEN StartupTime ELSE 0
  BY DEF Init
<1>2. h \in Host
  BY BelterAssumption
<1>3. /\ config \in Config /\ present \in BOOLEAN /\ world \in [Name -> Condition]
      /\ forwarding \in BOOLEAN /\ faults \in 0..MaxFaults
  BY <1>1, <1>2 DEF Host
<1>4. warm \in 0..StartupTime
  BY <1>1, BelterAssumption
<1>5. goal \in Name
  BY ConfigAssumption DEF Init
<1>6. OrderInv
  BY <1>3, <1>5, UnsearchedStarts DEF Init
<1>7. command.kind = "validate" /\ command.dry = FALSE
      /\ command \in [kind : ServiceCommand \cup ConfigCommand, dry : BOOLEAN]
  <2>1. command = [kind |-> "validate", dry |-> FALSE]
    BY DEF Init
  <2> QED
    BY <2>1 DEF ConfigCommand
<1>8. TypeOK
  <2>1. /\ pc \in PC /\ outcome \in Outcome /\ env \in Env /\ at \in Nat \ {0}
        /\ initial \in State /\ todo \in Seq([name : Name, program : Program])
    BY ConfigAssumption, EmptySeq DEF Init, PC, Outcome, State
  <2>2. /\ round \in 1..3 /\ tries \in 1..(Attempts + Checks) /\ starts \in 1..Starts
    BY BelterAssumption DEF Init
  <2>3. /\ seen \in [Name -> State] /\ touched \subseteq Name /\ downs \in [Name -> 0..3]
    BY DEF Init, State
  <2> QED
    BY <1>3, <1>4, <1>6, <1>7, <2>1, <2>2, <2>3 DEF TypeOK, OrderInv
<1>9. PlaceInv /\ ReadableInv /\ TouchedInv /\ SeenInv /\ SortedInv
  BY <1>7 DEF Init, PlaceInv, Resolved, ReadableInv, Acting, TouchedInv, SeenInv, SortedInv, BringUp
<1> QED
  BY <1>6, <1>8, <1>9 DEF IInv, TypeInv

LEMMA StutterInv ==
  ASSUME IInv, UNCHANGED vars
  PROVE  IInv'
<1>1. UNCHANGED <<config, goal, path, next, ordered, verdict>>
  BY DEF vars, fileVars, jobVars, searchVars
<1>2. OrderInv'
  BY <1>1, Stutters DEF IInv, TypeInv
<1>3. UNCHANGED <<config, goal, path, next, ordered, verdict, present, command, pc, outcome,
                  env, at, initial, todo, round, tries, starts, world, forwarding, warm,
                  faults, seen, touched, downs>>
  BY DEF vars, fileVars, jobVars, searchVars, planVars, loopVars, hostVars, histVars
<1>4. TypeOK'
  BY <1>3 DEF IInv, TypeInv, TypeOK, OrderTypeOK
<1>5. PlaceInv' /\ TouchedInv' /\ SeenInv'
  BY <1>3 DEF IInv, PlaceInv, Resolved, TouchedInv, SeenInv, BringUp
<1>6. ReadableInv' /\ SortedInv'
  BY <1>3 DEF IInv, ReadableInv, Acting, SortedInv, BringUp
<1> QED
  BY <1>2, <1>4, <1>5, <1>6 DEF IInv, TypeInv

LEMMA Invariance == Spec => []IInv
<1>1. IInv /\ [Next]_vars => IInv'
  <2>1. ASSUME IInv, Next PROVE IInv'
    BY <2>1, OrderStep, TypeStep, PlaceStep, ReadableStep, TouchedStep, SeenStep, SortedStep
    DEF IInv, TypeInv
  <2> QED
    BY <2>1, StutterInv
<1> QED
  BY InitInv, <1>1, PTL DEF Spec

----------------------------------------------------------------------------
(* The theorems *)

\* Every variable keeps its type, whatever the configuration holds and the
\* host does.
THEOREM BelterTypes == Spec => []TypeOK
<1>1. IInv => TypeOK
  BY DEF IInv, TypeInv
<1> QED
  BY <1>1, Invariance, PTL

\* The order of a bring-up (resolve_bring_up_order) is right within the
\* command, too: dependencies first, all of them, and a cycle or a missing
\* service is reported for no other reason.
THEOREM BelterOrder == Spec => [](OrderCorrect /\ VerdictRight)
<1>1. IInv => OrderCorrect /\ VerdictRight
  BY OrderInvRight DEF IInv, TypeInv
<1> QED
  BY <1>1, Invariance, PTL

\* No program runs for a command that the configuration makes fail, nor in a
\* dry run (execute_service_command and bring_up).
THEOREM PlanFirst == Spec => []PlansBeforeActing
<1>1. IInv => PlansBeforeActing
  BY DEF IInv, TouchedInv, PlansBeforeActing
<1> QED
  BY <1>1, Invariance, PTL

\* A program that is next in the plan of a bring-up follows from a reading.
LEMMA NextIsRead ==
  ASSUME IInv, BringUp, pc \in {"running", "checking"}, todo # <<>>
  PROVE  /\ seen[Head(todo).name] \in {"stopped", "unknown", "degraded"}
         /\ Takes(Head(todo).program) => seen[Head(todo).name] = "degraded"
<1>1. Head(todo) = todo[1] /\ 1 \in 1..Len(todo)
  BY PlanType DEF IInv, TypeInv
<1> QED
  BY <1>1 DEF IInv, SeenInv

\* A program brings up the service it is run on, or stops it, and with a
\* machine its containers.
LEMMA RunsChange ==
  ASSUME TypeOK, NEW m \in Name, NEW p \in Program, Runs(m, p), NEW n \in Name
  PROVE  /\ world[n] = "stopped" /\ world'[n] # "stopped" => n = m
         /\ world[n] # "stopped" /\ world'[n] = "stopped" =>
              /\ Takes(p)
              /\ n = m \/ (Is(m, "podman_machine") /\ Is(n, "podman_compose"))
<1>1. world'[n] = IF n = m THEN Effect(m, p)
                  ELSE IF Is(m, "podman_machine") /\ Effect(m, p) = "stopped"
                          /\ Is(n, "podman_compose") THEN "stopped"
                  ELSE world[n]
  BY DEF Runs, Becomes
<1>2. Effect(m, p) = "stopped" => Takes(p) \/ world[m] = "stopped"
  BY DEF Effect, Program, Takes
<1>3. CASE Takes(p) \/ Effect(m, p) # "stopped"
  BY <1>1, <1>3
<1>4. CASE ~Takes(p) /\ Effect(m, p) = "stopped"
  BY <1>1, <1>2, <1>4 DEF Effect, Program, Takes
<1> QED
  BY <1>3, <1>4

\* A bring-up changes the host as its readings say: what it brings up it read
\* as stopped, unknown or degraded, and what it stops it read as degraded, or
\* the machine of those containers (build_bring_up_plan and the retries).
THEOREM ReadingsObeyed == Spec => ActsOnReadings
<1>1. ASSUME IInv, BringUp, Proceed, NEW n \in Name
      PROVE  /\ world[n] = "stopped" /\ world'[n] # "stopped" =>
                  seen[n] \in {"stopped", "unknown", "degraded"}
             /\ world[n] # "stopped" /\ world'[n] = "stopped" =>
                  \/ seen[n] = "degraded"
                  \/ /\ Is(n, "podman_compose")
                     /\ \E m \in Name : Is(m, "podman_machine") /\ seen[m] = "degraded"
  <2> USE DEF hostVars
  <2>1. TypeOK /\ Mempool \in Name
    BY <1>1, ConfigAssumption DEF IInv, TypeInv
  <2>2. CASE UNCHANGED world
    BY <2>2
  <2>3. ASSUME NEW seconds \in Nat, Passes(seconds)
        PROVE  world[n] = "stopped" <=> world'[n] = "stopped"
    <3>1. CASE world[Mempool] = "silent" /\ warm <= seconds
      <4>1. PICK x \in {"syncing", "running"} : Becomes(Mempool, x)
        BY <2>3, <3>1 DEF Passes
      <4>2. world'[n] = IF n = Mempool THEN x ELSE world[n]
        BY <4>1 DEF Becomes
      <4> QED
        BY <3>1, <4>2
    <3>2. CASE ~(world[Mempool] = "silent" /\ warm <= seconds)
      BY <2>3, <3>2 DEF Passes
    <3> QED
      BY <3>1, <3>2
  <2>4. ASSUME pc \in {"running", "checking"}, todo # <<>>, NEW p \in Program,
               p = Head(todo).program, Runs(Head(todo).name, p)
        PROVE  /\ world[n] = "stopped" /\ world'[n] # "stopped" =>
                    seen[n] \in {"stopped", "unknown", "degraded"}
               /\ world[n] # "stopped" /\ world'[n] = "stopped" =>
                    \/ seen[n] = "degraded"
                    \/ /\ Is(n, "podman_compose")
                       /\ \E m \in Name : Is(m, "podman_machine") /\ seen[m] = "degraded"
    <3>1. PICK m \in Name : m = Head(todo).name
      BY <2>1, <2>4, PlanType
    <3>2. /\ seen[m] \in {"stopped", "unknown", "degraded"}
          /\ Takes(p) => seen[m] = "degraded"
      BY <1>1, <2>4, <3>1, NextIsRead
    <3>3. /\ world[n] = "stopped" /\ world'[n] # "stopped" => n = m
          /\ world[n] # "stopped" /\ world'[n] = "stopped" =>
               /\ Takes(p)
               /\ n = m \/ (Is(m, "podman_machine") /\ Is(n, "podman_compose"))
      BY <2>1, <2>4, <3>1, RunsChange
    <3> QED
      BY <3>2, <3>3
  <2>5. CASE RunProgram \/ ProgramFails
    <3>1. pc \in {"running", "checking"} /\ todo # <<>>
      BY <2>5 DEF RunProgram, ProgramFails
    <3>2. Head(todo).program \in Program
      BY <2>1, <3>1, PlanType
    <3>3. UNCHANGED world \/ Runs(Head(todo).name, Head(todo).program)
      BY <2>5 DEF RunProgram, ProgramFails
    <3> QED
      BY <2>2, <2>4, <3>1, <3>2, <3>3
  <2>6. CASE MachineStartsAgain
    <3>1. /\ pc = "checking" /\ todo # <<>> /\ Head(todo).program = "machine start"
          /\ "machine start" \in Program
      BY <1>1, <2>6 DEF MachineStartsAgain, IInv, PlaceInv, Program
    <3>2. UNCHANGED world \/ Runs(Head(todo).name, "machine start")
      BY <2>6 DEF MachineStartsAgain
    <3> QED
      BY <2>2, <2>4, <3>1, <3>2
  <2>7. CASE MachineNotReady
    <3>1. UNCHANGED world \/ Passes(2)
      BY <2>7 DEF MachineNotReady
    <3> QED
      BY <2>2, <2>3, <3>1
  <2>8. CASE Await
    <3>1. UNCHANGED world \/ Passes(Delay)
      BY <2>8 DEF Await, ProbeGoesOn, MempoolReady, MempoolNotReady
    <3> QED
      BY <2>1, <2>2, <2>3, <3>1, DelayType
  <2>9. CASE Resolve \/ LoadEnv \/ PlanBlindly \/ ReadGoal \/ ReadNext \/ Planned
    BY <2>2, <2>9 DEF Resolve, LoadEnv, PlanBlindly, ReadGoal, ReadNext, Planned
  <2>10. CASE MachineReady \/ Executed \/ RetryService \/ RetryRuntime \/ GiveUp
    BY <2>2, <2>10 DEF MachineReady, Executed, RetryService, RetryRuntime, GiveUp
  <2> QED
    BY <1>1, <2>5, <2>6, <2>7, <2>8, <2>9, <2>10 DEF Proceed
<1>2. IInv /\ [Next]_vars =>
        [BringUp /\ Proceed =>
           \A n \in Name :
             /\ world[n] = "stopped" /\ world'[n] # "stopped" =>
                  seen[n] \in {"stopped", "unknown", "degraded"}
             /\ world[n] # "stopped" /\ world'[n] = "stopped" =>
                  \/ seen[n] = "degraded"
                  \/ /\ Is(n, "podman_compose")
                     /\ \E m \in Name : Is(m, "podman_machine") /\ seen[m] = "degraded"]_vars
  BY <1>1
<1> QED
  BY <1>2, Invariance, PTL DEF Spec, ActsOnReadings

----------------------------------------------------------------------------
(* The policy *)

\* What the policy sees of a state.
Needed == [n \in Name |-> Needs(n)]
Due == IF Acting THEN {todo[i].name : i \in DOMAIN todo} ELSE {}
Retried == IF Acting THEN round - 1 ELSE 0
Result ==
  IF ~BringUp \/ command.dry THEN "none"
  ELSE IF Acting THEN "working"
  ELSE IF pc # "idle" THEN "none"
  ELSE IF outcome = "ok" THEN "ok" ELSE "failed"

PolicyStep == Policy!Next \/ UNCHANGED Policy!vars

\* The steps of the policy, in these terms.
LEMMA PolicyStutters ==
  ASSUME UNCHANGED <<Needed, goal, Due, Retried, Result>>
  PROVE  PolicyStep
BY DEF PolicyStep, Policy!vars, Needed, Due, Retried, Result

LEMMA PolicyForgets ==
  ASSUME Result # "working", Result' \in {"none", "failed"},
         Needed' \in [Name -> SUBSET Name], goal' \in Name,
         UNCHANGED <<Due, Retried>>
  PROVE  PolicyStep
<1>1. Policy!Forget
  BY DEF Policy!Forget, Policy!Working, Needed, Due, Retried, Result
<1> QED
  BY <1>1 DEF PolicyStep, Policy!Next

LEMMA PolicyBegins ==
  ASSUME Result = "none", Result' = "working", Due' \in SUBSET Name, Retried' = 0,
         UNCHANGED <<Needed, goal>>
  PROVE  PolicyStep
<1>1. Policy!Begin
  BY DEF Policy!Begin, Needed, Due, Retried, Result
<1> QED
  BY <1>1 DEF PolicyStep, Policy!Next

LEMMA PolicySees ==
  ASSUME Result = "working", NEW n \in Due, n \in Name, Due' = Due \ {n},
         NEW S \in SUBSET Name, Needed[n] \subseteq S,
         \A m \in S : Needed[m] \subseteq S, S \cap Due = {},
         UNCHANGED <<Needed, goal, Retried, Result>>
  PROVE  PolicyStep
<1>1. Policy!Fit(n)
  BY DEF Policy!Fit, Needed, Due
<1>2. Policy!See(n)
  BY <1>1 DEF Policy!See, Policy!Working, Needed, Due, Retried, Result
<1> QED
  BY <1>2 DEF PolicyStep, Policy!Next

LEMMA PolicyTriesAgain ==
  ASSUME Result = "working", Due = {}, Retried < 2, Retried' \in {Retried + 1, 2},
         Due' \in SUBSET ({goal} \cup Needed[goal]), goal \in Due',
         UNCHANGED <<Needed, goal, Result>>
  PROVE  PolicyStep
<1>1. Policy!TryAgain
  BY DEF Policy!TryAgain, Policy!Working, Needed, Due, Retried, Result
<1> QED
  BY <1>1 DEF PolicyStep, Policy!Next

LEMMA PolicyIsDone ==
  ASSUME Result = "working", Due = {}, Result' = "ok", Retried' = 0,
         UNCHANGED <<Needed, goal, Due>>
  PROVE  PolicyStep
<1>1. Policy!Done
  BY DEF Policy!Done, Policy!Working, Needed, Due, Retried, Result
<1> QED
  BY <1>1 DEF PolicyStep, Policy!Next

LEMMA PolicyFails ==
  ASSUME Result \in {"none", "working"}, Due' = {}, Retried' = 0, Result' = "failed",
         UNCHANGED <<Needed, goal>>
  PROVE  PolicyStep
<1>1. Policy!Fail
  BY DEF Policy!Fail, Needed, Due, Retried, Result
<1> QED
  BY <1>1 DEF PolicyStep, Policy!Next

LEMMA NeededKept ==
  ASSUME UNCHANGED config
  PROVE  UNCHANGED Needed
BY DEF Needed, Needs, DependsOn

LEMMA NeededType == config \in Config => Needed \in [Name -> SUBSET Name]
BY NeedsType DEF Needed

LEMMA NeededPrimed == (config \in Config => Needed \in [Name -> SUBSET Name])'
BY NeededType, PTL

\* A bring-up that ends without success has failed.
LEMMA FailureFails ==
  ASSUME IInv, pc # "idle", NEW o, o # "ok", Finish(o), UNCHANGED <<config, goal, command>>
  PROVE  PolicyStep
<1>1. UNCHANGED Needed
  BY NeededKept
<1>2. CASE ~BringUp \/ command.dry
  BY <1>1, <1>2, PolicyStutters DEF Due, Retried, Result, Acting, BringUp
<1>3. CASE BringUp /\ ~command.dry
  <2>1. Result \in {"none", "working"}
    BY <1>3 DEF Result
  <2>2. Due' = {} /\ Retried' = 0 /\ Result' = "failed"
    BY <1>3 DEF Finish, Due, Retried, Result, Acting, BringUp
  <2> QED
    BY <1>1, <2>1, <2>2, PolicyFails
<1> QED
  BY <1>2, <1>3

\* The head of the plan has been seen to.
LEMMA HeadSeen ==
  ASSUME IInv, BringUp, pc \in {"running", "checking"}, pc' \in {"running", "checking"},
         todo # <<>>, todo' = Tail(todo), UNCHANGED <<config, goal, command, round>>
  PROVE  PolicyStep
<1> DEFINE n == todo[1].name
<1>1. TypeOK /\ ~command.dry /\ verdict = "ok" /\ OrderCorrect /\ SortedInv
  BY OrderInvRight DEF IInv, TypeInv, PlaceInv, Resolved
<1>2. /\ Len(todo) \in Nat \ {0} /\ Len(Tail(todo)) = Len(todo) - 1
      /\ \A i \in 1..(Len(todo) - 1) : Tail(todo)[i] = todo[i + 1]
      /\ todo \in Seq(Step) /\ Tail(todo) \in Seq(Step) /\ n \in Name
  BY <1>1, PlanType DEF TypeOK, Step
<1>3. /\ DOMAIN todo = 1..Len(todo) /\ DOMAIN Tail(todo) = 1..(Len(todo) - 1)
  BY <1>2
<1>4. Due = {todo[i].name : i \in 1..Len(todo)}
  BY <1>1, <1>3 DEF Due, Acting
<1>5. Due' = {Tail(todo)[i].name : i \in 1..(Len(todo) - 1)}
  BY <1>1, <1>3 DEF Due, Acting, BringUp
<1>6. Due' \cup {n} = Due
  <2>1. ASSUME NEW x \in Due' PROVE x \in Due
    <3>1. PICK i \in 1..(Len(todo) - 1) : x = Tail(todo)[i].name
      BY <1>5
    <3>2. i + 1 \in 1..Len(todo) /\ x = todo[i + 1].name
      BY <1>2, <3>1
    <3> QED
      BY <1>4, <3>2
  <2>2. n \in Due
    BY <1>2, <1>4
  <2>3. ASSUME NEW x \in Due, x # n PROVE x \in Due'
    <3>1. PICK i \in 1..Len(todo) : x = todo[i].name
      BY <1>4
    <3>2. i # 1
      BY <2>3, <3>1
    <3>3. i - 1 \in 1..(Len(todo) - 1) /\ (i - 1) + 1 = i
      BY <1>2, <3>2
    <3>4. x = Tail(todo)[i - 1].name
      BY <1>2, <3>1, <3>3
    <3> QED
      BY <1>5, <3>3, <3>4
  <2> QED
    BY <2>1, <2>2, <2>3
<1>7. UNCHANGED <<Needed, goal, Retried, Result>> /\ Result = "working"
  <2>1. UNCHANGED Needed
    BY NeededKept
  <2>2. Acting /\ Acting' /\ BringUp' /\ ~command'.dry
    BY <1>1 DEF Acting, BringUp
  <2> QED
    BY <1>1, <2>1, <2>2 DEF Retried, Result
<1>8. CASE n \in Due'
  <2>1. Due' = Due
    BY <1>6, <1>8
  <2> QED
    BY <1>7, <2>1, PolicyStutters
<1>9. CASE n \notin Due'
  <2>1. Due' = Due \ {n} /\ n \in Due
    BY <1>6, <1>9
  <2>2. /\ ordered \in Seq(Name) /\ Len(ordered) \in Nat /\ DOMAIN ordered = 1..Len(ordered)
        /\ \A i \in 1..Len(ordered) : ordered[i] \in Name
    BY <1>1, LenProperties, ElementOfSeq DEF TypeOK, OrderTypeOK
  <2>3. PICK k \in 1..Len(ordered) : n = ordered[k]
    BY <1>1, <1>2 DEF SortedInv
  <2> DEFINE S == {ordered[j] : j \in 1..(k - 1)}
  <2>4. S \in SUBSET Name
    BY <2>2, <2>3
  <2>5. \A i \in 1..Len(ordered) : Needs(ordered[i]) \subseteq {ordered[j] : j \in 1..(i - 1)}
    BY <1>1, <2>2 DEF OrderCorrect
  <2>6. Needed[n] \subseteq S
    BY <1>2, <2>3, <2>5 DEF Needed
  <2>7. ASSUME NEW m \in S PROVE Needed[m] \subseteq S
    <3>1. PICK j \in 1..(k - 1) : m = ordered[j]
      OBVIOUS
    <3>2. j \in 1..Len(ordered) /\ m \in Name
      BY <2>2, <2>3, <3>1
    <3>3. Needs(m) \subseteq {ordered[l] : l \in 1..(j - 1)}
      BY <2>5, <3>1, <3>2
    <3>4. \A l \in 1..(j - 1) : l \in 1..(k - 1)
      BY <2>2, <2>3, <3>1, <3>2
    <3> QED
      BY <3>2, <3>3, <3>4 DEF Needed
  <2>8. S \cap Due = {}
    <3> SUFFICES ASSUME NEW x \in S, x \in Due PROVE FALSE
      OBVIOUS
    <3>1. PICK j \in 1..(k - 1) : x = ordered[j]
      OBVIOUS
    <3>2. PICK i \in 1..Len(todo) : x = todo[i].name
      BY <1>4
    <3>3. j \in 1..Len(ordered) /\ j < k /\ 1 \in 1..Len(todo) /\ 1 <= i
      BY <1>2, <2>2, <2>3, <3>1, <3>2
    <3>4. \A a, b \in 1..Len(todo), p, q \in 1..Len(ordered) :
            a <= b /\ todo[a].name = ordered[p] /\ todo[b].name = ordered[q] => p <= q
      BY <1>1 DEF SortedInv
    <3>5. k <= j
      BY <2>3, <3>1, <3>2, <3>3, <3>4
    <3> QED
      BY <2>2, <2>3, <3>3, <3>5
  <2> HIDE DEF S
  <2> QED
    BY <1>2, <1>7, <2>1, <2>4, <2>6, <2>7, <2>8, PolicySees
<1> QED
  BY <1>8, <1>9

\* A step of the plan's execution or of a wait.
LEMMA ActsFollow ==
  ASSUME IInv, Acts
  PROVE  PolicyStep
<1> USE DEF fileVars, jobVars, searchVars, planVars, loopVars, hostVars, histVars
<1>1. /\ TypeOK /\ PlaceInv /\ UNCHANGED <<config, goal, command>> /\ UNCHANGED Needed
      /\ pc \in ActingPlace /\ ~command.dry
  BY ActsEffect, NeededKept DEF IInv, TypeInv
<1>2. CASE \E o \in {"command failed", "not ready"} : Finish(o)
  <2>1. PICK o \in {"command failed", "not ready"} : Finish(o)
    BY <1>2
  <2>2. pc # "idle"
    BY <1>1 DEF ActingPlace
  <2> QED
    BY <1>1, <2>1, <2>2, FailureFails
<1>3. CASE ~BringUp
  BY <1>1, <1>3, PolicyStutters DEF Due, Retried, Result, Acting, BringUp
<1>4. CASE BringUp /\ pc' \in ActingPlace /\ UNCHANGED <<todo, round>>
  <2>1. Acting /\ Acting' /\ BringUp' /\ ~command'.dry
    BY <1>1, <1>4 DEF Acting, BringUp, ActingPlace
  <2> QED
    BY <1>1, <1>4, <2>1, PolicyStutters DEF Due, Retried, Result
<1>5. CASE BringUp /\ todo = <<>> /\ Finish("ok")
  <2>1. Acting /\ ~Acting' /\ BringUp' /\ ~command'.dry /\ pc' = "idle" /\ outcome' = "ok"
    BY <1>1, <1>5 DEF Acting, BringUp, ActingPlace, Finish
  <2>2. Result = "working" /\ Result' = "ok" /\ Retried' = 0 /\ Due' = {}
    BY <1>1, <1>5, <2>1 DEF Due, Retried, Result
  <2>3. Due = {}
    BY <1>5, <2>1 DEF Due
  <2> QED
    BY <1>1, <2>2, <2>3, PolicyIsDone
<1>6. CASE BringUp /\ RetryService
  <2>1. /\ pc = "failing" /\ pc' = "running" /\ todo' = Steps(Mempool, "restart") /\ round' = 2
        /\ round = 1
    BY <1>6, RetryServiceEffect DEF RetryService, RetriesService
  <2>2. Acting /\ Acting' /\ BringUp' /\ ~command'.dry /\ goal = Mempool /\ todo = <<>>
    BY <1>1, <1>6, <2>1 DEF Acting, BringUp, PlaceInv
  <2>3. UNCHANGED Result /\ Result = "working" /\ Retried = 0 /\ Retried' = 1 /\ Due = {}
    BY <1>1, <1>6, <2>1, <2>2 DEF Result, Retried, Due
  <2>4. Plannable(config, Mempool, env) /\ Mempool \in Name /\ config \in Config
    BY <1>1, <2>1, RetryPlans, ConfigAssumption DEF TypeOK, OrderTypeOK
  <2>5. /\ todo' \in Seq(Step) /\ todo' # <<>> /\ DOMAIN todo' = 1..Len(todo')
        /\ \A i \in DOMAIN todo' : todo'[i].name = Mempool
    BY <2>1, <2>4, StepsType
  <2>6. 1 \in DOMAIN todo'
    BY <2>5, EmptySeq, LenProperties
  <2>7. Due' = {Mempool}
    BY <2>2, <2>5, <2>6 DEF Due
  <2> QED
    BY <1>1, <2>2, <2>3, <2>7, PolicyTriesAgain
<1>7. CASE BringUp /\ RetryRuntime /\ ~Finish("not ready")
  <2>1. /\ pc = "failing" /\ pc' = "running" /\ round' = 3 /\ round < 3 /\ Machines # {}
        /\ todo' = Steps(Runtime, "restart") \o Steps(Mempool, "start")
    BY <1>7, RetryRuntimeEffect DEF RetryRuntime
  <2>2. Acting /\ Acting' /\ BringUp' /\ ~command'.dry /\ goal = Mempool /\ todo = <<>>
    BY <1>1, <1>7, <2>1 DEF Acting, BringUp, PlaceInv
  <2>3. UNCHANGED Result /\ Result = "working" /\ Retried < 2 /\ Retried' = 2 /\ Due = {}
    <3>1. round - 1 < 2
      BY <1>1, <2>1 DEF TypeOK
    <3>2. Retried = round - 1 /\ Retried' = 2 /\ Due = {}
      BY <2>1, <2>2 DEF Retried, Due
    <3>3. Result = "working" /\ Result' = "working"
      BY <1>1, <1>7, <2>2 DEF Result
    <3> QED
      BY <3>1, <3>2, <3>3
  <2>4. /\ \A i \in DOMAIN todo' : todo'[i].name \in {Runtime, Mempool}
        /\ \E i \in DOMAIN todo' : todo'[i].name = Mempool
    BY <2>1, RetryPlans
  <2>5. Runtime \in Needs(Mempool) /\ Mempool \in Name
    BY <2>1, RetriesReadable, ConfigAssumption
  <2>6. Due' = {todo'[i].name : i \in DOMAIN todo'}
    BY <2>2 DEF Due
  <2>7. Due' \in SUBSET ({goal} \cup Needed[goal]) /\ goal \in Due'
    BY <2>2, <2>4, <2>5, <2>6 DEF Needed
  <2> QED
    BY <1>1, <2>3, <2>7, PolicyTriesAgain
<1>8. CASE BringUp /\ Shrinking
  <2>1. CASE UNCHANGED todo /\ pc' \in ActingPlace
    <3>1. UNCHANGED round
      BY <1>8 DEF Shrinking, RunProgram, MachineReady, MachineStartsAgain, MachineNotReady
    <3> QED
      BY <1>4, <1>8, <2>1, <3>1
  <2>2. CASE ~(UNCHANGED todo /\ pc' \in ActingPlace) /\ ~\E o \in {"command failed", "not ready"} : Finish(o)
    <3>1. /\ pc \in {"running", "checking"} /\ pc' \in {"running", "checking"} /\ todo # <<>>
          /\ todo' = Tail(todo)
      BY <1>8, <2>2, ShrinkingEffect DEF ActingPlace
    <3>2. UNCHANGED round
      BY <1>8 DEF Shrinking, RunProgram, MachineReady, MachineStartsAgain, MachineNotReady
    <3> QED
      BY <1>1, <1>8, <3>1, <3>2, HeadSeen
  <2> QED
    BY <1>2, <2>1, <2>2
<1>9. CASE ProgramFails \/ GiveUp
  BY <1>2, <1>9 DEF ProgramFails, GiveUp
<1>10. CASE BringUp /\ (Executed \/ Await)
  <2>1. /\ todo = <<>>
        /\ Finish("ok") \/ (pc' \in ActingPlace /\ UNCHANGED todo)
        /\ UNCHANGED round
    BY <1>1, <1>10
    DEF Executed, Await, ProbeGoesOn, MempoolReady, MempoolNotReady, ActingPlace, PlaceInv
  <2> QED
    BY <1>4, <1>5, <1>10, <2>1
<1> QED
  BY <1>2, <1>3, <1>6, <1>7, <1>8, <1>9, <1>10 DEF Acts, Shrinking

\* Every step is one of the policy, or changes nothing that it sees.
LEMMA NextFollows ==
  ASSUME IInv, Next, IInv'
  PROVE  PolicyStep
<1> USE DEF fileVars, jobVars, searchVars, planVars, loopVars, hostVars, histVars
<1>1. TypeOK /\ PlaceInv /\ TypeOK' /\ Mempool \in Name
  BY ConfigAssumption DEF IInv, TypeInv
<1>2. ASSUME NEW n \in Name, NEW dry \in BOOLEAN,
             \/ \E kind \in ServiceCommand : Invoke(kind, n, dry)
             \/ \E kind \in ConfigCommand : InitFile(kind, dry) \/ ValidateFile(kind, dry)
      PROVE  PolicyStep
  <2>1. /\ todo' = <<>> /\ pc' \in {"idle", "resolving", "loading"} /\ pc = "idle"
        /\ outcome' = "ok" => command'.kind \in ConfigCommand
    BY <1>2, CommandPlaces
  <2>2. ~Acting /\ ~Acting'
    BY <2>1 DEF Acting
  <2>3. Result # "working" /\ Due' = Due /\ Retried' = Retried
    BY <2>2 DEF Result, Due, Retried
  <2>4. outcome' = "ok" => ~BringUp'
    BY <2>1 DEF BringUp, ConfigCommand
  <2>5. Result' \in {"none", "failed"}
    BY <2>2, <2>4 DEF Result
  <2>6. goal' \in Name /\ config' \in Config
    BY <1>1 DEF TypeOK, OrderTypeOK
  <2>7. Needed' \in [Name -> SUBSET Name]
    BY <2>6, NeededPrimed
  <2> QED
    BY <2>3, <2>5, <2>6, <2>7, PolicyForgets
<1>3. CASE Resolve \/ LoadEnv \/ PlanBlindly \/ ReadGoal \/ ReadNext
  <2>1. UNCHANGED <<config, goal, command>> /\ pc \in {"resolving", "loading", "reading"}
    BY <1>3, ProceedKeeps
    DEF Proceed, Resolve, LoadEnv, PlanBlindly, ReadGoal, ReadNext
  <2>2. CASE \E o \in ConfigError : Finish(o)
    <3>1. PICK o \in ConfigError : Finish(o)
      BY <2>2
    <3>2. o # "ok" /\ pc # "idle"
      BY <2>1 DEF ConfigError
    <3> QED
      BY <2>1, <3>1, <3>2, FailureFails
  <2>3. CASE ~\E o \in ConfigError : Finish(o)
    <3>1. \/ pc' \in {"resolving", "loading", "reading"}
          \/ ~BringUp \/ command.dry
      BY <1>3, <2>1, <2>3, ReadNextEffect
      DEF Resolve, LoadEnv, PlanBlindly, ReadGoal, ConfigError
    <3>2. UNCHANGED Needed
      BY <2>1, NeededKept
    <3>3. UNCHANGED <<Due, Retried, Result>>
      BY <2>1, <3>1 DEF Due, Retried, Result, Acting, BringUp
    <3> QED
      BY <2>1, <3>2, <3>3, PolicyStutters
  <2> QED
    BY <2>2, <2>3
<1>4. CASE Planned
  <2>1. /\ pc = "reading" /\ pc' = "running" /\ UNCHANGED <<config, goal, command, todo, round>>
        /\ round = 1 /\ BringUp /\ ~command.dry
    BY <1>1, <1>4 DEF Planned, PlaceInv
  <2>2. ~Acting /\ Acting' /\ BringUp' /\ ~command'.dry
    BY <2>1 DEF Acting, BringUp
  <2>3. Result = "none" /\ Result' = "working" /\ Retried' = 0
    BY <2>1, <2>2 DEF Result, Retried
  <2>4. Due' \in SUBSET Name
    <3>1. todo \in Seq(Step)
      BY <1>1 DEF TypeOK, Step
    <3>2. \A i \in DOMAIN todo : todo[i] \in Step
      BY <3>1
    <3>3. \A i \in DOMAIN todo : todo[i].name \in Name
      BY <3>2 DEF Step
    <3> QED
      BY <2>1, <2>2, <3>3 DEF Due
  <2> QED
    BY <2>1, <2>3, <2>4, NeededKept, PolicyBegins
<1>5. CASE Disturb \/ ComesUp
  <2>1. UNCHANGED <<config, goal, command, pc, outcome, todo, round>>
    BY <1>5 DEF Disturb, ComesUp
  <2> QED
    BY <2>1, NeededKept, PolicyStutters DEF Due, Retried, Result, Acting, BringUp
<1> QED
  BY <1>1, <1>2, <1>3, <1>4, <1>5, ActsFollow DEF Next, Proceed, Acts

\* The bring-up implements its policy (bring_up, with its two retries): every
\* service is seen to after all that it needs, and a success is reported
\* only when nothing is due.
THEOREM PolicyFollowed == Spec => FollowsPolicy
<1>1. Init => Policy!Init
  <2> SUFFICES ASSUME Init PROVE Policy!Init
    OBVIOUS
  <2>1. IInv
    BY InitInv
  <2>2. config \in Config /\ goal \in Name
    BY <2>1 DEF IInv, TypeInv, TypeOK, OrderTypeOK
  <2>3. [n \in Name |-> Needs(n)] \in [Name -> SUBSET Name]
    BY <2>2, NeedsType
  <2>4. ~Acting /\ ~BringUp
    BY DEF Init, Acting, BringUp
  <2> QED
    BY <2>2, <2>3, <2>4 DEF Policy!Init
<1>2. IInv /\ IInv' /\ [Next]_vars => [Policy!Next]_(Policy!vars)
  <2>1. ASSUME IInv, IInv', Next PROVE [Policy!Next]_(Policy!vars)
    BY <2>1, NextFollows DEF PolicyStep
  <2>2. ASSUME UNCHANGED vars PROVE UNCHANGED Policy!vars
    <3>1. UNCHANGED <<config, goal, command, pc, outcome, todo, round>>
      BY <2>2 DEF vars, fileVars, jobVars, planVars, loopVars
    <3>2. PolicyStep
      BY <3>1, NeededKept, PolicyStutters DEF Due, Retried, Result, Acting, BringUp
    <3>3. UNCHANGED <<Needed, goal, Due, Retried, Result>>
      BY <3>1, NeededKept DEF Due, Retried, Result, Acting, BringUp
    <3> QED
      BY <3>3 DEF Policy!vars, Needed, Due, Retried, Result
  <2> QED
    BY <2>1, <2>2
<1> QED
  BY <1>1, <1>2, Invariance, PTL DEF Spec, FollowsPolicy, Policy!Spec

----------------------------------------------------------------------------
(* Valid configurations *)

\* The env_files take no variable away.
EnvInv == \A v \in Var : Environment[v] # Unset => env[v] # Unset

\* An env_file cannot be read.
Unreadable == \E n \in Name : HasEnvFile(config, n) /\ EnvFile[n] = Absent

ErrorInv ==
  present /\ Valid(config, Environment) =>
    /\ command.kind \in ServiceCommand /\ config[goal] # Absent => outcome # "config error"
    /\ outcome = "env error" => Unreadable

\* What validates can be read and planned, whatever env_files were loaded.
LEMMA ValidReady ==
  ASSUME IInv, EnvInv, Valid(config, Environment), NEW n \in Name, config[n] # Absent
  PROVE  Readable(config, n, env) /\ Plannable(config, n, env)
<1>1. \A t : Expands(t, Environment) => Expands(t, env)
  BY DEF EnvInv, Expands
<1>2. ValidService(config[n], Environment)
  BY DEF Valid
<1>3. Readable(config, n, env)
  BY <1>1, <1>2 DEF ValidService, Readable, Manager
<1>4. Plannable(config, n, env)
  BY <1>1, <1>2 DEF ValidService, Plannable, Manager
<1> QED
  BY <1>3, <1>4

LEMMA EnvStep ==
  ASSUME IInv, EnvInv, Next
  PROVE  EnvInv'
<1>1. CASE UNCHANGED env
  BY <1>1 DEF EnvInv
<1>2. CASE env' = Environment
  BY <1>2 DEF EnvInv
<1>3. CASE LoadEnv
  <2>1. CASE \E n : env' = Overridden(n, env)
    BY <2>1 DEF EnvInv, Overridden
  <2> QED
    BY <1>1, <1>3, <2>1 DEF LoadEnv
<1>4. CASE (Proceed /\ ~LoadEnv) \/ Disturb \/ ComesUp
  BY <1>1, <1>4 DEF Proceed, Resolve, PlanBlindly, ReadGoal, ReadNext, Planned, RunProgram,
     ProgramFails, MachineReady, MachineStartsAgain, MachineNotReady, Executed, Await,
     ProbeGoesOn, MempoolReady, MempoolNotReady,
     RetryService, RetryRuntime, GiveUp, Disturb, ComesUp, planVars
<1>5. Mempool \in Name
  BY ConfigAssumption
<1> QED
  BY <1>2, <1>3, <1>4, <1>5
  DEF Next, Invoke, InitFile, ValidateFile, Configure, Fresh

\* What a bring-up lists is configured.
LEMMA ListedConfigured ==
  ASSUME IInv, pc \in {"loading", "reading"}, config[goal] # Absent
  PROVE  \A i \in DOMAIN Listed : Listed[i] \in Name /\ config[Listed[i]] # Absent
<1>1. TypeOK /\ OrderCorrect
  BY OrderInvRight DEF IInv, TypeInv
<1>2. CASE BringUp
  <2>1. verdict = "ok" /\ Listed = ordered
    BY <1>2 DEF IInv, PlaceInv, Resolved, Listed
  <2>2. ordered \in Seq(Name)
    BY <1>1 DEF TypeOK, OrderTypeOK
  <2> QED
    BY <1>1, <2>1, <2>2 DEF OrderCorrect
<1>3. CASE ~BringUp
  <2>1. Listed = <<goal>> /\ goal \in Name
    BY <1>1, <1>3 DEF Listed, TypeOK, OrderTypeOK
  <2> QED
    BY <2>1
<1> QED
  BY <1>2, <1>3

LEMMA ErrorStep ==
  ASSUME IInv, EnvInv, ErrorInv, Next
  PROVE  ErrorInv'
<1> USE DEF fileVars, jobVars, searchVars, planVars, loopVars, hostVars, histVars
<1>1. TypeOK /\ Mempool \in Name /\ goal \in Name
  BY ConfigAssumption DEF IInv, TypeInv, TypeOK, OrderTypeOK
<1>2. ASSUME NEW n \in Name, NEW dry \in BOOLEAN, NEW kind \in ServiceCommand,
             Invoke(kind, n, dry)
      PROVE  ErrorInv'
  BY <1>2 DEF Invoke, ErrorInv, Finish
<1>3. ASSUME NEW kind \in ConfigCommand, NEW dry \in BOOLEAN,
             InitFile(kind, dry) \/ ValidateFile(kind, dry)
      PROVE  ErrorInv'
  <2>1. command' = [kind |-> kind, dry |-> dry]
    BY <1>3 DEF InitFile, ValidateFile, Configure
  <2>2. command'.kind = kind /\ kind \notin ServiceCommand
    BY <2>1 DEF ConfigCommand, ServiceCommand
  <2>3. outcome' # "env error"
    BY <1>3 DEF InitFile, ValidateFile, Finish
  <2> QED
    BY <2>2, <2>3 DEF ErrorInv
<1>4. CASE Proceed \/ Disturb \/ ComesUp
  <2>0. UNCHANGED <<config, present, goal, command>>
    BY <1>4, ProceedKeeps
  <2> SUFFICES ASSUME present, Valid(config, Environment)
               PROVE  /\ config[goal] # Absent /\ command.kind \in ServiceCommand =>
                           outcome' # "config error"
                      /\ outcome' = "env error" => Unreadable
    BY <2>0 DEF ErrorInv, Unreadable
  <2>1. /\ config[goal] # Absent /\ command.kind \in ServiceCommand => outcome # "config error"
        /\ outcome = "env error" => Unreadable
    BY DEF ErrorInv
  <2>2. CASE UNCHANGED outcome
    BY <2>1, <2>2
  <2>3. CASE Resolve \/ Planned \/ Disturb \/ ComesUp
    BY <2>1, <2>3 DEF Resolve, Planned, Disturb, ComesUp, Finish
  <2>8. CASE LoadEnv
    <3>1. CASE UNCHANGED outcome
      BY <2>1, <3>1
    <3>2. CASE ~UNCHANGED outcome
      <4> DEFINE n == Listed[at]
      <4>1. /\ HasEnvFile(config, n) /\ ~Loads(config, n, env) /\ outcome' = "env error"
            /\ at <= Len(Listed)
        BY <2>8, <3>2 DEF LoadEnv, Finish
      <4>2. n \in Name
        <5>1. at \in Nat \ {0} /\ at <= Len(Listed) /\ Len(Listed) \in Nat
          BY <1>1, <4>1, ListedType DEF TypeOK
        <5>2. at \in 1..Len(Listed)
          BY <5>1
        <5> QED
          BY <1>1, <5>2, ListedType
      <4>3. ValidService(config[n], Environment)
        BY <4>1, <4>2 DEF Valid, HasEnvFile
      <4>4. Expands(config[n].env_file, Environment)
        BY <4>1, <4>3 DEF ValidService, HasEnvFile
      <4>5. Expands(config[n].env_file, env)
        BY <4>4 DEF EnvInv, Expands
      <4> QED
        BY <4>1, <4>2, <4>5 DEF Loads, Unreadable
    <3> QED
      BY <3>1, <3>2
  <2>4. CASE PlanBlindly
    <3>1. config[goal] # Absent => \A i \in DOMAIN Listed : Plannable(config, Listed[i], env)
      BY <2>4, ListedConfigured, ValidReady DEF PlanBlindly
    <3> QED
      BY <2>1, <2>4, <3>1 DEF PlanBlindly, Execute, Finish
  <2>5. CASE ReadGoal
    <3>1. config[goal] # Absent => Readable(config, goal, env)
      BY <1>1, ValidReady
    <3> QED
      BY <2>1, <2>5, <3>1 DEF ReadGoal, Finish
  <2>6. CASE ReadNext
    <3>1. /\ pc = "reading" /\ at \in 1..Len(ordered) /\ ordered[at] \in Name
      BY <2>6, ReadNextEffect
    <3>2. Listed = ordered /\ DOMAIN ordered = 1..Len(ordered)
      BY <1>1, <3>1 DEF Listed, IInv, PlaceInv, TypeOK, OrderTypeOK
    <3>3. config[goal] # Absent => Readable(config, ordered[at], env)
      BY <3>1, <3>2, ListedConfigured, ValidReady
    <3>4. UNCHANGED outcome \/ (outcome' = "config error" /\ config[goal] = Absent)
      BY <2>6, <3>3, ReadNextEffect DEF Finish
    <3> QED
      BY <2>1, <3>4
  <2>7. CASE Acts
    BY <2>7, ActsEffect DEF Finish
  <2> QED
    BY <1>4, <2>3, <2>8, <2>4, <2>5, <2>6, <2>7 DEF Proceed, Acts
<1> QED
  BY <1>1, <1>2, <1>3, <1>4 DEF Next

\* A configuration that config validate accepts never makes a service command
\* fail on a field: validate_config asks for at least what the plans and the
\* readings expand, and loading env_files takes nothing away.  A command may
\* still fail on depends_on, which is not validated, or on an env_file that
\* cannot be read.
THEOREM ValidSuffices == Spec => []ValidPlans
<1>1. Init => EnvInv /\ ErrorInv
  BY DEF Init, EnvInv, ErrorInv
<1>2. IInv /\ EnvInv /\ ErrorInv /\ [Next]_vars => EnvInv' /\ ErrorInv'
  <2>1. ASSUME IInv, EnvInv, ErrorInv, Next PROVE EnvInv' /\ ErrorInv'
    BY <2>1, EnvStep, ErrorStep
  <2>2. ASSUME EnvInv, ErrorInv, UNCHANGED vars PROVE EnvInv' /\ ErrorInv'
    BY <2>2 DEF EnvInv, ErrorInv, Unreadable, vars, fileVars, jobVars, planVars
  <2> QED
    BY <2>1, <2>2
<1>3. ErrorInv => ValidPlans
  <2>1. ASSUME Valid(config, Environment), NEW n \in Name, config[n] # Absent
        PROVE  ~StatusFails(n, Environment)
    <3>1. ValidService(config[n], Environment)
      BY <2>1 DEF Valid
    <3>2. config[n].manager \in Manager => config[n].field # "missing"
      BY <3>1, ConfigAssumption DEF ValidService, Expands
    <3> QED
      BY <2>1, <3>1, <3>2 DEF ValidService, StatusFails, Is
  <2> QED
    BY <2>1 DEF ErrorInv, ValidPlans, Unreadable
<1> QED
  BY <1>1, <1>2, <1>3, Invariance, PTL DEF Spec

----------------------------------------------------------------------------
(* How often a service is taken down *)

\* It is taken down by the plan at most once, and by a retry once more.
Limit(n) ==
  IF n = Mempool THEN (IF round # 1 /\ initial = "unknown" THEN 2 ELSE 1)
  ELSE (IF round = 3 /\ n = Runtime THEN 2 ELSE 1)

\* A program that is still to be run takes n down.
Pending(n) == \E i \in 1..Len(todo) : todo[i].name = n /\ Takes(todo[i].program)

DownsInv ==
  BringUp =>
    /\ pc \in {"resolving", "loading", "reading"} => downs = [n \in Name |-> 0]
    /\ round = 2 => initial = "unknown"
    /\ \A n \in Name : downs[n] <= Limit(n)
    /\ \A n \in Name : Pending(n) => downs[n] < Limit(n)
    /\ \A i, j \in 1..Len(todo) :
         /\ todo[i].name = todo[j].name
         /\ Takes(todo[i].program) /\ Takes(todo[j].program)
         => i = j

\* The limits move with the retries only.
LEMMA LimitKept ==
  ASSUME UNCHANGED <<config, initial, round>>
  PROVE  \A n : Limit(n)' = Limit(n)
<1>1. UNCHANGED Runtime
  BY DEF Runtime, Machines, DependsOn, Is
<1> QED
  BY <1>1 DEF Limit

LEMMA NoPlan ==
  ASSUME todo' = <<>>
  PROVE  /\ \A n : ~Pending(n)'
         /\ \A i, j \in 1..Len(todo') : i = j
<1>1. Len(todo') = 0
  OBVIOUS
<1> QED
  BY <1>1 DEF Pending

LEMMA DownsRun ==
  ASSUME IInv, DownsInv, BringUp, RunProgram
  PROVE  DownsInv'
<1> DEFINE n == Head(todo).name
           p == Head(todo).program
<1> USE DEF fileVars, jobVars, searchVars, planVars, loopVars, hostVars, histVars
<1>1. /\ TypeOK /\ pc = "running" /\ todo # <<>> /\ pc' \in {"running", "checking"}
      /\ UNCHANGED <<config, command, initial, round>>
      /\ p = "machine start" => UNCHANGED todo
      /\ p # "machine start" => todo' = Tail(todo)
      /\ downs' = IF Takes(p) /\ downs[n] < MaxDowns THEN [downs EXCEPT ![n] = @ + 1] ELSE downs
  BY DEF IInv, TypeInv, RunProgram, Records
<1>2. /\ n = todo[1].name /\ p = todo[1].program /\ n \in Name /\ Len(todo) \in Nat \ {0}
  BY <1>1, PlanType
<1>3. /\ downs \in [Name -> 0..3]
      /\ \A m \in Name : downs[m] \in Nat
      /\ \A m \in Name : Limit(m) \in {1, 2}
  <2>1. downs \in [Name -> 0..3]
    BY <1>1 DEF TypeOK
  <2>2. \A m \in Name : Limit(m) \in {1, 2}
    BY DEF Limit
  <2> QED
    BY <2>1, <2>2
<1>4. UNCHANGED BringUp /\ \A m : Limit(m)' = Limit(m)
  BY <1>1, LimitKept DEF BringUp
<1>5. PICK d \in {0, 1} :
        /\ Len(todo') = Len(todo) - d
        /\ \A i \in 1..Len(todo') : i + d \in 1..Len(todo) /\ todo'[i] = todo[i + d]
  BY <1>1, Shrinks
<1>6. /\ round = 2 => initial = "unknown"
      /\ \A m \in Name : downs[m] <= Limit(m)
      /\ \A m \in Name : Pending(m) => downs[m] < Limit(m)
      /\ \A i, j \in 1..Len(todo) :
           /\ todo[i].name = todo[j].name
           /\ Takes(todo[i].program) /\ Takes(todo[j].program)
           => i = j
  BY DEF DownsInv
<1>7. \A m \in Name : Pending(m)' => Pending(m)
  BY <1>5 DEF Pending, Takes
<1>8. ASSUME NEW i \in 1..Len(todo'), NEW j \in 1..Len(todo'), todo'[i].name = todo'[j].name,
             Takes(todo'[i].program), Takes(todo'[j].program)
      PROVE  i = j
  <2>1. i + d = j + d
    BY <1>5, <1>6, <1>8
  <2> QED
    BY <1>5, <2>1
<1>9. CASE ~Takes(p)
  <2>1. UNCHANGED downs
    BY <1>1, <1>9
  <2> QED
    BY <1>1, <1>4, <1>6, <1>7, <1>8, <2>1 DEF DownsInv, Takes
<1>10. CASE Takes(p)
  <2>1. todo' = Tail(todo)
    BY <1>1, <1>10 DEF Takes
  <2>2. PICK m \in Name : m = n
    BY <1>2
  <2>3. Pending(m) /\ 1 \in 1..Len(todo)
    BY <1>2, <1>10, <2>2 DEF Pending
  <2>4. ~Pending(m)'
    <3> SUFFICES ASSUME Pending(m)' PROVE FALSE
      OBVIOUS
    <3>1. Len(todo') = Len(todo) - 1 /\ \A i \in 1..(Len(todo) - 1) : todo'[i] = todo[i + 1]
      BY <1>1, <2>1, PlanType
    <3>2. PICK i \in 1..Len(todo') : todo'[i].name = m /\ Takes(todo'[i].program)
      BY DEF Pending, Takes
    <3>3. i + 1 \in 1..Len(todo) /\ todo[i + 1].name = m /\ Takes(todo[i + 1].program)
      BY <1>2, <3>1, <3>2
    <3>4. 1 = i + 1
      BY <1>2, <1>6, <1>10, <2>2, <2>3, <3>3
    <3> QED
      BY <3>2, <3>4
  <2>5. downs[m] < Limit(m)
    BY <1>6, <2>3
  <2>6. downs' = [downs EXCEPT ![m] = downs[m] + 1]
    <3>1. downs[m] < MaxDowns
      BY <1>3, <2>5 DEF MaxDowns
    <3> QED
      BY <1>1, <1>10, <2>2, <3>1
  <2>7. \A k \in Name : downs'[k] = IF k = m THEN downs[m] + 1 ELSE downs[k]
    BY <1>3, <2>6
  <2>8. \A k \in Name : downs'[k] <= Limit(k)
    BY <1>3, <1>6, <2>5, <2>7
  <2>9. \A k \in Name : Pending(k)' => downs'[k] < Limit(k)
    BY <1>6, <1>7, <2>4, <2>7
  <2> QED
    BY <1>1, <1>4, <1>6, <1>8, <2>8, <2>9 DEF DownsInv, Takes
<1> QED
  BY <1>9, <1>10

\* What a step does to the counts.
LEMMA DownsStep ==
  ASSUME IInv, IInv', DownsInv, Next
  PROVE  DownsInv'
<1> USE DEF fileVars, jobVars, searchVars, planVars, loopVars, hostVars, histVars
<1>1. TypeOK /\ PlaceInv /\ Mempool \in Name
  BY ConfigAssumption DEF IInv, TypeInv
<1>2. ASSUME UNCHANGED <<config, command, initial, round, downs>>, todo' = <<>>,
             pc' \in {"resolving", "loading", "reading"} => pc \in {"resolving", "loading", "reading"}
      PROVE  DownsInv'
  <2>1. UNCHANGED BringUp /\ \A n : Limit(n)' = Limit(n)
    BY <1>2, LimitKept DEF BringUp
  <2> QED
    BY <1>2, <2>1, NoPlan DEF DownsInv
<1>3. ASSUME UNCHANGED <<config, command, initial, round, downs, todo>>,
             pc' \in {"resolving", "loading", "reading"} => pc \in {"resolving", "loading", "reading"}
      PROVE  DownsInv'
  <2>1. UNCHANGED BringUp /\ (\A n : Limit(n)' = Limit(n)) /\ (\A n : Pending(n)' = Pending(n))
    BY <1>3, LimitKept DEF BringUp, Pending, Takes
  <2> QED
    BY <1>3, <2>1 DEF DownsInv, Takes
<1>4. CASE ~BringUp'
  BY <1>4 DEF DownsInv
<1>5. ASSUME NEW n \in Name, NEW dry \in BOOLEAN,
             \/ \E kind \in ServiceCommand : Invoke(kind, n, dry)
             \/ \E kind \in ConfigCommand : InitFile(kind, dry) \/ ValidateFile(kind, dry)
      PROVE  DownsInv'
  <2>1. /\ todo' = <<>> /\ round' = 1 /\ downs' = [m \in Name |-> 0]
    BY <1>5, CommandPlaces DEF Invoke, InitFile, ValidateFile, Configure, Fresh
  <2>2. \A m \in Name : downs'[m] = 0 /\ Limit(m)' = 1
    BY <2>1 DEF Limit
  <2> QED
    BY <2>1, <2>2, NoPlan DEF DownsInv
<1>6. CASE Resolve \/ LoadEnv
  <2>1. /\ UNCHANGED <<config, command, initial, round, downs>> /\ pc \in {"resolving", "loading"}
        /\ UNCHANGED todo \/ todo' = <<>>
    BY <1>6 DEF Resolve, LoadEnv, Finish
  <2> QED
    BY <1>2, <1>3, <2>1
<1>7. CASE PlanBlindly
  <2>1. UNCHANGED <<config, command, initial, round, downs>> /\ (~BringUp \/ command.dry)
    BY <1>7 DEF PlanBlindly
  <2>2. BringUp => pc' = "idle" /\ todo' = <<>>
    BY <1>7, <2>1 DEF PlanBlindly, Execute, Finish
  <2> QED
    BY <1>2, <1>4, <2>1, <2>2 DEF BringUp
<1>8. CASE ReadGoal
  <2>1. /\ UNCHANGED <<command, round, downs>> /\ pc = "loading" /\ todo' = <<>> /\ BringUp
        /\ round = 1
    BY <1>1, <1>8 DEF ReadGoal, Finish, PlaceInv
  <2>2. downs = [n \in Name |-> 0]
    BY <2>1 DEF DownsInv
  <2>3. \A n \in Name : downs'[n] = 0 /\ Limit(n)' = 1
    BY <2>1, <2>2 DEF Limit
  <2> QED
    BY <2>1, <2>2, <2>3, NoPlan DEF DownsInv
<1>9. CASE ReadNext
  <2> DEFINE x == ordered[at]
  <2>1. UNCHANGED <<config, command, initial, round, downs>> /\ pc = "reading" /\ BringUp /\ round = 1
    BY <1>1, <1>9 DEF ReadNext, PlaceInv
  <2>2. CASE UNCHANGED todo \/ todo' = <<>>
    BY <1>2, <1>3, <2>1, <2>2
  <2>3. CASE ~(UNCHANGED todo \/ todo' = <<>>)
    <3>1. /\ at \in 1..Len(ordered) /\ x \in Name /\ Len(ordered) \in Nat
          /\ \E s \in State :
               /\ BringUpAction(x, s) \in {"start", "restart"}
               /\ Plannable(config, x, env)
               /\ todo' = todo \o Steps(x, BringUpAction(x, s))
      BY <1>9, <2>3, ReadNextEffect DEF Finish
    <3>2. PICK s \in State :
            /\ BringUpAction(x, s) \in {"start", "restart"}
            /\ Plannable(config, x, env)
            /\ todo' = todo \o Steps(x, BringUpAction(x, s))
      BY <3>1
    <3>3. /\ Len(todo) \in Nat
          /\ \A i \in 1..Len(todo') :
               \/ i \in 1..Len(todo) /\ todo'[i] = todo[i]
               \/ i > Len(todo) /\ todo'[i].name = x
      BY <3>1, <3>2, Extended
    <3>4. \A i, j \in 1..Len(todo') :
            i > Len(todo) /\ j > Len(todo) /\ Takes(todo'[i].program) /\ Takes(todo'[j].program)
              => i = j
      BY <3>1, <3>2, ExtendedOnce
    <3>5. \A i \in 1..Len(todo) : todo[i].name # x
      <4> SUFFICES ASSUME NEW i \in 1..Len(todo), todo[i].name = x PROVE FALSE
        OBVIOUS
      <4>1. PICK p \in 1..Len(ordered) : todo[i].name = ordered[p] /\ p < at
        BY <2>1 DEF IInv, SortedInv
      <4>2. p = at
        BY <3>1, <4>1 DEF IInv, TypeInv, OrderInv, ListInv
      <4> QED
        BY <3>1, <4>1, <4>2
    <3>6. ASSUME NEW i \in 1..Len(todo'), NEW j \in 1..Len(todo'),
                 todo'[i].name = todo'[j].name,
                 Takes(todo'[i].program), Takes(todo'[j].program)
          PROVE  i = j
      <4>1. CASE i \in 1..Len(todo) /\ todo'[i] = todo[i]
        <5>1. j \in 1..Len(todo) /\ todo'[j] = todo[j]
          BY <3>3, <3>5, <3>6, <4>1
        <5> QED
          BY <2>1, <3>6, <4>1, <5>1 DEF DownsInv
      <4>2. CASE i > Len(todo) /\ todo'[i].name = x
        <5>1. j > Len(todo)
          BY <3>3, <3>5, <3>6, <4>2
        <5> QED
          BY <3>4, <3>6, <4>2, <5>1
      <4> QED
        BY <3>3, <4>1, <4>2
    <3>7. downs' = [n \in Name |-> 0] /\ \A n \in Name : downs'[n] = 0 /\ Limit(n)' = 1
      BY <2>1 DEF DownsInv, Limit
    <3>8. round' # 2
      BY <2>1
    <3>9. \A n \in Name : downs'[n] <= Limit(n)' /\ (Pending(n)' => downs'[n] < Limit(n)')
      BY <3>7
    <3>10. \A i, j \in 1..Len(todo') :
             /\ todo'[i].name = todo'[j].name
             /\ Takes(todo'[i].program) /\ Takes(todo'[j].program)
             => i = j
      BY <3>6
    <3> QED
      BY <3>7, <3>8, <3>9, <3>10 DEF DownsInv, Takes
  <2> QED
    BY <2>2, <2>3
<1>10. CASE Planned
  BY <1>3, <1>10 DEF Planned
<1>11. CASE RunProgram /\ BringUp
  BY <1>11, DownsRun
<1>12. CASE ProgramFails /\ BringUp
  <2> DEFINE n == Head(todo).name
             p == Head(todo).program
  <2>1. /\ UNCHANGED <<config, command, initial, round>> /\ pc' = "idle" /\ todo' = <<>> /\ todo # <<>>
        /\ downs' = IF Takes(p) /\ downs[n] < MaxDowns THEN [downs EXCEPT ![n] = @ + 1] ELSE downs
    BY <1>12 DEF ProgramFails, Records, Finish
  <2>2. n = todo[1].name /\ p = todo[1].program /\ n \in Name /\ Len(todo) \in Nat \ {0}
    BY <1>1, <2>1, PlanType
  <2>3. /\ round = 2 => initial = "unknown"
        /\ \A m \in Name : downs[m] <= Limit(m)
        /\ Takes(p) => downs[n] < Limit(n)
    BY <1>12, <2>2 DEF DownsInv, Pending
  <2>4. downs \in [Name -> 0..3]
    BY <1>1 DEF TypeOK
  <2>5. \A m \in Name : Limit(m) \in {1, 2}
    BY DEF Limit
  <2>6. \A m \in Name : downs'[m] = IF Takes(p) /\ m = n /\ downs[n] < MaxDowns
                                     THEN downs[m] + 1 ELSE downs[m]
    BY <2>1, <2>2, <2>4
  <2>7. \A m \in Name : downs'[m] <= Limit(m)
    <3> SUFFICES ASSUME NEW m \in Name PROVE downs'[m] <= Limit(m)
      OBVIOUS
    <3>1. downs[m] \in Nat /\ Limit(m) \in Nat /\ downs[m] <= Limit(m)
      BY <2>3, <2>4, <2>5
    <3>2. CASE Takes(p) /\ m = n /\ downs[n] < MaxDowns
      BY <2>3, <2>6, <3>1, <3>2
    <3>3. CASE ~(Takes(p) /\ m = n /\ downs[n] < MaxDowns)
      BY <2>6, <3>1, <3>3
    <3> QED
      BY <3>2, <3>3
  <2>8. \A m : Limit(m)' = Limit(m)
    BY <2>1, LimitKept
  <2> QED
    BY <2>1, <2>3, <2>7, <2>8, NoPlan DEF DownsInv
<1>13. CASE MachineReady /\ BringUp
  <2>1. /\ UNCHANGED <<config, command, initial, round, downs>> /\ todo' = Tail(todo) /\ todo # <<>>
        /\ pc' = "running"
    BY <1>1, <1>13 DEF MachineReady, PlaceInv
  <2>2. PICK d \in {0, 1} :
          /\ Len(todo') = Len(todo) - d
          /\ \A i \in 1..Len(todo') : i + d \in 1..Len(todo) /\ todo'[i] = todo[i + d]
    BY <1>1, <2>1, Shrinks
  <2>3. \A n : Limit(n)' = Limit(n) /\ (Pending(n)' => Pending(n))
    BY <2>1, <2>2, LimitKept DEF Pending, Takes
  <2>4. ASSUME NEW i \in 1..Len(todo'), NEW j \in 1..Len(todo'),
               todo'[i].name = todo'[j].name, Takes(todo'[i].program), Takes(todo'[j].program)
        PROVE  i = j
    <3>1. i + d = j + d
      BY <1>13, <2>2, <2>4 DEF DownsInv
    <3> QED
      BY <2>2, <3>1
  <2> QED
    BY <1>13, <2>1, <2>3, <2>4 DEF DownsInv, Takes
<1>14. CASE MachineStartsAgain \/ MachineNotReady \/ Executed \/ Await \/ GiveUp
  <2>1. /\ UNCHANGED <<config, command, initial, round, downs>>
        /\ UNCHANGED todo \/ todo' = <<>>
    BY <1>14
    DEF MachineStartsAgain, MachineNotReady, Executed, Await, ProbeGoesOn, MempoolReady,
        MempoolNotReady, GiveUp, Finish
  <2>2. pc' \notin {"resolving", "loading", "reading"}
    BY <1>14, ActsEffect DEF Acts, ActingPlace, Finish
  <2> QED
    BY <1>2, <1>3, <2>1, <2>2
<1>15. CASE RetryService
  <2>1. /\ pc = "failing" /\ pc' = "running" /\ todo' = Steps(Mempool, "restart") /\ round' = 2
        /\ round = 1 /\ initial = "unknown" /\ UNCHANGED <<command, initial, downs>> /\ BringUp
    BY <1>1, <1>15, RetryServiceEffect DEF RetryService, RetriesService, PlaceInv
  <2>2. /\ todo' \in Seq(Step) /\ TakesOnce(todo')
        /\ \A i \in DOMAIN todo' : todo'[i].name = Mempool
    BY <2>1, RetryPlans, RetryPlansOnce
  <2>3. \A n \in Name : downs[n] <= 1 /\ downs[n] \in 0..3
    BY <1>1, <2>1 DEF DownsInv, Limit, TypeOK
  <2>4. \A n \in Name : downs'[n] <= Limit(n)' /\ (n = Mempool => downs'[n] < Limit(n)')
    BY <2>1, <2>3 DEF Limit
  <2>5. \A n \in Name : Pending(n)' => n = Mempool
    BY <2>2 DEF Pending
  <2>6. \A i, j \in 1..Len(todo') : Takes(todo'[i].program) /\ Takes(todo'[j].program) => i = j
    BY <2>2 DEF TakesOnce
  <2> QED
    BY <2>1, <2>4, <2>5, <2>6 DEF DownsInv, Takes
<1>16. CASE RetryRuntime
  <2>1. CASE Finish("not ready") /\ UNCHANGED round
    <3>1. UNCHANGED <<config, command, initial, downs>> /\ pc' = "idle" /\ todo' = <<>>
      BY <1>16, <2>1 DEF RetryRuntime, Finish
    <3> QED
      BY <1>2, <2>1, <3>1
  <2>2. CASE ~(Finish("not ready") /\ UNCHANGED round)
    <3>1. /\ pc = "failing" /\ pc' = "running" /\ round' = 3 /\ round < 3 /\ Machines # {}
          /\ todo' = Steps(Runtime, "restart") \o Steps(Mempool, "start")
          /\ UNCHANGED <<command, initial, downs>> /\ BringUp
      BY <1>1, <1>16, <2>2, RetryRuntimeEffect DEF RetryRuntime, PlaceInv
    <3>2. /\ todo' \in Seq(Step) /\ TakesOnce(todo')
          /\ \A i \in DOMAIN todo' :
               \/ todo'[i].name = Runtime
               \/ todo'[i].name = Mempool /\ ~Takes(todo'[i].program)
      BY <3>1, RetryPlans, RetryPlansOnce
    <3>3. Runtime # Mempool
      <4>1. OrderCorrect /\ verdict = "ok" /\ goal = Mempool /\ config \in Config
        BY <1>1, <3>1, OrderInvRight DEF IInv, TypeInv, OrderInv, OrderTypeOK, PlaceInv, Resolved
      <4>2. ordered \in Seq(Name) /\ Mempool \in Range(ordered)
        BY <1>1, <4>1, ClosureClosed DEF OrderCorrect, TypeOK, OrderTypeOK
      <4>3. PICK m \in 1..Len(ordered) : ordered[m] = Mempool
        BY <4>2, RangeSeq
      <4>4. Runtime \in {ordered[j] : j \in 1..(m - 1)}
        BY <3>1, <4>1, <4>2, <4>3, RetriesReadable DEF OrderCorrect
      <4>5. PICK j \in 1..(m - 1) : Runtime = ordered[j]
        BY <4>4
      <4>6. Len(ordered) \in Nat
        BY <4>2, LenProperties
      <4>7. j \in 1..Len(ordered) /\ j # m
        BY <4>3, <4>5, <4>6
      <4> QED
        BY <4>3, <4>5, <4>7 DEF IInv, TypeInv, OrderInv, ListInv
    <3>4. round \in {1, 2} /\ \A n \in Name : downs[n] \in 0..3 /\ downs[n] <= Limit(n)
      BY <1>1, <3>1 DEF DownsInv, TypeOK
    <3>5. ASSUME NEW n \in Name
          PROVE  downs'[n] <= Limit(n)' /\ (n = Runtime => downs'[n] < Limit(n)')
      <4>1. UNCHANGED Runtime
        BY <3>1, ProceedKeeps, <1>16 DEF Proceed, Runtime, Machines, DependsOn, Is
      <4>2. CASE n = Mempool
        BY <3>1, <3>3, <3>4, <4>2 DEF Limit
      <4>3. CASE n # Mempool
        BY <3>1, <3>4, <4>1, <4>3 DEF Limit
      <4> QED
        BY <4>2, <4>3
    <3>6. \A n \in Name : Pending(n)' => n = Runtime
      <4> SUFFICES ASSUME NEW n \in Name, Pending(n)' PROVE n = Runtime
        OBVIOUS
      <4>1. DOMAIN todo' = 1..Len(todo')
        BY <3>2
      <4>2. PICK i \in 1..Len(todo') : todo'[i].name = n /\ Takes(todo'[i].program)
        BY DEF Pending, Takes
      <4> QED
        BY <3>2, <4>1, <4>2
    <3>7. \A i, j \in 1..Len(todo') : Takes(todo'[i].program) /\ Takes(todo'[j].program) => i = j
      BY <3>2 DEF TakesOnce
    <3>8. \A n \in Name : downs'[n] <= Limit(n)' /\ (Pending(n)' => downs'[n] < Limit(n)')
      BY <3>5, <3>6
    <3>9. round' # 2 /\ pc' \notin {"resolving", "loading", "reading"}
      BY <3>1
    <3> QED
      BY <3>7, <3>8, <3>9 DEF DownsInv, Takes
  <2> QED
    BY <2>1, <2>2
<1>17. CASE Disturb \/ ComesUp
  BY <1>3, <1>17 DEF Disturb, ComesUp
<1>18. CASE Acts /\ ~BringUp
  BY <1>4, <1>18, ActsEffect DEF BringUp
<1> QED
  BY <1>1, <1>5, <1>6, <1>7, <1>8, <1>9, <1>10, <1>11, <1>12, <1>13, <1>14, <1>15, <1>16,
     <1>17, <1>18 DEF Next, Proceed, Acts

\* A bring-up takes a service down once, but twice the machine that a retry
\* restarts, and mempool if its state was not known at first (bring_up and its
\* two retry functions); so with its machine mempool stops four times at most,
\* or three.
THEOREM RestartsAreBounded == Spec => []RestartsBounded
<1>1. Init => DownsInv
  BY DEF Init, DownsInv, BringUp
<1>2. IInv /\ IInv' /\ DownsInv /\ [Next]_vars => DownsInv'
  <2>1. ASSUME DownsInv, UNCHANGED vars PROVE DownsInv'
    <3>1. UNCHANGED <<config, command, initial, round, downs, todo, pc>>
      BY <2>1 DEF vars, fileVars, jobVars, planVars, loopVars, histVars
    <3>2. UNCHANGED BringUp /\ (\A n : Limit(n)' = Limit(n)) /\ (\A n : Pending(n)' = Pending(n))
      BY <3>1, LimitKept DEF BringUp, Pending, Takes
    <3> QED
      BY <2>1, <3>1, <3>2 DEF DownsInv, Takes
  <2> QED
    BY <2>1, DownsStep
<1>3. IInv /\ DownsInv => RestartsBounded
  <2> DEFINE once == IF initial = "unknown" THEN 2 ELSE 1
  <2> SUFFICES ASSUME IInv, DownsInv, BringUp, NEW n \in Name
               PROVE  /\ downs[n] <= IF n = Mempool THEN once ELSE 2
                      /\ downs[n] = 2 => n = Mempool \/ n = Runtime
                      /\ Is(n, "podman_machine") => downs[Mempool] + downs[n] <= once + 2
    BY DEF RestartsBounded
  <2>1. /\ downs[n] \in 0..3 /\ downs[n] <= Limit(n)
        /\ downs[Mempool] \in 0..3 /\ downs[Mempool] <= Limit(Mempool)
    BY ConfigAssumption DEF IInv, TypeInv, TypeOK, DownsInv
  <2>2. Limit(Mempool) \in 1..once /\ (n # Mempool => Limit(n) \in {1, 2})
    BY DEF Limit
  <2>3. n # Mempool /\ n # Runtime => Limit(n) = 1
    BY DEF Limit
  <2> QED
    BY <2>1, <2>2, <2>3
<1> QED
  BY <1>1, <1>2, <1>3, Invariance, PTL DEF Spec

----------------------------------------------------------------------------
(* What the success of a bring-up means *)

\* A bring-up of mempool that acts succeeds by the answer to a request.
LEMMA SuccessIsAnswered ==
  ASSUME [Next]_vars, pc # "idle", pc' = "idle", outcome' = "ok",
         BringUp, goal = Mempool, ~command.dry
  PROVE  MempoolReady
<1> USE DEF Finish
<1>1. CASE Await
  BY <1>1 DEF Await, ProbeGoesOn, MempoolNotReady
<1>2. CASE Resolve \/ LoadEnv \/ ReadGoal \/ Planned
  BY <1>2 DEF Resolve, LoadEnv, ReadGoal, Planned
<1>3. CASE PlanBlindly
  BY <1>3 DEF PlanBlindly
<1>4. CASE ReadNext
  BY <1>4 DEF ReadNext
<1>5. CASE RunProgram \/ ProgramFails \/ Executed
  BY <1>5 DEF RunProgram, ProgramFails, Executed
<1>6. CASE MachineReady \/ MachineStartsAgain \/ MachineNotReady
  BY <1>6 DEF MachineReady, MachineStartsAgain, MachineNotReady
<1>7. CASE RetryService \/ RetryRuntime \/ GiveUp
  BY <1>7 DEF RetryService, RetryRuntime, GiveUp, Retry
<1>8. CASE Disturb \/ ComesUp \/ UNCHANGED vars
  BY <1>8 DEF Disturb, ComesUp, vars
<1>9. Proceed \/ Disturb \/ ComesUp \/ UNCHANGED vars
  BY DEF Next, Invoke, InitFile, ValidateFile, Configure, Idle
<1> QED
  BY <1>1, <1>2, <1>3, <1>4, <1>5, <1>6, <1>7, <1>8, <1>9 DEF Proceed

\* The answer that ends the wait comes from a mempool that serves: tip is not
\* answered by a broken one, and fees says when mempool is syncing.
LEMMA AnsweredServes ==
  ASSUME MempoolReady
  PROVE  /\ world[Mempool] \in {"running", "syncing"}
         /\ MachineUp /\ forwarding /\ Url(env) = Listens
<1>1. PICK e \in {"fees", "tip"}, code \in {200, 503} :
        /\ code = Reached(e, env)
        /\ e = "fees" => code = 503
  <2>1. CASE at = Len(Requests) /\ Answered(200)
    <3>1. Requests[at] = "tip"
      BY <2>1 DEF Requests
    <3> QED
      BY <2>1, <3>1 DEF Answered
  <2>2. CASE Requests[at] = "fees" /\ Answered(503)
    BY <2>2 DEF Answered
  <2> QED
    BY <2>1, <2>2 DEF MempoolReady
<1>2. MachineUp /\ forwarding /\ Url(env) = Listens /\ code = Answer(e)
  BY <1>1 DEF Reached
<1> QED
  BY <1>1, <1>2 DEF Answer

\* A mempool that serves answers the probe of a reading as it is.
LEMMA ServingIsRead ==
  ASSUME world[Mempool] \in {"running", "syncing"},
         MachineUp, forwarding, NEW v, Url(v) = Listens
  PROVE  Probe(v) = world[Mempool]
<1>1. \A e : Reached(e, v) = Answer(e)
  BY DEF Reached
<1>2. CASE world[Mempool] = "running"
  <2>1. \A e : Reached(e, v) = 200
    BY <1>1, <1>2 DEF Answer
  <2> QED
    BY <1>2, <2>1 DEF Probe
<1>3. CASE world[Mempool] = "syncing"
  <2>1. Reached("backend-info", v) = 200 /\ Reached("fees", v) = 503
    BY <1>1, <1>3 DEF Answer
  <2>2. 2 \in DOMAIN Requests /\ Reached(Requests[2], v) = 503
    BY <2>1 DEF Requests
  <2> QED
    BY <1>3, <2>1, <2>2 DEF Probe
<1> QED
  BY <1>2, <1>3

\* Then service status finds no fault with a machine but that of its API.
LEMMA StatusOfMachine ==
  ASSUME NEW v, Probe(v) # "degraded", NEW n \in Name,
         Is(n, "podman_machine"), Readable(config, n, v)
  PROVE  Status(n, v) = "running" <=> world[n] = "running"
<1>1. ASSUME NEW d \in Name PROVE ComposeState(d, v) # "degraded"
  <2>1. CASE ~PodmanUp \/ world[d] = "stopped"
    BY <2>1 DEF ComposeState
  <2>2. CASE PodmanUp /\ world[d] # "stopped"
    BY <2>2 DEF ComposeState
  <2> QED
    BY <2>1, <2>2
<1>2. ~(\E d \in Name : Suffers(d, n, v))
  BY <1>1 DEF Suffers
<1>3. Status(n, v) = RuntimeState(n, v)
  BY <1>2 DEF Status
<1>4. ~Is(n, "podman_compose")
  BY DEF Is
<1> QED
  BY <1>3, <1>4 DEF RuntimeState

LEMMA StatusOfMempool ==
  ASSUME NEW v, Probe(v) = world[Mempool], world[Mempool] # "stopped",
         Is(Mempool, "podman_compose"), Readable(config, Mempool, v)
  PROVE  Status(Mempool, v) = IF PodmanUp THEN world[Mempool] ELSE "unknown"
<1>1. ~Is(Mempool, "podman_machine")
  BY DEF Is
<1>2. Status(Mempool, v) = ComposeState(Mempool, v)
  BY <1>1 DEF Status, RuntimeState
<1> QED
  BY <1>2 DEF ComposeState

\* When bring-up mempool reports success, mempool serves under the URL of its
\* environment behind a machine that is up and forwards its ports, also when
\* the host has changed during the probe; and service status says so in that
\* environment, but for a machine whose API fails: that one is reported, and
\* mempool as unknown (wait_for_mempool_readiness, compute_status).
THEOREM SuccessMeansServing == Spec => ReadyMeansServing
<1>1. ASSUME IInv, [Next]_vars, pc # "idle", pc' = "idle", outcome' = "ok",
             BringUp, goal = Mempool, ~command.dry
      PROVE  /\ world[Mempool] \in {"running", "syncing"}
             /\ MachineUp /\ forwarding /\ Url(env) = Listens
             /\ Is(Mempool, "podman_compose") =>
                  Status(Mempool, env) = IF PodmanUp THEN world[Mempool] ELSE "unknown"
             /\ \A n \in Name : Is(n, "podman_machine") /\ Readable(config, n, env) =>
                  (Status(n, env) = "running" <=> world[n] = "running")
  <2>1. MempoolReady
    BY <1>1, SuccessIsAnswered
  <2>2. /\ world[Mempool] \in {"running", "syncing"}
        /\ MachineUp /\ forwarding /\ Url(env) = Listens
    BY <2>1, AnsweredServes
  <2>3. Probe(env) = world[Mempool] /\ Probe(env) # "degraded"
    BY <2>2, ServingIsRead
  <2>4. Readable(config, Mempool, env)
    BY <1>1, <2>1, RetriesReadable DEF MempoolReady
  <2> QED
    BY <2>2, <2>3, <2>4, StatusOfMachine, StatusOfMempool
<1>2. IInv /\ [Next]_vars =>
        [/\ pc # "idle" /\ pc' = "idle"
         /\ BringUp /\ goal = Mempool /\ ~command.dry /\ outcome' = "ok"
         => /\ world[Mempool] \in {"running", "syncing"}
            /\ MachineUp /\ forwarding /\ Url(env) = Listens
            /\ Is(Mempool, "podman_compose") =>
                 Status(Mempool, env) = IF PodmanUp THEN world[Mempool] ELSE "unknown"
            /\ \A n \in Name : Is(n, "podman_machine") /\ Readable(config, n, env) =>
                 (Status(n, env) = "running" <=> world[n] = "running")]_vars
  BY <1>1
<1> QED
  BY <1>2, Invariance, PTL DEF Spec, ReadyMeansServing

=============================================================================
