------------------------- MODULE BelterStepsProofs --------------------------
(***************************************************************************)
(* Proved of Belter, for every configuration, host and number of faults:   *)
(* that the steps of a command run out.  The measure counts them phase by  *)
(* phase; that of the search is a sum over the services.                   *)
(***************************************************************************)
EXTENDS BelterProofs, FiniteSums

(* The measures *)

\* The steps for a program, a wait and a retry are numbers.
LEMMA UnitSteps ==
  /\ ProgramSteps \in Nat \ {0} /\ WaitSteps \in Nat /\ RetrySteps \in Nat
  /\ RetrySteps = 3 * ProgramSteps + WaitSteps
  /\ ProgramSteps = Checks + 1 /\ WaitSteps = 4 * Attempts + 2
  /\ Checks \in Nat /\ Attempts \in Nat
BY BelterAssumption DEF ProgramSteps, WaitSteps, RetrySteps

\* Products of natural numbers, one more and one less.
LEMMA Products ==
  ASSUME NEW a \in Nat, NEW b \in Nat, NEW c \in Nat
  PROVE  /\ a * c \in Nat
         /\ (a + 1) * c = a * c + c
         /\ a <= b => a * c <= b * c
<1>1. \A d \in Nat : d * c \in Nat /\ (a + d) * c = a * c + d * c
  OBVIOUS
<1>2. (a + 1) * c = a * c + c
  OBVIOUS
<1>3. a <= b => a * c <= b * c
  <2> SUFFICES ASSUME a <= b PROVE a * c <= b * c
    OBVIOUS
  <2>1. PICK d \in Nat : b = a + d
    <3>1. b - a \in Nat /\ b = a + (b - a)
      OBVIOUS
    <3> QED
      BY <3>1
  <2>2. d * c \in Nat /\ a * c \in Nat /\ b * c = a * c + d * c
    BY <1>1, <2>1
  <2> QED
    BY <2>2
<1> QED
  BY <1>1, <1>2, <1>3

\* More programs take more steps.
LEMMA ExecuteBounds ==
  ASSUME NEW j \in Nat, NEW k \in Nat, NEW r \in 1..3
  PROVE  /\ ExecuteSteps(k, r) \in Nat
         /\ (3 - r) * RetrySteps \in Nat
         /\ ExecuteSteps(0, r) = WaitSteps + (3 - r) * RetrySteps
         /\ ExecuteSteps(k + 1, r) = ExecuteSteps(k, r) + ProgramSteps
         /\ j <= k => ExecuteSteps(j, r) <= ExecuteSteps(k, r)
<1>1. 3 - r \in Nat
  OBVIOUS
<1>2. (3 - r) * RetrySteps \in Nat
  BY <1>1, UnitSteps, Products
<1>3. /\ k * ProgramSteps \in Nat /\ j * ProgramSteps \in Nat
      /\ (k + 1) * ProgramSteps = k * ProgramSteps + ProgramSteps
      /\ j <= k => j * ProgramSteps <= k * ProgramSteps
  BY UnitSteps, Products
<1>4. 0 * ProgramSteps = 0
  BY UnitSteps
<1> QED
  BY <1>2, <1>3, <1>4, UnitSteps DEF ExecuteSteps

\* A retry takes no more than what is kept for it.
LEMMA RetryBounds ==
  ASSUME NEW q \in 1..3, NEW r \in 1..3, q < r, NEW k \in 0..3
  PROVE  ExecuteSteps(k, r) < 1 + (3 - q) * RetrySteps
<1>0. k \in Nat /\ 3 \in Nat /\ k <= 3
  OBVIOUS
<1>1. ExecuteSteps(k, r) <= ExecuteSteps(3, r)
  BY <1>0, ExecuteBounds
<1>2. ExecuteSteps(3, r) = RetrySteps + (3 - r) * RetrySteps
  BY UnitSteps, ExecuteBounds DEF ExecuteSteps
<1>3. RetrySteps + (3 - r) * RetrySteps <= (3 - q) * RetrySteps
  <2>1. 0 * RetrySteps = 0 /\ 1 * RetrySteps = RetrySteps /\ 2 * RetrySteps = RetrySteps + RetrySteps
    BY UnitSteps
  <2>2. q \in {1, 2} /\ r \in {2, 3} /\ q < r
    OBVIOUS
  <2>3. 3 - 1 = 2 /\ 3 - 2 = 1 /\ 3 - 3 = 0
    OBVIOUS
  <2> QED
    BY <2>1, <2>2, <2>3, UnitSteps
<1>4. ExecuteSteps(k, r) \in Nat /\ ExecuteSteps(3, r) \in Nat
  BY <1>0, ExecuteBounds
<1>5. (3 - q) * RetrySteps \in Nat
  BY <1>0, ExecuteBounds
<1> QED
  BY <1>1, <1>2, <1>3, <1>4, <1>5, UnitSteps

\* A service that is read uses up its share of the steps.
LEMMA ReadBounds ==
  ASSUME NEW s \in Nat, NEW n \in Nat
  PROVE  /\ ReadSteps(s, n) \in Nat \ {0}
         /\ ExecuteSteps(n, 1) < ReadSteps(s, n)
         /\ \A m \in n..(n + 2) : ReadSteps(s, m) < ReadSteps(s + 1, n)
<1>1. /\ ExecuteSteps(n, 1) \in Nat /\ ExecuteSteps(n + 2 * s, 1) \in Nat
      /\ ExecuteSteps(n, 1) <= ExecuteSteps(n + 2 * s, 1)
  BY ExecuteBounds
<1>2. ASSUME NEW m \in n..(n + 2)
      PROVE  ReadSteps(s, m) < ReadSteps(s + 1, n)
  <2>1. m \in Nat /\ m + 2 * s \in Nat /\ n + 2 * (s + 1) \in Nat /\ m + 2 * s <= n + 2 * (s + 1)
    OBVIOUS
  <2>2. /\ ExecuteSteps(m + 2 * s, 1) \in Nat /\ ExecuteSteps(n + 2 * (s + 1), 1) \in Nat
        /\ ExecuteSteps(m + 2 * s, 1) <= ExecuteSteps(n + 2 * (s + 1), 1)
    BY <2>1, ExecuteBounds
  <2> QED
    BY <2>2 DEF ReadSteps
<1> QED
  BY <1>1, <1>2 DEF ReadSteps

\* An env_file that is loaded uses up a step; a service that is listed adds
\* its share.
LEMMA LoadBounds ==
  ASSUME NEW f \in Nat, NEW s \in Nat
  PROVE  /\ LoadSteps(f, s) \in Nat \ {0}
         /\ \A g \in Nat : g < f => LoadSteps(g, s) < LoadSteps(f, s)
         /\ ReadSteps(s, 0) < LoadSteps(f, s)
         /\ LoadSteps(s + 1, s + 1) = LoadSteps(s, s) + 2 + 2 * ProgramSteps
<1>1. ReadSteps(s, 0) \in Nat
  BY ReadBounds
<1>2. ReadSteps(s + 1, 0) = ReadSteps(s, 0) + 1 + 2 * ProgramSteps
  <2>1. 0 + 2 * s \in Nat /\ 0 + 2 * (s + 1) = ((0 + 2 * s) + 1) + 1
    OBVIOUS
  <2> DEFINE k == 0 + 2 * s
  <2> HIDE DEF k
  <2>2. k \in Nat /\ k + 1 \in Nat
    BY <2>1 DEF k
  <2>3. /\ ExecuteSteps(k + 1, 1) = ExecuteSteps(k, 1) + ProgramSteps
        /\ ExecuteSteps((k + 1) + 1, 1) = ExecuteSteps(k + 1, 1) + ProgramSteps
        /\ ExecuteSteps(k, 1) \in Nat
    BY <2>2, ExecuteBounds
  <2>4. ExecuteSteps(0 + 2 * (s + 1), 1) = ExecuteSteps(k, 1) + 2 * ProgramSteps
    BY <2>1, <2>3, UnitSteps DEF k
  <2> QED
    BY <2>3, <2>4, UnitSteps DEF ReadSteps, k
<1> QED
  BY <1>1, <1>2, UnitSteps DEF LoadSteps

----------------------------------------------------------------------------
(* The search *)

\* A service has a number of steps left in the search.
LEMMA VisitType == OrderInv => \A n \in Name : VisitSteps(n) \in Nat
<1> SUFFICES ASSUME OrderInv, NEW n \in Name, config[n] # Absent, n \notin Range(ordered)
             PROVE  VisitSteps(n) \in Nat
  BY DEF VisitSteps
<1>1. Len(DependsOn(n)) \in Nat
  BY DependsType, LenProperties DEF OrderInv, OrderTypeOK
<1>2. next[n] \in Nat
  BY DEF OrderInv, OrderTypeOK
<1>3. n \in Range(path) => next[n] <= Len(DependsOn(n)) + 1
  <2> SUFFICES ASSUME n \in Range(path) PROVE next[n] <= Len(DependsOn(n)) + 1
    OBVIOUS
  <2>1. path \in Seq(Name)
    BY DEF OrderInv, OrderTypeOK
  <2>2. PICK i \in 1..Len(path) : n = path[i]
    BY <2>1, RangeSeq
  <2> QED
    BY <2>2 DEF OrderInv, StackInv
<1> QED
  BY <1>1, <1>2, <1>3, UnitSteps DEF VisitSteps

LEMMA VisitTypePrimed == (OrderInv => \A n \in Name : VisitSteps(n) \in Nat)'
BY VisitType, PTL

Visits == SumFunctionOnSet([n \in Name |-> VisitSteps(n)], Name)

\* The search has a number of steps left.
LEMMA VisitsType == OrderInv => Visits \in Nat
<1> DEFINE f == [n \in Name |-> VisitSteps(n)]
<1>1. ASSUME OrderInv PROVE \A n \in Name : f[n] \in Nat
  BY <1>1, VisitType
<1>2. ASSUME OrderInv PROVE SumFunctionOnSet(f, Name) \in Nat
  <2> HIDE DEF f
  <2> QED
    BY <1>1, <1>2, SumType, BelterAssumption
<1> QED
  BY <1>2 DEF Visits

LEMMA VisitsTypePrimed == (OrderInv => Visits \in Nat)'
BY VisitsType, PTL

\* What one service uses up is used up in all.
LEMMA VisitsChange ==
  ASSUME OrderInv, OrderInv', NEW x \in Name,
         \A n \in Name \ {x} : VisitSteps(n)' = VisitSteps(n)
  PROVE  Visits' + VisitSteps(x) = Visits + VisitSteps(x)'
<1> DEFINE f == [n \in Name |-> VisitSteps(n)]
           g == [n \in Name |-> VisitSteps(n)']
<1>1. \A n \in Name : f[n] \in Nat /\ g[n] \in Nat
  BY VisitType, VisitTypePrimed
<1>2. \A n \in Name \ {x} : f[n] = g[n]
  OBVIOUS
<1>3. f[x] = VisitSteps(x) /\ g[x] = VisitSteps(x)'
  OBVIOUS
<1>4. Visits = SumFunctionOnSet(f, Name) /\ Visits' = SumFunctionOnSet(g, Name)
  BY DEF Visits
<1> HIDE DEF f, g
<1>5. SumFunctionOnSet(g, Name) + f[x] = SumFunctionOnSet(f, Name) + g[x]
  BY <1>1, <1>2, SumChanges, BelterAssumption
<1> QED
  BY <1>3, <1>4, <1>5

\* What the search may still list, too, is paid for.
SearchSteps == Visits + LoadSteps(Len(ordered), Len(ordered))

\* A step that lists nothing and uses up steps of one service.
LEMMA VisitsUsed ==
  ASSUME OrderInv, OrderInv', NEW x \in Name, UNCHANGED ordered,
         \A n \in Name \ {x} : VisitSteps(n)' = VisitSteps(n),
         VisitSteps(x)' < VisitSteps(x)
  PROVE  SearchSteps' < SearchSteps
<1>1. Visits' + VisitSteps(x) = Visits + VisitSteps(x)'
  BY VisitsChange
<1>2. VisitSteps(x) \in Nat /\ VisitSteps(x)' \in Nat
  BY VisitType, VisitTypePrimed
<1>3. Visits \in Nat /\ Visits' \in Nat
  BY VisitsType, VisitsTypePrimed
<1>4. Visits' < Visits
  BY <1>1, <1>2, <1>3
<1>5. LoadSteps(Len(ordered), Len(ordered)) \in Nat
  <2>1. Len(ordered) \in Nat
    BY LenProperties DEF OrderInv, OrderTypeOK
  <2> QED
    BY <2>1, LoadBounds
<1>6. LoadSteps(Len(ordered), Len(ordered))' = LoadSteps(Len(ordered), Len(ordered))
  BY DEF LoadSteps, ReadSteps, ExecuteSteps, ProgramSteps, WaitSteps, RetrySteps
<1> QED
  BY <1>3, <1>4, <1>5, <1>6 DEF SearchSteps

\* The top of the stack has a place in the search.
LEMMA TopType ==
  ASSUME OrderInv, path # <<>>
  PROVE  /\ Top \in Name /\ Top \in Range(path) /\ Top \notin Range(ordered)
         /\ config[Top] # Absent
         /\ Len(DependsOn(Top)) \in Nat /\ next[Top] \in Nat
         /\ VisitSteps(Top) = Len(DependsOn(Top)) + 4 + 2 * ProgramSteps - next[Top]
<1>1. path \in Seq(Name) /\ next \in [Name -> Nat \ {0}] /\ config \in Config
  BY DEF OrderInv, OrderTypeOK
<1>2. Len(path) \in Nat \ {0} /\ Top \in Name /\ Len(path) \in 1..Len(path)
  BY <1>1, PopSeq DEF Top
<1>3. Top \in Range(path)
  BY <1>1, <1>2, RangeSeq DEF Top
<1>4. Top \notin Range(ordered) /\ config[Top] # Absent
  BY <1>2 DEF OrderInv, StackInv, Top
<1>5. Len(DependsOn(Top)) \in Nat /\ next[Top] \in Nat
  BY <1>1, <1>2, <1>4, DependsType, LenProperties
<1> QED
  BY <1>2, <1>3, <1>4, <1>5 DEF VisitSteps

\* A call that finds its service visited.
LEMMA SkipUses ==
  ASSUME OrderInv, OrderInv', Skip, UNCHANGED <<config, goal>>
  PROVE  SearchSteps' < SearchSteps
<1>1. path # <<>>
  BY PendingGoal DEF Skip, Calls
<1>2. PICK x \in Name : x = Top
  BY <1>1, TopType
<1>3. /\ x \in Range(path) /\ x \notin Range(ordered) /\ config[x] # Absent
      /\ Len(DependsOn(x)) \in Nat /\ next[x] \in Nat
      /\ VisitSteps(x) = Len(DependsOn(x)) + 4 + 2 * ProgramSteps - next[x]
  BY <1>1, <1>2, TopType
<1>4. /\ next' = [next EXCEPT ![x] = @ + 1] /\ next \in [Name -> Nat \ {0}]
      /\ UNCHANGED <<path, ordered, config>>
  BY <1>2 DEF Skip, OrderInv, OrderTypeOK
<1>5. ASSUME NEW n \in Name \ {x} PROVE VisitSteps(n)' = VisitSteps(n)
  <2>1. next'[n] = next[n]
    BY <1>4
  <2> QED
    BY <1>4, <2>1 DEF VisitSteps, DependsOn
<1>6. VisitSteps(x)' = Len(DependsOn(x)) + 4 + 2 * ProgramSteps - (next[x] + 1)
  <2>1. next'[x] = next[x] + 1
    BY <1>4
  <2> QED
    BY <1>3, <1>4, <2>1 DEF VisitSteps, DependsOn
<1>7. VisitSteps(x)' < VisitSteps(x)
  BY <1>3, <1>6, UnitSteps
<1> QED
  BY <1>4, <1>5, <1>7, VisitsUsed

\* A call that enters a service.
LEMMA DescendUses ==
  ASSUME OrderInv, OrderInv', Descend, UNCHANGED <<config, goal>>
  PROVE  SearchSteps' < SearchSteps
<1>1. PICK x \in Name : x = Visiting
  BY VisitingType DEF Descend
<1>2. /\ x \notin Range(ordered) /\ x \notin Range(path) /\ config[x] # Absent
      /\ path' = Append(path, x) /\ next' = [next EXCEPT ![x] = 1]
      /\ UNCHANGED <<ordered, config>>
      /\ path \in Seq(Name) /\ next \in [Name -> Nat \ {0}] /\ config \in Config
  BY <1>1 DEF Descend, OrderInv, OrderTypeOK
<1>3. Range(path') = Range(path) \cup {x}
  BY <1>2, AppendSeq
<1>4. Len(DependsOn(x)) \in Nat
  BY <1>2, DependsType, LenProperties
<1>5. ASSUME NEW n \in Name \ {x} PROVE VisitSteps(n)' = VisitSteps(n)
  <2>1. next'[n] = next[n]
    BY <1>2
  <2>2. n \in Range(path') <=> n \in Range(path)
    BY <1>3
  <2> QED
    BY <1>2, <2>1, <2>2 DEF VisitSteps, DependsOn
<1>6. VisitSteps(x) = Len(DependsOn(x)) + 4 + 2 * ProgramSteps - 0
  BY <1>2 DEF VisitSteps
<1>7. VisitSteps(x)' = Len(DependsOn(x)) + 4 + 2 * ProgramSteps - 1
  <2>1. next'[x] = 1 /\ x \in Range(path')
    BY <1>2, <1>3
  <2> QED
    BY <1>2, <2>1 DEF VisitSteps, DependsOn
<1>8. VisitSteps(x)' < VisitSteps(x)
  BY <1>4, <1>6, <1>7, UnitSteps
<1> QED
  BY <1>2, <1>5, <1>8, VisitsUsed

\* A call that returns, and lists its service.
LEMMA LeaveUses ==
  ASSUME OrderInv, OrderInv', Leave, UNCHANGED <<config, goal>>
  PROVE  SearchSteps' < SearchSteps
<1>1. path # <<>>
  BY DEF Leave
<1>2. PICK x \in Name : x = Top
  BY <1>1, TopType
<1>3. /\ x \in Range(path) /\ x \notin Range(ordered) /\ config[x] # Absent
      /\ Len(DependsOn(x)) \in Nat /\ next[x] \in Nat
      /\ VisitSteps(x) = Len(DependsOn(x)) + 4 + 2 * ProgramSteps - next[x]
  BY <1>1, <1>2, TopType
<1>4. /\ path' = SubSeq(path, 1, Len(path) - 1) /\ ordered' = Append(ordered, x)
      /\ UNCHANGED <<config, next>>
      /\ path \in Seq(Name) /\ ordered \in Seq(Name)
  BY <1>2 DEF Leave, OrderInv, OrderTypeOK
<1>5. Len(ordered) \in Nat /\ Len(ordered') = Len(ordered) + 1
      /\ Range(ordered') = Range(ordered) \cup {x}
  BY <1>4, AppendSeq, LenProperties
<1>6. \A n : n \in Range(path') \cup {x} <=> n \in Range(path)
  <2>1. /\ path' \in Seq(Name) /\ Len(path) \in Nat \ {0} /\ Len(path') = Len(path) - 1
        /\ \A i \in 1..(Len(path) - 1) : path'[i] = path[i]
    BY <1>1, <1>4, PopSeq
  <2>2. \A n : n \in Range(path') <=> \E i \in 1..(Len(path) - 1) : n = path[i]
    BY <2>1, RangeSeq
  <2>3. \A n : n \in Range(path) <=> \E i \in 1..Len(path) : n = path[i]
    BY <1>4, RangeSeq
  <2>4. 1..Len(path) = 1..(Len(path) - 1) \cup {Len(path)} /\ x = path[Len(path)]
    BY <1>2, <2>1 DEF Top
  <2> QED
    BY <2>2, <2>3, <2>4
<1>7. ASSUME NEW n \in Name \ {x} PROVE VisitSteps(n)' = VisitSteps(n)
  <2>1. /\ n \in Range(path') <=> n \in Range(path)
        /\ n \in Range(ordered') <=> n \in Range(ordered)
    BY <1>5, <1>6
  <2> QED
    BY <1>4, <2>1 DEF VisitSteps, DependsOn
<1>8. VisitSteps(x)' = 0
  BY <1>5 DEF VisitSteps
<1>9. next[x] <= Len(DependsOn(x)) + 1
  <2>1. path \in Seq(Name) /\ Len(path) \in Nat \ {0} /\ x = path[Len(path)]
    BY <1>1, <1>2, <1>4, PopSeq DEF Top
  <2>2. Len(path) \in 1..Len(path)
    BY <2>1
  <2> QED
    BY <2>1, <2>2 DEF OrderInv, StackInv
<1>10. VisitSteps(x) >= 3 + 2 * ProgramSteps
  BY <1>3, <1>9, UnitSteps
<1>11. Visits' + VisitSteps(x) = Visits + 0
  BY <1>7, <1>8, VisitsChange
<1>12. Visits \in Nat /\ Visits' \in Nat /\ VisitSteps(x) \in Nat
  BY VisitsType, VisitsTypePrimed, VisitType
<1> DEFINE k == Len(ordered)
<1>13. SearchSteps = Visits + LoadSteps(k, k) /\ SearchSteps' = Visits' + LoadSteps(k + 1, k + 1)
  BY <1>5 DEF SearchSteps, LoadSteps, ReadSteps, ExecuteSteps, ProgramSteps, WaitSteps, RetrySteps
<1>14. LoadSteps(k, k) \in Nat /\ LoadSteps(k + 1, k + 1) = LoadSteps(k, k) + 2 + 2 * ProgramSteps
  BY <1>5, LoadBounds
<1> HIDE DEF k
<1> QED
  BY <1>10, <1>11, <1>12, <1>13, <1>14, UnitSteps

\* Every step of the search but one that rejects uses up steps.
LEMMA SearchUses ==
  ASSUME OrderInv, Search, UNCHANGED <<config, goal>>
  PROVE  verdict' \in {"cyclic", "missing"} \/ SearchSteps' < SearchSteps
<1>1. OrderInv'
  BY SearchKeeps
<1> QED
  BY <1>1, SkipUses, DescendUses, LeaveUses DEF Search, RejectCycle, RejectMissing

----------------------------------------------------------------------------
(* The phases of a command *)

\* Where a command is says how its steps are counted.
LEMMA Phases ==
  /\ pc = "idle" => StepsLeft = 0
  /\ pc = "resolving" => StepsLeft = SearchSteps
  /\ pc = "loading" => StepsLeft = LoadSteps(Left(at, Len(Listed) + 1), Len(Listed))
  /\ pc = "reading" => StepsLeft = ReadSteps(Left(at, Len(ordered) + 1), Len(todo))
  /\ pc = "running" => StepsLeft = ExecuteSteps(Len(todo), round)
  /\ pc = "checking" => StepsLeft = Left(tries, Checks) + 1 + ExecuteSteps(Len(todo) - 1, round)
  /\ pc = "probing" =>
       StepsLeft = 4 * Left(tries, Attempts) + Left(at, 4) + 2 + (3 - round) * RetrySteps
  /\ pc = "failing" => StepsLeft = 1 + (3 - round) * RetrySteps
BY DEF StepsLeft, SearchSteps, Visits

LEMMA PhasesPrimed ==
  (/\ pc = "idle" => StepsLeft = 0
   /\ pc = "resolving" => StepsLeft = SearchSteps
   /\ pc = "loading" => StepsLeft = LoadSteps(Left(at, Len(Listed) + 1), Len(Listed))
   /\ pc = "reading" => StepsLeft = ReadSteps(Left(at, Len(ordered) + 1), Len(todo))
   /\ pc = "running" => StepsLeft = ExecuteSteps(Len(todo), round)
   /\ pc = "checking" => StepsLeft = Left(tries, Checks) + 1 + ExecuteSteps(Len(todo) - 1, round)
   /\ pc = "probing" =>
        StepsLeft = 4 * Left(tries, Attempts) + Left(at, 4) + 2 + (3 - round) * RetrySteps
   /\ pc = "failing" => StepsLeft = 1 + (3 - round) * RetrySteps)'
BY Phases, PTL

\* The types that the measures need.
LEMMA MeasureTypes ==
  ASSUME IInv
  PROVE  /\ OrderInv /\ at \in Nat \ {0} /\ tries \in Nat \ {0} /\ round \in 1..3
         /\ Len(ordered) \in Nat /\ Len(Listed) \in Nat /\ Len(todo) \in Nat
         /\ pc \in PC
         /\ pc = "checking" => Len(todo) - 1 \in Nat
<1>1. TypeOK /\ OrderInv /\ PlaceInv
  BY DEF IInv, TypeInv
<1>2. ordered \in Seq(Name) /\ todo \in Seq(Step)
  BY <1>1 DEF TypeOK, OrderTypeOK, Step
<1>3. Len(ordered) \in Nat /\ Len(Listed) \in Nat /\ Len(todo) \in Nat
  BY <1>1, <1>2, ListedType, LenProperties
<1>4. pc = "checking" => Len(todo) - 1 \in Nat
  <2>1. pc = "checking" => Len(todo) \in Nat \ {0}
    BY <1>1, PlanType DEF PlaceInv
  <2> QED
    BY <2>1
<1>5. at \in Nat \ {0} /\ tries \in Nat \ {0} /\ round \in 1..3 /\ pc \in PC
  BY <1>1, BelterAssumption DEF TypeOK
<1> QED
  BY <1>1, <1>3, <1>4, <1>5

\* The passes of a loop that are left.
LEMMA LeftType ==
  ASSUME NEW i \in Nat, NEW k \in Nat
  PROVE  /\ Left(i, k) \in Nat /\ Left(i, k + 1) \in Nat
         /\ i < k => Left(i + 1, k) < Left(i, k) /\ Left(i, k) = Left(i + 1, k) + 1
         /\ i > 0 => Left(i, k + 1) <= k
BY DEF Left

\* A command that runs has some steps left.
LEMMA StepsLeftType ==
  ASSUME IInv
  PROVE  StepsLeft \in Nat /\ (pc # "idle" => StepsLeft > 0)
<1>1. CASE pc = "idle"
  BY <1>1, Phases
<1>2. CASE pc = "resolving"
  <2>1. Visits \in Nat /\ LoadSteps(Len(ordered), Len(ordered)) \in Nat \ {0}
    BY MeasureTypes, VisitsType, LoadBounds
  <2> QED
    BY <1>2, <2>1, Phases DEF SearchSteps
<1>3. CASE pc = "loading"
  <2>1. Left(at, Len(Listed) + 1) \in Nat /\ Len(Listed) \in Nat
    BY MeasureTypes, LeftType
  <2>2. LoadSteps(Left(at, Len(Listed) + 1), Len(Listed)) \in Nat \ {0}
    BY <2>1, LoadBounds
  <2> QED
    BY <1>3, <2>2, Phases
<1>4. CASE pc = "reading"
  <2>1. Left(at, Len(ordered) + 1) \in Nat /\ Len(todo) \in Nat
    BY MeasureTypes, LeftType
  <2>2. ReadSteps(Left(at, Len(ordered) + 1), Len(todo)) \in Nat \ {0}
    BY <2>1, ReadBounds
  <2> QED
    BY <1>4, <2>2, Phases
<1>5. CASE pc = "running"
  <2>1. 0 \in Nat /\ Len(todo) \in Nat /\ 0 <= Len(todo) /\ round \in 1..3
    BY MeasureTypes
  <2>2. /\ ExecuteSteps(Len(todo), round) \in Nat
        /\ ExecuteSteps(0, round) <= ExecuteSteps(Len(todo), round)
    BY <2>1, ExecuteBounds
  <2>3. /\ ExecuteSteps(0, round) = WaitSteps + (3 - round) * RetrySteps
        /\ (3 - round) * RetrySteps \in Nat
    BY <2>1, ExecuteBounds
  <2>4. StepsLeft = ExecuteSteps(Len(todo), round)
    BY <1>5, Phases
  <2>5. WaitSteps \in Nat /\ WaitSteps > 0
    BY UnitSteps
  <2> QED
    BY <2>2, <2>3, <2>4, <2>5
<1>6. CASE pc = "checking"
  <2>1. Len(todo) - 1 \in Nat /\ round \in 1..3 /\ Left(tries, Checks) \in Nat
    BY <1>6, MeasureTypes, LeftType, UnitSteps
  <2>2. ExecuteSteps(Len(todo) - 1, round) \in Nat
    BY <2>1, ExecuteBounds
  <2> QED
    BY <1>6, <2>1, <2>2, Phases
<1>7. CASE pc \in {"probing", "failing"}
  <2>1. /\ Left(tries, Attempts) \in Nat /\ Left(at, 4) \in Nat
        /\ (3 - round) * RetrySteps \in Nat
    BY MeasureTypes, LeftType, ExecuteBounds, UnitSteps
  <2> QED
    BY <1>7, <2>1, Phases
<1> QED
  BY <1>1, <1>2, <1>3, <1>4, <1>5, <1>6, <1>7, MeasureTypes DEF PC

\* A command that ends has none left.
LEMMA FinishUses ==
  ASSUME IInv, pc # "idle", \E o : Finish(o)
  PROVE  StepsLeft' < StepsLeft
<1>1. pc' = "idle"
  BY DEF Finish
<1>2. StepsLeft' = 0
  BY <1>1, PhasesPrimed
<1> QED
  BY <1>2, StepsLeftType

\* An operation is two programs at most, and a start is one.
LEMMA StepsLength ==
  ASSUME config \in Config, NEW n \in Name, NEW v, Plannable(config, n, v),
         NEW action \in {"start", "stop", "restart"}
  PROVE  Len(Steps(n, action)) \in 1..2 /\ (action = "start" => Len(Steps(n, action)) = 1)
<1>1. Is(n, "launchd") \/ Is(n, "podman_compose") \/ Is(n, "podman_machine")
  BY DEF Plannable, Manager, Is
<1>2. \E p, q \in Program :
        /\ Programs(n, action) = <<p>> \/ Programs(n, action) = <<p, q>>
        /\ action = "start" => Programs(n, action) = <<p>>
  <2>1. CASE Is(n, "launchd")
    BY <2>1 DEF Programs, Program, Is
  <2>2. CASE Is(n, "podman_compose")
    BY <2>2 DEF Programs, Program, Is
  <2>3. CASE Is(n, "podman_machine")
    BY <2>3 DEF Programs, Program, Is
  <2> QED
    BY <1>1, <2>1, <2>2, <2>3
<1>3. PICK p \in Program, q \in Program :
        /\ Programs(n, action) = <<p>> \/ Programs(n, action) = <<p, q>>
        /\ action = "start" => Programs(n, action) = <<p>>
  BY <1>2
<1>4. CASE Programs(n, action) = <<p>>
  <2>1. Steps(n, action) = <<[name |-> n, program |-> p]>>
    BY <1>4 DEF Steps
  <2> QED
    BY <2>1
<1>5. CASE Programs(n, action) = <<p, q>> /\ action # "start"
  <2>1. Steps(n, action) = <<[name |-> n, program |-> p], [name |-> n, program |-> q]>>
    BY <1>5 DEF Steps
  <2> QED
    BY <2>1, <1>5
<1> QED
  BY <1>3, <1>4, <1>5

\* The search.
LEMMA ResolveUses ==
  ASSUME IInv, Resolve
  PROVE  StepsLeft' < StepsLeft
<1>1. /\ pc = "resolving" /\ Search
      /\ UNCHANGED <<config, goal, command, at, round>>
      /\ BringUp /\ OrderInv /\ at \in Nat \ {0}
  BY MeasureTypes DEF Resolve, fileVars, jobVars, loopVars, IInv, PlaceInv
<1>2. StepsLeft = SearchSteps
  BY <1>1, Phases
<1>3. OrderInv'
  BY <1>1, SearchKeeps
<1>4. verdict' \in {"cyclic", "missing"} \/ SearchSteps' < SearchSteps
  BY <1>1, SearchUses
<1>5. CASE verdict' = "pending"
  <2>1. pc' = "resolving"
    BY <1>1, <1>5 DEF Resolve
  <2> QED
    BY <1>2, <1>4, <1>5, <2>1, PhasesPrimed
<1>6. CASE verdict' = "ok"
  <2>1. pc' = "loading" /\ Listed' = ordered' /\ at' = at
    BY <1>1, <1>6 DEF Resolve, Listed, BringUp
  <2> DEFINE k == Len(ordered')
  <2>2. k \in Nat
    BY <1>3, LenProperties DEF OrderInv, OrderTypeOK
  <2>3. StepsLeft' = LoadSteps(Left(at, k + 1), k)
    <3>1. StepsLeft' = LoadSteps(Left(at, Len(Listed) + 1), Len(Listed))'
      BY <2>1, PhasesPrimed
    <3> QED
      BY <3>1, <2>1
         DEF LoadSteps, Left, ReadSteps, ExecuteSteps, ProgramSteps, WaitSteps, RetrySteps
  <2>4. SearchSteps' = Visits' + LoadSteps(k, k)
    BY DEF SearchSteps, LoadSteps, ReadSteps, ExecuteSteps, ProgramSteps, WaitSteps, RetrySteps
  <2>5. Visits \in Nat /\ Visits' \in Nat
    BY <1>1, <1>3, VisitsType, VisitsTypePrimed
  <2> HIDE DEF k
  <2>6. Left(at, k + 1) \in Nat /\ Left(at, k + 1) <= k
    <3>1. at \in Nat /\ at > 0 /\ k + 1 \in Nat
      BY <1>1, <2>2
    <3> QED
      BY <2>2, <3>1, LeftType
  <2>7. LoadSteps(k, k) \in Nat /\ LoadSteps(Left(at, k + 1), k) \in Nat
        /\ LoadSteps(Left(at, k + 1), k) <= LoadSteps(k, k)
    <3>1. CASE Left(at, k + 1) = k
      BY <2>2, <3>1, LoadBounds
    <3>2. CASE Left(at, k + 1) # k
      <4>1. PICK g \in Nat : g = Left(at, k + 1) /\ g < k
        BY <2>2, <2>6, <3>2
      <4>2. LoadSteps(g, k) \in Nat /\ LoadSteps(k, k) \in Nat
        BY <2>2, LoadBounds
      <4>3. LoadSteps(g, k) < LoadSteps(k, k)
        BY <2>2, <4>1, LoadBounds
      <4> QED
        BY <4>1, <4>2, <4>3
    <3> QED
      BY <3>1, <3>2
  <2>8. SearchSteps' < SearchSteps /\ SearchSteps \in Nat
    <3>1. LoadSteps(Len(ordered), Len(ordered)) \in Nat
      BY MeasureTypes, LoadBounds
    <3> QED
      BY <1>4, <1>6, <2>5, <3>1 DEF SearchSteps
  <2> QED
    BY <1>2, <2>3, <2>4, <2>5, <2>7, <2>8
<1>7. CASE verdict' # "pending" /\ verdict' # "ok"
  <2>1. Finish("order error")
    BY <1>7 DEF Resolve
  <2> QED
    BY <1>1, <2>1, FinishUses
<1> QED
  BY <1>5, <1>6, <1>7

\* Planning.
LEMMA LoadEnvUses ==
  ASSUME IInv, LoadEnv
  PROVE  StepsLeft' < StepsLeft
<1>1. /\ pc = "loading" /\ at <= Len(Listed) /\ Listed' = Listed
      /\ (\E o : Finish(o)) \/ (at' = at + 1 /\ pc' = pc)
  BY DEF LoadEnv, Listed, BringUp, jobVars, searchVars
<1>2. CASE \E o : Finish(o)
  BY <1>1, <1>2, FinishUses
<1>3. CASE at' = at + 1 /\ pc' = pc
  <2> DEFINE k == Len(Listed)
  <2>1. at \in Nat /\ k \in Nat /\ at <= k
    BY <1>1, MeasureTypes
  <2>2. StepsLeft = LoadSteps(Left(at, k + 1), k)
    BY <1>1, Phases
  <2>3. StepsLeft' = LoadSteps(Left(at + 1, k + 1), k)
    <3>1. StepsLeft' = LoadSteps(Left(at, Len(Listed) + 1), Len(Listed))'
      BY <1>1, <1>3, PhasesPrimed
    <3> QED
      BY <1>1, <1>3, <3>1
         DEF LoadSteps, Left, ReadSteps, ExecuteSteps, ProgramSteps, WaitSteps, RetrySteps
  <2> HIDE DEF k
  <2>4. PICK f \in Nat, g \in Nat : f = Left(at, k + 1) /\ g = Left(at + 1, k + 1) /\ g < f
    <3>1. at + 1 <= k + 1 /\ at <= k + 1 /\ at + 1 \in Nat /\ k + 1 \in Nat
      BY <2>1
    <3> QED
      BY <2>1, <3>1 DEF Left
  <2> QED
    BY <2>1, <2>2, <2>3, <2>4, LoadBounds
<1> QED
  BY <1>1, <1>2, <1>3

LEMMA PlanBlindlyUses ==
  ASSUME IInv, PlanBlindly
  PROVE  StepsLeft' < StepsLeft
<1>1. pc = "loading" /\ PlaceInv /\ TypeOK /\ UNCHANGED round
  BY DEF PlanBlindly, loopVars, IInv, TypeInv
<1>2. CASE \E o : Finish(o)
  BY <1>1, <1>2, FinishUses
<1>3. CASE ~\E o : Finish(o)
  <2>1. /\ ~BringUp /\ pc' = "running" /\ todo' = Steps(goal, command.kind)
        /\ \A i \in DOMAIN Listed : Plannable(config, Listed[i], env)
    BY <1>3 DEF PlanBlindly, Execute
  <2>2. Listed = <<goal>>
    BY <2>1 DEF Listed
  <2>3. Plannable(config, goal, env)
    BY <2>1, <2>2
  <2>4. goal \in Name /\ config \in Config /\ command.kind \in {"start", "stop", "restart"}
    BY <1>1, <2>1 DEF TypeOK, OrderTypeOK, PlaceInv, BringUp, ServiceCommand
  <2>5. Len(todo') \in 1..2
    BY <2>1, <2>3, <2>4, StepsLength
  <2>6. round' = 1
    BY <1>1 DEF PlaceInv
  <2>7. StepsLeft' = ExecuteSteps(Len(todo'), 1)
    <3>1. StepsLeft' = ExecuteSteps(Len(todo), round)'
      BY <2>1, PhasesPrimed
    <3> QED
      BY <3>1, <2>6 DEF ExecuteSteps, ProgramSteps, WaitSteps, RetrySteps
  <2>8. Len(Listed) = 1
    BY <2>2
  <2>9. PICK f \in Nat : StepsLeft = LoadSteps(f, 1)
    <3>1. Left(at, Len(Listed) + 1) \in Nat
      BY MeasureTypes, LeftType
    <3> QED
      BY <1>1, <2>8, <3>1, Phases
  <2>10. ReadSteps(1, 0) < LoadSteps(f, 1) /\ LoadSteps(f, 1) \in Nat /\ ReadSteps(1, 0) \in Nat
    <3>1. 1 \in Nat /\ 0 \in Nat
      OBVIOUS
    <3> QED
      BY <3>1, LoadBounds, ReadBounds
  <2>11. ReadSteps(1, 0) = 2 + ExecuteSteps(2, 1)
    <3>1. 0 + 2 * 1 = 2 /\ 1 + 1 = 2
      OBVIOUS
    <3> QED
      BY <3>1 DEF ReadSteps
  <2>12. /\ ExecuteSteps(Len(todo'), 1) <= ExecuteSteps(2, 1)
         /\ ExecuteSteps(Len(todo'), 1) \in Nat /\ ExecuteSteps(2, 1) \in Nat
    <3>1. PICK l \in Nat : l = Len(todo') /\ l <= 2
      <4>1. \A x \in 1..2 : x \in Nat /\ x <= 2
        OBVIOUS
      <4> QED
        BY <2>5, <4>1
    <3>2. 2 \in Nat /\ 1 \in 1..3
      OBVIOUS
    <3>3. ExecuteSteps(l, 1) \in Nat /\ ExecuteSteps(2, 1) \in Nat
      BY <3>2, ExecuteBounds
    <3>4. ExecuteSteps(l, 1) <= ExecuteSteps(2, 1)
      BY <3>1, <3>2, ExecuteBounds
    <3> QED
      BY <3>1, <3>3, <3>4
  <2> QED
    BY <2>7, <2>9, <2>10, <2>11, <2>12
<1> QED
  BY <1>2, <1>3

LEMMA ReadGoalUses ==
  ASSUME IInv, ReadGoal
  PROVE  StepsLeft' < StepsLeft
<1>1. pc = "loading" /\ PlaceInv /\ BringUp /\ UNCHANGED ordered
  BY DEF ReadGoal, searchVars, IInv
<1>2. CASE \E o : Finish(o)
  BY <1>1, <1>2, FinishUses
<1>3. CASE ~\E o : Finish(o)
  <2>1. pc' = "reading" /\ at' = 1 /\ todo' = todo
    BY <1>3 DEF ReadGoal
  <2>2. todo = <<>> /\ Len(todo) = 0
    BY <1>1 DEF PlaceInv
  <2> DEFINE k == Len(ordered)
  <2>3. k \in Nat /\ Listed = ordered
    BY <1>1, MeasureTypes DEF Listed
  <2>4. StepsLeft' = ReadSteps(Left(1, k + 1), 0)
    <3>1. StepsLeft' = ReadSteps(Left(at, Len(ordered) + 1), Len(todo))'
      BY <2>1, PhasesPrimed
    <3> QED
      BY <1>1, <2>1, <2>2, <3>1
         DEF Left, ReadSteps, ExecuteSteps, ProgramSteps, WaitSteps, RetrySteps
  <2>5. Left(1, k + 1) = k
    BY <2>3 DEF Left
  <2>6. PICK f \in Nat : StepsLeft = LoadSteps(f, k)
    <3>1. Left(at, Len(Listed) + 1) \in Nat
      BY MeasureTypes, LeftType
    <3> QED
      BY <1>1, <2>3, <3>1, Phases
  <2> HIDE DEF k
  <2>7. ReadSteps(k, 0) < LoadSteps(f, k)
    BY <2>3, LoadBounds
  <2> QED
    BY <2>4, <2>5, <2>6, <2>7
<1> QED
  BY <1>2, <1>3

LEMMA ReadNextUses ==
  ASSUME IInv, ReadNext
  PROVE  StepsLeft' < StepsLeft
<1>1. pc = "reading" /\ at \in 1..Len(ordered) /\ ordered[at] \in Name /\ UNCHANGED ordered
  BY ReadNextEffect DEF ReadNext, searchVars
<1>2. CASE \E o : Finish(o)
  BY <1>1, <1>2, FinishUses
<1>3. CASE ~\E o : Finish(o)
  <2>1. /\ at' = at + 1 /\ pc' = pc
        /\ \/ todo' = todo
           \/ \E action \in {"start", "restart"} :
                /\ Plannable(config, ordered[at], env)
                /\ todo' = todo \o Steps(ordered[at], action)
    BY <1>3, ReadNextEffect
  <2> DEFINE k == Len(ordered)
             n == Len(todo)
             m == Len(todo')
  <2>2. k \in Nat /\ n \in Nat /\ at \in Nat /\ at <= k
    BY <1>1, MeasureTypes
  <2>3. m \in n..(n + 2)
    <3>1. CASE todo' = todo
      BY <2>2, <3>1
    <3>2. CASE todo' # todo
      <4>1. PICK action \in {"start", "restart"} :
              /\ Plannable(config, ordered[at], env)
              /\ todo' = todo \o Steps(ordered[at], action)
        BY <2>1, <3>2
      <4> DEFINE b == Steps(ordered[at], action)
      <4>2. config \in Config /\ todo \in Seq(Step)
        BY DEF IInv, TypeInv, TypeOK, OrderTypeOK, Step
      <4>3. Len(b) \in 1..2 /\ b \in Seq(Step)
        BY <1>1, <4>1, <4>2, StepsLength, StepsType
      <4> HIDE DEF b
      <4>4. Len(todo \o b) = Len(todo) + Len(b)
        BY <4>2, <4>3, ConcatProperties
      <4>5. m = n + Len(b)
        BY <4>1, <4>4 DEF b
      <4>6. \A x \in 1..2, y \in Nat : y + x \in y..(y + 2)
        OBVIOUS
      <4> HIDE DEF m, n
      <4> QED
        BY <2>2, <4>3, <4>5, <4>6, Zenon
    <3> QED
      BY <3>1, <3>2
  <2>4. StepsLeft = ReadSteps(Left(at, k + 1), n)
    BY <1>1, Phases
  <2>5. StepsLeft' = ReadSteps(Left(at + 1, k + 1), m)
    <3>1. StepsLeft' = ReadSteps(Left(at, Len(ordered) + 1), Len(todo))'
      BY <1>1, <2>1, PhasesPrimed
    <3> QED
      BY <1>1, <2>1, <3>1
         DEF Left, ReadSteps, ExecuteSteps, ProgramSteps, WaitSteps, RetrySteps
  <2> HIDE DEF k, n, m
  <2>6. PICK s \in Nat : Left(at + 1, k + 1) = s /\ Left(at, k + 1) = s + 1
    <3>1. /\ at + 1 <= k + 1 /\ at <= k + 1
          /\ k - at \in Nat /\ (k + 1) - (at + 1) = k - at /\ (k + 1) - at = (k - at) + 1
      BY <2>2
    <3> QED
      BY <3>1 DEF Left
  <2>7. ReadSteps(s, m) < ReadSteps(s + 1, n)
    BY <2>2, <2>3, ReadBounds
  <2> QED
    BY <2>4, <2>5, <2>6, <2>7
<1> QED
  BY <1>2, <1>3

LEMMA PlannedUses ==
  ASSUME IInv, Planned
  PROVE  StepsLeft' < StepsLeft
<1>1. /\ pc = "reading" /\ pc' = "running" /\ todo' = todo /\ round' = round /\ round = 1
  BY DEF Planned, planVars, loopVars, IInv, PlaceInv
<1>2. Len(todo) \in Nat /\ Left(at, Len(ordered) + 1) \in Nat
  BY MeasureTypes, LeftType
<1>3. StepsLeft = ReadSteps(Left(at, Len(ordered) + 1), Len(todo))
  BY <1>1, Phases
<1>4. StepsLeft' = ExecuteSteps(Len(todo), 1)
  <2>1. StepsLeft' = ExecuteSteps(Len(todo), round)'
    BY <1>1, PhasesPrimed
  <2> QED
    BY <1>1, <2>1 DEF ExecuteSteps, ProgramSteps, WaitSteps, RetrySteps
<1> QED
  BY <1>2, <1>3, <1>4, ReadBounds

\* The programs.
LEMMA RunProgramUses ==
  ASSUME IInv, RunProgram
  PROVE  StepsLeft' < StepsLeft
<1>1. /\ pc = "running" /\ todo # <<>> /\ round' = round
      /\ \/ pc' = "checking" /\ tries' = 1 /\ todo' = todo
         \/ pc' = "running" /\ todo' = Tail(todo)
  BY DEF RunProgram
<1> DEFINE k == Len(todo) - 1
<1>2. k \in Nat /\ Len(todo) = k + 1 /\ Len(Tail(todo)) = k /\ round \in 1..3
  <2>1. Len(todo) \in Nat \ {0} /\ Len(Tail(todo)) = Len(todo) - 1
    BY <1>1, PlanType DEF IInv, TypeInv
  <2> QED
    BY <2>1, MeasureTypes
<1>3. StepsLeft = ExecuteSteps(k + 1, round)
  BY <1>1, <1>2, Phases
<1>4. /\ ExecuteSteps(k, round) \in Nat
      /\ ExecuteSteps(k + 1, round) = ExecuteSteps(k, round) + ProgramSteps
  <2>1. k \in Nat /\ round \in 1..3
    BY <1>2
  <2> HIDE DEF k
  <2> QED
    BY <2>1, ExecuteBounds
<1>5. CASE pc' = "checking" /\ tries' = 1 /\ todo' = todo
  <2>1. StepsLeft' = (Left(tries, Checks) + 1 + ExecuteSteps(Len(todo) - 1, round))'
    BY <1>5, PhasesPrimed
  <2>2. StepsLeft' = Left(1, Checks) + 1 + ExecuteSteps(k, round)
    BY <1>1, <1>5, <2>1 DEF Left, ExecuteSteps, ProgramSteps, WaitSteps, RetrySteps
  <2>3. Left(1, Checks) = Checks - 1
    BY BelterAssumption DEF Left
  <2> HIDE DEF k
  <2> QED
    BY <1>3, <2>2, <2>3, <1>4, UnitSteps
<1>6. CASE pc' = "running" /\ todo' = Tail(todo)
  <2>1. StepsLeft' = ExecuteSteps(Len(todo), round)'
    BY <1>6, PhasesPrimed
  <2>2. StepsLeft' = ExecuteSteps(k, round)
    BY <1>1, <1>2, <1>6, <2>1 DEF ExecuteSteps, ProgramSteps, WaitSteps, RetrySteps
  <2> HIDE DEF k
  <2> QED
    BY <1>3, <2>2, <1>4, UnitSteps
<1> QED
  BY <1>1, <1>5, <1>6

LEMMA MachineReadyUses ==
  ASSUME IInv, MachineReady
  PROVE  StepsLeft' < StepsLeft
<1>1. pc = "checking" /\ todo # <<>> /\ pc' = "running" /\ todo' = Tail(todo) /\ round' = round
  BY DEF MachineReady, loopVars, IInv, PlaceInv
<1> DEFINE k == Len(todo) - 1
<1>2. k \in Nat /\ Len(todo') = k /\ round \in 1..3
  <2>1. Len(todo) \in Nat \ {0} /\ Len(Tail(todo)) = Len(todo) - 1
    BY <1>1, PlanType DEF IInv, TypeInv
  <2> QED
    BY <1>1, <2>1, MeasureTypes
<1>3. StepsLeft = Left(tries, Checks) + 1 + ExecuteSteps(k, round)
  BY <1>1, Phases
<1>4. StepsLeft' = ExecuteSteps(k, round)
  <2>1. StepsLeft' = ExecuteSteps(Len(todo), round)'
    BY <1>1, PhasesPrimed
  <2> QED
    BY <1>1, <1>2, <2>1 DEF ExecuteSteps, ProgramSteps, WaitSteps, RetrySteps
<1> HIDE DEF k
<1>5. ExecuteSteps(k, round) \in Nat /\ Left(tries, Checks) \in Nat
  BY <1>2, MeasureTypes, ExecuteBounds, LeftType, UnitSteps
<1> QED
  BY <1>3, <1>4, <1>5

\* A pass of the machine's start.
LEMMA MachineWaitUses ==
  ASSUME IInv, MachineStartsAgain \/ MachineNotReady
  PROVE  StepsLeft' < StepsLeft
<1>1. pc = "checking" /\ round' = round
  BY DEF MachineStartsAgain, MachineNotReady
<1>2. CASE \E o : Finish(o)
  BY <1>1, <1>2, FinishUses
<1>3. CASE ~\E o : Finish(o)
  <2>1. tries < Checks /\ tries' = tries + 1 /\ pc' = pc /\ todo' = todo
    BY <1>3 DEF MachineStartsAgain, MachineNotReady, StartsAgain
  <2> DEFINE e == ExecuteSteps(Len(todo) - 1, round)
  <2>2. StepsLeft = Left(tries, Checks) + 1 + e
    BY <1>1, Phases
  <2>3. StepsLeft' = Left(tries + 1, Checks) + 1 + e
    <3>1. StepsLeft' = (Left(tries, Checks) + 1 + ExecuteSteps(Len(todo) - 1, round))'
      BY <1>1, <2>1, PhasesPrimed
    <3> QED
      BY <1>1, <2>1, <3>1 DEF Left, ExecuteSteps, ProgramSteps, WaitSteps, RetrySteps
  <2>4. e \in Nat
    <3>1. Len(todo) - 1 \in Nat /\ round \in 1..3
      BY <1>1, MeasureTypes
    <3> QED
      BY <3>1, ExecuteBounds
  <2> HIDE DEF e
  <2>5. tries \in Nat /\ Checks \in Nat
    BY MeasureTypes, UnitSteps
  <2>6. /\ Left(tries, Checks) = Left(tries + 1, Checks) + 1
        /\ Left(tries + 1, Checks) \in Nat
    BY <2>1, <2>5 DEF Left
  <2> QED
    BY <2>2, <2>3, <2>4, <2>6
<1> QED
  BY <1>2, <1>3

LEMMA ExecutedUses ==
  ASSUME IInv, Executed
  PROVE  StepsLeft' < StepsLeft
<1>1. pc = "running" /\ todo = <<>> /\ Len(todo) = 0 /\ round' = round
  BY DEF Executed
<1>2. CASE \E o : Finish(o)
  BY <1>1, <1>2, FinishUses
<1>3. CASE ~\E o : Finish(o)
  <2>1. pc' = "probing" /\ tries' = 1 /\ at' = 1
    BY <1>3 DEF Executed
  <2> DEFINE rest == (3 - round) * RetrySteps
  <2>2. round \in 1..3
    BY MeasureTypes
  <2>3. StepsLeft = WaitSteps + rest /\ rest \in Nat
    <3>1. StepsLeft = ExecuteSteps(0, round)
      BY <1>1, Phases
    <3> QED
      BY <2>2, <3>1, ExecuteBounds
  <2>4. StepsLeft' = 4 * Left(1, Attempts) + Left(1, 4) + 2 + rest
    <3>1. StepsLeft' = (4 * Left(tries, Attempts) + Left(at, 4) + 2 + (3 - round) * RetrySteps)'
      BY <2>1, PhasesPrimed
    <3> QED
      BY <1>1, <2>1, <3>1 DEF Left, ProgramSteps, WaitSteps, RetrySteps
  <2> HIDE DEF rest
  <2>5. Left(1, Attempts) = Attempts - 1 /\ Left(1, 4) = 3
    BY BelterAssumption DEF Left
  <2> QED
    BY <2>3, <2>4, <2>5, UnitSteps
<1> QED
  BY <1>2, <1>3

\* The readiness of mempool: a request uses up a step, another pass four.
LEMMA AwaitUses ==
  ASSUME IInv, Await
  PROVE  StepsLeft' < StepsLeft
<1>1. pc = "probing" /\ round' = round /\ at \in 1..4
  BY DEF Await, ProbeGoesOn, MempoolReady, MempoolNotReady, loopVars, IInv, PlaceInv
<1> DEFINE rest == (3 - round) * RetrySteps
<1>2. rest \in Nat /\ Left(tries, Attempts) \in Nat /\ Left(at, 4) \in Nat
  BY <1>1, MeasureTypes, ExecuteBounds, LeftType, UnitSteps
<1>3. StepsLeft = 4 * Left(tries, Attempts) + Left(at, 4) + 2 + rest
  BY <1>1, Phases
<1>4. CASE \E o : Finish(o)
  BY <1>1, <1>4, FinishUses
<1>5. ASSUME pc' = pc PROVE StepsLeft' = 4 * Left(tries', Attempts) + Left(at', 4) + 2 + rest
  <2>1. StepsLeft' = (4 * Left(tries, Attempts) + Left(at, 4) + 2 + (3 - round) * RetrySteps)'
    BY <1>1, <1>5, PhasesPrimed
  <2> QED
    BY <1>1, <2>1 DEF Left, ProgramSteps, WaitSteps, RetrySteps
<1> HIDE DEF rest
<1>6. CASE at < 4 /\ at' = at + 1 /\ tries' = tries /\ pc' = pc
  <2>1. Left(at, 4) = Left(at + 1, 4) + 1 /\ Left(at + 1, 4) \in Nat
    BY <1>1, <1>6 DEF Left
  <2> QED
    BY <1>2, <1>3, <1>5, <1>6, <2>1
<1>7. CASE tries < Attempts /\ tries' = tries + 1 /\ at' = 1 /\ pc' = pc
  <2>1. tries \in Nat /\ Attempts \in Nat
    BY MeasureTypes, UnitSteps
  <2>2. /\ Left(tries, Attempts) = Left(tries + 1, Attempts) + 1
        /\ Left(tries + 1, Attempts) \in Nat /\ Left(1, 4) = 3
    BY <1>7, <2>1 DEF Left
  <2> QED
    BY <1>2, <1>3, <1>5, <1>7, <2>2
<1>8. CASE pc' = "failing"
  <2>1. StepsLeft' = (1 + (3 - round) * RetrySteps)'
    BY <1>8, PhasesPrimed
  <2>2. StepsLeft' = 1 + rest
    BY <1>1, <2>1 DEF rest, ProgramSteps, WaitSteps, RetrySteps
  <2> QED
    BY <1>2, <1>3, <2>2
<1>9. CASE ProbeGoesOn
  <2>1. Len(Requests) = 4
    BY DEF Requests
  <2> QED
    BY <1>6, <1>9, <2>1 DEF ProbeGoesOn, loopVars
<1>10. CASE MempoolReady
  BY <1>4, <1>10 DEF MempoolReady
<1>11. CASE MempoolNotReady
  BY <1>7, <1>8, <1>11 DEF MempoolNotReady
<1> QED
  BY <1>9, <1>10, <1>11 DEF Await

\* A retry goes on to a later round, with three programs at most.
LEMMA RetryUses ==
  ASSUME IInv, pc = "failing", pc' = "running", round' \in 1..3, round < round',
         Len(todo') \in 0..3
  PROVE  StepsLeft' < StepsLeft
<1>1. StepsLeft = 1 + (3 - round) * RetrySteps
  BY Phases
<1>2. StepsLeft' = ExecuteSteps(Len(todo'), round')
  <2>1. StepsLeft' = ExecuteSteps(Len(todo), round)'
    BY PhasesPrimed
  <2> QED
    BY <2>1 DEF ExecuteSteps, ProgramSteps, WaitSteps, RetrySteps
<1>3. round \in 1..3
  BY MeasureTypes
<1>4. PICK k \in 0..3, q \in 1..3, r \in 1..3 : k = Len(todo') /\ q = round /\ r = round'
  BY <1>3
<1>5. ExecuteSteps(k, r) < 1 + (3 - q) * RetrySteps
  BY <1>4, RetryBounds
<1> QED
  BY <1>1, <1>2, <1>4, <1>5

LEMMA RetryServiceUses ==
  ASSUME IInv, RetryService
  PROVE  StepsLeft' < StepsLeft
<1>1. pc = "failing" /\ round = 1
  BY DEF RetryService, RetriesService
<1>2. pc' = "running" /\ todo' = Steps(Mempool, "restart") /\ round' = 2
  BY RetryServiceEffect
<1>3. Plannable(config, Mempool, env) /\ Mempool \in Name /\ config \in Config
  BY <1>1, RetryPlans, ConfigAssumption DEF IInv, TypeInv, TypeOK, OrderTypeOK
<1>4. Len(todo') \in 1..2
  BY <1>2, <1>3, StepsLength
<1>5. \A x \in 1..2 : x \in 0..3
  OBVIOUS
<1>6. Len(todo') \in 0..3
  BY <1>4, <1>5
<1> QED
  BY <1>1, <1>2, <1>6, RetryUses

LEMMA RetryRuntimeUses ==
  ASSUME IInv, RetryRuntime
  PROVE  StepsLeft' < StepsLeft
<1>1. pc = "failing" /\ round < 3 /\ round \in 1..3 /\ config \in Config /\ Mempool \in Name
  BY MeasureTypes, ConfigAssumption DEF RetryRuntime, IInv, TypeInv, TypeOK, OrderTypeOK
<1>2. CASE \E o : Finish(o)
  BY <1>1, <1>2, FinishUses
<1>3. CASE ~\E o : Finish(o)
  <2> DEFINE a == Steps(Runtime, "restart")
             b == Steps(Mempool, "start")
  <2>1. Machines # {} /\ pc' = "running" /\ round' = 3 /\ todo' = a \o b
    BY <1>3, RetryRuntimeEffect
  <2>2. Plannable(config, Runtime, env) /\ Runtime \in Name /\ Plannable(config, Mempool, env)
    BY <1>1, <2>1, RetryPlans, RetriesReadable
  <2>3. Len(a) \in 1..2 /\ a \in Seq(Step)
    BY <1>1, <2>2, StepsLength, StepsType
  <2>4. Len(b) = 1 /\ b \in Seq(Step)
    BY <1>1, <2>2, StepsLength, StepsType
  <2> HIDE DEF a, b
  <2>5. Len(todo') = Len(a) + 1
    <3>1. Len(a \o b) = Len(a) + Len(b)
      BY <2>3, <2>4, ConcatProperties
    <3> QED
      BY <2>1, <2>4, <3>1
  <2>6. \A x \in 1..2 : x + 1 \in 0..3
    OBVIOUS
  <2>7. Len(todo') \in 0..3
    BY <2>3, <2>5, <2>6
  <2> QED
    BY <1>1, <2>1, <2>7, RetryUses
<1> QED
  BY <1>2, <1>3

----------------------------------------------------------------------------
(* The steps run out *)

\* Each step of a command uses up steps.
LEMMA ProceedUses ==
  ASSUME IInv, Proceed
  PROVE  StepsLeft' < StepsLeft
<1>1. CASE ProgramFails \/ GiveUp
  <2>1. pc # "idle" /\ \E o : Finish(o)
    BY <1>1 DEF ProgramFails, GiveUp
  <2> QED
    BY <2>1, FinishUses
<1> QED
  BY <1>1, ResolveUses, LoadEnvUses, PlanBlindlyUses, ReadGoalUses, ReadNextUses, PlannedUses,
     RunProgramUses, MachineReadyUses, MachineWaitUses, ExecutedUses, AwaitUses,
     RetryServiceUses, RetryRuntimeUses
  DEF Proceed

\* The host changes nothing that the steps are counted by.
LEMMA HostKeeps ==
  ASSUME UNCHANGED <<fileVars, jobVars, searchVars, pc, planVars, loopVars>>
  PROVE  StepsLeft' = StepsLeft
<1>1. UNCHANGED <<config, goal, command, path, next, ordered, pc, at, todo, round, tries>>
  BY DEF fileVars, jobVars, searchVars, planVars, loopVars
<1>2. \A n : VisitSteps(n)' = VisitSteps(n)
  BY <1>1 DEF VisitSteps, DependsOn, ProgramSteps
<1>3. Visits' = Visits
  BY <1>2 DEF Visits
<1>4. Listed' = Listed
  BY <1>1 DEF Listed, BringUp
<1> QED
  BY <1>1, <1>3, <1>4
  DEF StepsLeft, Visits, LoadSteps, ReadSteps, ExecuteSteps, Left, ProgramSteps, WaitSteps,
      RetrySteps

\* Every command has a number of steps left, each of its steps leaves fewer,
\* and nothing that the host does leaves more: neither resolve_bring_up_order
\* nor start_with, wait_for_mempool_readiness or the retries go on for ever.
THEOREM CommandsRunOut == Spec => StepsRunOut
<1>1. IInv /\ [Next]_vars =>
        [/\ StepsLeft \in Nat
         /\ pc # "idle" => \/ StepsLeft' < StepsLeft
                           \/ StepsLeft' = StepsLeft /\ (Disturb \/ ComesUp)]_vars
  <2> SUFFICES ASSUME IInv, Next, pc # "idle"
               PROVE  \/ StepsLeft' < StepsLeft
                      \/ StepsLeft' = StepsLeft /\ (Disturb \/ ComesUp)
    BY StepsLeftType
  <2>1. Proceed \/ Disturb \/ ComesUp
    BY DEF Next, Invoke, InitFile, ValidateFile, Configure, Idle
  <2>2. CASE Disturb \/ ComesUp
    <3>1. StepsLeft' = StepsLeft
      BY <2>2, HostKeeps DEF Disturb, ComesUp
    <3> QED
      BY <2>2, <3>1
  <2> QED
    BY <2>1, <2>2, ProceedUses
<1> QED
  BY <1>1, Invariance, PTL DEF Spec, StepsRunOut

=============================================================================
