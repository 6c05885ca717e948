-------------------------- MODULE DependencyProofs --------------------------
(***************************************************************************)
(* The search over the dependencies is right for every configuration, of   *)
(* any size: proved of DependencyOrder.                                    *)
(***************************************************************************)
EXTENDS DependencyOrder, SequenceTheorems, TLAPS

\* The call stack: no service twice, none that was visited, each called by
\* the loop of the one below it; what a loop is past was visited.
StackInv ==
  /\ \A i, j \in 1..Len(path) : path[i] = path[j] => i = j
  /\ \A i \in 1..Len(path) :
       /\ path[i] \notin Range(ordered)
       /\ path[i] \in Closure
       /\ config[path[i]] # Absent
       /\ next[path[i]] <= Len(DependsOn(path[i])) + 1
       /\ \A j \in 1..(next[path[i]] - 1) : DependsOn(path[i])[j] \in Range(ordered)
  /\ \A i \in 1..(Len(path) - 1) :
       /\ next[path[i]] <= Len(DependsOn(path[i]))
       /\ DependsOn(path[i])[next[path[i]]] = path[i + 1]
  /\ path # <<>> => path[1] = goal
  /\ verdict = "pending" /\ path = <<>> => ordered = <<>>

\* The list: no service twice, all that a service needs before it, and no
\* cycle among what was visited.
ListInv ==
  /\ \A i, j \in 1..Len(ordered) : ordered[i] = ordered[j] => i = j
  /\ \A i \in 1..Len(ordered) :
       /\ ordered[i] \in Closure
       /\ config[ordered[i]] # Absent
       /\ Needs(ordered[i]) \subseteq {ordered[j] : j \in 1..(i - 1)}
  /\ \A S \in SUBSET Range(ordered) : ~Entangled(S)

\* The verdicts, once given.
VerdictInv ==
  /\ verdict = "ok" => path = <<>> /\ goal \in Range(ordered)
  /\ verdict = "cyclic" => \E S \in SUBSET Closure : Entangled(S)
  /\ verdict = "missing" => \E n \in Closure : config[n] = Absent

OrderInv == OrderTypeOK /\ StackInv /\ ListInv /\ VerdictInv

----------------------------------------------------------------------------
(* What a configuration is *)

\* The dependencies of a configured service are a sequence of names.
LEMMA DependsType ==
  ASSUME config \in Config, NEW n \in Name, config[n] # Absent
  PROVE  /\ DependsOn(n) \in Seq(Name)
         /\ Needs(n) = {DependsOn(n)[i] : i \in 1..Len(DependsOn(n))}
<1>1. config[n] \in Service
  BY DEF Config
<1>2. DependsOn(n) \in Seq(Name)
  BY <1>1 DEF Service, DependsOn
<1>3. DOMAIN DependsOn(n) = 1..Len(DependsOn(n))
  BY <1>2
<1> QED
  BY <1>2, <1>3 DEF Needs, Range

\* What a service needs are names.
LEMMA NeedsType ==
  ASSUME config \in Config, NEW n \in Name
  PROVE  Needs(n) \in SUBSET Name
<1>1. CASE config[n] = Absent
  BY <1>1 DEF Needs
<1>2. CASE config[n] # Absent
  BY <1>2, DependsType, ElementOfSeq
<1> QED
  BY <1>1, <1>2

\* The closure holds the goal, and what its elements need.
LEMMA ClosureClosed ==
  ASSUME config \in Config, goal \in Name
  PROVE  /\ goal \in Closure
         /\ \A m \in Closure : Needs(m) \subseteq Closure
<1>1. goal \in Closure
  BY DEF Closure
<1>2. ASSUME NEW m \in Closure, NEW n \in Needs(m) PROVE n \in Closure
  <2>1. m \in Name /\ n \in Name
    BY NeedsType, <1>2 DEF Closure
  <2>2. ASSUME NEW S \in SUBSET Name, goal \in S, \A k \in S : Needs(k) \subseteq S
        PROVE  n \in S
    <3>1. m \in S
      BY <2>2 DEF Closure
    <3> QED
      BY <3>1, <2>2
  <2> QED
    BY <2>1, <2>2 DEF Closure
<1> QED
  BY <1>1, <1>2

\* The range of a sequence, by its indices.
LEMMA RangeSeq ==
  ASSUME NEW s \in Seq(Name)
  PROVE  Range(s) = {s[i] : i \in 1..Len(s)}
BY DEF Range

\* What Append adds.
LEMMA AppendSeq ==
  ASSUME NEW s \in Seq(Name), NEW x \in Name
  PROVE  /\ Append(s, x) \in Seq(Name)
         /\ Len(Append(s, x)) = Len(s) + 1
         /\ \A i \in 1..Len(s) : Append(s, x)[i] = s[i]
         /\ Append(s, x)[Len(s) + 1] = x
         /\ Range(Append(s, x)) = Range(s) \cup {x}
<1>1. /\ Append(s, x) \in Seq(Name)
      /\ Len(Append(s, x)) = Len(s) + 1
      /\ \A i \in 1..Len(s) : Append(s, x)[i] = s[i]
      /\ Append(s, x)[Len(s) + 1] = x
  BY AppendProperties
<1>2. Len(s) \in Nat
  BY LenProperties
<1>3. ASSUME NEW y PROVE y \in Range(Append(s, x)) <=> y \in Range(s) \cup {x}
  <2>1. y \in Range(Append(s, x)) <=> \E i \in 1..(Len(s) + 1) : y = Append(s, x)[i]
    BY <1>1, RangeSeq
  <2>2. y \in Range(s) <=> \E i \in 1..Len(s) : y = s[i]
    BY RangeSeq
  <2>3. 1..(Len(s) + 1) = 1..Len(s) \cup {Len(s) + 1}
    BY <1>2
  <2> QED
    BY <2>1, <2>2, <2>3, <1>1
<1> QED
  BY <1>1, <1>3

\* What is left when the last element goes.
LEMMA PopSeq ==
  ASSUME NEW s \in Seq(Name), s # <<>>
  PROVE  /\ SubSeq(s, 1, Len(s) - 1) \in Seq(Name)
         /\ Len(s) \in Nat \ {0}
         /\ s[Len(s)] \in Name
         /\ Len(SubSeq(s, 1, Len(s) - 1)) = Len(s) - 1
         /\ \A i \in 1..(Len(s) - 1) : SubSeq(s, 1, Len(s) - 1)[i] = s[i]
<1>1. Len(s) \in Nat \ {0}
  BY LenProperties, EmptySeq
<1>2. s[Len(s)] \in Name
  BY <1>1, ElementOfSeq
<1>3. \A i \in 1..(Len(s) - 1) : s[i] \in Name
  BY <1>1, ElementOfSeq
<1>4. /\ SubSeq(s, 1, Len(s) - 1) \in Seq(Name)
      /\ Len(SubSeq(s, 1, Len(s) - 1)) =
           IF 1 <= Len(s) - 1 THEN (Len(s) - 1) - 1 + 1 ELSE 0
      /\ \A i \in 1..((Len(s) - 1) - 1 + 1) : SubSeq(s, 1, Len(s) - 1)[i] = s[1 + i - 1]
  <2>1. Len(s) - 1 \in Int /\ 1 \in Int
    BY <1>1
  <2> HIDE <1>1
  <2> QED
    BY <1>3, <2>1, SubSeqProperties
<1>5. Len(SubSeq(s, 1, Len(s) - 1)) = Len(s) - 1
  <2>1. \A k \in Nat \ {0} : (IF 1 <= k - 1 THEN (k - 1) - 1 + 1 ELSE 0) = k - 1
    OBVIOUS
  <2> HIDE <1>1
  <2> QED
    BY <1>1, <1>4, <2>1, Zenon
<1>6. \A i \in 1..(Len(s) - 1) : SubSeq(s, 1, Len(s) - 1)[i] = s[i]
  BY <1>1, <1>4
<1> QED
  BY <1>1, <1>2, <1>4, <1>5, <1>6

----------------------------------------------------------------------------
(* The steps of the search *)

\* The service that is visited is a name, and the goal needs it.
LEMMA VisitingType ==
  ASSUME OrderInv, Calls
  PROVE  Visiting \in Name /\ Visiting \in Closure
<1>1. config \in Config /\ goal \in Name
  BY DEF OrderInv, OrderTypeOK
<1>2. CASE path = <<>>
  BY <1>1, <1>2, ClosureClosed DEF Visiting
<1>3. CASE path # <<>>
  <2>1. /\ Len(path) \in Nat \ {0} /\ Top \in Name
        /\ Top \in Closure /\ config[Top] # Absent
    BY <1>3, PopSeq DEF OrderInv, OrderTypeOK, StackInv, Top
  <2>2. /\ DependsOn(Top) \in Seq(Name)
        /\ Needs(Top) = {DependsOn(Top)[i] : i \in 1..Len(DependsOn(Top))}
    BY <1>1, <2>1, DependsType
  <2>3. next[Top] \in 1..Len(DependsOn(Top))
    <3>1. next[Top] \in Nat \ {0} /\ Len(DependsOn(Top)) \in Nat
      BY <2>1, <2>2, LenProperties DEF OrderInv, OrderTypeOK
    <3>2. next[Top] <= Len(DependsOn(Top))
      BY <1>3 DEF Calls
    <3> QED
      BY <3>1, <3>2
  <2>4. Visiting \in Needs(Top)
    BY <1>3, <2>2, <2>3 DEF Visiting
  <2> QED
    BY <1>1, <2>1, <2>4, NeedsType, ClosureClosed
<1> QED
  BY <1>2, <1>3

\* A name that is not on the list is not the goal of a search that is over.
LEMMA PendingGoal ==
  ASSUME OrderInv, verdict = "pending", path = <<>>
  PROVE  ordered = <<>> /\ Range(ordered) = {}
<1>1. ordered = <<>>
  BY DEF OrderInv, StackInv
<1>2. ordered \in Seq(Name)
  BY DEF OrderInv, OrderTypeOK
<1>3. Len(ordered) = 0
  BY <1>1, EmptySeq
<1>4. Range(ordered) = {}
  <2>1. 1..Len(ordered) = {}
    BY <1>3
  <2> HIDE <1>1
  <2> QED
    BY <1>2, <2>1, RangeSeq
<1> QED
  BY <1>1, <1>4

LEMMA SkipKeeps ==
  ASSUME OrderInv, Skip, UNCHANGED <<config, goal>>
  PROVE  OrderInv'
<1>1. path # <<>>
  BY PendingGoal DEF Skip, Calls
<1>2. /\ Len(path) \in Nat \ {0} /\ Top \in Name /\ Top = path[Len(path)]
      /\ next[Top] \in Nat \ {0} /\ next \in [Name -> Nat \ {0}]
  BY <1>1, PopSeq DEF OrderInv, OrderTypeOK, Top
<1>3. /\ next[Top] <= Len(DependsOn(Top))
      /\ Visiting = DependsOn(Top)[next[Top]]
      /\ Visiting \in Range(ordered)
  BY <1>1 DEF Skip, Calls, Visiting
<1>4. /\ next' = [next EXCEPT ![Top] = next[Top] + 1]
      /\ UNCHANGED <<config, goal, path, ordered, verdict>>
  BY DEF Skip
<1>5. OrderTypeOK'
  BY <1>2, <1>4 DEF OrderInv, OrderTypeOK
<1>6. Closure' = Closure
  BY <1>4 DEF Closure, Needs, DependsOn
<1>7. StackInv'
  <2> USE <1>2, <1>4 DEF OrderInv, StackInv, DependsOn
  <2>1. \A i \in 1..Len(path) : path[i] \in Name
    BY ElementOfSeq DEF OrderTypeOK
  <2>2. ASSUME NEW i \in 1..(Len(path) - 1) PROVE path[i] # Top
    BY <2>2
  <2>3. ASSUME NEW i \in 1..Len(path)
        PROVE  /\ next'[path[i]] <= Len(DependsOn(path[i])) + 1
               /\ \A j \in 1..(next'[path[i]] - 1) :
                    DependsOn(path[i])[j] \in Range(ordered)
    <3>1. CASE path[i] = Top
      <4>1. Len(DependsOn(Top)) \in Nat
        <5>1. config[Top] # Absent /\ config \in Config
          BY DEF OrderTypeOK
        <5> QED
          BY <5>1, DependsType, LenProperties
      <4>2. next'[Top] = next[Top] + 1
        BY <1>2, <1>4
      <4>3. 1..(next'[Top] - 1) = 1..(next[Top] - 1) \cup {next[Top]}
        BY <4>2
      <4>4. \A j \in 1..(next[Top] - 1) : DependsOn(Top)[j] \in Range(ordered)
        BY <3>1
      <4>5. next'[Top] <= Len(DependsOn(Top)) + 1
        BY <4>1, <4>2, <1>3
      <4>6. \A j \in 1..(next'[Top] - 1) : DependsOn(Top)[j] \in Range(ordered)
        BY <4>3, <4>4, <1>3
      <4> HIDE DEF DependsOn, OrderInv, StackInv
      <4> QED
        BY <3>1, <4>5, <4>6, Zenon
    <3>2. CASE path[i] # Top
      BY <3>2, <2>1
    <3> QED
      BY <3>1, <3>2
  <2>4. ASSUME NEW i \in 1..(Len(path) - 1)
        PROVE  next'[path[i]] = next[path[i]]
    BY <2>1, <2>2
  <2> QED
    BY <1>6, <2>3, <2>4 DEF StackInv
<1>8. ListInv' /\ VerdictInv'
  BY <1>4, <1>6 DEF OrderInv, ListInv, VerdictInv, Needs, DependsOn, Entangled
<1> QED
  BY <1>5, <1>7, <1>8 DEF OrderInv

LEMMA DescendKeeps ==
  ASSUME OrderInv, Descend, UNCHANGED <<config, goal>>
  PROVE  OrderInv'
<1> DEFINE x == Visiting
<1>1. x \in Name /\ x \in Closure
  BY VisitingType DEF Descend
<1>2. /\ path \in Seq(Name) /\ Len(path) \in Nat
      /\ \A i \in 1..Len(path) : path[i] \in Name
      /\ next \in [Name -> Nat \ {0}]
  BY LenProperties, ElementOfSeq DEF OrderInv, OrderTypeOK
<1>3. /\ x \notin Range(ordered) /\ x \notin Range(path) /\ config[x] # Absent
      /\ path' = Append(path, x)
      /\ next' = [next EXCEPT ![x] = 1]
      /\ UNCHANGED <<config, goal, ordered, verdict>>
  BY DEF Descend
<1> HIDE DEF x
<1>4. /\ path' \in Seq(Name)
      /\ Len(path') = Len(path) + 1
      /\ \A i \in 1..Len(path) : path'[i] = path[i]
      /\ path'[Len(path) + 1] = x
  BY <1>1, <1>2, <1>3, AppendSeq
<1>5. OrderTypeOK'
  BY <1>1, <1>2, <1>3, <1>4 DEF OrderInv, OrderTypeOK
<1>6. Closure' = Closure
  BY <1>3 DEF Closure, Needs, DependsOn
<1>7. \A i \in 1..Len(path) : path[i] # x
  BY <1>2, <1>3, RangeSeq
<1>8. \A i \in 1..Len(path) : next'[path'[i]] = next[path[i]]
  BY <1>2, <1>3, <1>4, <1>7
<1>9. 1..Len(path') = 1..Len(path) \cup {Len(path) + 1}
  BY <1>2, <1>4
<1>10. StackInv'
  <2>1. ASSUME NEW i \in 1..Len(path'), NEW j \in 1..Len(path'), path'[i] = path'[j]
        PROVE  i = j
    <3>1. \A k \in 1..Len(path') : k \in 1..Len(path) \/ k = Len(path) + 1
      BY <1>9
    <3>2. CASE i \in 1..Len(path) /\ j \in 1..Len(path)
      BY <2>1, <3>2, <1>4 DEF OrderInv, StackInv
    <3>3. CASE i \in 1..Len(path) /\ j = Len(path) + 1
      BY <2>1, <3>3, <1>4, <1>7
    <3>4. CASE i = Len(path) + 1 /\ j \in 1..Len(path)
      BY <2>1, <3>4, <1>4, <1>7
    <3> QED
      BY <3>1, <3>2, <3>3, <3>4
  <2>2. ASSUME NEW i \in 1..Len(path')
        PROVE  /\ path'[i] \notin Range(ordered)
               /\ path'[i] \in Closure
               /\ config[path'[i]] # Absent
    BY <1>1, <1>3, <1>4, <1>9 DEF OrderInv, StackInv
  <2>3. ASSUME NEW i \in 1..Len(path')
        PROVE  /\ next'[path'[i]] <= Len(DependsOn(path'[i])) + 1
               /\ \A j \in 1..(next'[path'[i]] - 1) :
                    DependsOn(path'[i])[j] \in Range(ordered)
    <3>1. CASE i \in 1..Len(path)
      BY <3>1, <1>4, <1>8 DEF OrderInv, StackInv
    <3>2. CASE i = Len(path) + 1
      <4>1. next'[path'[i]] = 1 /\ path'[i] = x
        BY <3>2, <1>1, <1>2, <1>3, <1>4
      <4>2. Len(DependsOn(x)) \in Nat
        BY <1>1, <1>3, DependsType, LenProperties DEF OrderInv, OrderTypeOK
      <4> QED
        BY <4>1, <4>2
    <3> QED
      BY <1>9, <3>1, <3>2
  <2>4. ASSUME NEW i \in 1..(Len(path') - 1)
        PROVE  /\ next'[path'[i]] <= Len(DependsOn(path'[i]))
               /\ DependsOn(path'[i])[next'[path'[i]]] = path'[i + 1]
    <3>1. i \in 1..Len(path)
      BY <1>2, <1>4
    <3>2. CASE i \in 1..(Len(path) - 1)
      <4>1. path'[i + 1] = path[i + 1]
        BY <3>2, <1>2, <1>4
      <4> QED
        BY <3>1, <3>2, <4>1, <1>4, <1>8 DEF OrderInv, StackInv
    <3>3. CASE i = Len(path)
      <4>1. path # <<>>
        BY <3>1, <3>3, EmptySeq, <1>2
      <4>2. path'[i] = Top /\ path'[i + 1] = x /\ next'[path'[i]] = next[Top]
        BY <3>1, <3>3, <1>4, <1>8 DEF Top
      <4>3. next[Top] <= Len(DependsOn(Top)) /\ x = DependsOn(Top)[next[Top]]
        BY <4>1 DEF Descend, Calls, Visiting, x
      <4> QED
        BY <4>2, <4>3, Zenon
    <3> QED
      BY <3>1, <3>2, <3>3, <1>2
  <2>5. path'[1] = goal
    <3>1. CASE path = <<>>
      <4>1. Len(path) = 0
        BY <3>1, EmptySeq
      <4>2. path'[1] = x
        BY <4>1, <1>4
      <4>3. x = goal
        BY <3>1 DEF x, Visiting
      <4> QED
        BY <4>2, <4>3
    <3>2. CASE path # <<>>
      <4>1. Len(path) \in Nat \ {0}
        BY <3>2, <1>2, EmptySeq
      <4>2. path'[1] = path[1]
        BY <4>1, <1>4
      <4>3. path[1] = goal
        BY <3>2 DEF OrderInv, StackInv
      <4> QED
        BY <4>2, <4>3
    <3> QED
      BY <3>1, <3>2
  <2>6. path' # <<>>
    <3>1. Len(path') # 0
      BY <1>2, <1>4
    <3> QED
      BY <3>1, EmptySeq
  <2>7. \A n : DependsOn(n)' = DependsOn(n)
    BY <1>3 DEF DependsOn
  <2> QED
    BY <2>1, <2>2, <2>3, <2>4, <2>5, <2>6, <2>7, <1>3, <1>6 DEF StackInv
<1>11. ListInv' /\ VerdictInv'
  <2>1. verdict = "pending"
    BY DEF Descend, Calls
  <2> QED
    BY <2>1, <1>3, <1>6 DEF OrderInv, ListInv, VerdictInv, Needs, DependsOn, Entangled
<1> QED
  BY <1>5, <1>10, <1>11 DEF OrderInv

\* What is visited stays as it is.
LEMMA ListKept ==
  ASSUME ListInv, UNCHANGED <<config, goal, ordered>>
  PROVE  ListInv'
<1>1. /\ ordered' = ordered /\ config' = config
      /\ Closure' = Closure
      /\ \A n : Needs(n)' = Needs(n)
  BY DEF Closure, Needs, DependsOn
<1>2. (\A i, j \in 1..Len(ordered) : ordered[i] = ordered[j] => i = j)'
  BY <1>1 DEF ListInv
<1>3. (\A i \in 1..Len(ordered) :
         /\ ordered[i] \in Closure
         /\ config[ordered[i]] # Absent
         /\ Needs(ordered[i]) \subseteq {ordered[j] : j \in 1..(i - 1)})'
  <2>1. (\A i \in 1..Len(ordered) : ordered[i] \in Closure /\ config[ordered[i]] # Absent)'
    BY <1>1 DEF ListInv
  <2>2. (\A i \in 1..Len(ordered) :
           Needs(ordered[i]) \subseteq {ordered[j] : j \in 1..(i - 1)})'
    <3>1. \A i \in 1..Len(ordered) :
            Needs(ordered[i]) \subseteq {ordered[j] : j \in 1..(i - 1)}
      BY DEF ListInv
    <3>2. ASSUME NEW i \in 1..Len(ordered)
          PROVE  (Needs(ordered[i]) \subseteq {ordered[j] : j \in 1..(i - 1)})'
      <4>1. Needs(ordered[i])' = Needs(ordered[i])
        BY <1>1 DEF Needs, DependsOn
      <4>2. {ordered[j] : j \in 1..(i - 1)}' = {ordered[j] : j \in 1..(i - 1)}
        BY <1>1
      <4> QED
        BY <3>1, <4>1, <4>2
    <3> QED
      BY <3>2, <1>1
  <2> QED
    BY <2>1, <2>2
<1>4. (\A S \in SUBSET Range(ordered) : ~Entangled(S))'
  <2>1. \A S : Entangled(S)' = Entangled(S)
    BY <1>1 DEF Entangled
  <2>2. \A S \in SUBSET Range(ordered) : ~Entangled(S)
    BY DEF ListInv
  <2> QED
    BY <2>1, <2>2, <1>1
<1> QED
  BY <1>2, <1>3, <1>4 DEF ListInv

\* A service that is met again on the stack is part of a cycle: the services
\* above it on the stack need one another.
LEMMA RejectCycleKeeps ==
  ASSUME OrderInv, RejectCycle, UNCHANGED <<config, goal>>
  PROVE  OrderInv'
<1>1. /\ path \in Seq(Name) /\ Len(path) \in Nat /\ config \in Config
      /\ \A i \in 1..Len(path) : path[i] \in Name
      /\ next \in [Name -> Nat \ {0}]
  BY LenProperties, ElementOfSeq DEF OrderInv, OrderTypeOK
<1>2. /\ UNCHANGED <<config, goal, path, next, ordered>>
      /\ verdict' = "cyclic" /\ verdict = "pending"
  BY DEF RejectCycle, Calls
<1>3. PICK p \in 1..Len(path) : path[p] = Visiting
  BY <1>1, RangeSeq DEF RejectCycle
<1>4. path # <<>> /\ Len(path) \in Nat \ {0}
  BY <1>1, <1>3, EmptySeq
<1> DEFINE S == {path[i] : i \in p..Len(path)}
<1>5. S \in SUBSET Closure /\ S # {}
  BY <1>1, <1>3, <1>4 DEF OrderInv, StackInv
<1>6. ASSUME NEW i \in p..Len(path)
      PROVE  Needs(path[i]) \cap S # {}
  <2>1. i \in 1..Len(path)
    BY <1>1, <1>3
  <2>2. /\ path[i] \in Name /\ config[path[i]] # Absent
        /\ next[path[i]] \in Nat \ {0}
    BY <2>1, <1>1 DEF OrderInv, StackInv
  <2>3. /\ Needs(path[i]) = {DependsOn(path[i])[j] : j \in 1..Len(DependsOn(path[i]))}
        /\ Len(DependsOn(path[i])) \in Nat
    BY <2>2, <1>1, DependsType, LenProperties
  <2>4. CASE i < Len(path)
    <3>1. i \in 1..(Len(path) - 1) /\ i + 1 \in p..Len(path)
      BY <2>1, <2>4, <1>1, <1>3
    <3>2. /\ next[path[i]] <= Len(DependsOn(path[i]))
          /\ DependsOn(path[i])[next[path[i]]] = path[i + 1]
      BY <3>1 DEF OrderInv, StackInv
    <3>3. next[path[i]] \in 1..Len(DependsOn(path[i]))
      BY <3>2, <2>2, <2>3
    <3>4. path[i + 1] \in Needs(path[i]) /\ path[i + 1] \in S
      BY <3>1, <3>2, <3>3, <2>3
    <3> QED
      BY <3>4
  <2>5. CASE i = Len(path)
    <3>1. path[i] = Top /\ next[Top] <= Len(DependsOn(Top))
          /\ Visiting = DependsOn(Top)[next[Top]]
      BY <2>5, <1>4 DEF RejectCycle, Calls, Visiting, Top
    <3>2. next[Top] \in 1..Len(DependsOn(Top))
      BY <3>1, <2>2, <2>3
    <3>3. Visiting \in Needs(path[i])
      BY <3>1, <3>2, <2>3
    <3>4. Visiting \in S
      BY <1>3, <1>4, <1>1
    <3> QED
      BY <3>3, <3>4
  <2> QED
    BY <2>1, <2>4, <2>5, <1>1
<1>7. Entangled(S)
  BY <1>5, <1>6 DEF Entangled
<1>8. Closure' = Closure
  BY <1>2 DEF Closure, Needs, DependsOn
<1>9. \A T : Entangled(T)' = Entangled(T)
  BY <1>2 DEF Entangled, Needs, DependsOn
<1>10. VerdictInv'
  <2> HIDE DEF S
  <2> QED
    BY <1>2, <1>5, <1>7, <1>8, <1>9 DEF VerdictInv
<1>11. OrderTypeOK'
  BY <1>2 DEF OrderInv, OrderTypeOK, Verdict
<1>12. StackInv'
  BY <1>2, <1>8 DEF OrderInv, StackInv, DependsOn
<1>13. ListInv'
  BY <1>2, ListKept DEF OrderInv
<1> QED
  BY <1>10, <1>11, <1>12, <1>13 DEF OrderInv

LEMMA RejectMissingKeeps ==
  ASSUME OrderInv, RejectMissing, UNCHANGED <<config, goal>>
  PROVE  OrderInv'
<1>1. Visiting \in Closure /\ config[Visiting] = Absent
  BY VisitingType DEF RejectMissing
<1>2. /\ UNCHANGED <<config, goal, path, next, ordered>>
      /\ verdict' = "missing" /\ verdict = "pending"
  BY DEF RejectMissing, Calls
<1>3. Closure' = Closure
  BY <1>2 DEF Closure, Needs, DependsOn
<1>4. OrderTypeOK'
  BY <1>2 DEF OrderInv, OrderTypeOK, Verdict
<1>5. StackInv'
  BY <1>2, <1>3 DEF OrderInv, StackInv, DependsOn
<1>6. ListInv'
  BY <1>2, ListKept DEF OrderInv
<1>7. VerdictInv'
  BY <1>1, <1>2, <1>3 DEF VerdictInv
<1> QED
  BY <1>4, <1>5, <1>6, <1>7 DEF OrderInv

LEMMA LeaveKeeps ==
  ASSUME OrderInv, Leave, UNCHANGED <<config, goal>>
  PROVE  OrderInv'
<1>1. /\ path \in Seq(Name) /\ path # <<>> /\ Len(path) \in Nat \ {0}
      /\ Top = path[Len(path)] /\ Top \in Name /\ config \in Config
      /\ \A i \in 1..Len(path) : path[i] \in Name
      /\ next \in [Name -> Nat \ {0}]
      /\ ordered \in Seq(Name) /\ Len(ordered) \in Nat
  BY PopSeq, LenProperties, ElementOfSeq DEF OrderInv, OrderTypeOK, Top, Leave
<1>2. /\ verdict = "pending"
      /\ next[Top] > Len(DependsOn(Top))
      /\ path' = SubSeq(path, 1, Len(path) - 1)
      /\ ordered' = Append(ordered, Top)
      /\ verdict' = IF Len(path) = 1 THEN "ok" ELSE "pending"
      /\ UNCHANGED <<config, goal, next>>
  BY DEF Leave
<1>3. /\ path' \in Seq(Name)
      /\ Len(path') = Len(path) - 1
      /\ \A i \in 1..(Len(path) - 1) : path'[i] = path[i]
  BY <1>1, <1>2, PopSeq
<1>4. /\ ordered' \in Seq(Name)
      /\ Len(ordered') = Len(ordered) + 1
      /\ \A i \in 1..Len(ordered) : ordered'[i] = ordered[i]
      /\ ordered'[Len(ordered) + 1] = Top
      /\ Range(ordered') = Range(ordered) \cup {Top}
  BY <1>1, <1>2, AppendSeq
<1>5. OrderTypeOK'
  BY <1>1, <1>2, <1>3, <1>4 DEF OrderInv, OrderTypeOK, Verdict
<1>6. /\ Closure' = Closure
      /\ \A n : Needs(n)' = Needs(n) /\ DependsOn(n)' = DependsOn(n)
  BY <1>2 DEF Closure, Needs, DependsOn
<1>7. /\ Top \notin Range(ordered) /\ Top \in Closure /\ config[Top] # Absent
      /\ \A j \in 1..(next[Top] - 1) : DependsOn(Top)[j] \in Range(ordered)
  BY <1>1 DEF OrderInv, StackInv
<1>8. Needs(Top) \subseteq Range(ordered)
  <2>1. /\ Needs(Top) = {DependsOn(Top)[j] : j \in 1..Len(DependsOn(Top))}
        /\ Len(DependsOn(Top)) \in Nat /\ next[Top] \in Nat
    BY <1>1, <1>7, DependsType, LenProperties
  <2>2. \A j \in 1..Len(DependsOn(Top)) : j \in 1..(next[Top] - 1)
    BY <2>1, <1>2
  <2> QED
    BY <2>1, <2>2, <1>7
<1>9. StackInv'
  <2>1. \A i \in 1..Len(path') : i \in 1..Len(path) /\ i \in 1..(Len(path) - 1)
                                 /\ path'[i] = path[i]
    BY <1>1, <1>3
  <2>2. \A i, j \in 1..Len(path') : path'[i] = path'[j] => i = j
    BY <2>1 DEF OrderInv, StackInv
  <2>3. ASSUME NEW i \in 1..Len(path')
        PROVE  /\ path'[i] \notin Range(ordered')
               /\ path'[i] \in Closure
               /\ config[path'[i]] # Absent
               /\ next[path'[i]] <= Len(DependsOn(path'[i])) + 1
               /\ \A j \in 1..(next[path'[i]] - 1) :
                    DependsOn(path'[i])[j] \in Range(ordered')
    <3>1. path[i] # Top
      <4>1. i # Len(path) /\ Len(path) \in 1..Len(path) /\ i \in 1..Len(path)
        BY <1>1, <2>1
      <4> QED
        BY <4>1, <1>1 DEF OrderInv, StackInv
    <3> QED
      BY <2>1, <3>1, <1>4 DEF OrderInv, StackInv
  <2>4. ASSUME NEW i \in 1..(Len(path') - 1)
        PROVE  /\ next[path'[i]] <= Len(DependsOn(path'[i]))
               /\ DependsOn(path'[i])[next[path'[i]]] = path'[i + 1]
    <3>1. i \in 1..Len(path') /\ i + 1 \in 1..Len(path') /\ i \in 1..(Len(path) - 1)
      BY <1>1, <1>3
    <3> QED
      BY <3>1, <2>1 DEF OrderInv, StackInv
  <2>5. path' # <<>> => path'[1] = goal
    <3> SUFFICES ASSUME path' # <<>> PROVE path'[1] = goal
      OBVIOUS
    <3>1. Len(path') \in Nat \ {0}
      BY <1>3, EmptySeq
    <3>2. path'[1] = path[1]
      BY <3>1, <2>1
    <3> QED
      BY <3>2, <1>1 DEF OrderInv, StackInv
  <2>6. verdict' = "pending" => path' # <<>>
    <3>1. verdict' = "pending" => Len(path') # 0
      BY <1>1, <1>2, <1>3
    <3> QED
      BY <3>1, EmptySeq
  <2>7. (\A i \in 1..Len(path) :
          /\ path[i] \notin Range(ordered)
          /\ path[i] \in Closure
          /\ config[path[i]] # Absent
          /\ next[path[i]] <= Len(DependsOn(path[i])) + 1
          /\ \A j \in 1..(next[path[i]] - 1) : DependsOn(path[i])[j] \in Range(ordered))'
    BY <2>3, <1>2, <1>6
  <2>8. (\A i \in 1..(Len(path) - 1) :
          /\ next[path[i]] <= Len(DependsOn(path[i]))
          /\ DependsOn(path[i])[next[path[i]]] = path[i + 1])'
    BY <2>4, <1>2, <1>6
  <2>9. (path # <<>> => path[1] = goal)'
    BY <2>5, <1>2
  <2>10. (verdict = "pending" /\ path = <<>> => ordered = <<>>)'
    BY <2>6
  <2> QED
    BY <2>2, <2>7, <2>8, <2>9, <2>10 DEF StackInv
<1>10. ListInv'
  <2>1. 1..Len(ordered') = 1..Len(ordered) \cup {Len(ordered) + 1}
    BY <1>1, <1>4
  <2>2. ASSUME NEW i \in 1..Len(ordered'), NEW j \in 1..Len(ordered'),
               ordered'[i] = ordered'[j]
        PROVE  i = j
    <3>1. \A k \in 1..Len(ordered) : ordered[k] # Top
      BY <1>1, <1>7, RangeSeq
    <3>2. \A k \in 1..Len(ordered') : k \in 1..Len(ordered) \/ k = Len(ordered) + 1
      BY <2>1
    <3>3. CASE i \in 1..Len(ordered) /\ j \in 1..Len(ordered)
      BY <2>2, <3>3, <1>4 DEF OrderInv, ListInv
    <3>4. CASE i \in 1..Len(ordered) /\ j = Len(ordered) + 1
      BY <2>2, <3>1, <3>4, <1>4
    <3>5. CASE i = Len(ordered) + 1 /\ j \in 1..Len(ordered)
      BY <2>2, <3>1, <3>5, <1>4
    <3> QED
      BY <3>2, <3>3, <3>4, <3>5
  <2>3. ASSUME NEW i \in 1..Len(ordered')
        PROVE  /\ ordered'[i] \in Closure
               /\ config[ordered'[i]] # Absent
               /\ Needs(ordered'[i]) \subseteq {ordered'[j] : j \in 1..(i - 1)}
    <3>1. CASE i \in 1..Len(ordered)
      <4>1. \A j \in 1..(i - 1) : j \in 1..Len(ordered) /\ ordered'[j] = ordered[j]
        BY <3>1, <1>1, <1>4
      <4>2. {ordered[j] : j \in 1..(i - 1)} = {ordered'[j] : j \in 1..(i - 1)}
        BY <4>1
      <4> QED
        BY <3>1, <4>2, <1>4 DEF OrderInv, ListInv
    <3>2. CASE i = Len(ordered) + 1
      <4>1. 1..(i - 1) = 1..Len(ordered)
        BY <3>2, <1>1
      <4>2. Range(ordered) = {ordered'[j] : j \in 1..Len(ordered)}
        <5>1. Range(ordered) = {ordered[j] : j \in 1..Len(ordered)}
          BY <1>1, RangeSeq
        <5> QED
          BY <5>1, <1>4
      <4>3. ordered'[i] = Top
        BY <3>2, <1>4
      <4> QED
        BY <4>1, <4>2, <4>3, <1>7, <1>8
    <3> QED
      BY <2>1, <3>1, <3>2
  <2>4. ASSUME NEW S \in SUBSET Range(ordered'), Entangled(S) PROVE FALSE
    <3>1. ASSUME NEW n \in Range(ordered) PROVE Needs(n) \subseteq Range(ordered)
      <4>1. PICK i \in 1..Len(ordered) : ordered[i] = n
        BY <1>1, RangeSeq
      <4>2. Needs(n) \subseteq {ordered[j] : j \in 1..(i - 1)}
        BY <4>1 DEF OrderInv, ListInv
      <4>3. \A j \in 1..(i - 1) : j \in 1..Len(ordered)
        BY <1>1
      <4> QED
        BY <4>2, <4>3, <1>1, RangeSeq
    <3> DEFINE T == S \ {Top}
    <3>2. T \in SUBSET Range(ordered)
      BY <1>4
    <3>3. ASSUME NEW n \in S PROVE Needs(n) \cap T # {}
      <4>1. Needs(n) \cap S # {}
        BY <2>4 DEF Entangled
      <4>2. Needs(n) \subseteq Range(ordered)
        BY <3>1, <1>4, <1>8
      <4> QED
        BY <4>1, <4>2, <1>7
    <3>4. T # {} /\ \A n \in T : Needs(n) \cap T # {}
      BY <2>4, <3>3 DEF Entangled
    <3> QED
      BY <3>2, <3>4 DEF OrderInv, ListInv, Entangled
  <2>5. \A S : Entangled(S)' = Entangled(S)
    BY <1>6 DEF Entangled
  <2> QED
    BY <2>2, <2>3, <2>4, <2>5, <1>2, <1>6 DEF ListInv
<1>11. VerdictInv'
  <2>1. verdict' = "ok" => path' = <<>>
    <3>1. Len(path) = 1 => Len(path') = 0
      BY <1>1, <1>3
    <3> QED
      BY <3>1, <1>2, <1>3, EmptySeq
  <2>2. verdict' = "ok" => goal \in Range(ordered')
    <3>1. Len(path) = 1 => Top = goal
      BY <1>1 DEF OrderInv, StackInv
    <3> QED
      BY <3>1, <1>2, <1>4
  <2> QED
    BY <2>1, <2>2, <1>2 DEF VerdictInv
<1> QED
  BY <1>5, <1>9, <1>10, <1>11 DEF OrderInv

\* A step of the search keeps the invariant.
LEMMA SearchKeeps ==
  ASSUME OrderInv, Search, UNCHANGED <<config, goal>>
  PROVE  OrderInv'
BY SkipKeeps, DescendKeeps, RejectCycleKeeps, RejectMissingKeeps, LeaveKeeps DEF Search

\* So does a step that leaves the search alone.
LEMMA Stutters ==
  ASSUME OrderInv, UNCHANGED <<config, goal, path, next, ordered, verdict>>
  PROVE  OrderInv'
<1>1. /\ Closure' = Closure
      /\ \A n : Needs(n)' = Needs(n) /\ DependsOn(n)' = DependsOn(n)
      /\ \A T : Entangled(T)' = Entangled(T)
  BY DEF Closure, Needs, DependsOn, Entangled
<1>2. OrderTypeOK' /\ StackInv'
  BY <1>1 DEF OrderInv, OrderTypeOK, Verdict, StackInv
<1>3. ListInv'
  BY ListKept DEF OrderInv
<1>4. VerdictInv'
  <2>1. verdict = "cyclic" => (\E S \in SUBSET Closure : Entangled(S))'
    BY <1>1 DEF OrderInv, VerdictInv
  <2>2. verdict = "missing" => (\E n \in Closure : config[n] = Absent)'
    BY <1>1 DEF OrderInv, VerdictInv
  <2>3. verdict = "ok" => (path = <<>> /\ goal \in Range(ordered))'
    BY DEF OrderInv, VerdictInv
  <2> QED
    BY <2>1, <2>2, <2>3 DEF VerdictInv
<1> QED
  BY <1>2, <1>3, <1>4 DEF OrderInv

\* It holds before the search.
LEMMA UnsearchedStarts ==
  ASSUME config \in Config, goal \in Name, Unsearched
  PROVE  OrderInv
<1>1. path = <<>> /\ ordered = <<>> /\ verdict = "pending" /\ next = [n \in Name |-> 1]
  BY DEF Unsearched
<1>2. Len(path) = 0 /\ Len(ordered) = 0 /\ Range(ordered) = {}
  BY <1>1, EmptySeq DEF Range
<1>3. OrderTypeOK
  BY <1>1, EmptySeq DEF OrderTypeOK, Verdict
<1>4. StackInv
  BY <1>1, <1>2 DEF StackInv
<1>5. ListInv
  BY <1>2 DEF ListInv, Entangled
<1>6. VerdictInv
  BY <1>1 DEF VerdictInv
<1> QED
  BY <1>3, <1>4, <1>5, <1>6 DEF OrderInv

\* The invariant is the search's correctness.
LEMMA OrderInvRight ==
  ASSUME OrderInv
  PROVE  OrderCorrect /\ VerdictRight
<1>1. /\ config \in Config /\ goal \in Name /\ ordered \in Seq(Name)
      /\ DOMAIN ordered = 1..Len(ordered) /\ Len(ordered) \in Nat
  BY LenProperties DEF OrderInv, OrderTypeOK
<1>2. Range(ordered) \subseteq Closure
  BY <1>1, RangeSeq DEF OrderInv, ListInv
<1>3. ASSUME goal \in Range(ordered) PROVE Closure \subseteq Range(ordered)
  <2>1. Range(ordered) \in SUBSET Name
    BY <1>1, RangeSeq, ElementOfSeq
  <2>2. ASSUME NEW n \in Range(ordered) PROVE Needs(n) \subseteq Range(ordered)
    <3>1. PICK i \in 1..Len(ordered) : ordered[i] = n
      BY <1>1, RangeSeq
    <3>2. Needs(n) \subseteq {ordered[j] : j \in 1..(i - 1)}
      BY <3>1 DEF OrderInv, ListInv
    <3>3. \A j \in 1..(i - 1) : j \in 1..Len(ordered)
      BY <1>1
    <3> QED
      BY <3>2, <3>3, <1>1, RangeSeq
  <2> QED
    BY <1>3, <2>1, <2>2 DEF Closure
<1>4. OrderCorrect
  BY <1>1, <1>2, <1>3 DEF OrderCorrect, OrderInv, ListInv, VerdictInv, IsInjective
<1>5. VerdictRight
  BY <1>2, <1>3 DEF VerdictRight, OrderInv, ListInv, VerdictInv
<1> QED
  BY <1>4, <1>5

\* The order that resolve_bring_up_order returns lists everything that the
\* service needs, once, and dependencies first; it fails only if a cycle or
\* a missing service is among what the service needs, and never succeeds on
\* a cycle: for every configuration.
THEOREM OrderIsCorrect == OrderSpec => [](OrderTypeOK /\ OrderCorrect /\ VerdictRight)
<1>1. OrderInit => OrderInv
  BY UnsearchedStarts DEF OrderInit
<1>2. OrderInv /\ [Search /\ UNCHANGED <<config, goal>>]_orderVars => OrderInv'
  <2>1. CASE UNCHANGED orderVars
    BY <2>1, Stutters DEF orderVars, searchVars
  <2> QED
    BY <2>1, SearchKeeps
<1>3. OrderInv => OrderTypeOK /\ OrderCorrect /\ VerdictRight
  BY OrderInvRight DEF OrderInv
<1> QED
  BY <1>1, <1>2, <1>3, PTL DEF OrderSpec

=============================================================================
