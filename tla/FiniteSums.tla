----------------------------- MODULE FiniteSums -----------------------------
(***************************************************************************)
(* Facts about SumFunctionOnSet, the sum of a function over a finite set.  *)
(* The induction over the subsets of the set is by a least counterexample, *)
(* a subset all of whose proper subsets are good.                          *)
(***************************************************************************)
EXTENDS Functions, FiniteSetTheorems, WellFoundedInduction, TLAPS

\* What is passed on from the proper subsets of a set to the set itself
\* holds of every subset of a finite set.
LEMMA SubsetInduction ==
  ASSUME NEW S, IsFiniteSet(S), NEW Good,
         \A T \in SUBSET S : (\A U \in SUBSET T : U # T => U \in Good) => T \in Good
  PROVE  S \in Good
<1> DEFINE Bad == (SUBSET S) \ Good
           Within == StrictSubsetOrdering(S)
<1>1. SUFFICES ASSUME Bad # {} PROVE FALSE
  OBVIOUS
<1>2. IsWellFoundedOn(Within, SUBSET S)
  BY FS_StrictSubsetOrderingWellFounded, FS_FiniteSubsetsOfFinite
<1>3. PICK T \in Bad : \A U \in Bad : <<U, T>> \notin Within
  <2>1. Bad \subseteq SUBSET S
    OBVIOUS
  <2> HIDE DEF Within, Bad
  <2> QED
    BY <1>1, <1>2, <2>1, WFMin
<1>4. \A U \in SUBSET T : U # T => U \in Good
  BY <1>3 DEF StrictSubsetOrdering
<1> QED
  BY <1>3, <1>4

----------------------------------------------------------------------------
(* The sum is what its recursion says *)

\* The equation of the recursion that the sum is defined by.
SumOn(g, f, S) ==
  g = [s \in SUBSET S |->
         IF s = {} THEN 0
         ELSE f[CHOOSE x \in s : TRUE] + g[s \ {CHOOSE x \in s : TRUE}]]

\* The sum is the value of a chosen solution of the equation.
LEMMA SumChosen ==
  ASSUME NEW f, NEW S
  PROVE  SumFunctionOnSet(f, S) = (CHOOSE g : SumOn(g, f, S))[S]
BY DEF SumFunctionOnSet, FoldFunctionOnSet, MapThenFoldSet, SumOn

\* At most one function solves the equation.
LEMMA SumUnique ==
  ASSUME NEW f, NEW S, IsFiniteSet(S), NEW g, NEW h, SumOn(g, f, S), SumOn(h, f, S)
  PROVE  g[S] = h[S]
<1> DEFINE Good == {T \in SUBSET S : g[T] = h[T]}
<1>1. ASSUME NEW T \in SUBSET S, \A U \in SUBSET T : U # T => U \in Good
      PROVE  T \in Good
  <2>1. CASE T = {}
    BY <2>1 DEF SumOn
  <2>2. CASE T # {}
    <3> DEFINE c == CHOOSE x \in T : TRUE
    <3>1. c \in T
      BY <2>2
    <3>2. T \ {c} \in SUBSET T /\ T \ {c} # T
      BY <3>1
    <3>3. g[T \ {c}] = h[T \ {c}]
      BY <1>1, <3>2
    <3>4. g[T] = f[c] + g[T \ {c}] /\ h[T] = f[c] + h[T \ {c}]
      BY <2>2 DEF SumOn
    <3> QED
      BY <3>3, <3>4
  <2> QED
    BY <2>1, <2>2
<1>2. S \in Good
  <2> HIDE DEF Good
  <2> QED
    BY <1>1, SubsetInduction
<1> QED
  BY <1>2

\* The sums over the subsets of a finite set solve the equation.
LEMMA SumSolves ==
  ASSUME NEW f, NEW S, IsFiniteSet(S)
  PROVE  SumFunctionOnSet(f, S) =
           IF S = {} THEN 0
           ELSE f[CHOOSE x \in S : TRUE] + SumFunctionOnSet(f, S \ {CHOOSE x \in S : TRUE})
<1> DEFINE Total(s) == SumFunctionOnSet(f, s)
           Rest(s) == s \ {CHOOSE x \in s : TRUE}
           Value(s) == IF s = {} THEN 0 ELSE f[CHOOSE x \in s : TRUE] + Total(Rest(s))
           Good == {T \in SUBSET S : Total(T) = Value(T)}
<1>1. ASSUME NEW T \in SUBSET S, \A U \in SUBSET T : U # T => U \in Good
      PROVE  T \in Good
  <2> DEFINE g == [s \in SUBSET T |-> Value(s)]
  <2>1. \A s \in SUBSET T : s # {} => Rest(s) \in SUBSET T /\ Rest(s) # T
    OBVIOUS
  <2>2. \A s \in SUBSET T : s # {} => Total(Rest(s)) = g[Rest(s)]
    <3> HIDE DEF Value, Total, Rest
    <3> QED
      BY <1>1, <2>1
  <2>3. SumOn(g, f, T)
    <3>1. \A s \in SUBSET T :
            g[s] = IF s = {} THEN 0 ELSE f[CHOOSE x \in s : TRUE] + g[Rest(s)]
      <4> HIDE DEF Total, Rest
      <4>1. \A s \in SUBSET T : g[s] = Value(s)
        OBVIOUS
      <4>2. ASSUME NEW s \in SUBSET T, s # {}
            PROVE  g[s] = f[CHOOSE x \in s : TRUE] + g[Rest(s)]
        <5>1. Value(s) = f[CHOOSE x \in s : TRUE] + Total(Rest(s))
          BY <4>2
        <5> HIDE DEF g, Value
        <5> QED
          BY <2>2, <4>1, <4>2, <5>1
      <4>3. g[{}] = 0
        BY <4>1
      <4> HIDE DEF g, Value
      <4> QED
        BY <4>2, <4>3
    <3>2. g = [s \in SUBSET T |-> g[s]]
      OBVIOUS
    <3> HIDE DEF g, Value
    <3> QED
      BY <3>1, <3>2 DEF SumOn
  <2> HIDE DEF g, Value
  <2>4. IsFiniteSet(T)
    BY FS_Subset
  <2>5. SumOn(CHOOSE h : SumOn(h, f, T), f, T)
    BY <2>3
  <2>6. Total(T) = (CHOOSE h : SumOn(h, f, T))[T]
    BY SumChosen
  <2>7. Total(T) = g[T]
    BY <2>3, <2>4, <2>5, <2>6, SumUnique
  <2>8. g[T] = Value(T)
    BY DEF g
  <2> QED
    BY <2>7, <2>8
<1>2. S \in Good
  <2> HIDE DEF Good
  <2> QED
    BY <1>1, SubsetInduction
<1> QED
  BY <1>2

\* The sum over no element is zero.
LEMMA SumOfNone ==
  ASSUME NEW f
  PROVE  SumFunctionOnSet(f, {}) = 0
BY SumSolves, FS_EmptySet

----------------------------------------------------------------------------
(* Sums of natural numbers *)

\* A sum of natural numbers is a natural number.
LEMMA SumType ==
  ASSUME NEW f, NEW S, IsFiniteSet(S), \A x \in S : f[x] \in Nat
  PROVE  SumFunctionOnSet(f, S) \in Nat
<1> DEFINE Good == {T \in SUBSET S : SumFunctionOnSet(f, T) \in Nat}
<1>1. ASSUME NEW T \in SUBSET S, \A U \in SUBSET T : U # T => U \in Good
      PROVE  T \in Good
  <2>1. CASE T = {}
    BY <2>1, SumOfNone
  <2>2. CASE T # {}
    <3> DEFINE c == CHOOSE x \in T : TRUE
    <3>1. c \in T
      BY <2>2
    <3>2. T \ {c} \in SUBSET T /\ T \ {c} # T
      BY <3>1
    <3>3. SumFunctionOnSet(f, T) = f[c] + SumFunctionOnSet(f, T \ {c})
      BY <2>2, SumSolves, FS_Subset
    <3> HIDE DEF c
    <3> QED
      BY <1>1, <3>1, <3>2, <3>3
  <2> QED
    BY <2>1, <2>2
<1>2. S \in Good
  <2> HIDE DEF Good
  <2> QED
    BY <1>1, SubsetInduction
<1> QED
  BY <1>2

\* Any element can be taken out of a sum.
LEMMA SumTakeOut ==
  ASSUME NEW f, NEW S, IsFiniteSet(S), \A x \in S : f[x] \in Nat, NEW x \in S
  PROVE  SumFunctionOnSet(f, S) = f[x] + SumFunctionOnSet(f, S \ {x})
<1> DEFINE Total(s) == SumFunctionOnSet(f, s)
           Good == {T \in SUBSET S : \A y \in T : Total(T) = f[y] + Total(T \ {y})}
<1>1. ASSUME NEW T \in SUBSET S, \A U \in SUBSET T : U # T => U \in Good
      PROVE  T \in Good
  <2> SUFFICES ASSUME NEW y \in T PROVE Total(T) = f[y] + Total(T \ {y})
    OBVIOUS
  <2> DEFINE c == CHOOSE z \in T : TRUE
  <2>1. c \in T
    OBVIOUS
  <2>2. Total(T) = f[c] + Total(T \ {c})
    BY SumSolves, FS_Subset
  <2> HIDE DEF c
  <2>3. CASE c = y
    BY <2>2, <2>3
  <2>4. CASE c # y
    <3> DEFINE R == (T \ {c}) \ {y}
    <3>1. R = (T \ {y}) \ {c}
      OBVIOUS
    <3>2. /\ T \ {c} \in SUBSET T /\ T \ {c} # T /\ y \in T \ {c}
          /\ T \ {y} \in SUBSET T /\ T \ {y} # T /\ c \in T \ {y}
      BY <2>1, <2>4
    <3>3. Total(T \ {c}) = f[y] + Total(R)
      BY <1>1, <3>2
    <3>4. Total(T \ {y}) = f[c] + Total(R)
      BY <1>1, <3>1, <3>2
    <3>5. Total(R) \in Nat
      BY SumType, FS_Subset
    <3>6. f[c] \in Nat /\ f[y] \in Nat
      BY <2>1
    <3> HIDE DEF R, Total
    <3> QED
      BY <2>2, <3>3, <3>4, <3>5, <3>6
  <2> QED
    BY <2>3, <2>4
<1>2. S \in Good
  <2> HIDE DEF Good
  <2> QED
    BY <1>1, SubsetInduction
<1> QED
  BY <1>2

\* A sum over fewer elements is not greater.
LEMMA SumMonotone ==
  ASSUME NEW f, NEW S, IsFiniteSet(S), \A x \in S : f[x] \in Nat, NEW R \in SUBSET S
  PROVE  SumFunctionOnSet(f, R) <= SumFunctionOnSet(f, S)
<1> DEFINE Total(s) == SumFunctionOnSet(f, s)
           Good == {T \in SUBSET S : \A U \in SUBSET T : Total(U) <= Total(T)}
<1>1. ASSUME NEW T \in SUBSET S, \A U \in SUBSET T : U # T => U \in Good
      PROVE  T \in Good
  <2> SUFFICES ASSUME NEW U \in SUBSET T PROVE Total(U) <= Total(T)
    OBVIOUS
  <2>1. Total(U) \in Nat /\ Total(T) \in Nat
    BY SumType, FS_Subset
  <2>2. CASE U = T
    <3> HIDE DEF Total
    <3> QED
      BY <2>1, <2>2
  <2>3. CASE U # T
    <3>1. PICK y \in T : y \notin U
      BY <2>3
    <3>2. Total(T) = f[y] + Total(T \ {y})
      BY SumTakeOut, FS_Subset
    <3>3. T \ {y} \in SUBSET T /\ T \ {y} # T /\ U \in SUBSET (T \ {y})
      BY <3>1
    <3>4. Total(U) <= Total(T \ {y})
      BY <1>1, <3>3
    <3>5. Total(T \ {y}) \in Nat /\ f[y] \in Nat
      BY SumType, FS_Subset
    <3> HIDE DEF Total
    <3> QED
      BY <2>1, <3>2, <3>4, <3>5
  <2> QED
    BY <2>2, <2>3
<1>2. S \in Good
  <2> HIDE DEF Good
  <2> QED
    BY <1>1, SubsetInduction
<1> QED
  BY <1>2

----------------------------------------------------------------------------
(* Sums of two functions *)

\* Functions that agree on a set have the same sum over it.
LEMMA SumEqual ==
  ASSUME NEW f, NEW g, NEW S, IsFiniteSet(S), \A x \in S : f[x] = g[x]
  PROVE  SumFunctionOnSet(f, S) = SumFunctionOnSet(g, S)
<1> DEFINE Good == {T \in SUBSET S : SumFunctionOnSet(f, T) = SumFunctionOnSet(g, T)}
<1>1. ASSUME NEW T \in SUBSET S, \A U \in SUBSET T : U # T => U \in Good
      PROVE  T \in Good
  <2>1. CASE T = {}
    BY <2>1, SumOfNone
  <2>2. CASE T # {}
    <3> DEFINE c == CHOOSE x \in T : TRUE
    <3>1. c \in T
      BY <2>2
    <3>2. T \ {c} \in SUBSET T /\ T \ {c} # T
      BY <3>1
    <3>3. /\ SumFunctionOnSet(f, T) = f[c] + SumFunctionOnSet(f, T \ {c})
          /\ SumFunctionOnSet(g, T) = g[c] + SumFunctionOnSet(g, T \ {c})
      BY <2>2, SumSolves, FS_Subset
    <3> HIDE DEF c
    <3>4. f[c] = g[c]
      BY <3>1
    <3>5. SumFunctionOnSet(f, T \ {c}) = SumFunctionOnSet(g, T \ {c})
      BY <1>1, <3>2
    <3> QED
      BY <3>3, <3>4, <3>5
  <2> QED
    BY <2>1, <2>2
<1>2. S \in Good
  <2> HIDE DEF Good
  <2> QED
    BY <1>1, SubsetInduction
<1> QED
  BY <1>2

\* Functions that agree but on one element have sums that differ as their
\* values do there.
LEMMA SumChanges ==
  ASSUME NEW f, NEW g, NEW S, IsFiniteSet(S), NEW x \in S,
         \A y \in S : f[y] \in Nat /\ g[y] \in Nat,
         \A y \in S \ {x} : f[y] = g[y]
  PROVE  SumFunctionOnSet(g, S) + f[x] = SumFunctionOnSet(f, S) + g[x]
<1>1. IsFiniteSet(S \ {x})
  BY FS_Subset
<1>2. SumFunctionOnSet(f, S) = f[x] + SumFunctionOnSet(f, S \ {x})
  BY SumTakeOut
<1>3. SumFunctionOnSet(g, S) = g[x] + SumFunctionOnSet(g, S \ {x})
  BY SumTakeOut
<1>4. SumFunctionOnSet(f, S \ {x}) = SumFunctionOnSet(g, S \ {x})
  BY <1>1, SumEqual
<1>5. SumFunctionOnSet(f, S \ {x}) \in Nat
  BY <1>1, SumType
<1>6. f[x] \in Nat /\ g[x] \in Nat
  OBVIOUS
<1> QED
  BY <1>2, <1>3, <1>4, <1>5, <1>6

=============================================================================
