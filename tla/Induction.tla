------------------------------- MODULE Induction -------------------------------
(***************************************************************************)
(* Induction on the naturals, stated for sets instead of predicates.  The  *)
(* set of the numbers with a property is a set like any other, so a proof  *)
(* that needs an induction defines that set and cites a theorem of this    *)
(* module.  All of them rest on the strict inclusion of finite sets being  *)
(* well founded: of the intervals 0 .. k with k in a set, one is smallest. *)
(***************************************************************************)
EXTENDS Integers, FiniteSets, FiniteSetTheorems, WellFoundedInduction, TLAPS

(* A set of naturals that is not empty has a least element. *)
THEOREM LeastNumber ==
  ASSUME NEW T \in SUBSET Nat, T # {}
  PROVE  \E n \in T : \A m \in T : n <= m
<1> DEFINE Intervals == {0 .. k : k \in T}
           R == StrictSubsetOrdering(Nat)
           F == FiniteSubsetsOf(Nat)
<1>1. IsWellFoundedOn(R, F)
  BY FS_StrictSubsetOrderingWellFounded
<1>2. Intervals \subseteq F
  <2>1. \A k \in T : IsFiniteSet(0 .. k) /\ 0 .. k \subseteq Nat
    BY FS_Interval
  <2> QED
    BY <2>1 DEF FiniteSubsetsOf
<1>3. Intervals # {}
  OBVIOUS
<1>4. \E x \in Intervals : \A y \in Intervals : ~(<<y, x>> \in R)
  <2> HIDE DEF Intervals, R, F
  <2> QED
    BY <1>1, <1>2, <1>3, WFMin
<1>5. PICK n \in T : \A y \in Intervals : ~(<<y, 0 .. n>> \in R)
  BY <1>4
<1>6. ASSUME NEW m \in T, m < n PROVE FALSE
  <2>1. 0 .. m \in Intervals /\ 0 .. m \in SUBSET Nat /\ 0 .. n \in SUBSET Nat
    OBVIOUS
  <2>2. 0 .. m \subseteq 0 .. n /\ n \in 0 .. n /\ n \notin 0 .. m
    BY <1>6
  <2> QED
    BY <1>5, <2>1, <2>2 DEF StrictSubsetOrdering
<1> QED
  BY <1>6

(* A set that has 0 and, with each number up to a bound, the next one, has *)
(* all the numbers up to the bound.                                        *)
THEOREM IntervalInduction ==
  ASSUME NEW bound \in Nat, NEW S, 0 \in S,
         \A k \in 0 .. bound - 1 : k \in S => k + 1 \in S
  PROVE  0 .. bound \subseteq S
<1> DEFINE Rest == (0 .. bound) \ S
<1> SUFFICES ASSUME Rest # {} PROVE FALSE
  OBVIOUS
<1>1. PICK n \in Rest : \A m \in Rest : n <= m
  <2>1. Rest \in SUBSET Nat
    OBVIOUS
  <2> HIDE DEF Rest
  <2> QED
    BY <2>1, LeastNumber
<1>2. n \in 1 .. bound /\ n - 1 \in 0 .. bound - 1
  OBVIOUS
<1>3. n - 1 \in S
  BY <1>1, <1>2
<1> QED
  BY <1>2, <1>3

(* The same without a bound. *)
THEOREM SetInduction ==
  ASSUME NEW S, 0 \in S, \A k \in Nat : k \in S => k + 1 \in S
  PROVE  Nat \subseteq S
<1> SUFFICES ASSUME NEW n \in Nat PROVE n \in S
  OBVIOUS
<1>1. 0 .. n \subseteq S
  BY IntervalInduction
<1> QED
  BY <1>1

(* step[k] leads from the values allowed at k - 1 to those allowed at k. *)
StepsAllowed(bound, allowed, step) ==
  \A k \in 1 .. bound : \A v \in allowed[k - 1] : step[k][v] \in allowed[k]

(* The values of f start with base, and each comes from the one before. *)
IsIteration(f, bound, base, allowed, step) ==
  /\ f[0] = base
  /\ \A k \in 1 .. bound : f[k] = step[k][f[k - 1]]
  /\ \A k \in 0 .. bound : f[k] \in allowed[k]

(* Such a function exists, so a recursive definition of it defines it. *)
THEOREM IterationExists ==
  ASSUME NEW bound \in Nat, NEW Value, NEW allowed \in [0 .. bound -> SUBSET Value],
         NEW base \in allowed[0], NEW step, StepsAllowed(bound, allowed, step)
  PROVE  \E f \in [0 .. bound -> Value] : IsIteration(f, bound, base, allowed, step)
<1> USE DEF StepsAllowed
<1> DEFINE Is(f, n) == /\ f[0] = base
                       /\ \A k \in 1 .. n : f[k] = step[k][f[k - 1]]
                       /\ \A k \in 0 .. n : f[k] \in allowed[k]
           Good == {n \in 0 .. bound : \E f \in [0 .. n -> Value] : Is(f, n)}
<1>1. 0 \in Good
  <2> DEFINE f == [k \in 0 .. 0 |-> base]
  <2>1. f \in [0 .. 0 -> Value] /\ Is(f, 0)
    OBVIOUS
  <2>2. 0 \in 0 .. bound
    OBVIOUS
  <2> HIDE DEF f, Is
  <2> QED
    BY <2>1, <2>2
<1>2. ASSUME NEW n \in 0 .. bound - 1, n \in Good PROVE n + 1 \in Good
  <2>1. PICK f \in [0 .. n -> Value] : Is(f, n)
    BY <1>2
  <2> DEFINE g == [k \in 0 .. n + 1 |-> IF k = n + 1 THEN step[n + 1][f[n]] ELSE f[k]]
  <2>2. \A k \in 0 .. n : g[k] = f[k]
    OBVIOUS
  <2>3. g[n + 1] = step[n + 1][f[n]]
    OBVIOUS
  <2>4. n + 1 \in 1 .. bound /\ n + 1 \in 0 .. bound /\ n + 1 - 1 = n /\ n \in 0 .. n
    OBVIOUS
  <2>5. g[n + 1] \in allowed[n + 1] /\ g[n + 1] = step[n + 1][g[n]]
    <3>1. f[n] \in allowed[n + 1 - 1]
      BY <2>1, <2>4
    <3> QED
      BY <2>2, <2>3, <2>4, <3>1
  <2>6. \A k \in 0 .. n + 1 : g[k] \in allowed[k]
    <3> TAKE k \in 0 .. n + 1
    <3>1. k = n + 1 \/ k \in 0 .. n
      OBVIOUS
    <3> HIDE DEF g
    <3> QED
      BY <2>1, <2>2, <2>5, <3>1
  <2>7. \A k \in 1 .. n + 1 : g[k] = step[k][g[k - 1]]
    <3> TAKE k \in 1 .. n + 1
    <3>1. CASE k = n + 1
      BY <2>4, <2>5, <3>1
    <3>2. CASE k \in 1 .. n
      <4>1. f[k] = step[k][f[k - 1]]
        BY <2>1, <3>2
      <4>2. k - 1 \in 0 .. n /\ k \in 0 .. n
        BY <3>2
      <4>3. g[k] = f[k] /\ g[k - 1] = f[k - 1]
        BY <2>2, <4>2
      <4> HIDE DEF g
      <4> QED
        BY <4>1, <4>3
    <3> QED
      BY <3>1, <3>2
  <2>8. g \in [0 .. n + 1 -> Value]
    <3>1. \A k \in 0 .. n + 1 : k \in 0 .. bound
      OBVIOUS
    <3>2. \A k \in 0 .. n + 1 : g[k] \in Value
      <4> HIDE DEF g
      <4> QED
        BY <2>6, <3>1
    <3>3. g = [k \in 0 .. n + 1 |-> g[k]]
      OBVIOUS
    <3> HIDE DEF g
    <3> QED
      BY <3>2, <3>3
  <2>9. Is(g, n + 1)
    <3>1. g[0] = base
      BY <2>1, <2>2
    <3> HIDE DEF g
    <3> QED
      BY <2>6, <2>7, <3>1
  <2> QED
    <3> HIDE DEF g, Is
    <3> QED
      BY <2>4, <2>8, <2>9
<1>3. bound \in Good
  <2>1. 0 .. bound \subseteq Good
    <3> HIDE DEF Good
    <3> QED
      BY <1>1, <1>2, IntervalInduction
  <2> QED
    BY <2>1
<1> QED
  BY <1>3 DEF IsIteration
================================================================================
