----------------------------- MODULE MerkleProofs ------------------------------
(***************************************************************************)
(* Theorems about Merkle, for any data and any bound on their number.  In  *)
(* this order: the ancestors of a leaf and the depth of the tree, by        *)
(* powers of two; order_proof, whose directions are the sides of the       *)
(* ancestors; the reference's hashes, level by level; gen_helper, whose    *)
(* levels are the reference's; proof_helper, whose answer at a node is the *)
(* siblings below it; and the invariant, with a lemma for each action.     *)
(***************************************************************************)
EXTENDS Merkle, Induction

IsAncestors(f, k) ==
  /\ f[0] = k
  /\ \A l \in 1 .. MaxLeaves : f[l] = f[l - 1] \div 2

(* The ancestors of a node are defined, and are nodes.  *)
LEMMA AncestorsType ==
  ASSUME NEW k \in Nat
  PROVE  Ancestors(k) \in [Level -> Nat] /\ IsAncestors(Ancestors(k), k)
<1> USE MerkleAssumption
<1> DEFINE Is(f) == f = [l \in Level |-> IF l = 0 THEN k ELSE f[l - 1] \div 2]
           allowed == [l \in 0 .. MaxLeaves |-> Nat]
           step == [l \in 1 .. MaxLeaves |-> [v \in Nat |-> v \div 2]]
<1>0. 0 \in Level /\ Level = 0 .. MaxLeaves /\ \A l \in Level, v \in Nat : v \div 2 \in Nat
  BY DEF Level
<1>1. \E f : Is(f)
  <2>1. allowed \in [0 .. MaxLeaves -> SUBSET Nat] /\ k \in allowed[0]
    OBVIOUS
  <2>2. StepsAllowed(MaxLeaves, allowed, step)
    BY <1>0 DEF StepsAllowed
  <2>3. PICK f \in [0 .. MaxLeaves -> Nat] : IsIteration(f, MaxLeaves, k, allowed, step)
    <3> HIDE DEF allowed, step
    <3> QED
      BY <2>1, <2>2, IterationExists
  <2>4. ASSUME NEW l \in Level, l # 0 PROVE f[l] = f[l - 1] \div 2
    <3>1. l \in 1 .. MaxLeaves /\ l - 1 \in 0 .. MaxLeaves
      BY <1>0, <2>4
    <3> QED
      BY <2>3, <3>1 DEF IsIteration
  <2>5. f = [l \in Level |-> f[l]] /\ f[0] = k
    BY <1>0, <2>3 DEF IsIteration
  <2> QED
    BY <2>4, <2>5
<1> DEFINE above == CHOOSE f : Is(f)
<1>2. Is(above)
  BY <1>1
<1>3. Ancestors(k) = above
  BY DEF Ancestors
<1> HIDE DEF above
<1>4. above[0] = k /\ \A l \in 1 .. MaxLeaves : above[l] = above[l - 1] \div 2
  BY <1>0, <1>2
<1> DEFINE T == {l \in Level : above[l] \in Nat}
<1>5. 0 .. MaxLeaves \subseteq T
  <2>1. 0 \in T
    BY <1>0, <1>4
  <2>2. \A l \in 0 .. MaxLeaves - 1 : l \in T => l + 1 \in T
    <3> SUFFICES ASSUME NEW l \in 0 .. MaxLeaves - 1, l \in T PROVE l + 1 \in T
      OBVIOUS
    <3>1. above[l + 1] = above[l] \div 2 /\ l + 1 \in Level
      BY <1>0, <1>4
    <3> QED
      BY <1>0, <3>1
  <2> HIDE DEF T
  <2> QED
    BY <2>1, <2>2, IntervalInduction
<1> QED
  BY <1>0, <1>2, <1>3, <1>4, <1>5 DEF IsAncestors

(* Level by level. *)
LEMMA AncestorsStep ==
  ASSUME NEW k \in Nat, NEW l \in 0 .. MaxLeaves - 1
  PROVE  /\ l \in Level /\ l + 1 \in Level
         /\ Ancestors(k)[l] \in Nat /\ Ancestors(k)[l + 1] \in Nat
         /\ Ancestors(k)[l + 1] = Ancestors(k)[l] \div 2
<1>1. l \in Level /\ l + 1 \in Level /\ l + 1 \in 1 .. MaxLeaves /\ l + 1 - 1 = l
  BY MerkleAssumption DEF Level
<1> QED
  BY <1>1, AncestorsType DEF IsAncestors

(* A node to the right of another has its ancestors to the right. *)
LEMMA AncestorsInOrder ==
  ASSUME NEW i \in Nat, NEW j \in Nat, i <= j, NEW l \in Level
  PROVE  Ancestors(i)[l] <= Ancestors(j)[l]
<1> DEFINE T == {h \in Level : Ancestors(i)[h] <= Ancestors(j)[h]}
<1>1. 0 \in T
  <2>1. 0 \in Level
    BY MerkleAssumption DEF Level
  <2>2. Ancestors(i)[0] = i /\ Ancestors(j)[0] = j
    BY AncestorsType DEF IsAncestors
  <2> QED
    BY <2>1, <2>2
<1>2. \A h \in 0 .. MaxLeaves - 1 : h \in T => h + 1 \in T
  BY AncestorsStep
<1>3. 0 .. MaxLeaves \subseteq T
  <2> HIDE DEF T
  <2> QED
    BY <1>1, <1>2, MerkleAssumption, IntervalInduction
<1> QED
  BY <1>3 DEF Level

(* Depth is the first level with one node; there is one, since the number of *)
(* nodes falls from level to level until it is one.                          *)
LEMMA DepthType ==
  ASSUME NEW n \in 1 .. MaxLeaves
  PROVE  /\ Depth(n) \in Level /\ Depth(n) < n
         /\ LastNode(n) = Ancestors(n - 1) /\ LastNode(n)[Depth(n)] = 0
         /\ \A l \in 0 .. Depth(n) - 1 : l \in Level /\ LastNode(n)[l] \in Nat \ {0}
<1> DEFINE last == Ancestors(n - 1)
<1>0. n - 1 \in Nat /\ last = LastNode(n) /\ n - 1 \in Level
  BY MerkleAssumption DEF LastNode, Level
<1>1. last[0] = n - 1 /\ \A l \in Level : last[l] \in Nat
  BY <1>0, AncestorsType DEF IsAncestors
<1>2. \A l \in 0 .. MaxLeaves - 1 : l \in Level /\ l + 1 \in Level /\ last[l + 1] = last[l] \div 2
  BY <1>0, AncestorsStep
<1> HIDE DEF last
<1>3. last[n - 1] = 0
  <2> DEFINE T == {l \in Level : l <= n - 1 => last[l] <= n - 1 - l}
  <2>1. 0 \in T
    BY <1>1, MerkleAssumption DEF Level
  <2>2. \A l \in 0 .. MaxLeaves - 1 : l \in T => l + 1 \in T
    <3> SUFFICES ASSUME NEW l \in 0 .. MaxLeaves - 1, l \in T, l + 1 <= n - 1
                 PROVE  last[l + 1] <= n - 1 - (l + 1)
      BY <1>2
    <3>1. last[l] <= n - 1 - l /\ last[l] \in Nat /\ l \in Nat /\ n \in Nat
      BY <1>1, <1>2
    <3>2. last[l + 1] = last[l] \div 2
      BY <1>2
    <3> QED
      BY <3>1, <3>2
  <2>3. 0 .. MaxLeaves \subseteq T
    <3> HIDE DEF T
    <3> QED
      BY <2>1, <2>2, MerkleAssumption, IntervalInduction
  <2>4. n - 1 \in T
    BY <1>0, <2>3 DEF Level
  <2>5. last[n - 1] <= n - 1 - (n - 1)
    BY <2>4
  <2> QED
    BY <1>0, <1>1, <2>5
<1> DEFINE Z == {l \in Level : last[l] = 0}
<1>4. PICK l \in Z : \A h \in Z : l <= h
  <2>1. n - 1 \in Z /\ Z \in SUBSET Nat
    BY <1>0, <1>3 DEF Level
  <2> HIDE DEF Z
  <2> QED
    BY <2>1, LeastNumber
<1>5. l \in Level /\ last[l] = 0 /\ l <= n - 1
  BY <1>0, <1>3, <1>4
<1>6. \A h \in 0 .. l - 1 : h \in Level /\ last[h] > 0
  <2> SUFFICES ASSUME NEW h \in 0 .. l - 1 PROVE h \in Level /\ last[h] > 0
    OBVIOUS
  <2>1. h \in Level /\ h \notin Z
    <3>1. h \in Level /\ ~(l <= h)
      BY <1>5, MerkleAssumption DEF Level
    <3> QED
      BY <1>4, <3>1
  <2> QED
    BY <1>1, <2>1
<1> DEFINE First(m) == LastNode(n)[m] = 0 /\ \A h \in 0 .. m - 1 : LastNode(n)[h] > 0
<1>7. First(l)
  BY <1>0, <1>5, <1>6
<1>8. Depth(n) \in Level /\ First(Depth(n))
  BY <1>5, <1>7 DEF Depth
<1>9. Depth(n) = l
  <2>1. Depth(n) \in Nat /\ l \in Nat
    BY <1>5, <1>8 DEF Level
  <2> QED
    BY <1>0, <1>5, <1>6, <1>8, <2>1
<1>10. \A h \in 0 .. l - 1 : h \in Level /\ last[h] \in Nat \ {0}
  BY <1>1, <1>6
<1>11. l < n
  BY <1>5 DEF Level
<1>12. LastNode(n) = Ancestors(n - 1)
  BY DEF LastNode
<1> QED
  BY <1>0, <1>5, <1>9, <1>10, <1>11, <1>12

-----------------------------------------------------------------------------
(* The powers of two, which the bounds of the binary search are made of.       *)
Powers(p) ==
  /\ p \in [Level -> Nat \ {0}]
  /\ p[0] = 1
  /\ \A l \in 1 .. MaxLeaves : p[l] = 2 * p[l - 1]

LEMMA PowersExist ==
  \E p : Powers(p)
<1> USE MerkleAssumption
<1> DEFINE allowed == [l \in 0 .. MaxLeaves |-> Nat \ {0}]
           step == [l \in 1 .. MaxLeaves |-> [v \in Nat \ {0} |-> 2 * v]]
<1>1. allowed \in [0 .. MaxLeaves -> SUBSET (Nat \ {0})] /\ 1 \in allowed[0]
  OBVIOUS
<1>2. StepsAllowed(MaxLeaves, allowed, step)
  BY DEF StepsAllowed
<1>3. PICK p \in [0 .. MaxLeaves -> Nat \ {0}] : IsIteration(p, MaxLeaves, 1, allowed, step)
  <2> HIDE DEF allowed, step
  <2> QED
    BY <1>1, <1>2, IterationExists
<1>4. ASSUME NEW l \in 1 .. MaxLeaves PROVE p[l] = 2 * p[l - 1]
  <2>1. p[l] = step[l][p[l - 1]]
    <3> HIDE DEF step, allowed
    <3> QED
      BY <1>3 DEF IsIteration
  <2>2. l - 1 \in 0 .. MaxLeaves
    OBVIOUS
  <2> QED
    BY <1>3, <2>1, <2>2
<1> QED
  BY <1>3, <1>4 DEF Powers, Level, IsIteration

(* Halving l times is dividing by the l-th power. *)
LEMMA AncestorBounds ==
  ASSUME NEW p, Powers(p), NEW k \in Nat, NEW l \in Level
  PROVE  /\ Ancestors(k)[l] * p[l] <= k
         /\ k < Ancestors(k)[l] * p[l] + p[l]
<1> DEFINE up == Ancestors(k)
           T == {h \in Level : up[h] * p[h] <= k /\ k < up[h] * p[h] + p[h]}
<1>1. 0 \in T
  <2>1. 0 \in Level /\ up[0] = k /\ p[0] = 1
    BY MerkleAssumption, AncestorsType DEF IsAncestors, Level, Powers
  <2> QED
    BY <2>1
<1>2. ASSUME NEW h \in 0 .. MaxLeaves - 1, h \in T PROVE h + 1 \in T
  <2>1. /\ h \in Level /\ h + 1 \in Level /\ up[h] \in Nat /\ up[h + 1] \in Nat
        /\ up[h + 1] = up[h] \div 2
    BY AncestorsStep
  <2>2. p[h] \in Nat \ {0} /\ p[h + 1] = 2 * p[h]
    BY <2>1, MerkleAssumption DEF Powers
  <2>3. up[h] = 2 * up[h + 1] \/ up[h] = 2 * up[h + 1] + 1
    BY <2>1
  <2> DEFINE a == up[h + 1]
             q == p[h]
  <2>4. a \in Nat /\ q \in Nat /\ (2 * a) * q = a * (2 * q) /\ (2 * a + 1) * q = a * (2 * q) + q
    BY <2>1, <2>2
  <2>5. up[h] * q = a * (2 * q) \/ up[h] * q = a * (2 * q) + q
    BY <2>3, <2>4
  <2>6. a * (2 * q) \in Nat
    BY <2>4
  <2>7. a * (2 * q) <= k /\ k < a * (2 * q) + 2 * q
    <3> DEFINE m == a * (2 * q)
               o == up[h] * q
    <3>1. o <= k /\ k < o + q /\ (o = m \/ o = m + q) /\ m \in Nat /\ q \in Nat \ {0}
      BY <1>2, <2>2, <2>5, <2>6
    <3> HIDE DEF m, o, q
    <3>2. m <= k /\ k < m + 2 * q
      BY <3>1
    <3> QED
      BY <3>2 DEF m
  <2> QED
    BY <2>1, <2>2, <2>7
<1>3. 0 .. MaxLeaves \subseteq T
  <2> HIDE DEF T
  <2> QED
    BY <1>1, <1>2, MerkleAssumption, IntervalInduction
<1> QED
  BY <1>3 DEF Level

(* The depth is the number of doublings that reach the number of leaves.       *)
LEMMA DepthPower ==
  ASSUME NEW p, Powers(p), NEW n \in 1 .. MaxLeaves
  PROVE  /\ n <= p[Depth(n)]
         /\ \A l \in 0 .. Depth(n) - 1 : p[l] < n
<1> DEFINE last == Ancestors(n - 1)
<1>1. /\ n - 1 \in Nat /\ Depth(n) \in Level /\ last[Depth(n)] = 0
      /\ \A l \in 0 .. Depth(n) - 1 : l \in Level /\ last[l] \in Nat \ {0}
  BY DepthType
<1>2. \A l \in Level : p[l] \in Nat \ {0}
  BY DEF Powers
<1> HIDE DEF last
<1>3. n <= p[Depth(n)]
  <2>1. n - 1 < last[Depth(n)] * p[Depth(n)] + p[Depth(n)]
    BY <1>1, AncestorBounds DEF last
  <2> QED
    BY <1>1, <1>2, <2>1
<1>4. ASSUME NEW l \in 0 .. Depth(n) - 1 PROVE p[l] < n
  <2>1. l \in Level /\ last[l] \in Nat \ {0} /\ p[l] \in Nat \ {0}
    BY <1>1, <1>2
  <2>2. last[l] * p[l] <= n - 1
    BY <1>1, <2>1, AncestorBounds DEF last
  <2>3. p[l] <= last[l] * p[l]
    BY <2>1
  <2>4. last[l] * p[l] \in Nat
    BY <2>1
  <2> QED
    BY <2>1, <2>2, <2>3, <2>4
<1> QED
  BY <1>3, <1>4

(* More leaves make no smaller tree. *)
LEMMA DepthGrows ==
  ASSUME NEW m \in 1 .. MaxLeaves, NEW n \in 1 .. MaxLeaves, m <= n
  PROVE  Depth(m) <= Depth(n)
<1>1. Depth(m) \in Nat /\ Depth(n) \in Nat /\ Depth(n) \in Level
  BY DepthType DEF Level
<1>2. m - 1 \in Nat /\ n - 1 \in Nat /\ m - 1 <= n - 1
  OBVIOUS
<1>3. Ancestors(m - 1)[Depth(n)] <= Ancestors(n - 1)[Depth(n)]
  BY <1>1, <1>2, AncestorsInOrder
<1>4. Ancestors(n - 1)[Depth(n)] = 0 /\ Ancestors(m - 1)[Depth(n)] \in Nat
  BY <1>1, <1>2, DepthType, AncestorsType
<1>5. \A l \in 0 .. Depth(m) - 1 : Ancestors(m - 1)[l] # 0
  BY DepthType
<1> QED
  BY <1>1, <1>3, <1>4, <1>5

-----------------------------------------------------------------------------
(* order_proof: the two loops.  The first stops at the power that DepthPower   *)
(* speaks of.                                                                  *)
LEMMA RoundUpPower ==
  ASSUME NEW p, Powers(p), NEW n \in 1 .. MaxLeaves
  PROVE  RoundUp(n) = p[Depth(n)]
<1> DEFINE D == Depth(n)
           Is(f) == f = [turn \in 0 .. n |->
                           IF turn = 0 THEN 1
                           ELSE LET h == f[turn - 1] IN IF h < n THEN 2 * h ELSE h]
           high == [turn \in 0 .. n |-> p[IF turn <= D THEN turn ELSE D]]
<1>1. D \in 0 .. MaxLeaves /\ D < n
  BY DepthType DEF Level
<1>2. n <= p[D] /\ \A l \in 0 .. D - 1 : p[l] < n
  BY DepthPower
<1> HIDE DEF D
<1>3. p[0] = 1 /\ \A l \in 1 .. D : p[l] = 2 * p[l - 1]
  <2>1. \A l \in 1 .. D : l \in 1 .. MaxLeaves
    BY <1>1, MerkleAssumption
  <2> QED
    BY <2>1 DEF Powers
<1>4. \A l \in 0 .. D : p[l] \in Nat
  <2>1. \A l \in 0 .. D : l \in Level
    BY <1>1, MerkleAssumption DEF Level
  <2> QED
    BY <2>1 DEF Powers
<1>5. ASSUME NEW turn \in 1 .. n
      PROVE  high[turn] = IF high[turn - 1] < n THEN 2 * high[turn - 1] ELSE high[turn - 1]
  <2>1. turn \in 0 .. n /\ turn - 1 \in 0 .. n
    OBVIOUS
  <2>2. CASE turn <= D
    <3>1. high[turn] = p[turn] /\ high[turn - 1] = p[turn - 1]
      BY <1>1, <2>1, <2>2
    <3> QED
      BY <1>1, <1>2, <1>3, <2>2, <3>1
  <2>3. CASE ~(turn <= D)
    <3>1. high[turn] = p[D] /\ high[turn - 1] = p[D]
      BY <1>1, <2>1, <2>3
    <3> QED
      BY <1>1, <1>2, <1>4, <3>1
  <2> QED
    BY <2>2, <2>3
<1>6. Is(high)
  <2>1. high[0] = 1 /\ high = [turn \in 0 .. n |-> high[turn]]
    BY <1>1, <1>3
  <2> HIDE DEF high
  <2>2. ASSUME NEW turn \in 0 .. n
        PROVE  high[turn] = IF turn = 0 THEN 1
                            ELSE LET h == high[turn - 1] IN IF h < n THEN 2 * h ELSE h
    <3>1. turn = 0 \/ turn \in 1 .. n
      OBVIOUS
    <3> QED
      BY <1>5, <2>1, <3>1
  <2> QED
    BY <2>1, <2>2
<1> DEFINE f == CHOOSE f : Is(f)
           T == {turn \in 0 .. n : f[turn] = high[turn]}
<1>7. Is(f) /\ RoundUp(n) = f[n]
  BY <1>6 DEF RoundUp
<1>8. 0 .. n \subseteq T
  <2> HIDE DEF f
  <2>1. f[0] = 1 /\ \A turn \in 1 .. n : f[turn] = IF f[turn - 1] < n THEN 2 * f[turn - 1] ELSE f[turn - 1]
    BY <1>7
  <2>2. 0 \in T
    BY <1>1, <1>3, <2>1
  <2>3. ASSUME NEW k \in 0 .. n - 1, k \in T PROVE k + 1 \in T
    <3>1. k + 1 \in 1 .. n /\ k + 1 \in 0 .. n /\ k + 1 - 1 = k
      OBVIOUS
    <3> HIDE DEF high
    <3>2. f[k] = high[k]
      BY <2>3
    <3>3. f[k + 1] = high[k + 1]
      BY <1>5, <2>1, <3>1, <3>2
    <3> QED
      BY <3>1, <3>3
  <2> HIDE DEF T
  <2> QED
    BY <2>2, <2>3, IntervalInduction
<1>9. f[n] = high[n]
  <2> HIDE DEF f, high
  <2> QED
    BY <1>8
<1>10. high[n] = p[D]
  BY <1>1
<1> HIDE DEF f, high
<1> QED
  BY <1>7, <1>9, <1>10 DEF D

(* The search when the interval has the length of a power m: as many directions *)
(* are out as levels are done, and if the index is in the tree, they are those  *)
(* of its ancestors, of which the interval is that of level m.                  *)
Search == [low : Nat, high : Nat, order : Seq({0, 1})]

Searched(p, i, depth, m) ==
  {r \in Search :
     /\ r.high = r.low + p[m] - 1
     /\ Len(r.order) = depth - m
     /\ i < p[depth] =>
           /\ r.low = Ancestors(i)[m] * p[m]
           /\ \A j \in 1 .. depth - m : r.order[j] = Ancestors(i)[depth - j] % 2}

(* One turn halves the interval. *)
LEMMA NarrowedSearch ==
  ASSUME NEW p, Powers(p), NEW i \in Nat, NEW depth \in Level, NEW m \in 1 .. depth,
         NEW r \in Searched(p, i, depth, m)
  PROVE  Narrowed(r, i) \in Searched(p, i, depth, m - 1)
<1> DEFINE q == p[m - 1]
           up == Ancestors(i)
           middle == (r.high + r.low) \div 2
           s == Narrowed(r, i)
<1>1. /\ m \in Level /\ m - 1 \in Level /\ m - 1 \in 0 .. MaxLeaves - 1
      /\ depth \in Nat /\ m \in Nat /\ m - 1 + 1 = m
  BY MerkleAssumption DEF Level
<1>2. q \in Nat \ {0} /\ p[m] = 2 * q
  BY <1>1 DEF Powers, Level
<1>3. /\ r \in Search /\ r.high = r.low + 2 * q - 1 /\ Len(r.order) = depth - m
      /\ r.low \in Nat /\ r.high \in Nat /\ r.order \in Seq({0, 1})
  BY <1>2 DEF Searched, Search
<1> HIDE DEF q
<1>4. middle = r.low + q - 1 /\ r.low # r.high
  BY <1>2, <1>3
<1> DEFINE bit == IF i <= middle THEN 0 ELSE 1
           low == IF i <= middle THEN r.low ELSE r.low + q
<1>5. s = [low |-> low, high |-> low + q - 1, order |-> Append(r.order, bit)]
  <2>1. CASE i <= middle
    <3>1. s = [r EXCEPT !.high = middle, !.order = Append(@, 0)]
      BY <1>4, <2>1 DEF Narrowed
    <3> HIDE DEF middle
    <3> QED
      BY <1>3, <1>4, <2>1, <3>1 DEF Search
  <2>2. CASE ~(i <= middle)
    <3>1. s = [r EXCEPT !.low = middle + 1, !.order = Append(@, 1)]
      BY <1>4, <2>2 DEF Narrowed
    <3>2. middle + 1 = r.low + q /\ r.high = r.low + q + q - 1
      BY <1>2, <1>3, <1>4
    <3> HIDE DEF middle
    <3> QED
      BY <1>3, <1>4, <2>2, <3>1, <3>2 DEF Search
  <2> QED
    BY <2>1, <2>2
<1>6. low \in Nat /\ bit \in {0, 1}
  BY <1>2, <1>3
<1>7. /\ Append(r.order, bit) \in Seq({0, 1}) /\ Len(Append(r.order, bit)) = depth - (m - 1)
      /\ \A j \in 1 .. depth - m : Append(r.order, bit)[j] = r.order[j]
      /\ Append(r.order, bit)[depth - (m - 1)] = bit
  <2> HIDE DEF bit
  <2> QED
    BY <1>1, <1>3, <1>6
<1>8. ASSUME i < p[depth]
      PROVE  low = up[m - 1] * q /\ bit = up[m - 1] % 2
  <2>1. r.low = up[m] * (2 * q)
    BY <1>2, <1>8 DEF Searched
  <2>2. up[m - 1] \in Nat /\ up[m] \in Nat /\ up[m] = up[m - 1] \div 2
    BY <1>1, AncestorsStep
  <2>3. up[m - 1] * q <= i /\ i < up[m - 1] * q + q
    BY <1>1, AncestorBounds DEF q
  <2> DEFINE a == up[m]
  <2>4. \/ up[m - 1] = 2 * a /\ up[m - 1] % 2 = 0
        \/ up[m - 1] = 2 * a + 1 /\ up[m - 1] % 2 = 1
    BY <2>2
  <2>5. a \in Nat
    BY <2>2
  <2>6. (2 * a) * q = a * (2 * q) /\ (2 * a + 1) * q = a * (2 * q) + q
    <3> HIDE DEF a
    <3> QED
      BY <1>2, <2>5
  <2>7. CASE up[m - 1] = 2 * a /\ up[m - 1] % 2 = 0
    <3>1. up[m - 1] * q = r.low
      BY <2>1, <2>6, <2>7
    <3>2. i <= middle
      <4> HIDE DEF middle
      <4> QED
        BY <1>2, <1>3, <1>4, <2>3, <3>1
    <3> QED
      BY <2>7, <3>1, <3>2
  <2>8. CASE up[m - 1] = 2 * a + 1 /\ up[m - 1] % 2 = 1
    <3>1. up[m - 1] * q = r.low + q
      BY <2>1, <2>6, <2>8
    <3>2. ~(i <= middle)
      <4> HIDE DEF middle
      <4> QED
        BY <1>2, <1>3, <1>4, <2>3, <3>1
    <3> QED
      BY <2>8, <3>1, <3>2
  <2> QED
    BY <2>4, <2>7, <2>8
<1> HIDE DEF low, bit
<1>9. s \in Search
  BY <1>2, <1>5, <1>6, <1>7 DEF Search
<1>10. /\ s.high = s.low + q - 1 /\ Len(s.order) = depth - (m - 1)
       /\ s.low = low /\ s.order = Append(r.order, bit)
  BY <1>5, <1>7
<1>11. ASSUME i < p[depth], NEW j \in 1 .. depth - (m - 1)
       PROVE  s.order[j] = up[depth - j] % 2
  <2>1. CASE j = depth - (m - 1)
    <3>1. depth - j = m - 1
      BY <1>1, <2>1
    <3> QED
      BY <1>7, <1>8, <1>10, <1>11, <2>1, <3>1
  <2>2. CASE j # depth - (m - 1)
    <3>1. j \in 1 .. depth - m
      BY <1>1, <2>2
    <3>2. r.order[j] = up[depth - j] % 2
      BY <1>11, <3>1 DEF Searched
    <3> QED
      BY <1>7, <1>10, <3>1, <3>2
  <2> QED
    BY <2>1, <2>2
<1> HIDE DEF s, up
<1>12. i < p[depth] => s.low = up[m - 1] * p[m - 1]
  BY <1>8, <1>10 DEF q
<1> QED
  BY <1>9, <1>10, <1>11, <1>12 DEF Searched, q, s, up

(* So the directions are the ancestors' sides, from the root to the leaf.      *)
LEMMA OrderIsSides ==
  ASSUME NEW i \in Nat, NEW n \in 1 .. MaxLeaves
  PROVE  /\ OrderProof(i, n) \in Seq({0, 1}) /\ Len(OrderProof(i, n)) = Depth(n)
         /\ i < n => \A j \in 1 .. Depth(n) :
                         OrderProof(i, n)[j] = Ancestors(i)[Depth(n) - j] % 2
<1>1. PICK p : Powers(p)
  BY PowersExist
<1> DEFINE D == Depth(n)
           start == [low |-> 0, high |-> RoundUp(n) - 1, order |-> <<>>]
           Is(f) == f = [turn \in 0 .. n |-> IF turn = 0 THEN start ELSE Narrowed(f[turn - 1], i)]
           Left(turn) == IF turn <= D THEN D - turn ELSE 0
           allowed == [turn \in 0 .. n |-> Searched(p, i, D, Left(turn))]
           step == [turn \in 1 .. n |-> [r \in Search |-> Narrowed(r, i)]]
<1>2. D \in Level /\ D \in Nat /\ D < n /\ n \in Nat /\ D \in 0 .. MaxLeaves
  BY DepthType DEF Level
<1>3. RoundUp(n) = p[D] /\ p[D] \in Nat \ {0} /\ n <= p[D] /\ p[0] = 1
  BY <1>1, <1>2, RoundUpPower, DepthPower DEF Powers
<1> HIDE DEF D
<1>4. start \in Searched(p, i, D, Left(0))
  <2>1. Left(0) = D /\ 1 .. D - D = {}
    BY <1>2
  <2>2. i < p[D] => 0 = Ancestors(i)[D] * p[D]
    <3>1. Ancestors(i)[D] * p[D] <= i /\ Ancestors(i)[D] \in Nat
      BY <1>1, <1>2, AncestorBounds, AncestorsType
    <3>2. Ancestors(i)[D] # 0 => Ancestors(i)[D] * p[D] >= p[D]
      BY <1>3, <3>1
    <3>3. Ancestors(i)[D] * p[D] \in Nat
      BY <1>3, <3>1
    <3>4. i < p[D] => Ancestors(i)[D] = 0
      BY <1>3, <3>1, <3>2, <3>3
    <3> QED
      BY <1>3, <3>4
  <2>3. start \in Search /\ start.low = 0 /\ start.high = p[D] - 1 /\ start.order = <<>>
    BY <1>3 DEF Search
  <2>4. Len(start.order) = D - D
    BY <1>2, <2>3
  <2> HIDE DEF start, Left
  <2> QED
    BY <1>3, <2>1, <2>2, <2>3, <2>4 DEF Searched
<1>5. ASSUME NEW turn \in 1 .. n, NEW r \in Searched(p, i, D, Left(turn - 1))
      PROVE  Narrowed(r, i) \in Searched(p, i, D, Left(turn))
  <2>1. CASE turn <= D
    <3>1. Left(turn) = Left(turn - 1) - 1 /\ Left(turn - 1) \in 1 .. D
      BY <1>2, <2>1
    <3> HIDE DEF Left
    <3> QED
      BY <1>1, <1>2, <3>1, NarrowedSearch
  <2>2. CASE ~(turn <= D)
    <3>1. Left(turn) = 0 /\ Left(turn - 1) = 0
      BY <1>2, <2>2
    <3>2. r.low \in Nat /\ r.high = r.low + 1 - 1
      BY <1>3, <3>1 DEF Searched, Search
    <3>3. Narrowed(r, i) = r
      BY <3>2 DEF Narrowed
    <3> QED
      BY <3>1, <3>3
  <2> QED
    BY <2>1, <2>2
<1> HIDE DEF start, Left
<1>6. \E f : Is(f)
  <2>1. allowed \in [0 .. n -> SUBSET Search] /\ start \in allowed[0]
    BY <1>2, <1>4 DEF Searched
  <2>2. StepsAllowed(n, allowed, step)
    <3> SUFFICES ASSUME NEW turn \in 1 .. n, NEW r \in allowed[turn - 1]
                 PROVE  step[turn][r] \in allowed[turn]
      BY DEF StepsAllowed
    <3>1. turn \in 0 .. n /\ turn - 1 \in 0 .. n
      OBVIOUS
    <3>2. r \in Searched(p, i, D, Left(turn - 1)) /\ allowed[turn] = Searched(p, i, D, Left(turn))
      BY <3>1
    <3>3. r \in Search
      BY <3>2 DEF Searched
    <3>4. step[turn][r] = Narrowed(r, i)
      BY <3>3
    <3> HIDE DEF allowed, step
    <3> QED
      BY <1>5, <3>2, <3>4
  <2>3. PICK f \in [0 .. n -> Search] : IsIteration(f, n, start, allowed, step)
    <3> HIDE DEF allowed, step
    <3> QED
      BY <1>2, <2>1, <2>2, IterationExists
  <2>4. ASSUME NEW turn \in 0 .. n, turn # 0 PROVE f[turn] = Narrowed(f[turn - 1], i)
    <3>1. turn \in 1 .. n /\ turn - 1 \in 0 .. n
      BY <2>4
    <3>2. f[turn] = step[turn][f[turn - 1]] /\ f[turn - 1] \in Search
      <4> HIDE DEF step, allowed
      <4> QED
        BY <2>3, <3>1 DEF IsIteration
    <3> QED
      BY <3>1, <3>2
  <2>5. f = [turn \in 0 .. n |-> f[turn]] /\ f[0] = start
    BY <2>3 DEF IsIteration
  <2> QED
    BY <2>4, <2>5
<1> DEFINE search == CHOOSE f : Is(f)
<1>7. Is(search) /\ OrderProof(i, n) = search[n].order
  BY <1>6 DEF OrderProof, start
<1> DEFINE T == {turn \in 0 .. n : search[turn] \in Searched(p, i, D, Left(turn))}
<1>8. 0 .. n \subseteq T
  <2> HIDE DEF search
  <2>1. search[0] = start /\ \A turn \in 1 .. n : search[turn] = Narrowed(search[turn - 1], i)
    BY <1>2, <1>7
  <2>2. 0 \in T
    BY <1>2, <1>4, <2>1
  <2>3. ASSUME NEW k \in 0 .. n - 1, k \in T PROVE k + 1 \in T
    <3>1. k + 1 \in 1 .. n /\ k + 1 \in 0 .. n /\ k + 1 - 1 = k
      OBVIOUS
    <3> QED
      BY <1>5, <2>1, <2>3, <3>1
  <2> HIDE DEF T
  <2> QED
    BY <1>2, <2>2, <2>3, IntervalInduction
<1> HIDE DEF search
<1>9. search[n] \in Searched(p, i, D, 0)
  <2>1. Left(n) = 0
    BY <1>2 DEF Left
  <2> QED
    BY <1>2, <1>8, <2>1
<1>10. D - 0 = D /\ (i < n => i < p[D])
  BY <1>2, <1>3
<1> QED
  BY <1>7, <1>9, <1>10 DEF Searched, Search, D

(* Without leaves there is nothing to search. *)
LEMMA NoOrder ==
  ASSUME NEW i
  PROVE  OrderProof(i, 0) \in Seq({0, 1})
<1> DEFINE start == [low |-> 0, high |-> RoundUp(0) - 1, order |-> <<>>]
           Is(f) == f = [turn \in 0 .. 0 |-> IF turn = 0 THEN start ELSE Narrowed(f[turn - 1], i)]
           search == CHOOSE f : Is(f)
<1>1. Is([turn \in 0 .. 0 |-> start])
  OBVIOUS
<1>2. Is(search)
  <2> HIDE DEF Is
  <2> QED
    BY <1>1
<1>3. search[0] = start
  <2> HIDE DEF search, start
  <2> QED
    BY <1>2
<1>4. OrderProof(i, 0) = search[0].order
  BY DEF OrderProof
<1> HIDE DEF search
<1>5. search[0].order = <<>>
  BY <1>3
<1>6. <<>> \in Seq({0, 1})
  OBVIOUS
<1> QED
  BY <1>4, <1>5, <1>6

-----------------------------------------------------------------------------
(* The reference table is defined.  Its values belong to no set of hashes, so   *)
(* the induction is on the levels up to which it exists.                        *)
NonemptyData == {d \in Seq(Datum) : Len(d) \in 1 .. MaxLeaves}

HashRow(d, l, below) ==
  [k \in Nat |->
     LET at == Clamped(k, LastNode(Len(d))[l])
     IN  IF l = 0 THEN HashOf(d[at + 1])
         ELSE ConcatAndHash(below[2 * at], below[2 * at + 1])]

LEMMA HashesRows ==
  ASSUME NEW d
  PROVE  \A l \in Level : Hashes(d)[l] = HashRow(d, l, Hashes(d)[l - 1])
<1> DEFINE Is(f, m) == f = [l \in 0 .. m |-> HashRow(d, l, f[l - 1])]
           Good == {m \in 0 .. MaxLeaves : \E f : Is(f, m)}
<1>1. \A a, b : HashRow(d, 0, a) = HashRow(d, 0, b)
  BY DEF HashRow
<1>2. 0 \in Good
  <2> DEFINE f == [l \in 0 .. 0 |-> HashRow(d, l, <<>>)]
  <2>1. \A l \in 0 .. 0 : f[l] = HashRow(d, l, f[l - 1])
    BY <1>1
  <2>2. Is(f, 0)
    BY <2>1
  <2> QED
    BY <2>2, MerkleAssumption
<1>3. ASSUME NEW m \in 0 .. MaxLeaves - 1, m \in Good PROVE m + 1 \in Good
  <2>1. PICK f : Is(f, m)
    BY <1>3
  <2> DEFINE g == [l \in 0 .. m + 1 |-> IF l = m + 1 THEN HashRow(d, l, f[m]) ELSE f[l]]
  <2>2. m \in Nat /\ m + 1 \in 0 .. MaxLeaves /\ m + 1 - 1 = m
    BY MerkleAssumption
  <2>3. \A l \in 0 .. m : g[l] = f[l] /\ f[l] = HashRow(d, l, f[l - 1])
    BY <2>1, <2>2
  <2>4. g[m + 1] = HashRow(d, m + 1, f[m])
    BY <2>2
  <2>5. ASSUME NEW l \in 0 .. m + 1 PROVE g[l] = HashRow(d, l, g[l - 1])
    <3> HIDE DEF g
    <3>1. CASE l = 0
      BY <1>1, <2>2, <2>3, <3>1
    <3>2. CASE l = m + 1
      <4>1. g[m] = f[m]
        BY <2>2, <2>3
      <4> QED
        BY <2>2, <2>4, <3>2, <4>1
    <3>3. CASE l \in 1 .. m
      <4>1. l \in 0 .. m /\ l - 1 \in 0 .. m
        BY <2>2, <3>3
      <4> QED
        BY <2>3, <4>1
    <3> QED
      BY <2>2, <3>1, <3>2, <3>3
  <2>6. Is(g, m + 1)
    <3>1. g = [l \in 0 .. m + 1 |-> g[l]]
      OBVIOUS
    <3> HIDE DEF g
    <3> QED
      BY <2>5, <3>1
  <2> HIDE DEF g, Is
  <2> QED
    BY <2>2, <2>6
<1>4. MaxLeaves \in Good
  <2> HIDE DEF Good
  <2>1. 0 .. MaxLeaves \subseteq Good
    BY <1>2, <1>3, MerkleAssumption, IntervalInduction
  <2> QED
    BY <2>1, MerkleAssumption
<1> DEFINE hash == CHOOSE f : Is(f, MaxLeaves)
<1>5. Is(hash, MaxLeaves)
  BY <1>4
<1>6. Hashes(d) = hash
  BY DEF Hashes, HashRow, Level
<1> HIDE DEF hash
<1> QED
  BY <1>5, <1>6 DEF Level

(* A leaf, an inner node, and the node past the last one.                       *)
LEMMA HashesLeaf ==
  ASSUME NEW d \in NonemptyData, NEW k \in 0 .. Len(d) - 1
  PROVE  Hashes(d)[0][k] = HashOf(d[k + 1])
<1>1. 0 \in Level /\ k \in Nat /\ Len(d) \in 1 .. MaxLeaves /\ Len(d) - 1 \in Nat
  BY MerkleAssumption DEF Level, NonemptyData
<1>2. LastNode(Len(d))[0] = Len(d) - 1
  BY <1>1, AncestorsType DEF LastNode, IsAncestors
<1>3. Clamped(k, LastNode(Len(d))[0]) = k
  BY <1>2 DEF Clamped
<1>4. Hashes(d)[0] = HashRow(d, 0, Hashes(d)[0 - 1])
  BY <1>1, HashesRows
<1> QED
  BY <1>1, <1>3, <1>4 DEF HashRow

LEMMA HashesInner ==
  ASSUME NEW d, NEW l \in 1 .. MaxLeaves, NEW k \in Nat, k <= LastNode(Len(d))[l]
  PROVE  Hashes(d)[l][k] = ConcatAndHash(Hashes(d)[l - 1][2 * k], Hashes(d)[l - 1][2 * k + 1])
<1>1. l \in Level /\ l # 0
  BY MerkleAssumption DEF Level
<1>2. Clamped(k, LastNode(Len(d))[l]) = k
  BY DEF Clamped
<1>3. Hashes(d)[l] = HashRow(d, l, Hashes(d)[l - 1])
  BY <1>1, HashesRows
<1> QED
  BY <1>1, <1>2, <1>3 DEF HashRow

LEMMA HashesPast ==
  ASSUME NEW d, NEW l \in Level, LastNode(Len(d))[l] \in Nat
  PROVE  Hashes(d)[l][LastNode(Len(d))[l] + 1] = Hashes(d)[l][LastNode(Len(d))[l]]
<1> DEFINE last == LastNode(Len(d))[l]
<1>1. Clamped(last + 1, last) = last /\ Clamped(last, last) = last /\ last + 1 \in Nat
  BY DEF Clamped
<1>2. Hashes(d)[l] = HashRow(d, l, Hashes(d)[l - 1])
  BY HashesRows
<1> HIDE DEF last
<1> QED
  BY <1>1, <1>2 DEF HashRow, last

-----------------------------------------------------------------------------
(* The nodes that gen_helper makes: node k of a level, a level before and after *)
(* the last node of an odd one is repeated, and the levels below one.           *)
NodeOf(d, l, k) ==
  [hash |-> Hashes(d)[l][k], index |-> IF l = 0 THEN k ELSE -1,
   left |-> IF l = 0 THEN 0 ELSE 2 * k + 1, right |-> IF l = 0 THEN 0 ELSE 2 * k + 2]

LastAt(d, l) == LastNode(Len(d))[l]

Row(d, l) == [k \in 1 .. LastAt(d, l) + 1 |-> NodeOf(d, l, k - 1)]

EvenRow(d, l) ==
  [k \in 1 .. 2 * (LastAt(d, l) \div 2) + 2 |->
     IF k <= LastAt(d, l) + 1 THEN NodeOf(d, l, k - 1)
     ELSE Duplicated(NodeOf(d, l, LastAt(d, l)))]

Below(d, l) == [h \in 1 .. l |-> EvenRow(d, h - 1)]

(* The last nodes of two levels, up to the root. *)
LEMMA LastNodes ==
  ASSUME NEW d \in NonemptyData
  PROVE  /\ Len(d) \in 1 .. MaxLeaves /\ Len(d) - 1 \in Nat
         /\ Depth(Len(d)) \in Level /\ Depth(Len(d)) \in 0 .. MaxLeaves
         /\ LastAt(d, 0) = Len(d) - 1 /\ LastAt(d, Depth(Len(d))) = 0
         /\ \A l \in 0 .. Depth(Len(d)) : l \in Level /\ LastAt(d, l) \in Nat
         /\ \A l \in 0 .. Depth(Len(d)) - 1 :
                /\ l + 1 \in Level /\ LastAt(d, l) \in Nat \ {0}
                /\ LastAt(d, l + 1) = LastAt(d, l) \div 2
<1>1. Len(d) \in 1 .. MaxLeaves /\ Len(d) - 1 \in Nat
  BY MerkleAssumption DEF NonemptyData
<1>2. /\ Depth(Len(d)) \in Level /\ LastAt(d, Depth(Len(d))) = 0
      /\ \A l \in 0 .. Depth(Len(d)) - 1 : LastAt(d, l) \in Nat \ {0}
  BY <1>1, DepthType DEF LastAt
<1> DEFINE D == Depth(Len(d))
<1>3. D \in 0 .. MaxLeaves
  BY <1>2 DEF Level
<1> HIDE DEF D
<1>4. \A l \in 0 .. D : l \in Level /\ LastAt(d, l) \in Nat
  <2>1. \A l \in 0 .. D : l \in Level
    BY <1>3, MerkleAssumption DEF Level
  <2> QED
    BY <1>1, <2>1, AncestorsType DEF LastAt, LastNode
<1>5. LastAt(d, 0) = Len(d) - 1
  BY <1>1, AncestorsType DEF LastAt, LastNode, IsAncestors
<1>6. \A l \in 0 .. D - 1 : l + 1 \in Level /\ LastAt(d, l + 1) = LastAt(d, l) \div 2
  <2>1. \A l \in 0 .. D - 1 : l \in 0 .. MaxLeaves - 1
    BY <1>3, MerkleAssumption
  <2> QED
    BY <1>1, <2>1, AncestorsStep DEF LastAt, LastNode
<1> QED
  BY <1>1, <1>2, <1>3, <1>4, <1>5, <1>6 DEF D

(* What a finished level has at each place. *)
LEMMA EvenRowNode ==
  ASSUME NEW d \in NonemptyData, NEW l \in 0 .. Depth(Len(d)), NEW k \in 1 .. Len(EvenRow(d, l))
  PROVE  /\ Len(EvenRow(d, l)) = 2 * (LastAt(d, l) \div 2) + 2
         /\ EvenRow(d, l)[k].hash = Hashes(d)[l][k - 1]
         /\ \/ k - 1 \in 0 .. LastAt(d, l) /\ EvenRow(d, l)[k] = NodeOf(d, l, k - 1)
            \/ /\ k - 1 = LastAt(d, l) + 1
               /\ EvenRow(d, l)[k] = Duplicated(NodeOf(d, l, LastAt(d, l)))
<1> DEFINE last == LastAt(d, l)
           len == 2 * (last \div 2) + 2
<1>1. last \in Nat /\ l \in Level
  BY LastNodes
<1>2. len \in Nat /\ (len = last + 1 \/ len = last + 2)
  <2> HIDE DEF last
  <2>1. len \in Nat
    BY <1>1
  <2>2. len = last + 1 \/ len = last + 2
    BY <1>1
  <2> QED
    BY <2>1, <2>2
<1>3. Len(EvenRow(d, l)) = len
  BY <1>2 DEF EvenRow
<1>4. /\ k \in 1 .. len
      /\ EvenRow(d, l)[k] = IF k <= last + 1 THEN NodeOf(d, l, k - 1)
                            ELSE Duplicated(NodeOf(d, l, last))
  BY <1>3 DEF EvenRow
<1> HIDE DEF len
<1>5. CASE k <= last + 1
  <2>1. k - 1 \in 0 .. last /\ EvenRow(d, l)[k] = NodeOf(d, l, k - 1)
    BY <1>1, <1>2, <1>4, <1>5
  <2>2. EvenRow(d, l)[k].hash = Hashes(d)[l][k - 1]
    BY <2>1 DEF NodeOf
  <2> QED
    BY <1>3, <2>1, <2>2 DEF len
<1>6. CASE ~(k <= last + 1)
  <2>1. k - 1 = last + 1 /\ EvenRow(d, l)[k] = Duplicated(NodeOf(d, l, last))
    BY <1>1, <1>2, <1>4, <1>6
  <2>2. EvenRow(d, l)[k].hash = Hashes(d)[l][last]
    BY <2>1 DEF NodeOf, Duplicated
  <2>3. Hashes(d)[l][last + 1] = Hashes(d)[l][last]
    BY <1>1, HashesPast DEF LastAt
  <2> QED
    BY <1>3, <2>1, <2>2, <2>3 DEF len
<1> QED
  BY <1>5, <1>6

-----------------------------------------------------------------------------
(* push. *)
LEMMA AppendIs ==
  ASSUME NEW S, NEW s \in Seq(S), NEW x \in S
  PROVE  Append(s, x) = [k \in 1 .. Len(s) + 1 |-> IF k = Len(s) + 1 THEN x ELSE s[k]]
<1> DEFINE a == Append(s, x)
           n == Len(s)
<1>1. /\ n \in Nat /\ a \in Seq(S) /\ Len(a) = n + 1 /\ a[n + 1] = x
      /\ \A k \in 1 .. n : a[k] = s[k]
  OBVIOUS
<1> HIDE DEF a, n
<1>2. a = [k \in 1 .. n + 1 |-> a[k]]
  <2>1. a \in [1 .. n + 1 -> S]
    BY <1>1
  <2> QED
    BY <2>1
<1>3. \A k \in 1 .. n + 1 : a[k] = IF k = n + 1 THEN x ELSE s[k]
  BY <1>1
<1>4. a = [k \in 1 .. n + 1 |-> IF k = n + 1 THEN x ELSE s[k]]
  BY <1>2, <1>3
<1> QED
  BY <1>4 DEF a, n

(* gen_helper. *)
(* The leaves are the lowest level. *)
LEMMA LeavesAreRow ==
  ASSUME NEW d \in NonemptyData
  PROVE  [k \in 1 .. Len(d) |-> Leaf(d[k], k - 1)] = Row(d, 0)
<1>1. LastAt(d, 0) + 1 = Len(d)
  BY LastNodes
<1>2. ASSUME NEW k \in 1 .. Len(d) PROVE Leaf(d[k], k - 1) = NodeOf(d, 0, k - 1)
  <2>1. k - 1 \in 0 .. Len(d) - 1 /\ k - 1 + 1 = k
    BY LastNodes
  <2>2. Hashes(d)[0][k - 1] = HashOf(d[k])
    BY <2>1, HashesLeaf
  <2> QED
    BY <2>2 DEF Leaf, NodeOf
<1> QED
  BY <1>1, <1>2 DEF Row

(* A level with an even number of nodes is finished, and another is when its    *)
(* last node is repeated.                                                       *)
LEMMA RowEvened ==
  ASSUME NEW d \in NonemptyData, NEW l \in 0 .. Depth(Len(d))
  PROVE  /\ Row(d, l) \in Seq({NodeOf(d, l, k) : k \in Nat}) /\ Len(Row(d, l)) = LastAt(d, l) + 1
         /\ ~Odd(Len(Row(d, l))) => Row(d, l) = EvenRow(d, l)
         /\ Odd(Len(Row(d, l))) =>
               Append(Row(d, l), Duplicated(Last(Row(d, l)))) = EvenRow(d, l)
         /\ ~Odd(Len(EvenRow(d, l)))
<1> DEFINE last == LastAt(d, l)
           row == Row(d, l)
           even == EvenRow(d, l)
<1>1. last \in Nat
  BY LastNodes
<1> HIDE DEF last
<1>2. /\ row \in Seq({NodeOf(d, l, k) : k \in Nat}) /\ Len(row) = last + 1
      /\ \A k \in 1 .. last + 1 : row[k] = NodeOf(d, l, k - 1)
  <2> DEFINE S == {NodeOf(d, l, k) : k \in Nat}
  <2>1. ASSUME NEW k \in 1 .. last + 1 PROVE NodeOf(d, l, k - 1) \in S
    BY <1>1
  <2>2. row = [k \in 1 .. last + 1 |-> NodeOf(d, l, k - 1)] /\ last + 1 \in Nat
    BY <1>1 DEF Row, last
  <2> HIDE DEF S, row
  <2>3. row \in [1 .. last + 1 -> S]
    BY <2>1, <2>2
  <2>4. row \in Seq(S) /\ Len(row) = last + 1
    BY <2>2, <2>3
  <2> QED
    BY <2>2, <2>4 DEF S
<1> DEFINE half == last \div 2
<1>3. half \in Nat /\ (last = 2 * half \/ last = 2 * half + 1)
  BY <1>1
<1>4. even = [k \in 1 .. 2 * half + 2 |-> IF k <= last + 1 THEN NodeOf(d, l, k - 1)
                                          ELSE Duplicated(NodeOf(d, l, last))]
  BY DEF EvenRow, last
<1> HIDE DEF half
<1>5. Len(even) = 2 * half + 2
  BY <1>3, <1>4
<1>6. ~Odd(Len(even))
  BY <1>3, <1>5 DEF Odd
<1>7. CASE last = 2 * half + 1
  <2>1. ~Odd(Len(row))
    BY <1>2, <1>3, <1>7 DEF Odd
  <2>2. row = even
    <3>1. row = [k \in 1 .. last + 1 |-> NodeOf(d, l, k - 1)]
      BY DEF Row, last
    <3>2. last + 1 = 2 * half + 2
      BY <1>3, <1>7
    <3> QED
      BY <1>4, <3>1, <3>2
  <2> QED
    BY <1>2, <1>6, <2>1, <2>2 DEF last
<1>8. CASE last = 2 * half
  <2>1. Odd(Len(row))
    BY <1>2, <1>3, <1>8 DEF Odd
  <2>2. Last(row) = NodeOf(d, l, last)
    <3>1. PICK k \in 1 .. last + 1 : k = last + 1
      BY <1>1
    <3>2. row[k] = NodeOf(d, l, k - 1)
      BY <1>2
    <3>3. k - 1 = last /\ k = Len(row)
      BY <1>1, <1>2, <3>1
    <3> HIDE DEF row
    <3>4. Last(row) = row[k]
      BY <3>3 DEF Last
    <3> QED
      BY <3>2, <3>3, <3>4
  <2> DEFINE more == Append(row, Duplicated(Last(row)))
  <2>3. /\ more = [k \in 1 .. last + 2 |-> IF k = last + 2 THEN Duplicated(Last(row)) ELSE row[k]]
    <3> DEFINE x == Duplicated(Last(row))
               S == {NodeOf(d, l, k) : k \in Nat} \cup {x}
    <3>1. row \in Seq(S) /\ x \in S /\ Len(row) + 1 = last + 2
      <4> HIDE DEF row, x
      <4> QED
        BY <1>1, <1>2
    <3> HIDE DEF row, S, x
    <3>2. Append(row, x) = [k \in 1 .. Len(row) + 1 |-> IF k = Len(row) + 1 THEN x ELSE row[k]]
      BY <3>1, AppendIs
    <3> QED
      BY <3>1, <3>2 DEF x
  <2>4. more = even
    <3>1. 1 .. 2 * half + 2 = 1 .. last + 2
      BY <1>8
    <3>2. ASSUME NEW k \in 1 .. last + 2
          PROVE  (IF k = last + 2 THEN Duplicated(Last(row)) ELSE row[k])
                 = IF k <= last + 1 THEN NodeOf(d, l, k - 1) ELSE Duplicated(NodeOf(d, l, last))
      <4> HIDE DEF row
      <4> QED
        BY <1>1, <1>2, <2>2
    <3> HIDE DEF more, row, even
    <3> QED
      BY <1>4, <2>3, <3>1, <3>2
  <2> QED
    BY <1>2, <1>6, <2>1, <2>4 DEF last
<1> QED
  BY <1>3, <1>7, <1>8

(* The pairs of a finished level are the level above. *)
LEMMA PairsAreRow ==
  ASSUME NEW d \in NonemptyData, NEW l \in 0 .. Depth(Len(d)) - 1, NEW even, even = EvenRow(d, l)
  PROVE  [k \in 1 .. Len(even) \div 2 |-> Inner(even, 2 * k - 1, 2 * k)] = Row(d, l + 1)
<1> DEFINE last == LastAt(d, l)
           half == LastAt(d, l + 1)
<1>1. last \in Nat /\ half = last \div 2 /\ half \in Nat
  <2>1. last \in Nat /\ half = last \div 2
    BY LastNodes
  <2> HIDE DEF last, half
  <2> QED
    BY <2>1
<1>2. Len(even) = 2 * half + 2
  BY <1>1 DEF EvenRow
<1>3. ASSUME NEW k \in 1 .. half + 1
      PROVE  Inner(even, 2 * k - 1, 2 * k) = NodeOf(d, l + 1, k - 1)
  <2>1. 2 * k - 1 \in 1 .. Len(even) /\ 2 * k \in 1 .. Len(even)
    BY <1>1, <1>2
  <2>2. l \in 0 .. Depth(Len(d)) /\ l + 1 \in 1 .. MaxLeaves /\ l + 1 - 1 = l /\ l + 1 # 0
    <3>1. Depth(Len(d)) \in 0 .. MaxLeaves
      BY LastNodes
    <3> QED
      BY <3>1, MerkleAssumption
  <2>3. /\ even[2 * k - 1].hash = Hashes(d)[l][2 * k - 1 - 1]
        /\ even[2 * k].hash = Hashes(d)[l][2 * k - 1]
    BY <2>1, <2>2, EvenRowNode
  <2>4. k - 1 \in Nat /\ k - 1 <= LastNode(Len(d))[l + 1]
    BY <1>1 DEF LastAt
  <2>5. Hashes(d)[l + 1][k - 1] =
          ConcatAndHash(Hashes(d)[l][2 * (k - 1)], Hashes(d)[l][2 * (k - 1) + 1])
    BY <2>2, <2>4, HashesInner
  <2>6. /\ 2 * (k - 1) = 2 * k - 1 - 1 /\ 2 * (k - 1) + 1 = 2 * k - 1
        /\ 2 * (k - 1) + 2 = 2 * k
    OBVIOUS
  <2> QED
    BY <2>2, <2>3, <2>5, <2>6 DEF Inner, NodeOf
<1>4. Len(even) \div 2 = half + 1
  BY <1>1, <1>2
<1> QED
  BY <1>3, <1>4 DEF Row

-----------------------------------------------------------------------------
(* proof_helper.  The tree by levels, the root last.                            *)
TreeOf(d) == Append(Below(d, Depth(Len(d))), <<NodeOf(d, Depth(Len(d)), 0)>>)

LEMMA TreeLevels ==
  ASSUME NEW d \in NonemptyData
  PROVE  /\ Len(TreeOf(d)) = Depth(Len(d)) + 1
         /\ \A h \in 1 .. Depth(Len(d)) : TreeOf(d)[h] = EvenRow(d, h - 1)
         /\ TreeOf(d)[Depth(Len(d)) + 1] = <<NodeOf(d, Depth(Len(d)), 0)>>
<1> DEFINE D == Depth(Len(d))
           S == {EvenRow(d, h - 1) : h \in 1 .. D}
           top == <<NodeOf(d, D, 0)>>
<1>1. D \in Nat
  BY LastNodes DEF Level
<1> HIDE DEF D
<1>2. Below(d, D) = [h \in 1 .. D |-> EvenRow(d, h - 1)]
  BY DEF Below
<1> DEFINE under == Below(d, D)
<1>3. under \in Seq(S) /\ Len(under) = D /\ \A h \in 1 .. D : under[h] = EvenRow(d, h - 1)
  <2>1. \A h \in 1 .. D : EvenRow(d, h - 1) \in S
    OBVIOUS
  <2> HIDE DEF S
  <2> QED
    BY <1>1, <1>2, <2>1
<1> HIDE DEF under, S, top
<1>4. /\ Len(Append(under, top)) = D + 1 /\ Append(under, top)[D + 1] = top
      /\ \A h \in 1 .. D : Append(under, top)[h] = under[h]
  <2> DEFINE U == S \cup {top}
  <2>1. under \in Seq(U) /\ top \in U
    BY <1>3
  <2> HIDE DEF U
  <2> QED
    BY <1>1, <1>3, <2>1
<1>5. TreeOf(d) = Append(under, top)
  BY DEF TreeOf, under, top, D
<1> QED
  BY <1>3, <1>4, <1>5 DEF D, top

(* What is at a place of a level. *)
LEMMA TreeNode ==
  ASSUME NEW d \in NonemptyData, NEW h \in 1 .. Depth(Len(d)) + 1,
         NEW k \in 1 .. Len(TreeOf(d)[h])
  PROVE  /\ TreeOf(d)[h][k].hash = Hashes(d)[h - 1][k - 1]
         /\ \/ k - 1 \in 0 .. LastAt(d, h - 1) /\ TreeOf(d)[h][k] = NodeOf(d, h - 1, k - 1)
            \/ /\ k - 1 = LastAt(d, h - 1) + 1
               /\ TreeOf(d)[h][k] = Duplicated(NodeOf(d, h - 1, LastAt(d, h - 1)))
<1>1. Depth(Len(d)) \in Nat
  BY LastNodes DEF Level
<1>2. CASE h \in 1 .. Depth(Len(d))
  <2>1. TreeOf(d)[h] = EvenRow(d, h - 1) /\ h - 1 \in 0 .. Depth(Len(d))
    BY <1>1, <1>2, TreeLevels
  <2> QED
    BY <2>1, EvenRowNode
<1>3. CASE h = Depth(Len(d)) + 1
  <2>1. h - 1 = Depth(Len(d)) /\ TreeOf(d)[h] = <<NodeOf(d, h - 1, 0)>> /\ LastAt(d, h - 1) = 0
    BY <1>1, <1>3, TreeLevels, LastNodes
  <2>2. k = 1 /\ k - 1 = 0
    BY <2>1
  <2>3. TreeOf(d)[h][k] = NodeOf(d, h - 1, k - 1)
    BY <2>1, <2>2
  <2>4. k - 1 \in 0 .. LastAt(d, h - 1)
    BY <2>1, <2>2
  <2>5. TreeOf(d)[h][k].hash = Hashes(d)[h - 1][k - 1]
    BY <2>3 DEF NodeOf
  <2> QED
    BY <2>3, <2>4, <2>5
<1> QED
  BY <1>1, <1>2, <1>3

(* The children of a node are in the level below. *)
LEMMA TreeChildren ==
  ASSUME NEW d \in NonemptyData, NEW h \in 2 .. Depth(Len(d)) + 1,
         NEW k, k - 1 \in 0 .. LastAt(d, h - 1), k \in Nat
  PROVE  2 * k - 1 \in 1 .. Len(TreeOf(d)[h - 1]) /\ 2 * k \in 1 .. Len(TreeOf(d)[h - 1])
<1> DEFINE D == Depth(Len(d))
           l == h - 2
<1>1. D \in Nat
  BY LastNodes DEF Level
<1>2. h - 1 \in 1 .. D /\ l \in 0 .. D - 1 /\ l \in 0 .. D /\ h - 1 - 1 = l /\ h - 1 = l + 1
  BY <1>1
<1> HIDE DEF D, l
<1>3. TreeOf(d)[h - 1] = EvenRow(d, l)
  BY <1>2, TreeLevels DEF D
<1>4. LastAt(d, l + 1) = LastAt(d, l) \div 2 /\ LastAt(d, l) \in Nat
  BY <1>2, LastNodes DEF D
<1> DEFINE half == LastAt(d, l + 1)
<1>5. half \in Nat /\ Len(EvenRow(d, l)) = 2 * half + 2
  <2>1. half \in Nat
    BY <1>4
  <2>2. EvenRow(d, l) = [j \in 1 .. 2 * half + 2 |->
                          IF j <= LastAt(d, l) + 1 THEN NodeOf(d, l, j - 1)
                          ELSE Duplicated(NodeOf(d, l, LastAt(d, l)))]
    BY <1>4 DEF EvenRow
  <2> HIDE DEF half
  <2> QED
    BY <2>1, <2>2
<1>6. k - 1 \in 0 .. half
  BY <1>2
<1> HIDE DEF half
<1> QED
  BY <1>3, <1>5, <1>6

(* The path from a leaf up to a level: the siblings it passes. *)
Path(d, i, m) == [l \in 1 .. m |-> Hashes(d)[l - 1][Sibling(Ancestors(i)[l - 1])]]

LEMMA PathAppend ==
  ASSUME NEW d, NEW i, NEW m \in Nat
  PROVE  /\ Path(d, i, m) \o <<>> = Path(d, i, m) /\ <<>> \o Path(d, i, m) = Path(d, i, m)
         /\ Len(Path(d, i, m)) = m
         /\ Append(Path(d, i, m), Hashes(d)[m][Sibling(Ancestors(i)[m])]) = Path(d, i, m + 1)
<1> DEFINE Step(l) == Hashes(d)[l - 1][Sibling(Ancestors(i)[l - 1])]
           S == {Step(l) : l \in 1 .. m + 1}
           p == Path(d, i, m)
<1>1. p = [l \in 1 .. m |-> Step(l)] /\ Path(d, i, m + 1) = [l \in 1 .. m + 1 |-> Step(l)]
  BY DEF Path
<1>2. Hashes(d)[m][Sibling(Ancestors(i)[m])] = Step(m + 1)
  <2>1. m + 1 - 1 = m
    OBVIOUS
  <2> QED
    BY <2>1
<1>3. \A l \in 1 .. m : Step(l) \in S
  OBVIOUS
<1>4. Step(m + 1) \in S
  OBVIOUS
<1> HIDE DEF S, p, Step
<1>5. p \in Seq(S) /\ Len(p) = m
  BY <1>1, <1>3
<1>6. Append(p, Step(m + 1)) = [k \in 1 .. m + 1 |-> IF k = m + 1 THEN Step(m + 1) ELSE p[k]]
  BY <1>4, <1>5, AppendIs
<1>7. Append(p, Step(m + 1)) = Path(d, i, m + 1)
  BY <1>1, <1>6
<1>8. p \o <<>> = p /\ <<>> \o p = p
  BY <1>5
<1> QED
  BY <1>2, <1>5, <1>7, <1>8 DEF p

(* What proof_helper returns for a node: whether it is an ancestor of the leaf   *)
(* that is looked for, and the path up to it.                                    *)
OnPath(d, i, h, k) == i < Len(d) /\ k - 1 = Ancestors(i)[h - 1]

Answer(d, i, h, k) ==
  [found |-> OnPath(d, i, h, k),
   accum |-> IF OnPath(d, i, h, k) THEN Path(d, i, h - 1) ELSE <<>>]

(* One call of it, on the answers for the level below. *)
Visited(level, i, h, k, answers) ==
  LET curr == level[h][k]
      left == answers[curr.left]
      right == answers[curr.right]
      siblings == left.accum \o right.accum
  IN  IF curr.left = 0 /\ curr.right = 0
      THEN [found |-> curr.index = i, accum |-> <<>>]
      ELSE [found |-> left.found \/ right.found,
            accum |-> IF left.found
                      THEN Append(siblings, level[h - 1][curr.right].hash)
                      ELSE IF right.found
                      THEN Append(siblings, level[h - 1][curr.left].hash)
                      ELSE siblings]

(* A repeated node is not found, and no node of the levels above the leaves has  *)
(* an index.                                                                     *)
LEMMA VisitedLeaf ==
  ASSUME NEW d \in NonemptyData, NEW i \in Nat, NEW h \in 1 .. Depth(Len(d)) + 1,
         NEW k \in 1 .. Len(TreeOf(d)[h]), NEW answers,
         h = 1 \/ k - 1 \notin 0 .. LastAt(d, h - 1)
  PROVE  Visited(TreeOf(d), i, h, k, answers) = Answer(d, i, h, k)
<1> DEFINE curr == TreeOf(d)[h][k]
           last == LastAt(d, h - 1)
<1>1. Depth(Len(d)) \in Nat /\ h - 1 \in 0 .. Depth(Len(d)) /\ h - 1 \in Level /\ last \in Nat
  <2>1. Depth(Len(d)) \in Nat
    BY LastNodes DEF Level
  <2>2. h - 1 \in 0 .. Depth(Len(d))
    BY <2>1
  <2> QED
    BY <2>1, <2>2, LastNodes
<1>2. \/ k - 1 \in 0 .. last /\ curr = NodeOf(d, h - 1, k - 1)
      \/ k - 1 = last + 1 /\ curr = Duplicated(NodeOf(d, h - 1, last))
  BY TreeNode
<1>3. i < Len(d) => Ancestors(i)[h - 1] \in 0 .. last
  <2> SUFFICES ASSUME i < Len(d) PROVE Ancestors(i)[h - 1] \in 0 .. last
    OBVIOUS
  <2>1. Len(d) - 1 \in Nat /\ i <= Len(d) - 1
    BY LastNodes
  <2>2. Ancestors(i)[h - 1] <= Ancestors(Len(d) - 1)[h - 1]
    BY <1>1, <2>1, AncestorsInOrder
  <2>3. Ancestors(i)[h - 1] \in Nat
    BY <1>1, AncestorsType
  <2> QED
    BY <1>1, <2>2, <2>3 DEF LastAt, LastNode
<1>4. curr.left = 0 /\ curr.right = 0 /\ (curr.index = i <=> OnPath(d, i, h, k))
  <2>1. CASE k - 1 = last + 1 /\ curr = Duplicated(NodeOf(d, h - 1, last))
    <3>1. curr.left = 0 /\ curr.right = 0 /\ curr.index = -1
      BY <2>1 DEF Duplicated
    <3>2. ~OnPath(d, i, h, k)
      <4> HIDE DEF last
      <4> QED
        BY <1>1, <1>3, <2>1 DEF OnPath
    <3> QED
      BY <3>1, <3>2
  <2>2. CASE k - 1 \in 0 .. last /\ curr = NodeOf(d, h - 1, k - 1)
    <3>1. h = 1
      BY <2>2
    <3>2. curr.left = 0 /\ curr.right = 0 /\ curr.index = k - 1
      BY <2>2, <3>1 DEF NodeOf
    <3>3. last = Len(d) - 1 /\ Len(d) \in Nat /\ Ancestors(i)[h - 1] = i
      BY <3>1, LastNodes, AncestorsType DEF IsAncestors
    <3>4. k - 1 = i <=> OnPath(d, i, h, k)
      <4> HIDE DEF last
      <4> QED
        BY <2>2, <3>3 DEF OnPath
    <3> QED
      BY <3>2, <3>4
  <2> QED
    BY <1>2, <2>1, <2>2
<1>5. Visited(TreeOf(d), i, h, k, answers) = [found |-> OnPath(d, i, h, k), accum |-> <<>>]
  <2>1. Visited(TreeOf(d), i, h, k, answers) = [found |-> curr.index = i, accum |-> <<>>]
    BY <1>4 DEF Visited
  <2>2. (curr.index = i) = OnPath(d, i, h, k)
    BY <1>4 DEF OnPath
  <2> QED
    BY <2>1, <2>2
<1>6. OnPath(d, i, h, k) => Path(d, i, h - 1) = <<>>
  <2> SUFFICES ASSUME OnPath(d, i, h, k) PROVE Path(d, i, h - 1) = <<>>
    OBVIOUS
  <2>1. h = 1
    <3> HIDE DEF last
    <3> QED
      BY <1>3 DEF OnPath, last
  <2>2. 1 .. h - 1 = {}
    BY <2>1
  <2> QED
    BY <2>2 DEF Path
<1> QED
  BY <1>5, <1>6 DEF Answer

(* The two children of a node, and the halves of a number. *)
LEMMA ChildOf ==
  ASSUME NEW u \in Nat, NEW k \in Nat
  PROVE  /\ k = u \div 2 <=> u = 2 * k \/ u = 2 * k + 1
         /\ u = 2 * k => Sibling(u) = 2 * k + 1
         /\ u = 2 * k + 1 => Sibling(u) = 2 * k
<1>1. k = u \div 2 <=> u = 2 * k \/ u = 2 * k + 1
  OBVIOUS
<1>2. u = 2 * k => u % 2 = 0
  OBVIOUS
<1>3. u = 2 * k + 1 => u % 2 = 1
  OBVIOUS
<1>4. u = 2 * k => Sibling(u) = 2 * k + 1
  BY <1>2 DEF Sibling, Odd
<1>5. u = 2 * k + 1 => Sibling(u) = 2 * k
  BY <1>3 DEF Sibling, Odd
<1> QED
  BY <1>1, <1>4, <1>5

Answered(d, i, h, answers) ==
  \A j \in 1 .. Len(TreeOf(d)[h]) : answers[j] = Answer(d, i, h, j)

LEMMA VisitedInner ==
  ASSUME NEW d \in NonemptyData, NEW i \in Nat, NEW h \in 2 .. Depth(Len(d)) + 1,
         NEW k \in 1 .. Len(TreeOf(d)[h]), k - 1 \in 0 .. LastAt(d, h - 1),
         NEW answers, Answered(d, i, h - 1, answers)
  PROVE  Visited(TreeOf(d), i, h, k, answers) = Answer(d, i, h, k)
<1> DEFINE curr == TreeOf(d)[h][k]
           m == h - 2
           l == 2 * k - 1
           r == 2 * k
           up == Ancestors(i)
<1>1. Depth(Len(d)) \in Nat /\ Depth(Len(d)) \in 0 .. MaxLeaves
  BY LastNodes DEF Level
<1>2. /\ h - 1 \in 1 .. Depth(Len(d)) /\ h \in 1 .. Depth(Len(d)) + 1 /\ m \in Nat
      /\ h - 1 - 1 = m /\ h - 1 = m + 1 /\ m \in 0 .. MaxLeaves - 1 /\ h - 1 # 0
      /\ h - 1 \in 1 .. Depth(Len(d)) + 1
  BY <1>1, MerkleAssumption
<1>3. l \in 1 .. Len(TreeOf(d)[h - 1]) /\ r \in 1 .. Len(TreeOf(d)[h - 1]) /\ k \in Nat \ {0}
  <2>1. k \in Nat \ {0}
    OBVIOUS
  <2> QED
    BY <2>1, TreeChildren
<1>4. curr.left = l /\ curr.right = r
  <2>1. k - 1 # LastAt(d, h - 1) + 1
    <3>1. h - 1 \in 0 .. Depth(Len(d))
      BY <1>1
    <3>2. LastAt(d, h - 1) \in Nat
      BY <3>1, LastNodes
    <3> QED
      BY <3>2
  <2>2. curr = NodeOf(d, h - 1, k - 1)
    BY <1>2, <2>1, TreeNode
  <2>3. 2 * (k - 1) + 1 = l /\ 2 * (k - 1) + 2 = r
    OBVIOUS
  <2> QED
    BY <1>2, <2>2, <2>3 DEF NodeOf
<1>5. /\ TreeOf(d)[h - 1][l].hash = Hashes(d)[m][l - 1]
      /\ TreeOf(d)[h - 1][r].hash = Hashes(d)[m][r - 1]
  <2>1. ASSUME NEW g \in 1 .. Depth(Len(d)) + 1, g - 1 = m, NEW j \in 1 .. Len(TreeOf(d)[g])
        PROVE  TreeOf(d)[g][j].hash = Hashes(d)[m][j - 1]
    <3>1. TreeOf(d)[g][j].hash = Hashes(d)[g - 1][j - 1]
      BY TreeNode
    <3> QED
      BY <2>1, <3>1
  <2>2. h - 1 \in 1 .. Depth(Len(d)) + 1 /\ h - 1 - 1 = m
    BY <1>2
  <2> HIDE DEF m, l, r
  <2> QED
    BY <1>3, <2>1, <2>2
<1>6. answers[l] = Answer(d, i, h - 1, l) /\ answers[r] = Answer(d, i, h - 1, r)
  BY <1>3 DEF Answered
<1>7. up[m] \in Nat /\ up[h - 1] = up[m] \div 2
  BY <1>2, AncestorsStep
<1> HIDE DEF up, l, r, m, curr
<1> DEFINE a == answers[l]
           b == answers[r]
           hl == TreeOf(d)[h - 1][l].hash
           hr == TreeOf(d)[h - 1][r].hash
           p == Path(d, i, m)
<1>8. /\ a = [found |-> OnPath(d, i, h - 1, l), accum |-> IF OnPath(d, i, h - 1, l) THEN p ELSE <<>>]
      /\ b = [found |-> OnPath(d, i, h - 1, r), accum |-> IF OnPath(d, i, h - 1, r) THEN p ELSE <<>>]
  BY <1>2, <1>6 DEF Answer
<1> DEFINE c == k - 1
           u == up[m]
<1>9. /\ c \in Nat /\ u \in Nat /\ l - 1 = 2 * c /\ r - 1 = 2 * c + 1
      /\ OnPath(d, i, h - 1, l) <=> i < Len(d) /\ u = 2 * c
      /\ OnPath(d, i, h - 1, r) <=> i < Len(d) /\ u = 2 * c + 1
      /\ OnPath(d, i, h, k) <=> i < Len(d) /\ c = u \div 2
  BY <1>2, <1>3, <1>7 DEF OnPath, l, r, up
<1> HIDE DEF c, u
<1>10. Visited(TreeOf(d), i, h, k, answers) =
         [found |-> a.found \/ b.found,
          accum |-> IF a.found THEN Append(a.accum \o b.accum, hr)
                    ELSE IF b.found THEN Append(a.accum \o b.accum, hl)
                    ELSE a.accum \o b.accum]
  <2>1. ~(curr.left = 0 /\ curr.right = 0)
    BY <1>3, <1>4 DEF l
  <2> HIDE DEF a, b, hl, hr
  <2> QED
    BY <1>4, <2>1 DEF Visited, curr, a, b, hl, hr
<1>11. /\ p \o <<>> = p /\ <<>> \o p = p
       /\ Append(p, Hashes(d)[m][Sibling(u)]) = Path(d, i, h - 1)
  <2>1. /\ Path(d, i, m) \o <<>> = Path(d, i, m) /\ <<>> \o Path(d, i, m) = Path(d, i, m)
        /\ Append(Path(d, i, m), Hashes(d)[m][Sibling(Ancestors(i)[m])]) = Path(d, i, m + 1)
    BY <1>2, PathAppend
  <2>2. m + 1 = h - 1
    BY <1>2
  <2> QED
    BY <2>1, <2>2 DEF u, up
<1>12. /\ OnPath(d, i, h, k) <=> OnPath(d, i, h - 1, l) \/ OnPath(d, i, h - 1, r)
       /\ OnPath(d, i, h - 1, l) => Sibling(u) = r - 1 /\ ~OnPath(d, i, h - 1, r)
       /\ OnPath(d, i, h - 1, r) => Sibling(u) = l - 1
  <2>1. /\ c = u \div 2 <=> u = 2 * c \/ u = 2 * c + 1
        /\ u = 2 * c => Sibling(u) = 2 * c + 1
        /\ u = 2 * c + 1 => Sibling(u) = 2 * c
    BY <1>9, ChildOf
  <2>2. 2 * c # 2 * c + 1
    BY <1>9
  <2> QED
    BY <1>9, <2>1, <2>2
<1>13. CASE OnPath(d, i, h - 1, l)
  <2>1. ~OnPath(d, i, h - 1, r) /\ Sibling(u) = r - 1
    BY <1>12, <1>13
  <2>3. Append(a.accum \o b.accum, hr) = Path(d, i, h - 1)
    BY <1>5, <1>8, <1>11, <1>13, <2>1
  <2>4. a.found /\ OnPath(d, i, h, k)
    BY <1>8, <1>12, <1>13
  <2> HIDE DEF a, b, hl, hr, p
  <2> QED
    BY <1>10, <2>3, <2>4 DEF Answer
<1>14. CASE OnPath(d, i, h - 1, r) /\ ~OnPath(d, i, h - 1, l)
  <2>2. Sibling(u) = l - 1
    BY <1>12, <1>14
  <2>3. Append(a.accum \o b.accum, hl) = Path(d, i, h - 1)
    BY <1>5, <1>8, <1>11, <1>14, <2>2
  <2>4. ~a.found /\ b.found /\ OnPath(d, i, h, k)
    BY <1>8, <1>12, <1>14
  <2> HIDE DEF a, b, hl, hr, p
  <2> QED
    BY <1>10, <2>3, <2>4 DEF Answer
<1>15. CASE ~OnPath(d, i, h - 1, r) /\ ~OnPath(d, i, h - 1, l)
  <2>1. ~a.found /\ ~b.found /\ ~OnPath(d, i, h, k)
    BY <1>8, <1>12, <1>15
  <2>2. a.accum = <<>> /\ b.accum = <<>>
    BY <1>8, <1>15
  <2>3. <<>> \o <<>> = <<>>
    OBVIOUS
  <2> HIDE DEF a, b, hl, hr, p
  <2>4. Visited(TreeOf(d), i, h, k, answers) = [found |-> FALSE, accum |-> <<>>]
    BY <1>10, <2>1, <2>2, <2>3
  <2>5. Answer(d, i, h, k) = [found |-> FALSE, accum |-> <<>>]
    <3>1. OnPath(d, i, h, k) = FALSE
      BY <2>1 DEF OnPath
    <3> QED
      BY <3>1 DEF Answer
  <2> QED
    BY <2>4, <2>5
<1> QED
  BY <1>13, <1>14, <1>15

(* The proof of a leaf is the siblings of its ancestors; a leaf that is not there *)
(* has the empty proof.                                                          *)
LEMMA HelperFindsSiblings ==
  ASSUME NEW d \in NonemptyData, NEW i \in Nat
  PROVE  ProofHelper(TreeOf(d), i).accum = IF i < Len(d) THEN Siblings(d, i) ELSE <<>>
<1> DEFINE level == TreeOf(d)
           n == Len(level)
           Is(f) == f = [h \in 1 .. n |->
                           [k \in 1 .. Len(level[h]) |-> Visited(level, i, h, k, f[h - 1])]]
           all == [h \in 1 .. n |-> [k \in 1 .. Len(level[h]) |-> Answer(d, i, h, k)]]
<1>1. n = Depth(Len(d)) + 1 /\ n \in Nat \ {0} /\ n - 1 \in Nat
  BY TreeLevels, LastNodes DEF Level
<1> HIDE DEF n, level
<1>2. ASSUME NEW h \in 1 .. n, NEW k \in 1 .. Len(level[h]), NEW below,
             h # 1 => below = [j \in 1 .. Len(level[h - 1]) |-> Answer(d, i, h - 1, j)]
      PROVE  Visited(level, i, h, k, below) = Answer(d, i, h, k)
  <2>1. h \in 1 .. Depth(Len(d)) + 1
    BY <1>1
  <2>2. CASE h = 1 \/ k - 1 \notin 0 .. LastAt(d, h - 1)
    BY <2>1, <2>2, VisitedLeaf DEF level
  <2>3. CASE h # 1 /\ k - 1 \in 0 .. LastAt(d, h - 1)
    <3>1. h \in 2 .. Depth(Len(d)) + 1
      BY <1>1, <2>1, <2>3
    <3>2. Answered(d, i, h - 1, below)
      BY <1>2, <2>3 DEF Answered, level
    <3> QED
      BY <2>3, <3>1, <3>2, VisitedInner DEF level
  <2> QED
    BY <2>2, <2>3
<1> DEFINE Visits(h, below) == [k \in 1 .. Len(level[h]) |-> Visited(level, i, h, k, below)]
<1>3. ASSUME NEW h \in 1 .. n, NEW below,
             h # 1 => below = [j \in 1 .. Len(level[h - 1]) |-> Answer(d, i, h - 1, j)]
      PROVE  Visits(h, below) = all[h]
  <2>1. \A k \in 1 .. Len(level[h]) : Visited(level, i, h, k, below) = Answer(d, i, h, k)
    BY <1>2, <1>3
  <2>2. all[h] = [k \in 1 .. Len(level[h]) |-> Answer(d, i, h, k)]
    OBVIOUS
  <2> HIDE DEF all
  <2> QED
    BY <2>1, <2>2
<1>4. \A h \in 1 .. n : h # 1 =>
         h - 1 \in 1 .. n /\ all[h - 1] = [j \in 1 .. Len(level[h - 1]) |-> Answer(d, i, h - 1, j)]
  BY <1>1
<1>5. Is(all)
  <2>1. \A h \in 1 .. n :
          all[h] = [k \in 1 .. Len(level[h]) |-> Visited(level, i, h, k, all[h - 1])]
    <3> HIDE DEF all
    <3> QED
      BY <1>3, <1>4
  <2>2. all = [h \in 1 .. n |-> all[h]]
    OBVIOUS
  <2> HIDE DEF all
  <2> QED
    BY <2>1, <2>2
<1> DEFINE helper == CHOOSE f : Is(f)
<1>6. Is(helper)
  BY <1>5
<1>7. ProofHelper(level, i) = helper[n][1]
  BY DEF ProofHelper, Visited, n
<1> HIDE DEF helper
<1> DEFINE T == {m \in 0 .. n - 1 : helper[m + 1] = all[m + 1]}
<1>8. 0 .. n - 1 \subseteq T
  <2>1. ASSUME NEW h \in 1 .. n
        PROVE  helper[h] = Visits(h, helper[h - 1])
    BY <1>6
  <2> HIDE DEF all, Visits
  <2>4. ASSUME NEW h \in 1 .. n, h # 1 => helper[h - 1] = all[h - 1]
        PROVE  helper[h] = all[h]
    <3>1. h # 1 => helper[h - 1] = [j \in 1 .. Len(level[h - 1]) |-> Answer(d, i, h - 1, j)]
      BY <1>4, <2>4
    <3>2. Visits(h, helper[h - 1]) = all[h]
      BY <1>3, <3>1
    <3> QED
      BY <2>1, <3>2
  <2>2. 0 \in T
    <3>1. 0 + 1 = 1 /\ 1 \in 1 .. n /\ 0 \in 0 .. n - 1
      BY <1>1
    <3>2. helper[1] = all[1]
      BY <2>4, <3>1
    <3> QED
      BY <3>1, <3>2
  <2>3. ASSUME NEW m \in 0 .. n - 1 - 1, m \in T PROVE m + 1 \in T
    <3>1. m + 1 + 1 \in 1 .. n /\ m + 1 \in 0 .. n - 1 /\ m + 1 + 1 # 1 /\ m + 1 + 1 - 1 = m + 1
      BY <1>1
    <3>2. helper[m + 1] = all[m + 1]
      BY <2>3
    <3>3. helper[m + 1 + 1] = all[m + 1 + 1]
      BY <2>4, <3>1, <3>2
    <3> QED
      BY <3>1, <3>3
  <2> HIDE DEF T
  <2> QED
    BY <1>1, <2>2, <2>3, IntervalInduction
<1>9. helper[n][1] = Answer(d, i, n, 1)
  <2>1. n - 1 \in 0 .. n - 1 /\ n - 1 + 1 = n /\ n \in 1 .. n
    BY <1>1
  <2>2. helper[n] = all[n]
    <3> HIDE DEF all
    <3>1. n - 1 \in T
      BY <1>8, <2>1
    <3> QED
      BY <2>1, <3>1
  <2>3. Len(level[n]) = 1
    <3>1. level[n] = <<NodeOf(d, Depth(Len(d)), 0)>>
      BY <1>1, TreeLevels DEF level
    <3> QED
      BY <3>1
  <2>4. all[n][1] = Answer(d, i, n, 1)
    <3>1. all[n] = [k \in 1 .. Len(level[n]) |-> Answer(d, i, n, k)]
      BY <2>1
    <3> HIDE DEF all
    <3> QED
      BY <2>3, <3>1
  <2> QED
    BY <2>2, <2>4
<1>10. OnPath(d, i, n, 1) <=> i < Len(d)
  <2>1. n - 1 = Depth(Len(d)) /\ n - 1 \in Level /\ Len(d) - 1 \in Nat /\ Ancestors(Len(d) - 1)[n - 1] = 0
    BY <1>1, LastNodes DEF LastAt, LastNode
  <2>2. i < Len(d) => Ancestors(i)[n - 1] = 0
    <3> SUFFICES ASSUME i < Len(d) PROVE Ancestors(i)[n - 1] = 0
      OBVIOUS
    <3>1. i <= Len(d) - 1
      BY LastNodes
    <3>2. Ancestors(i)[n - 1] <= Ancestors(Len(d) - 1)[n - 1] /\ Ancestors(i)[n - 1] \in Nat
      BY <2>1, <3>1, AncestorsInOrder, AncestorsType
    <3> QED
      BY <2>1, <3>2
  <2> QED
    BY <2>2 DEF OnPath
<1>11. Path(d, i, n - 1) = Siblings(d, i)
  <2>1. n - 1 = Depth(Len(d))
    BY <1>1, LastNodes DEF Level
  <2> QED
    BY <2>1 DEF Path, Siblings
<1> QED
  BY <1>7, <1>9, <1>10, <1>11 DEF Answer, level

-----------------------------------------------------------------------------
(* The invariant.  While the tree is built, its levels up to some height are     *)
(* finished and the next is there, with its last node repeated or not.           *)
Build(d, h) ==
  /\ levels = Below(d, h)
  /\ \/ tree_nodes = Row(d, h)
     \/ h < Depth(Len(d)) /\ tree_nodes = EvenRow(d, h)

BuildInv ==
  stage = "build" =>
    \/ data = <<>> /\ tree_nodes = <<>>
    \/ data \in NonemptyData /\ \E h \in 0 .. Depth(Len(data)) : Build(data, h)

TreeInv ==
  /\ stage \in {"build", "new panicked"} => tree = <<>>
  /\ stage \notin {"build", "new panicked"} =>
       /\ data \in NonemptyData /\ levels = Below(data, Depth(Len(data)))
       /\ tree = NodeOf(data, Depth(Len(data)), 0)

ProofInv ==
  stage \notin {"build", "new panicked", "built"} =>
    /\ index \in Nat
    /\ proof = IF index < Len(data) THEN Siblings(data, index) ELSE <<>>

(* While a proof is verified, some siblings are used and as many directions,     *)
(* which were enough for all.  If they are those of the index, the hash is the   *)
(* one above the leaf if the datum is the leaf's, and only then.                 *)
RightQuery ==
  /\ index < Len(data) /\ query.index = index
  /\ query.datum = data[index + 1]

UpTo(done, i) == currhash = Hashes(data)[done][Ancestors(i)[done]]

Verifying(done) ==
  /\ done <= Len(proof)
  /\ sibs = [k \in 1 .. Len(proof) - done |-> proof[done + k]]
  /\ query.leaf_size >= Len(data) =>
       /\ Len(order) = Depth(query.leaf_size) - done
       /\ \A k \in 1 .. Len(order) : order[k] = OrderProof(query.index, query.leaf_size)[k]
  /\ query.leaf_size = Len(data) =>
       /\ done = 0 => currhash = HashOf(query.datum)
       /\ RightQuery => UpTo(done, index)
       /\ query.index < Len(data) /\ UpTo(done, query.index) =>
             query.datum = data[query.index + 1]

VerifyInv ==
  stage \in {"verify", "verify panicked", "accepted", "refused"} =>
    /\ query \in [datum : Datum, index : Index, leaf_size : Index]
    /\ stage = "verify" => order \in Seq({0, 1}) /\ \E done \in Nat : Verifying(done)

IInv ==
  /\ BuildInv /\ TreeInv /\ ProofInv /\ VerifyInv
  /\ ProofAccepted /\ AcceptedIsThere

LEMMA InvInit ==
  ASSUME Init
  PROVE  IInv
<1>1. stage = "build" /\ tree = <<>>
  BY DEF Init
<1>2. BuildInv
  <2>1. PICK n \in 0 .. MaxLeaves : data \in [1 .. n -> Datum]
    BY DEF Init
  <2>2. data \in Seq(Datum) /\ Len(data) = n
    BY <2>1
  <2>3. tree_nodes = [k \in 1 .. Len(data) |-> Leaf(data[k], k - 1)] /\ levels = <<>>
    BY DEF Init
  <2>4. CASE n = 0
    BY <2>2, <2>3, <2>4 DEF BuildInv
  <2>5. CASE n # 0
    <3>1. data \in NonemptyData
      BY <2>2, <2>5, MerkleAssumption DEF NonemptyData
    <3>2. tree_nodes = Row(data, 0)
      BY <2>3, <3>1, LeavesAreRow
    <3>3. Below(data, 0) = <<>>
      BY DEF Below
    <3>4. 0 \in 0 .. Depth(Len(data))
      BY <3>1, LastNodes DEF Level
    <3> QED
      BY <2>3, <3>1, <3>2, <3>3, <3>4 DEF BuildInv, Build
  <2> QED
    BY <2>4, <2>5
<1> QED
  BY <1>1, <1>2 DEF IInv, TreeInv, ProofInv, VerifyInv, ProofAccepted, AcceptedIsThere

LEMMA DuplicateLastInv ==
  ASSUME IInv, DuplicateLast
  PROVE  IInv'
<1>1. /\ stage = "build" /\ stage' = "build" /\ data' = data /\ levels' = levels /\ tree' = tree
      /\ Len(tree_nodes) > 1 /\ Odd(Len(tree_nodes))
      /\ tree_nodes' = Append(tree_nodes, Duplicated(Last(tree_nodes)))
  BY DEF DuplicateLast, CopyOfLast
<1>2. tree_nodes # <<>>
  <2>1. Len(<<>>) = 0
    OBVIOUS
  <2> QED
    BY <1>1, <2>1
<1>3. data \in NonemptyData
  BY <1>1, <1>2 DEF IInv, BuildInv
<1>4. PICK h \in 0 .. Depth(Len(data)) : Build(data, h)
  BY <1>1, <1>2 DEF IInv, BuildInv
<1>5. tree_nodes = Row(data, h)
  BY <1>1, <1>3, <1>4, RowEvened DEF Build
<1>6. tree_nodes' = EvenRow(data, h) /\ Len(tree_nodes) = LastAt(data, h) + 1
  BY <1>1, <1>3, <1>5, RowEvened
<1>7. h < Depth(Len(data))
  <2>1. Depth(Len(data)) \in Nat /\ LastAt(data, Depth(Len(data))) = 0
    BY <1>3, LastNodes DEF Level
  <2>2. LastAt(data, h) # 0
    BY <1>1, <1>6
  <2> QED
    BY <2>1, <2>2
<1>8. BuildInv'
  BY <1>1, <1>3, <1>4, <1>6, <1>7 DEF BuildInv, Build
<1> QED
  BY <1>1, <1>8 DEF IInv, TreeInv, ProofInv, VerifyInv, ProofAccepted, AcceptedIsThere

LEMMA PairUpInv ==
  ASSUME IInv, PairUp
  PROVE  IInv'
<1>1. /\ stage = "build" /\ stage' = "build" /\ data' = data /\ tree' = tree
      /\ Len(tree_nodes) > 1 /\ ~Odd(Len(tree_nodes))
      /\ levels' = Append(levels, tree_nodes)
      /\ tree_nodes' = [k \in 1 .. Len(tree_nodes) \div 2 |-> Inner(tree_nodes, 2 * k - 1, 2 * k)]
  BY DEF PairUp
<1>2. tree_nodes # <<>>
  <2>1. Len(<<>>) = 0
    OBVIOUS
  <2> QED
    BY <1>1, <2>1
<1>3. data \in NonemptyData
  BY <1>1, <1>2 DEF IInv, BuildInv
<1> DEFINE D == Depth(Len(data))
<1>4. PICK h \in 0 .. D : Build(data, h)
  BY <1>1, <1>2 DEF IInv, BuildInv
<1>5. D \in Nat /\ LastAt(data, D) = 0
  BY <1>3, LastNodes DEF Level
<1>6. tree_nodes = EvenRow(data, h) /\ h < D
  <2>1. CASE tree_nodes = Row(data, h)
    <3>1. Len(tree_nodes) = LastAt(data, h) + 1 /\ tree_nodes = EvenRow(data, h)
      BY <1>1, <1>3, <2>1, RowEvened
    <3>2. LastAt(data, h) # 0
      BY <1>1, <3>1
    <3> QED
      BY <1>5, <3>1, <3>2
  <2> QED
    BY <1>4, <2>1 DEF Build
<1>7. tree_nodes' = Row(data, h + 1)
  <2>1. h \in 0 .. D - 1
    BY <1>5, <1>6
  <2> QED
    BY <1>1, <1>3, <1>6, <2>1, PairsAreRow
<1>8. levels' = Below(data, h + 1)
  <2> DEFINE S == {EvenRow(data, l) : l \in 0 .. D}
  <2>1. Below(data, h) = [l \in 1 .. h |-> EvenRow(data, l - 1)]
    BY DEF Below
  <2>2. \A l \in 1 .. h : EvenRow(data, l - 1) \in S
    BY <1>5
  <2>3. EvenRow(data, h) \in S
    OBVIOUS
  <2> HIDE DEF S
  <2>4. Below(data, h) \in Seq(S) /\ Len(Below(data, h)) = h
    BY <2>1, <2>2
  <2>5. Append(Below(data, h), EvenRow(data, h)) =
          [l \in 1 .. h + 1 |-> IF l = h + 1 THEN EvenRow(data, h) ELSE Below(data, h)[l]]
    BY <2>3, <2>4, AppendIs
  <2>6. ASSUME NEW l \in 1 .. h + 1
        PROVE  (IF l = h + 1 THEN EvenRow(data, h) ELSE Below(data, h)[l]) = EvenRow(data, l - 1)
    <3>1. CASE l = h + 1
      <4>1. l - 1 = h
        BY <3>1
      <4> QED
        BY <3>1, <4>1
    <3>2. CASE l # h + 1
      <4>1. l \in 1 .. h
        BY <3>2
      <4> QED
        BY <2>1, <3>2, <4>1
    <3> QED
      BY <3>1, <3>2
  <2>7. Below(data, h + 1) = [l \in 1 .. h + 1 |-> EvenRow(data, l - 1)]
    BY DEF Below
  <2> QED
    BY <1>1, <1>4, <1>6, <2>5, <2>6, <2>7 DEF Build
<1>9. h + 1 \in 0 .. D
  BY <1>5, <1>6
<1>10. BuildInv'
  BY <1>1, <1>3, <1>7, <1>8, <1>9 DEF BuildInv, Build
<1> QED
  BY <1>1, <1>10 DEF IInv, TreeInv, ProofInv, VerifyInv, ProofAccepted, AcceptedIsThere

LEMMA BuiltInv ==
  ASSUME IInv, Built
  PROVE  IInv'
<1>0. Len(tree_nodes) <= 1
  BY DEF Built
<1>1. /\ stage = "build" /\ data' = data /\ levels' = levels
      /\ IF tree_nodes = <<>> THEN stage' = "new panicked" /\ tree' = tree
         ELSE stage' = "built" /\ tree' = Head(tree_nodes)
  BY DEF Built
<1>2. tree = <<>>
  BY <1>1 DEF IInv, TreeInv
<1>3. TreeInv'
  <2>1. CASE tree_nodes = <<>>
    BY <1>1, <1>2, <2>1 DEF TreeInv
  <2>2. CASE tree_nodes # <<>>
    <3>1. data \in NonemptyData
      BY <1>1, <2>2 DEF IInv, BuildInv
    <3>2. PICK h \in 0 .. Depth(Len(data)) : Build(data, h)
      BY <1>1, <2>2 DEF IInv, BuildInv
    <3>3. Depth(Len(data)) \in Nat /\ LastAt(data, h) \in Nat
          /\ (h # Depth(Len(data)) => LastAt(data, h) # 0)
      <4>1. Depth(Len(data)) \in Nat
        BY <3>1, LastNodes DEF Level
      <4>2. h # Depth(Len(data)) => h \in 0 .. Depth(Len(data)) - 1
        BY <4>1
      <4> QED
        BY <3>1, <4>1, <4>2, LastNodes
    <3>4. tree_nodes # EvenRow(data, h) \/ tree_nodes = Row(data, h)
      <4> SUFFICES ASSUME tree_nodes = EvenRow(data, h), tree_nodes # Row(data, h) PROVE FALSE
        OBVIOUS
      <4>1. Len(EvenRow(data, h)) \in Nat /\ Len(EvenRow(data, h)) > 1
        <5>1. 2 * (LastAt(data, h) \div 2) + 2 \in Nat /\ 2 * (LastAt(data, h) \div 2) + 2 > 1
          BY <3>3
        <5> QED
          BY <5>1 DEF EvenRow
      <4>2. Len(EvenRow(data, h)) <= 1
        BY <1>0
      <4> QED
        BY <4>1, <4>2
    <3>5. tree_nodes = Row(data, h)
      BY <3>2, <3>4 DEF Build
    <3>6. h = Depth(Len(data)) /\ LastAt(data, h) = 0
      <4>1. Len(tree_nodes) = LastAt(data, h) + 1
        BY <3>1, <3>5, RowEvened
      <4>2. LastAt(data, h) + 1 <= 1
        BY <1>0, <4>1
      <4> QED
        BY <3>3, <4>2
    <3>7. Head(tree_nodes) = NodeOf(data, h, 0)
      <4>1. tree_nodes = [k \in 1 .. 1 |-> NodeOf(data, h, k - 1)]
        BY <3>5, <3>6 DEF Row
      <4>2. tree_nodes[1] = NodeOf(data, h, 0)
        BY <4>1
      <4>3. Head(tree_nodes) = tree_nodes[1]
        <5> DEFINE S == {NodeOf(data, h, k) : k \in Nat}
        <5>1. tree_nodes \in Seq(S) /\ Len(tree_nodes) = 0 + 1
          BY <3>1, <3>5, <3>6, RowEvened
        <5> HIDE DEF S
        <5> QED
          BY <5>1
      <4> QED
        BY <4>2, <4>3
    <3> QED
      BY <1>1, <2>2, <3>1, <3>2, <3>6, <3>7 DEF TreeInv, Build
  <2> QED
    BY <2>1, <2>2
<1>4. stage' \in {"new panicked", "built"}
  BY <1>1
<1> QED
  BY <1>3, <1>4 DEF IInv, BuildInv, ProofInv, VerifyInv, ProofAccepted, AcceptedIsThere

LEMMA ProveInv ==
  ASSUME IInv, NEW i \in Index, Prove(i)
  PROVE  IInv'
<1>1. /\ stage = "built" /\ stage' = "proved" /\ index' = i /\ data' = data
      /\ levels' = levels /\ tree' = tree
      /\ proof' = ProofHelper(Append(levels, <<tree>>), i).accum
  BY DEF Prove, buildVars
<1>2. /\ data \in NonemptyData /\ levels = Below(data, Depth(Len(data)))
      /\ tree = NodeOf(data, Depth(Len(data)), 0)
  BY <1>1 DEF IInv, TreeInv
<1>3. i \in Nat
  BY DEF Index
<1>4. Append(levels, <<tree>>) = TreeOf(data)
  BY <1>2 DEF TreeOf
<1>5. proof' = IF i < Len(data) THEN Siblings(data, i) ELSE <<>>
  BY <1>1, <1>2, <1>3, <1>4, HelperFindsSiblings
<1> QED
  BY <1>1, <1>2, <1>3, <1>5
     DEF IInv, BuildInv, TreeInv, ProofInv, VerifyInv, ProofAccepted, AcceptedIsThere

(* What verify starts from and works with. *)
LEMMA VerifyFacts ==
  ASSUME IInv, stage \in {"proved", "verify"}
  PROVE  /\ data \in NonemptyData /\ Len(data) \in 1 .. MaxLeaves /\ Depth(Len(data)) \in Nat
         /\ tree.hash = Hashes(data)[Depth(Len(data))][0]
         /\ index \in Nat /\ Len(proof) \in Nat
         /\ Len(proof) = IF index < Len(data) THEN Depth(Len(data)) ELSE 0
         /\ \A k \in 1 .. Len(proof) :
               proof[k] = Hashes(data)[k - 1][Sibling(Ancestors(index)[k - 1])]
<1> DEFINE D == Depth(Len(data))
<1>1. /\ data \in NonemptyData /\ index \in Nat /\ tree = NodeOf(data, D, 0)
      /\ proof = IF index < Len(data) THEN Siblings(data, index) ELSE <<>>
  BY DEF IInv, TreeInv, ProofInv
<1>2. Len(data) \in 1 .. MaxLeaves /\ D \in Nat
  BY <1>1, LastNodes DEF Level
<1>3. tree.hash = Hashes(data)[D][0]
  BY <1>1 DEF NodeOf
<1>4. Siblings(data, index) = [l \in 1 .. D |-> Hashes(data)[l - 1][Sibling(Ancestors(index)[l - 1])]]
  BY DEF Siblings
<1> HIDE DEF D
<1>5. CASE index < Len(data)
  BY <1>1, <1>2, <1>3, <1>4, <1>5 DEF D
<1>6. CASE ~(index < Len(data))
  <2>1. proof = <<>> /\ Len(<<>>) = 0
    BY <1>1, <1>6
  <2> QED
    BY <1>1, <1>2, <1>3, <1>6, <2>1 DEF D
<1> QED
  BY <1>5, <1>6

LEMMA StartVerifyInv ==
  ASSUME IInv, NEW d \in Datum, NEW i \in Index, NEW leaf_size \in Index,
         StartVerify(d, i, leaf_size)
  PROVE  IInv'
<1>1. /\ stage = "proved" /\ stage' = "verify" /\ data' = data
      /\ levels' = levels /\ tree' = tree /\ proof' = proof /\ index' = index
      /\ query' = [datum |-> d, index |-> i, leaf_size |-> leaf_size]
      /\ order' = OrderProof(i, leaf_size) /\ sibs' = proof /\ currhash' = HashOf(d)
  BY DEF StartVerify, buildVars, proofVars
<1>2. /\ data \in NonemptyData /\ Len(data) \in 1 .. MaxLeaves
      /\ index \in Nat /\ Len(proof) \in Nat
  BY <1>1, VerifyFacts
<1>3. i \in Nat /\ leaf_size \in Nat /\ leaf_size \in 0 .. MaxLeaves
  BY MerkleAssumption DEF Index
<1>4. order' \in Seq({0, 1}) /\ (leaf_size # 0 => Len(order') = Depth(leaf_size))
  <2>1. CASE leaf_size # 0
    <3>1. leaf_size \in 1 .. MaxLeaves
      BY <1>3, <2>1
    <3> QED
      BY <1>1, <1>3, <3>1, OrderIsSides
  <2>2. CASE leaf_size = 0
    BY <1>1, <1>3, <2>2, NoOrder
  <2> QED
    BY <2>1, <2>2
<1>5. proof = [k \in 1 .. Len(proof) - 0 |-> proof[0 + k]]
  <2>1. proof = [k \in 1 .. Len(proof) |-> proof[k]]
    <3>1. CASE index < Len(data)
      <4>1. proof = [l \in 1 .. Depth(Len(data)) |->
                       Hashes(data)[l - 1][Sibling(Ancestors(index)[l - 1])]]
        BY <1>1, <3>1 DEF IInv, ProofInv, Siblings
      <4>2. Len(proof) = Depth(Len(data))
        BY <1>1, <3>1, VerifyFacts
      <4> QED
        BY <4>1, <4>2
    <3>2. CASE ~(index < Len(data))
      <4>1. proof = <<>> /\ Len(<<>>) = 0
        BY <1>1, <3>2 DEF IInv, ProofInv
      <4> QED
        BY <4>1
    <3> QED
      BY <3>1, <3>2
  <2>2. Len(proof) - 0 = Len(proof) /\ \A k \in 1 .. Len(proof) : 0 + k = k
    BY <1>2
  <2> QED
    BY <2>1, <2>2
<1>6. ASSUME NEW j \in Nat, j < Len(data), HashOf(d) = Hashes(data)[0][Ancestors(j)[0]] \/ d = data[j + 1]
      PROVE  HashOf(d) = Hashes(data)[0][Ancestors(j)[0]] /\ d = data[j + 1]
  <2>1. Ancestors(j)[0] = j /\ j \in 0 .. Len(data) - 1
    BY <1>2, <1>6, AncestorsType DEF IsAncestors
  <2>2. Hashes(data)[0][j] = HashOf(data[j + 1])
    BY <1>2, <2>1, HashesLeaf
  <2> QED
    BY <1>6, <2>1, <2>2 DEF HashOf
<1>7. Verifying(0)'
  <2>1. query'.datum = d /\ query'.index = i /\ query'.leaf_size = leaf_size
    BY <1>1
  <2>2. leaf_size >= Len(data) => Len(order') = Depth(leaf_size) - 0
    <3> SUFFICES ASSUME leaf_size >= Len(data) PROVE Len(order') = Depth(leaf_size) - 0
      OBVIOUS
    <3>1. leaf_size # 0 /\ leaf_size \in 1 .. MaxLeaves
      BY <1>2, <1>3
    <3>2. Depth(leaf_size) \in Nat
      BY <3>1, DepthType DEF Level
    <3> QED
      BY <1>4, <3>1, <3>2
  <2>3. (RightQuery => UpTo(0, index))'
    BY <1>1, <1>2, <1>6, <2>1 DEF RightQuery, UpTo
  <2>4. (query.index < Len(data) /\ UpTo(0, query.index) => query.datum = data[query.index + 1])'
    BY <1>1, <1>3, <1>6, <2>1 DEF UpTo
  <2> QED
    BY <1>1, <1>2, <1>5, <2>1, <2>2, <2>3, <2>4 DEF Verifying
<1>8. VerifyInv'
  BY <1>1, <1>4, <1>7 DEF VerifyInv
<1> QED
  BY <1>1, <1>8 DEF IInv, BuildInv, TreeInv, ProofInv, ProofAccepted, AcceptedIsThere

(* In a query that knows the number of leaves, the directions left are the sides *)
(* of the index, and there is one for each sibling left.                         *)
LEMMA DirectionsLeft ==
  ASSUME IInv, stage = "verify", NEW done \in Nat, Verifying(done),
         query.leaf_size >= Len(data)
  PROVE  /\ Len(order) >= Len(proof) - done
         /\ query.leaf_size = Len(data) => Len(order) = Depth(Len(data)) - done
         /\ query.leaf_size = Len(data) /\ query.index < Len(data) /\ order # <<>> =>
               Last(order) = Ancestors(query.index)[done] % 2
<1> DEFINE D == Depth(Len(data))
           E == Depth(query.leaf_size)
           full == OrderProof(query.index, query.leaf_size)
<1>1. /\ query.index \in Nat /\ query.leaf_size \in 1 .. MaxLeaves /\ order \in Seq({0, 1})
      /\ Len(data) \in 1 .. MaxLeaves
  <2>1. query \in [datum : Datum, index : Index, leaf_size : Index] /\ order \in Seq({0, 1})
    BY DEF IInv, VerifyInv
  <2>2. Len(data) \in 1 .. MaxLeaves
    BY VerifyFacts
  <2> QED
    BY <2>1, <2>2 DEF Index
<1>2. D \in Nat /\ E \in Nat /\ D <= E
  BY <1>1, DepthType, DepthGrows DEF Level
<1>3. Len(proof) \in Nat /\ Len(proof) <= D
  BY <1>2, VerifyFacts
<1>4. Len(order) = E - done /\ \A k \in 1 .. Len(order) : order[k] = full[k]
  BY DEF Verifying
<1>5. ASSUME query.leaf_size = Len(data), query.index < Len(data), order # <<>>
      PROVE  Last(order) = Ancestors(query.index)[done] % 2
  <2>1. \A j \in 1 .. E : full[j] = Ancestors(query.index)[E - j] % 2
    BY <1>1, <1>5, OrderIsSides
  <2> HIDE DEF E, full
  <2>2. PICK k \in 1 .. E : k = Len(order)
    <3>1. Len(order) # 0 /\ Len(order) \in Nat
      BY <1>1, <1>5
    <3> QED
      BY <1>2, <1>4, <3>1
  <2>3. E - k = done
    BY <1>2, <1>4, <2>2
  <2>4. Last(order) = full[k] /\ full[k] = Ancestors(query.index)[E - k] % 2
    BY <1>4, <2>1, <2>2 DEF Last
  <2> QED
    BY <2>3, <2>4
<1>6. Len(order) >= Len(proof) - done
  <2> HIDE DEF D, E
  <2> QED
    BY <1>2, <1>3, <1>4
<1>7. query.leaf_size = Len(data) => Len(order) = D - done
  BY <1>4
<1> QED
  BY <1>5, <1>6, <1>7

(* One turn of verify: with the side of the index for a direction, the hash goes  *)
(* up from an ancestor exactly if it was at the one below.                        *)
GoesUp(d, done, i, direction, sib) ==
  /\ currhash = Hashes(d)[done][Ancestors(i)[done]]
        /\ sib = Hashes(d)[done][Sibling(Ancestors(i)[done])]
      => Directed(direction, sib) = Hashes(d)[done + 1][Ancestors(i)[done + 1]]
  /\ Directed(direction, sib) = Hashes(d)[done + 1][Ancestors(i)[done + 1]]
      => currhash = Hashes(d)[done][Ancestors(i)[done]]

LEMMA OneUp ==
  ASSUME NEW d \in NonemptyData, NEW done \in 0 .. Depth(Len(d)) - 1,
         NEW i \in Nat, i < Len(d), NEW direction, direction = Ancestors(i)[done] % 2, NEW sib
  PROVE  GoesUp(d, done, i, direction, sib)
<1> DEFINE u == Ancestors(i)[done]
           c == Ancestors(i)[done + 1]
           H == Hashes(d)[done]
<1>1. /\ done \in 0 .. MaxLeaves - 1 /\ done + 1 \in 1 .. MaxLeaves /\ done + 1 - 1 = done
      /\ done + 1 \in Level /\ Len(d) - 1 \in Nat /\ i <= Len(d) - 1
  <2>1. Depth(Len(d)) \in 0 .. MaxLeaves /\ Len(d) - 1 \in Nat
    BY LastNodes
  <2> QED
    BY <2>1, MerkleAssumption DEF Level
<1>2. u \in Nat /\ c \in Nat /\ c = u \div 2
  BY <1>1, AncestorsStep
<1>3. c <= LastNode(Len(d))[done + 1]
  BY <1>1, AncestorsInOrder DEF LastNode
<1>4. Hashes(d)[done + 1][c] = ConcatAndHash(H[2 * c], H[2 * c + 1])
  <2> HIDE DEF c
  <2>1. PICK l \in 1 .. MaxLeaves : l = done + 1
    BY <1>1
  <2>2. l - 1 = done
    BY <1>1, <2>1
  <2>3. Hashes(d)[l][c] = ConcatAndHash(Hashes(d)[l - 1][2 * c], Hashes(d)[l - 1][2 * c + 1])
    BY <1>2, <1>3, <2>1, HashesInner
  <2> QED
    BY <2>1, <2>2, <2>3
<1> HIDE DEF u, c, H
<1>5. \/ u = 2 * c /\ Sibling(u) = 2 * c + 1 /\ u % 2 = 0
      \/ u = 2 * c + 1 /\ Sibling(u) = 2 * c /\ u % 2 = 1
  <2>1. u = 2 * c => u % 2 = 0
    BY <1>2
  <2>2. u = 2 * c + 1 => u % 2 = 1
    BY <1>2
  <2> QED
    BY <1>2, <2>1, <2>2, ChildOf
<1>6. direction = u % 2
  BY DEF u
<1>7. /\ currhash = H[u] /\ sib = H[Sibling(u)]
             => Directed(direction, sib) = Hashes(d)[done + 1][c]
      /\ Directed(direction, sib) = Hashes(d)[done + 1][c] => currhash = H[u]
  <2>1. CASE u = 2 * c /\ Sibling(u) = 2 * c + 1 /\ u % 2 = 0
    <3>1. Directed(direction, sib) = <<currhash, sib>>
      BY <1>6, <2>1 DEF Directed, ConcatAndHash
    <3> QED
      BY <1>4, <2>1, <3>1 DEF ConcatAndHash
  <2>2. CASE u = 2 * c + 1 /\ Sibling(u) = 2 * c /\ u % 2 = 1
    <3>1. Directed(direction, sib) = <<sib, currhash>>
      BY <1>6, <2>2 DEF Directed, ConcatAndHash
    <3> QED
      BY <1>4, <2>2, <3>1 DEF ConcatAndHash
  <2> QED
    BY <1>5, <2>1, <2>2
<1> QED
  BY <1>7 DEF u, c, H, GoesUp

LEMMA TailIs ==
  ASSUME NEW S, NEW s \in Seq(S), s # <<>>
  PROVE  /\ Len(Tail(s)) = Len(s) - 1 /\ Head(s) = s[1]
         /\ Tail(s) = [k \in 1 .. Len(s) - 1 |-> s[k + 1]]
<1> DEFINE b == Tail(s)
           n == Len(s)
<1>1. /\ n \in Nat /\ n # 0 /\ b \in Seq(S) /\ Len(b) = n - 1
      /\ \A k \in 1 .. n - 1 : b[k] = s[k + 1]
  OBVIOUS
<1>2. Head(s) = s[1]
  OBVIOUS
<1> HIDE DEF b, n
<1>3. b \in [1 .. n - 1 -> S]
  BY <1>1
<1>4. b = [k \in 1 .. n - 1 |-> b[k]]
  BY <1>3
<1>5. b = [k \in 1 .. n - 1 |-> s[k + 1]]
  BY <1>1, <1>4
<1> QED
  BY <1>1, <1>2, <1>5 DEF b, n

LEMMA FrontIs ==
  ASSUME NEW S, NEW s \in Seq(S), s # <<>>
  PROVE  /\ Front(s) \in Seq(S) /\ Len(Front(s)) = Len(s) - 1
         /\ \A k \in 1 .. Len(s) - 1 : Front(s)[k] = s[k]
<1>1. Len(s) \in Nat /\ Len(s) # 0
  OBVIOUS
<1>2. Front(s) = SubSeq(s, 1, Len(s) - 1)
  BY DEF Front
<1> DEFINE n == Len(s)
<1>3. SubSeq(s, 1, n - 1) = [k \in 1 .. n - 1 |-> s[k]]
  BY <1>1
<1> HIDE DEF n
<1>4. \A k \in 1 .. n - 1 : s[k] \in S
  BY <1>1 DEF n
<1> DEFINE b == [k \in 1 .. n - 1 |-> s[k]]
<1>5. n - 1 \in Nat
  BY <1>1 DEF n
<1>6. b \in Seq(S) /\ Len(b) = n - 1
  BY <1>4, <1>5
<1> QED
  BY <1>2, <1>3, <1>6 DEF n

LEMMA VerifyStepInv ==
  ASSUME IInv, VerifyStep
  PROVE  IInv'
<1>1. /\ stage = "verify" /\ stage' = "verify" /\ data' = data /\ levels' = levels /\ tree' = tree
      /\ proof' = proof /\ index' = index /\ query' = query /\ sibs # <<>> /\ order # <<>>
      /\ currhash' = Directed(Last(order), Head(sibs)) /\ order' = Front(order) /\ sibs' = Tail(sibs)
  BY DEF VerifyStep, buildVars, proofVars, Direction, NextSibling
<1>2. PICK done \in Nat : Verifying(done)
  BY <1>1 DEF IInv, VerifyInv
<1> DEFINE D == Depth(Len(data))
<1>3. /\ data \in NonemptyData /\ Len(data) \in 1 .. MaxLeaves /\ D \in Nat
      /\ index \in Nat /\ Len(proof) \in Nat /\ Len(proof) = IF index < Len(data) THEN D ELSE 0
      /\ \A k \in 1 .. Len(proof) : proof[k] = Hashes(data)[k - 1][Sibling(Ancestors(index)[k - 1])]
  BY <1>1, VerifyFacts
<1>4. /\ query \in [datum : Datum, index : Index, leaf_size : Index] /\ order \in Seq({0, 1})
      /\ query.index \in Nat /\ query.leaf_size \in Nat
  BY <1>1 DEF IInv, VerifyInv, Index
<1> HIDE DEF D
<1> DEFINE m == Len(proof) - done
<1>5. m \in Nat /\ done <= Len(proof) /\ sibs = [k \in 1 .. m |-> proof[done + k]]
  BY <1>2, <1>3 DEF Verifying
<1> HIDE DEF m
<1>6. m # 0 /\ sibs \in Seq({proof[k] : k \in 1 .. Len(proof)}) /\ Len(sibs) = m
  <2> DEFINE S == {proof[k] : k \in 1 .. Len(proof)}
  <2>1. \A k \in 1 .. m : proof[done + k] \in S
    BY <1>3, <1>5 DEF m
  <2> HIDE DEF S
  <2>2. sibs \in Seq(S) /\ Len(sibs) = m
    BY <1>5, <2>1
  <2>3. m # 0
    BY <1>1, <2>2
  <2> QED
    BY <2>2, <2>3 DEF S
<1>7. /\ index < Len(data) /\ Len(proof) = D /\ done \in 0 .. D - 1
      /\ done + 1 \in 1 .. Len(proof) /\ done + 1 - 1 = done /\ m - 1 = Len(proof) - (done + 1)
  BY <1>3, <1>5, <1>6 DEF m
<1>8. Head(sibs) = Hashes(data)[done][Sibling(Ancestors(index)[done])]
  <2>1. Head(sibs) = sibs[1]
    BY <1>6
  <2>2. sibs[1] = proof[done + 1]
    BY <1>5, <1>6
  <2>3. proof[done + 1] = Hashes(data)[done + 1 - 1][Sibling(Ancestors(index)[done + 1 - 1])]
    BY <1>3, <1>7
  <2> QED
    BY <1>7, <2>1, <2>2, <2>3
<1>9. sibs' = [k \in 1 .. m - 1 |-> proof[(done + 1) + k]]
  <2> DEFINE S == {proof[k] : k \in 1 .. Len(proof)}
  <2>1. sibs \in Seq(S) /\ Len(sibs) = m
    BY <1>6
  <2> HIDE DEF S
  <2>2. Tail(sibs) = [k \in 1 .. m - 1 |-> sibs[k + 1]]
    BY <1>1, <2>1, TailIs
  <2>3. \A k \in 1 .. m - 1 : sibs[k + 1] = proof[(done + 1) + k]
    <3> SUFFICES ASSUME NEW k \in 1 .. m - 1 PROVE sibs[k + 1] = proof[(done + 1) + k]
      OBVIOUS
    <3>1. k + 1 \in 1 .. m /\ done + (k + 1) = (done + 1) + k
      BY <1>5
    <3> QED
      BY <1>5, <3>1
  <2> QED
    BY <1>1, <2>2, <2>3
<1>10. /\ order' \in Seq({0, 1}) /\ Len(order') = Len(order) - 1
       /\ \A k \in 1 .. Len(order') : k \in 1 .. Len(order) /\ order'[k] = order[k]
  <2> DEFINE f == Front(order)
  <2>1. Len(order) \in Nat \ {0}
    BY <1>1, <1>4
  <2>3. /\ f \in Seq({0, 1}) /\ Len(f) = Len(order) - 1
        /\ \A k \in 1 .. Len(order) - 1 : f[k] = order[k]
    BY <1>1, <1>4, FrontIs
  <2>4. \A k \in 1 .. Len(order) - 1 : k \in 1 .. Len(order)
    BY <2>1
  <2> HIDE DEF f
  <2> QED
    BY <1>1, <2>3, <2>4 DEF f
<1>11. ASSUME query.leaf_size >= Len(data)
       PROVE  /\ Len(order') = Depth(query.leaf_size) - (done + 1)
              /\ \A k \in 1 .. Len(order') :
                    order'[k] = OrderProof(query.index, query.leaf_size)[k]
  <2>1. /\ Len(order) = Depth(query.leaf_size) - done
        /\ \A k \in 1 .. Len(order) : order[k] = OrderProof(query.index, query.leaf_size)[k]
    BY <1>2, <1>11 DEF Verifying
  <2>2. Depth(query.leaf_size) \in Nat
    <3>1. query.leaf_size \in 1 .. MaxLeaves
      BY <1>3, <1>4, <1>11, MerkleAssumption DEF Index
    <3> QED
      BY <3>1, DepthType DEF Level
  <2> QED
    BY <1>10, <2>1, <2>2
<1>12. ASSUME query.leaf_size = Len(data)
       PROVE  /\ RightQuery => Directed(Last(order), Head(sibs)) = Hashes(data)[done + 1][Ancestors(index)[done + 1]]
              /\ query.index < Len(data)
                   /\ Directed(Last(order), Head(sibs)) =
                        Hashes(data)[done + 1][Ancestors(query.index)[done + 1]]
                   => query.datum = data[query.index + 1]
  <2>1. query.index < Len(data) => Last(order) = Ancestors(query.index)[done] % 2
    BY <1>1, <1>2, <1>3, <1>4, <1>12, DirectionsLeft
  <2>2. /\ RightQuery => currhash = Hashes(data)[done][Ancestors(index)[done]]
        /\ query.index < Len(data) /\ currhash = Hashes(data)[done][Ancestors(query.index)[done]]
             => query.datum = data[query.index + 1]
    BY <1>2, <1>12 DEF Verifying, UpTo
  <2>3. ASSUME RightQuery
        PROVE  Directed(Last(order), Head(sibs)) = Hashes(data)[done + 1][Ancestors(index)[done + 1]]
    <3>1. query.index = index
      BY <2>3 DEF RightQuery
    <3>2. Last(order) = Ancestors(index)[done] % 2
      BY <1>7, <2>1, <3>1
    <3> QED
      <4>1. GoesUp(data, done, index, Last(order), Head(sibs))
        BY <1>3, <1>7, <3>2, OneUp DEF D
      <4> QED
        BY <1>8, <2>2, <2>3, <4>1 DEF GoesUp
  <2>4. ASSUME query.index < Len(data),
               Directed(Last(order), Head(sibs)) =
                 Hashes(data)[done + 1][Ancestors(query.index)[done + 1]]
        PROVE  query.datum = data[query.index + 1]
    <3>1. currhash = Hashes(data)[done][Ancestors(query.index)[done]]
      <4>1. GoesUp(data, done, query.index, Last(order), Head(sibs))
        BY <1>3, <1>4, <1>7, <2>1, <2>4, OneUp DEF D
      <4> QED
        BY <2>4, <4>1 DEF GoesUp
    <3> QED
      BY <2>2, <2>4, <3>1
  <2> QED
    BY <2>3, <2>4
<1>13. Verifying(done + 1)'
  <2>1. done + 1 <= Len(proof) /\ done + 1 # 0
    BY <1>7
  <2>2. sibs' = [k \in 1 .. Len(proof) - (done + 1) |-> proof[(done + 1) + k]]
    BY <1>7, <1>9
  <2> QED
    BY <1>1, <1>11, <1>12, <2>1, <2>2 DEF Verifying, UpTo, RightQuery
<1>14. VerifyInv'
  BY <1>1, <1>4, <1>10, <1>13 DEF VerifyInv
<1> QED
  BY <1>1, <1>14 DEF IInv, BuildInv, TreeInv, ProofInv, ProofAccepted, AcceptedIsThere

LEMMA VerifyPanicInv ==
  ASSUME IInv, VerifyPanic
  PROVE  IInv'
<1>1. /\ stage = "verify" /\ stage' = "verify panicked" /\ data' = data /\ levels' = levels
      /\ tree' = tree /\ proof' = proof /\ index' = index /\ query' = query
  BY DEF VerifyPanic, buildVars, proofVars, verifyVars
<1>0. sibs # <<>> /\ order = <<>>
  BY DEF VerifyPanic
<1>2. PICK done \in Nat : Verifying(done)
  BY <1>1 DEF IInv, VerifyInv
<1>3. Len(proof) \in Nat /\ Len(data) \in Nat
  <2>1. Len(proof) \in Nat /\ Len(data) \in 1 .. MaxLeaves
    BY <1>1, VerifyFacts
  <2> QED
    BY <2>1
<1>4. query \in [datum : Datum, index : Index, leaf_size : Index] /\ query.leaf_size \in Nat
  <2>1. query \in [datum : Datum, index : Index, leaf_size : Index]
    <3>1. stage = "verify"
      BY <1>1
    <3> QED
      BY <3>1 DEF IInv, VerifyInv
  <2> QED
    BY <2>1 DEF Index
<1>5. query.leaf_size < Len(data)
  <2> SUFFICES ASSUME query.leaf_size >= Len(data) PROVE FALSE
    BY <1>3, <1>4
  <2>1. Len(order) >= Len(proof) - done
    BY <1>1, <1>2, DirectionsLeft
  <2>2. Len(order) = 0
    BY <1>0
  <2>3. Len(proof) - done = 0
    BY <1>2, <1>3, <2>1, <2>2 DEF Verifying
  <2>4. sibs = [k \in 1 .. 0 |-> proof[done + k]]
    BY <1>2, <2>3 DEF Verifying
  <2>5. sibs = <<>>
    BY <2>4
  <2> QED
    BY <1>0, <2>5
<1> QED
  BY <1>1, <1>4, <1>5
     DEF IInv, BuildInv, TreeInv, ProofInv, VerifyInv, ProofAccepted, AcceptedIsThere

LEMMA VerifyDoneInv ==
  ASSUME IInv, VerifyDone
  PROVE  IInv'
<1>1. /\ stage = "verify" /\ data' = data /\ levels' = levels
      /\ tree' = tree /\ proof' = proof /\ index' = index /\ query' = query /\ sibs = <<>>
      /\ stage' = IF currhash = tree.hash THEN "accepted" ELSE "refused"
  BY DEF VerifyDone, buildVars, proofVars, verifyVars
<1>2. PICK done \in Nat : Verifying(done)
  BY <1>1 DEF IInv, VerifyInv
<1> DEFINE D == Depth(Len(data))
<1>3. /\ data \in NonemptyData /\ Len(data) \in 1 .. MaxLeaves /\ D \in Nat
      /\ tree.hash = Hashes(data)[D][0]
      /\ index \in Nat /\ Len(proof) \in Nat /\ Len(proof) = IF index < Len(data) THEN D ELSE 0
  BY <1>1, VerifyFacts
<1>4. query \in [datum : Datum, index : Index, leaf_size : Index] /\ query.index \in Nat
  BY <1>1 DEF IInv, VerifyInv, Index
<1>5. done = Len(proof)
  <2> SUFFICES ASSUME done # Len(proof) PROVE FALSE
    OBVIOUS
  <2>1. Len(proof) - done \in Nat /\ Len(proof) - done # 0
        /\ sibs = [k \in 1 .. Len(proof) - done |-> proof[done + k]]
    BY <1>2, <1>3 DEF Verifying
  <2>2. DOMAIN sibs = 1 .. Len(proof) - done /\ 1 \in 1 .. Len(proof) - done
    BY <2>1
  <2>3. DOMAIN sibs = {}
    <3>1. \A k : k \notin 1 .. 0
      OBVIOUS
    <3>2. sibs = <<>> /\ DOMAIN <<>> = 1 .. 0
      BY <1>1
    <3> QED
      BY <3>1, <3>2
  <2> QED
    BY <2>2, <2>3
(* All leaves are below the root. *)
<1>6. ASSUME NEW j \in Nat, j < Len(data)
      PROVE  Ancestors(j)[D] = 0
  <2>1. j <= Len(data) - 1 /\ Len(data) - 1 \in Nat /\ D \in Level
        /\ Ancestors(Len(data) - 1)[D] = 0
    BY <1>3, <1>6, LastNodes DEF LastAt, LastNode
  <2>2. Ancestors(j)[D] <= Ancestors(Len(data) - 1)[D] /\ Ancestors(j)[D] \in Nat
    BY <2>1, AncestorsInOrder, AncestorsType
  <2> QED
    BY <2>1, <2>2
<1> HIDE DEF D
<1>7. ASSUME query.leaf_size = Len(data), RightQuery
      PROVE  currhash = tree.hash
  <2>1. UpTo(done, index)
    BY <1>2, <1>7 DEF Verifying
  <2>2. index < Len(data) /\ done = D /\ Ancestors(index)[D] = 0
    BY <1>3, <1>5, <1>6, <1>7 DEF RightQuery
  <2> QED
    BY <1>3, <2>1, <2>2 DEF UpTo
<1>8. ASSUME currhash = tree.hash, query.leaf_size = Len(data), query.index < Len(data)
      PROVE  query.datum = data[query.index + 1]
  <2>1. /\ done = 0 => currhash = HashOf(query.datum)
        /\ UpTo(done, query.index) => query.datum = data[query.index + 1]
    BY <1>2, <1>8 DEF Verifying
  <2>2. CASE done = D
    <3>1. Ancestors(query.index)[D] = 0
      BY <1>4, <1>6, <1>8
    <3> QED
      BY <1>3, <1>8, <2>1, <2>2, <3>1 DEF UpTo
  <2>3. CASE done # D
    <3>1. done = 0 /\ D # 0
      BY <1>3, <1>5, <2>3
    <3>2. D \in 1 .. MaxLeaves /\ 0 <= LastNode(Len(data))[D]
      <4>1. D \in 0 .. MaxLeaves /\ LastNode(Len(data))[D] = 0
        BY <1>3, LastNodes DEF LastAt, D, Level
      <4> QED
        BY <3>1, <4>1
    <3>3. Hashes(data)[D][0] =
            ConcatAndHash(Hashes(data)[D - 1][2 * 0], Hashes(data)[D - 1][2 * 0 + 1])
      BY <3>2, HashesInner
    <3>4. <<query.datum>> # ConcatAndHash(Hashes(data)[D - 1][2 * 0], Hashes(data)[D - 1][2 * 0 + 1])
      BY DEF ConcatAndHash
    <3> QED
      BY <1>3, <1>8, <2>1, <3>1, <3>3, <3>4 DEF HashOf
  <2> QED
    BY <2>2, <2>3
<1>9. ProofAccepted'
  <2>1. stage' # "verify panicked"
    BY <1>1
  <2>2. ASSUME stage' = "refused", index < Len(data),
               query = [datum |-> data[index + 1], index |-> index, leaf_size |-> Len(data)]
        PROVE  FALSE
    <3>1. query.leaf_size = Len(data) /\ RightQuery
      BY <2>2 DEF RightQuery
    <3> QED
      BY <1>1, <1>7, <2>2, <3>1
  <2> QED
    BY <1>1, <2>1, <2>2 DEF ProofAccepted
<1>10. AcceptedIsThere'
  <2>1. stage' = "accepted" => currhash = tree.hash
    BY <1>1
  <2> QED
    BY <1>1, <1>8, <2>1 DEF AcceptedIsThere
<1>11. stage' \in {"accepted", "refused"}
  BY <1>1
<1> QED
  BY <1>1, <1>4, <1>9, <1>10, <1>11 DEF IInv, BuildInv, TreeInv, ProofInv, VerifyInv

LEMMA InvNext ==
  ASSUME IInv, [Next]_merkleVars
  PROVE  IInv'
<1>1. CASE DuplicateLast
  BY <1>1, DuplicateLastInv
<1>2. CASE PairUp
  BY <1>2, PairUpInv
<1>3. CASE Built
  BY <1>3, BuiltInv
<1>4. CASE \E i \in Index : Prove(i)
  BY <1>4, ProveInv
<1>5. CASE \E d \in Datum, i \in Index, n \in Index : StartVerify(d, i, n)
  BY <1>5, StartVerifyInv
<1>6. CASE VerifyStep
  BY <1>6, VerifyStepInv
<1>7. CASE VerifyPanic
  BY <1>7, VerifyPanicInv
<1>8. CASE VerifyDone
  BY <1>8, VerifyDoneInv
<1>9. CASE UNCHANGED merkleVars
  <2>1. /\ stage' = stage /\ data' = data /\ levels' = levels /\ tree_nodes' = tree_nodes
        /\ tree' = tree /\ proof' = proof /\ index' = index /\ query' = query /\ order' = order
        /\ sibs' = sibs /\ currhash' = currhash
    BY <1>9 DEF merkleVars, buildVars, proofVars, verifyVars
  <2>2. BuildInv' /\ TreeInv' /\ ProofInv'
    BY <2>1 DEF IInv, BuildInv, TreeInv, ProofInv, Build
  <2>3. VerifyInv'
    BY <2>1 DEF IInv, VerifyInv, Verifying, UpTo, RightQuery
  <2>4. ProofAccepted' /\ AcceptedIsThere'
    BY <2>1 DEF IInv, ProofAccepted, AcceptedIsThere
  <2> QED
    BY <2>2, <2>3, <2>4 DEF IInv
<1> QED
  BY <1>1, <1>2, <1>3, <1>4, <1>5, <1>6, <1>7, <1>8, <1>9 DEF Next

THEOREM MerkleInvariant == Spec => []IInv
<1>1. Init => IInv
  BY InvInit
<1>2. IInv /\ [Next]_merkleVars => IInv'
  BY InvNext
<1> QED
  BY <1>1, <1>2, PTL DEF Spec

(* merkle.rs:50-75, new and gen_helper: whatever the data and however many levels  *)
(* have an odd number of nodes, the root is the reference's.                       *)
THEOREM Root_IsReference == Spec => []RootIsReference
<1>1. IInv => RootIsReference
  <2> SUFFICES ASSUME IInv, tree # <<>> PROVE tree.hash = Hashes(data)[Depth(Len(data))][0]
    BY DEF RootIsReference, IsTree
  <2>1. tree = NodeOf(data, Depth(Len(data)), 0)
    BY DEF IInv, TreeInv
  <2> QED
    BY <2>1 DEF NodeOf
<1> QED
  BY <1>1, MerkleInvariant, PTL

(* merkle.rs:78-101, proof and proof_helper: the proof of a leaf is the sibling at  *)
(* each level, from the bottom up; past the last leaf it is empty.                 *)
THEOREM Proof_IsSiblings == Spec => []ProofIsSiblings
<1>1. IInv => ProofIsSiblings
  BY DEF IInv, ProofInv, ProofIsSiblings
<1> QED
  BY <1>1, MerkleInvariant, PTL

(* merkle.rs:103-162, order_proof and verify: the proof of a leaf is accepted for   *)
(* it, and the directions run out only under a number of leaves that is too small.  *)
THEOREM Proof_Accepted == Spec => []ProofAccepted
<1>1. IInv => ProofAccepted
  BY DEF IInv
<1> QED
  BY <1>1, MerkleInvariant, PTL

(* merkle.rs:153-162, verify: no other datum than the leaf's is accepted under its  *)
(* index, whichever leaf the proof was made for.                                   *)
THEOREM Accepted_IsThere == Spec => []AcceptedIsThere
<1>1. IInv => AcceptedIsThere
  BY DEF IInv
<1> QED
  BY <1>1, MerkleInvariant, PTL
================================================================================
