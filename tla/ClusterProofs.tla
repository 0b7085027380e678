---------------------------- MODULE ClusterProofs ----------------------------
(***************************************************************************)
(* Theorems about Cluster, for any network, number of workers and blocks.  *)
(* In this order: lists that lose elements (RemoveAll) and the walk        *)
(* through the orphans (Adopted); types; what handling a message does      *)
(* (Handled), for each handler; the invariant, that what a node lacks is   *)
(* asked for or on its way, which has one lemma for all the handlers; and  *)
(* the order of the messages when one node mines and all have one worker,  *)
(* a lemma for what moves up in a queue and one for each handler.          *)
(***************************************************************************)
EXTENDS Cluster, Induction

(* remove takes an element out and moves those after it. *)
LEMMA RemoveAtSeq ==
  ASSUME NEW S, NEW s \in Seq(S), NEW i \in 1 .. Len(s)
  PROVE  /\ RemoveAt(s, i) \in Seq(S)
         /\ Len(RemoveAt(s, i)) = Len(s) - 1
         /\ \A k \in 1 .. Len(s) - 1 :
                RemoveAt(s, i)[k] = IF k < i THEN s[k] ELSE s[k + 1]
<1> DEFINE l == SubSeq(s, 1, i - 1)
           r == SubSeq(s, i + 1, Len(s))
<1>1. /\ l \in Seq(S) /\ Len(l) = i - 1
      /\ \A k \in 1 .. i - 1 : l[k] = s[k]
  OBVIOUS
<1>2. /\ r \in Seq(S) /\ Len(r) = Len(s) - i
      /\ \A k \in 1 .. Len(s) - i : r[k] = s[i + k]
  OBVIOUS
<1>3. RemoveAt(s, i) = l \o r
  BY DEF RemoveAt
<1> HIDE DEF l, r
<1>4. \A k \in 1 .. Len(s) - 1 : (l \o r)[k] = IF k < i THEN s[k] ELSE s[k + 1]
  <2> TAKE k \in 1 .. Len(s) - 1
  <2>1. CASE k < i
    BY <2>1, <1>1, <1>2
  <2>2. CASE ~(k < i)
    <3>1. k - (i - 1) \in 1 .. Len(s) - i
      BY <2>2
    <3>2. (l \o r)[k] = r[k - (i - 1)]
      BY <2>2, <1>1, <1>2
    <3> QED
      BY <2>2, <3>1, <3>2, <1>2
  <2> QED
    BY <2>1, <2>2
<1>5. l \o r \in Seq(S)
  BY <1>1, <1>2
<1>6. Len(l \o r) = Len(s) - 1
  BY <1>1, <1>2
<1> QED
  BY <1>3, <1>4, <1>5, <1>6

(* So it leaves a part of what there was. *)
LEMMA RemoveAtPart ==
  ASSUME NEW S, NEW s \in Seq(S), NEW i \in 1 .. Len(s)
  PROVE  ToSet(RemoveAt(s, i)) \subseteq ToSet(s)
<1> DEFINE r == RemoveAt(s, i)
<1>1. /\ r \in Seq(S) /\ Len(r) = Len(s) - 1
      /\ \A k \in 1 .. Len(s) - 1 : r[k] = IF k < i THEN s[k] ELSE s[k + 1]
  BY RemoveAtSeq
<1> HIDE DEF r
<1>2. DOMAIN r = 1 .. Len(s) - 1 /\ DOMAIN s = 1 .. Len(s)
  BY <1>1
<1>3. ASSUME NEW k \in 1 .. Len(s) - 1 PROVE r[k] \in ToSet(s)
  <2>1. k \in 1 .. Len(s) /\ k + 1 \in 1 .. Len(s)
    OBVIOUS
  <2> QED
    BY <1>1, <1>2, <2>1 DEF ToSet
<1> QED
  BY <1>2, <1>3 DEF ToSet, r

(* The removals leave a part of the buffer, shorter by as many. *)
LEMMA RemoveAllSeq ==
  ASSUME NEW S, NEW buffer \in Seq(S), NEW positions \in Seq(1 .. Len(buffer)),
         CanRemove(Len(buffer), positions)
  PROVE  /\ RemoveAll(buffer, positions) \in Seq(S)
         /\ Len(RemoveAll(buffer, positions)) = Len(buffer) - Len(positions)
         /\ ToSet(RemoveAll(buffer, positions)) \subseteq ToSet(buffer)
<1> DEFINE n == Len(positions)
           Part(k) == {s \in Seq(S) : Len(s) = Len(buffer) - k /\ ToSet(s) \subseteq ToSet(buffer)}
           allowed == [k \in 0 .. n |-> Part(k)]
           step == [k \in 1 .. n |-> [s \in Part(k - 1) |-> RemoveAt(s, positions[k])]]
           Is(rest) == rest = [k \in 0 .. n |->
                            IF k = 0 THEN buffer ELSE RemoveAt(rest[k - 1], positions[k])]
<1>1. n \in Nat /\ \A k \in 1 .. n : positions[k] \in 1 .. Len(buffer)
  OBVIOUS
<1>2. ASSUME NEW k \in 1 .. n, NEW s \in Part(k - 1) PROVE RemoveAt(s, positions[k]) \in Part(k)
  <2>1. positions[k] \in 1 .. Len(s)
    BY <1>1 DEF CanRemove
  <2>2. RemoveAt(s, positions[k]) \in Seq(S) /\ Len(RemoveAt(s, positions[k])) = Len(s) - 1
    BY <2>1, RemoveAtSeq
  <2>3. ToSet(RemoveAt(s, positions[k])) \subseteq ToSet(s)
    BY <2>1, RemoveAtPart
  <2> QED
    BY <2>2, <2>3
<1>3. buffer \in Part(0)
  OBVIOUS
<1>4. \E rest : Is(rest)
  <2>1. buffer \in allowed[0] /\ allowed \in [0 .. n -> SUBSET Seq(S)]
    BY <1>1, <1>3
  <2>2. StepsAllowed(n, allowed, step)
    <3> SUFFICES ASSUME NEW k \in 1 .. n, NEW v \in allowed[k - 1]
                 PROVE  step[k][v] \in allowed[k]
      BY DEF StepsAllowed
    <3>1. k - 1 \in 0 .. n /\ k \in 0 .. n
      BY <1>1
    <3>2. v \in Part(k - 1) /\ allowed[k] = Part(k) /\ step[k][v] = RemoveAt(v, positions[k])
      BY <3>1
    <3> QED
      BY <3>2, <1>2
  <2> HIDE DEF allowed, step, n
  <2>3. PICK f \in [0 .. n -> Seq(S)] : IsIteration(f, n, buffer, allowed, step)
    BY <1>1, <2>1, <2>2, IterationExists
  <2>4. ASSUME NEW k \in 0 .. n, k # 0 PROVE f[k] = RemoveAt(f[k - 1], positions[k])
    <3>1. k \in 1 .. n /\ k - 1 \in 0 .. n
      BY <1>1, <2>4
    <3>2. f[k - 1] \in Part(k - 1)
      BY <2>3, <3>1 DEF allowed, IsIteration
    <3> QED
      BY <2>3, <3>1, <3>2 DEF step, IsIteration
  <2>5. \A k \in 0 .. n : f[k] = IF k = 0 THEN buffer ELSE RemoveAt(f[k - 1], positions[k])
    BY <2>3, <2>4 DEF IsIteration
  <2>6. f = [k \in 0 .. n |-> f[k]]
    BY <2>3
  <2> QED
    BY <2>5, <2>6
<1> DEFINE rest == CHOOSE rest : Is(rest)
<1>5. Is(rest)
  BY <1>4
<1>6. RemoveAll(buffer, positions) = rest[n]
  BY DEF RemoveAll
<1>7. n \in {k \in 0 .. n : rest[k] \in Part(k)}
  <2> DEFINE Good == {k \in 0 .. n : rest[k] \in Part(k)}
  <2> HIDE DEF rest, n
  <2>1. 0 \in Good
    BY <1>1, <1>3, <1>5
  <2>2. \A k \in 0 .. n - 1 : k \in Good => k + 1 \in Good
    <3> SUFFICES ASSUME NEW k \in 0 .. n - 1, k \in Good PROVE k + 1 \in Good
      OBVIOUS
    <3>1. k + 1 \in 1 .. n /\ k + 1 \in 0 .. n /\ k + 1 # 0 /\ k + 1 - 1 = k
      BY <1>1
    <3>2. rest[k + 1] = RemoveAt(rest[k], positions[k + 1])
      BY <1>5, <3>1
    <3>3. rest[k] \in Part(k + 1 - 1)
      BY <3>1
    <3>4. rest[k + 1] \in Part(k + 1)
      <4> HIDE DEF Part
      <4> QED
        BY <1>2, <3>1, <3>2, <3>3
    <3> QED
      BY <3>1, <3>4
  <2>3. 0 .. n \subseteq Good
    <3> HIDE DEF Good
    <3> QED
      BY <1>1, <2>1, <2>2, IntervalInduction
  <2> QED
    BY <1>1, <2>3
<1> QED
  BY <1>6, <1>7

-----------------------------------------------------------------------------
(* The orphans that follow a block.                                            *)

(* The first of some positions is one of them. *)
LEMMA MinIn ==
  ASSUME NEW S \in SUBSET Nat, S # {}
  PROVE  Min(S) \in S
<1>1. \E x \in S : \A y \in S : x <= y
  BY LeastNumber
<1> QED
  BY <1>1 DEF Min

(* Positions in the buffer, each of a block whose parent is c or the block at *)
(* another of the positions.                                                   *)
Follows(buffer, c, positions) ==
  /\ positions \in Seq(1 .. Len(buffer))
  /\ \A k \in ToSet(positions) :
        parents[buffer[k]] = c \/ \E j \in ToSet(positions) : parents[buffer[k]] = buffer[j]

(* A turn puts the position of a child before what follows that. *)
LEMMA FollowsChild ==
  ASSUME NEW buffer \in Seq(Mined), NEW c, NEW k \in Children(buffer, c),
         NEW after, Follows(buffer, buffer[k], after)
  PROVE  Follows(buffer, c, <<k>> \o after)
<1> DEFINE all == <<k>> \o after
<1>1. k \in 1 .. Len(buffer) /\ parents[buffer[k]] = c
  BY DEF Children
<1>2. after \in Seq(1 .. Len(buffer)) /\ <<k>> \in Seq(1 .. Len(buffer))
  BY <1>1 DEF Follows
<1>3. all \in Seq(1 .. Len(buffer))
  BY <1>2
<1>4. Len(all) = 1 + Len(after) /\ Len(after) \in Nat
  BY <1>2
<1>5. all[1] = k /\ \A i \in 1 .. Len(after) : all[i + 1] = after[i]
  BY <1>2
<1>6. ToSet(all) = {k} \cup ToSet(after)
  <2> HIDE DEF all
  <2>1. DOMAIN all = 1 .. Len(after) + 1 /\ DOMAIN after = 1 .. Len(after)
    BY <1>2, <1>3, <1>4
  <2>2. \A i \in 1 .. Len(after) + 1 : i = 1 \/ i - 1 \in 1 .. Len(after)
    BY <1>4
  <2>3. \A i \in 1 .. Len(after) + 1 : all[i] \in {k} \cup ToSet(after)
    <3> TAKE i \in 1 .. Len(after) + 1
    <3>1. CASE i = 1
      BY <1>5, <3>1
    <3>2. CASE i - 1 \in 1 .. Len(after)
      <4>1. all[i] = after[i - 1]
        BY <1>5, <3>2
      <4> QED
        BY <2>1, <3>2, <4>1 DEF ToSet
    <3> QED
      BY <2>2, <3>1, <3>2
  <2>4. k \in ToSet(all)
    <3>1. 1 \in DOMAIN all
      BY <1>4, <2>1
    <3> QED
      BY <1>5, <3>1 DEF ToSet
  <2>5. \A i \in 1 .. Len(after) : after[i] \in ToSet(all)
    <3> TAKE i \in 1 .. Len(after)
    <3>1. i + 1 \in DOMAIN all
      BY <1>4, <2>1
    <3> QED
      BY <1>5, <3>1 DEF ToSet
  <2> QED
    BY <2>1, <2>3, <2>4, <2>5 DEF ToSet
<1>7. ASSUME NEW i \in ToSet(all)
      PROVE  parents[buffer[i]] = c \/ \E j \in ToSet(all) : parents[buffer[i]] = buffer[j]
  <2> HIDE DEF all
  <2>1. CASE i = k
    BY <1>1, <2>1
  <2>2. CASE i \in ToSet(after)
    <3>1. parents[buffer[i]] = buffer[k] \/ \E j \in ToSet(after) : parents[buffer[i]] = buffer[j]
      BY <2>2 DEF Follows
    <3> QED
      BY <1>6, <3>1
  <2> QED
    BY <1>6, <2>1, <2>2
<1> QED
  BY <1>3, <1>7 DEF Follows

(* The orphans adopted after b: worker.rs:104-135. *)
LEMMA AdoptedFollows ==
  ASSUME NEW buffer \in Seq(Mined), NEW b \in Block
  PROVE  Follows(buffer, b, Adopted(buffer, b))
<1> DEFINE n == Len(buffer)
           Value == [Block -> Seq(1 .. n)]
           Good == {F \in Value : \A c \in Block : Follows(buffer, c, F[c])}
           First(c) == Min(Children(buffer, c))
           none == [c \in Block |-> <<>>]
           Is(f) == f = [turns \in 0 .. n |->
                            IF turns = 0 THEN none ELSE Turn(buffer, f[turns - 1])]
<1>1. n \in Nat /\ \A k \in 1 .. n : buffer[k] \in Mined /\ buffer[k] \in Block
  BY DEF Block
<1>2. ASSUME NEW c \in Block, Children(buffer, c) # {}
      PROVE  First(c) \in Children(buffer, c) /\ First(c) \in 1 .. n
  <2>1. Children(buffer, c) \in SUBSET Nat /\ Children(buffer, c) \subseteq 1 .. n
    BY DEF Children
  <2> QED
    BY <1>2, <2>1, MinIn
<1>3. \A c \in Block : Follows(buffer, c, <<>>)
  BY DEF Follows, ToSet
<1>4. none \in Good
  BY <1>3
<1>5. ASSUME NEW F \in Good PROVE Turn(buffer, F) \in Good
  <2> DEFINE G == Turn(buffer, F)
  <2>1. ASSUME NEW c \in Block PROVE Follows(buffer, c, G[c])
    <3>1. CASE Children(buffer, c) = {}
      BY <1>3, <3>1 DEF Turn
    <3>2. CASE Children(buffer, c) # {}
      <4>1. First(c) \in Children(buffer, c) /\ buffer[First(c)] \in Block
        BY <1>1, <1>2, <3>2
      <4>2. Follows(buffer, buffer[First(c)], F[buffer[First(c)]])
        BY <4>1
      <4>3. Follows(buffer, c, <<First(c)>> \o F[buffer[First(c)]])
        <5> HIDE DEF First, Good
        <5> QED
          BY <4>1, <4>2, FollowsChild
      <4>4. G[c] = <<First(c)>> \o F[buffer[First(c)]]
        BY <3>2 DEF Turn
      <4> QED
        BY <4>3, <4>4
    <3> QED
      BY <3>1, <3>2
  <2>2. G = [c \in Block |-> G[c]]
    BY DEF Turn
  <2> HIDE DEF G
  <2>3. G \in Value
    BY <2>1, <2>2 DEF Follows
  <2> QED
    BY <2>1, <2>3 DEF G
<1>6. \E f : Is(f)
  <2> DEFINE allowed == [turns \in 0 .. n |-> Good]
             step == [turns \in 1 .. n |-> [F \in Good |-> Turn(buffer, F)]]
  <2> HIDE DEF Good, none
  <2>1. none \in allowed[0]
    BY <1>1, <1>4
  <2>2. allowed \in [0 .. n -> SUBSET Value]
    BY DEF Good
  <2>3. StepsAllowed(n, allowed, step)
    BY <1>1, <1>5 DEF StepsAllowed
  <2>4. PICK f \in [0 .. n -> Value] : IsIteration(f, n, none, allowed, step)
    <3> HIDE DEF n, Value, allowed, step
    <3> QED
      BY <1>1, <2>1, <2>2, <2>3, IterationExists
  <2>5. f[0] = none
    BY <2>4 DEF IsIteration
  <2>6. ASSUME NEW turns \in 0 .. n, turns # 0 PROVE f[turns] = Turn(buffer, f[turns - 1])
    <3>1. turns - 1 \in 0 .. n /\ turns \in 1 .. n
      BY <1>1, <2>6
    <3>2. f[turns - 1] \in Good /\ f[turns] = step[turns][f[turns - 1]]
      BY <2>4, <3>1 DEF IsIteration
    <3> QED
      BY <3>1, <3>2
  <2>7. \A turns \in 0 .. n : f[turns] = IF turns = 0 THEN none ELSE Turn(buffer, f[turns - 1])
    BY <2>5, <2>6
  <2>8. f = [turns \in 0 .. n |-> f[turns]]
    OBVIOUS
  <2> HIDE DEF n
  <2> QED
    BY <2>7, <2>8
<1> DEFINE follow == CHOOSE f : Is(f)
<1>7. Is(follow)
  BY <1>6
<1>8. Adopted(buffer, b) = follow[n][b]
  BY DEF Adopted
<1>9. n \in {turns \in 0 .. n : follow[turns] \in Good}
  <2> DEFINE T == {turns \in 0 .. n : follow[turns] \in Good}
  <2> HIDE DEF follow, Good, none, n
  <2>0. \A t \in 0 .. n : follow[t] = IF t = 0 THEN none ELSE Turn(buffer, follow[t - 1])
    BY <1>7
  <2>1. 0 \in T
    BY <1>1, <1>4, <2>0
  <2>2. ASSUME NEW turns \in 0 .. n - 1, turns \in T PROVE turns + 1 \in T
    <3>1. turns + 1 \in 0 .. n /\ turns + 1 # 0 /\ turns + 1 - 1 = turns
      BY <1>1
    <3>2. follow[turns + 1] = Turn(buffer, follow[turns + 1 - 1])
      BY <2>0, <3>1
    <3> QED
      BY <1>5, <2>2, <3>1, <3>2
  <2>3. 0 .. n \subseteq T
    <3> HIDE DEF T
    <3> QED
      BY <1>1, <2>1, <2>2, IntervalInduction
  <2> QED
    BY <1>1, <2>3
<1> QED
  BY <1>8, <1>9

-----------------------------------------------------------------------------
(* Queues.                                                                     *)

LEMMA SeqGrows ==
  ASSUME NEW S, NEW T, S \subseteq T, NEW s \in Seq(S)
  PROVE  s \in Seq(T)
OBVIOUS

LEMMA ToSetConcat ==
  ASSUME NEW S, NEW s \in Seq(S), NEW t \in Seq(S)
  PROVE  ToSet(s \o t) = ToSet(s) \cup ToSet(t)
<1> DEFINE all == s \o t
<1>1. /\ DOMAIN s = 1 .. Len(s) /\ DOMAIN t = 1 .. Len(t)
      /\ DOMAIN all = 1 .. Len(s) + Len(t) /\ Len(s) \in Nat /\ Len(t) \in Nat
  OBVIOUS
<1>2. \A k \in 1 .. Len(s) : all[k] = s[k]
  OBVIOUS
<1>3. \A k \in 1 .. Len(t) : all[Len(s) + k] = t[k]
  OBVIOUS
<1> HIDE DEF all
<1>4. ASSUME NEW k \in DOMAIN all PROVE all[k] \in ToSet(s) \cup ToSet(t)
  <2>1. CASE k \in 1 .. Len(s)
    BY <1>1, <1>2, <2>1 DEF ToSet
  <2>2. CASE k \notin 1 .. Len(s)
    <3>1. k - Len(s) \in 1 .. Len(t) /\ k = Len(s) + (k - Len(s))
      BY <1>1, <2>2
    <3>2. all[k] = t[k - Len(s)]
      BY <1>3, <3>1
    <3> QED
      BY <1>1, <3>1, <3>2 DEF ToSet
  <2> QED
    BY <2>1, <2>2
<1>5. ASSUME NEW k \in DOMAIN s PROVE s[k] \in ToSet(all)
  <2>1. k \in DOMAIN all
    BY <1>1
  <2> QED
    BY <1>1, <1>2, <2>1 DEF ToSet
<1>6. ASSUME NEW k \in DOMAIN t PROVE t[k] \in ToSet(all)
  <2>1. Len(s) + k \in DOMAIN all
    BY <1>1
  <2> QED
    BY <1>1, <1>3, <2>1 DEF ToSet
<1> QED
  BY <1>4, <1>5, <1>6 DEF ToSet, all

LEMMA ToSetAppend ==
  ASSUME NEW S, NEW s \in Seq(S), NEW e \in S
  PROVE  Append(s, e) \in Seq(S) /\ ToSet(Append(s, e)) = ToSet(s) \cup {e}
<1> DEFINE last == <<e>>
<1>1. last \in Seq(S) /\ ToSet(last) = {e}
  BY DEF ToSet
<1>2. Append(s, e) = s \o last /\ Append(s, e) \in Seq(S)
  OBVIOUS
<1> HIDE DEF last
<1>3. ToSet(s \o last) = ToSet(s) \cup ToSet(last)
  BY <1>1, ToSetConcat
<1> QED
  BY <1>1, <1>2, <1>3

(* What a removal leaves: everything but the element removed. *)
LEMMA RemoveAtKeeps ==
  ASSUME NEW S, NEW s \in Seq(S), NEW i \in 1 .. Len(s), NEW e \in ToSet(s), e # s[i]
  PROVE  e \in ToSet(RemoveAt(s, i))
<1> DEFINE r == RemoveAt(s, i)
<1>1. /\ r \in Seq(S) /\ Len(r) = Len(s) - 1
      /\ \A k \in 1 .. Len(s) - 1 : r[k] = IF k < i THEN s[k] ELSE s[k + 1]
  BY RemoveAtSeq
<1> HIDE DEF r
<1>2. DOMAIN r = 1 .. Len(s) - 1 /\ DOMAIN s = 1 .. Len(s)
  BY <1>1
<1>3. PICK k \in 1 .. Len(s) : s[k] = e
  BY <1>2 DEF ToSet
<1>4. CASE k < i
  <2>1. k \in 1 .. Len(s) - 1
    BY <1>4
  <2> QED
    BY <1>1, <1>2, <1>3, <1>4, <2>1 DEF ToSet, r
<1>5. CASE k > i
  <2>1. k - 1 \in 1 .. Len(s) - 1 /\ ~(k - 1 < i) /\ k - 1 + 1 = k
    BY <1>5
  <2>2. r[k - 1] = s[k]
    BY <1>1, <2>1
  <2> QED
    BY <1>2, <1>3, <2>1, <2>2 DEF ToSet, r
<1> QED
  BY <1>3, <1>4, <1>5

(* Posting: server.rs:88-93. *)
Goes(q, m, to, way) == q.from = m /\ q.to \in to \ dead /\ q.way = way /\ Linked(q.from, q.to)

LEMMA PostTyped ==
  ASSUME NEW M, NEW net \in [Queue -> Seq(M)], NEW m, NEW to, NEW way, NEW msgs \in Seq(M)
  PROVE  Post(net, m, to, way, msgs) \in [Queue -> Seq(M)]
<1>1. \A q \in Queue : net[q] \in Seq(M) /\ net[q] \o msgs \in Seq(M)
  OBVIOUS
<1> QED
  BY <1>1 DEF Post

LEMMA PostAt ==
  ASSUME NEW M, NEW net, NEW m, NEW to, NEW way, NEW msgs \in Seq(M),
         NEW q \in Queue, NEW s, s \in Seq(M), s = net[q]
  PROVE  /\ Goes(q, m, to, way) =>
                ToSet(Post(net, m, to, way, msgs)[q]) = ToSet(s) \cup ToSet(msgs)
         /\ ~Goes(q, m, to, way) => ToSet(Post(net, m, to, way, msgs)[q]) = ToSet(s)
<1>1. Post(net, m, to, way, msgs)[q] = IF Goes(q, m, to, way) THEN s \o msgs ELSE s
  BY DEF Post, Goes
<1>2. ToSet(s \o msgs) = ToSet(s) \cup ToSet(msgs)
  BY ToSetConcat
<1> QED
  BY <1>1, <1>2

(* Taking a message: worker.rs:147. *)
LEMMA TakenTyped ==
  ASSUME NEW M, network \in [Queue -> Seq(M)],
         NEW q \in Queue, NEW i \in 1 .. Len(network[q])
  PROVE  /\ Taken(q, i) \in [Queue -> Seq(M)]
         /\ \A r \in Queue : ToSet(Taken(q, i)[r]) \subseteq ToSet(network[r])
         /\ \A r \in Queue : \A msg \in ToSet(network[r]) :
                msg \in ToSet(Taken(q, i)[r]) \/ (r = q /\ msg = network[q][i])
<1> DEFINE left == RemoveAt(network[q], i)
<1>1. network[q] \in Seq(M)
  OBVIOUS
<1>2. left \in Seq(M)
  BY <1>1, RemoveAtSeq
<1>3. ToSet(left) \subseteq ToSet(network[q])
  BY <1>1, RemoveAtPart
<1>4. \A msg \in ToSet(network[q]) : msg \in ToSet(left) \/ msg = network[q][i]
  BY <1>1, RemoveAtKeeps
<1> HIDE DEF left
<1>5. Taken(q, i) = [network EXCEPT ![q] = left]
  BY DEF Taken, left
<1>6. \A r \in Queue : Taken(q, i)[r] = IF r = q THEN left ELSE network[r]
  BY <1>5
<1> QED
  BY <1>2, <1>3, <1>4, <1>5, <1>6

-----------------------------------------------------------------------------
(* The type invariant.                                                         *)

Msg == [kind : {"NewBlockHashes", "GetBlocks", "Blocks"}, block : Block]

(* A block is made after its parent, and there are as many as allowed. *)
WorldOK ==
  /\ Len(parents) <= setup.bound
  /\ \A b \in Mined : parents[b] \in Node \cup 1 .. b - 1

TInv == TypeOK /\ WorldOK

LEMMA SetupFacts ==
  ASSUME TypeOK
  PROVE  /\ setup.workers \in Nat \ {0} /\ setup.edges \subseteq {{m, n} : m, n \in Node}
         /\ setup.up \subseteq setup.edges /\ setup.lossy \subseteq setup.edges
         /\ setup.miners \subseteq Node /\ setup.bound \in 0 .. MaxBlock /\ MaxBlock \in Nat
BY ClusterAssumption DEF TypeOK

LEMMA ParentIsBlock ==
  ASSUME TInv, NEW b \in Mined
  PROVE  parents[b] \in Block /\ b \in Block
BY DEF TInv, TypeOK, WorldOK, Mined, Block

(* A block is mined or the genesis of a node, not both. *)
LEMMA MinedOrGenesis ==
  ASSUME TInv
  PROVE  Mined \cap Node = {} /\ Mined \subseteq 1 .. MaxBlock
<1>1. setup.bound \in 0 .. MaxBlock /\ MaxBlock \in Nat /\ Len(parents) <= setup.bound
  BY SetupFacts DEF TInv, WorldOK
<1>2. Len(parents) \in Nat
  BY DEF TInv, TypeOK
<1>3. Mined \subseteq 1 .. MaxBlock
  BY <1>1, <1>2 DEF Mined
<1> QED
  BY <1>3, ClusterAssumption

LEMMA NextMined ==
  ASSUME TInv'
  PROVE  Mined' \subseteq 1 .. MaxBlock
<1>1. setup'.bound \in 0 .. MaxBlock /\ MaxBlock \in Nat /\ Len(parents') <= setup'.bound
  BY ClusterAssumption DEF TInv, TypeOK, WorldOK
<1>2. Len(parents') \in Nat
  BY DEF TInv, TypeOK
<1> QED
  BY <1>1, <1>2 DEF Mined

LEMMA MessageTyped ==
  ASSUME NEW kind \in {"NewBlockHashes", "GetBlocks", "Blocks"}, NEW b \in Block
  PROVE  /\ Message(kind, b) \in Msg /\ <<Message(kind, b)>> \in Seq(Msg)
         /\ Message(kind, b).kind = kind /\ Message(kind, b).block = b
         /\ ToSet(<<Message(kind, b)>>) = {Message(kind, b)}
BY DEF Message, Msg, ToSet

(* What a handler knows of the message it takes. *)
LEMMA TakeFacts ==
  ASSUME TInv, NEW q \in Queue, NEW i \in 1 .. setup.workers, NEW kind, Take(q, i, kind)
  PROVE  /\ i \in 1 .. Len(network[q]) /\ BlockOf(q, i) \in Block
         /\ network[q][i] = Message(kind, BlockOf(q, i))
         /\ network[q][i] \in Msg /\ network[q][i] \in ToSet(network[q])
         /\ q.from \in Node /\ q.to \in Node \ dead
         /\ Taken(q, i) \in [Queue -> Seq(Msg)]
<1>0. setup.workers \in Nat
  BY SetupFacts DEF TInv
<1>1. setup.workers \in Nat /\ network \in [Queue -> Seq(Msg)]
  BY <1>0 DEF TInv, TypeOK, Msg
<1>2. network[q] \in Seq(Msg)
  BY <1>1
<1>3. i \in 1 .. Len(network[q])
  BY <1>1, <1>2 DEF Take
<1>4. network[q][i] \in Msg
  BY <1>2, <1>3
<1>5. network[q][i].kind = kind /\ network[q][i].block \in Block
  BY <1>4 DEF Take, Msg
<1>6. network[q][i] = Message(kind, BlockOf(q, i))
  BY <1>4, <1>5 DEF Msg, Message, BlockOf
<1>7. network[q][i] \in ToSet(network[q])
  BY <1>2, <1>3 DEF ToSet
<1>8. q.from \in Node /\ q.to \in Node \ dead
  BY DEF Queue, Take
<1>9. Taken(q, i) \in [Queue -> Seq(Msg)]
  BY <1>1, <1>3, TakenTyped
<1> QED
  BY <1>3, <1>4, <1>5, <1>6, <1>7, <1>8, <1>9 DEF BlockOf

(* What it posts. *)
LEMMA AnswersTyped ==
  ASSUME TInv, NEW b \in Block
  PROVE  /\ Announced(b) \in Seq(Msg)
         /\ ToSet(Announced(b)) = {Message("NewBlockHashes", b)}
         /\ b \in Mined => /\ AskedFor(b) \in Seq(Msg)
                           /\ ToSet(AskedFor(b)) = {Message("GetBlocks", parents[b]),
                                                    Message("NewBlockHashes", b)}
<1>1. Announced(b) \in Seq(Msg) /\ ToSet(Announced(b)) = {Message("NewBlockHashes", b)}
  BY MessageTyped DEF Announced
<1>2. ASSUME b \in Mined
      PROVE  /\ AskedFor(b) \in Seq(Msg)
             /\ ToSet(AskedFor(b)) = {Message("GetBlocks", parents[b]), Message("NewBlockHashes", b)}
  <2> DEFINE first == <<Message("GetBlocks", parents[b])>>
  <2>1. first \in Seq(Msg) /\ ToSet(first) = {Message("GetBlocks", parents[b])}
    BY <1>2, ParentIsBlock, MessageTyped
  <2>2. AskedFor(b) = first \o Announced(b)
    BY DEF AskedFor
  <2> HIDE DEF first
  <2>3. first \o Announced(b) \in Seq(Msg)
        /\ ToSet(first \o Announced(b)) = ToSet(first) \cup ToSet(Announced(b))
    BY <1>1, <2>1, ToSetConcat
  <2> QED
    BY <1>1, <2>1, <2>2, <2>3
<1> QED
  BY <1>1, <1>2

LEMMA SentTyped ==
  ASSUME TInv, NEW n \in Node, NEW tip, NEW b, NEW M,
         \A c \in {n, b} : Message("Blocks", c) \in M
  PROVE  /\ Sent(n, tip, b) \in Seq(M)
         /\ ToSet(Sent(n, tip, b)) \subseteq {Message("Blocks", n), Message("Blocks", b)}
         /\ Message("Blocks", b) \in ToSet(Sent(n, tip, b))
<1> DEFINE first == IF tip = n THEN <<Message("Blocks", n)>> ELSE <<>>
           last == <<Message("Blocks", b)>>
<1>1. first \in Seq(M) /\ ToSet(first) \subseteq {Message("Blocks", n)}
  BY DEF ToSet
<1>2. last \in Seq(M) /\ ToSet(last) = {Message("Blocks", b)}
  BY DEF ToSet
<1>3. Sent(n, tip, b) = first \o last
  BY DEF Sent
<1> HIDE DEF first, last
<1>4. first \o last \in Seq(M) /\ ToSet(first \o last) = ToSet(first) \cup ToSet(last)
  BY <1>1, <1>2, ToSetConcat
<1> QED
  BY <1>1, <1>2, <1>3, <1>4

(* The chain after the block b is inserted and its orphans with it. *)
Grown(n, b) ==
  blocks[n] \cup {b} \cup {orphans[n][k] : k \in ToSet(Adopted(orphans[n], b))}

LEMMA GrownFacts ==
  ASSUME TInv, NEW n \in Node, NEW b \in Mined
  PROVE  /\ Grown(n, b) \subseteq blocks[n] \cup {b} \cup ToSet(orphans[n])
         /\ Grown(n, b) \in SUBSET Block
         /\ \A c \in Grown(n, b) \ blocks[n] : c \in Mined /\ (c # b => parents[c] \in Grown(n, b))
<1> DEFINE adopted == Adopted(orphans[n], b)
           buffer == orphans[n]
<1>1. buffer \in Seq(Mined) /\ b \in Block /\ blocks[n] \in SUBSET Block
  BY DEF TInv, TypeOK, Block
<1>2. Follows(buffer, b, adopted)
  BY <1>1, AdoptedFollows
<1>3. \A k \in ToSet(adopted) : k \in 1 .. Len(buffer)
  BY <1>2 DEF Follows, ToSet
<1>4. \A k \in ToSet(adopted) : buffer[k] \in Mined /\ buffer[k] \in ToSet(buffer)
  <2> HIDE DEF adopted, buffer
  <2>1. DOMAIN buffer = 1 .. Len(buffer) /\ \A k \in 1 .. Len(buffer) : buffer[k] \in Mined
    BY <1>1
  <2>2. \A k \in 1 .. Len(buffer) : buffer[k] \in ToSet(buffer)
    BY <2>1 DEF ToSet
  <2> QED
    BY <1>3, <2>1, <2>2
<1>5. Mined \subseteq Block
  BY DEF Block
<1> QED
  BY <1>1, <1>2, <1>4, <1>5 DEF Grown, Follows

(* And its orphan buffer, if the clean-up gets through. *)
LEMMA CleanedFacts ==
  ASSUME TInv, NEW n \in Node, NEW b \in Mined,
         CanRemove(Len(orphans[n]), Adopted(orphans[n], b))
  PROVE  /\ RemoveAll(orphans[n], Adopted(orphans[n], b)) \in Seq(Mined)
         /\ ToSet(RemoveAll(orphans[n], Adopted(orphans[n], b))) \subseteq ToSet(orphans[n])
<1>1. orphans[n] \in Seq(Mined) /\ b \in Block
  BY DEF TInv, TypeOK, Block
<1>2. Adopted(orphans[n], b) \in Seq(1 .. Len(orphans[n]))
  BY <1>1, AdoptedFollows DEF Follows
<1> QED
  BY <1>1, <1>2, RemoveAllSeq

LEMMA TypeInit ==
  ASSUME Init
  PROVE  TInv
<1>1. setup.bound \in Nat /\ setup.up \subseteq setup.edges
  BY ClusterAssumption DEF Init
<1>2. Len(parents) = 0 /\ Mined = {} /\ Block = Node
  BY DEF Init, Mined, Block
<1>3. network \in [Queue -> Seq(Msg)]
  BY DEF Init
<1> QED
  BY <1>1, <1>2, <1>3 DEF Init, TInv, TypeOK, WorldOK, Msg

(* A step that makes no block keeps the types of what it leaves alone. *)
LEMMA TypeFrame ==
  ASSUME TInv, UNCHANGED <<setup, worldVars>>,
         blocks' \in [Node -> SUBSET Block], orphans' \in [Node -> Seq(Mined)],
         parent_block' \in [Node -> Block], lost' \in [Node -> SUBSET Mined],
         dead' \subseteq Node, links' \subseteq setup.edges, broken' \subseteq setup.edges,
         links' \cap broken' = {}, network' \in [Queue -> Seq(Msg)]
  PROVE  TInv' /\ Mined' = Mined /\ Block' = Block
<1>1. setup' = setup /\ parents' = parents /\ miners' = miners
  BY DEF worldVars
<1>2. Mined' = Mined /\ Block' = Block
  BY <1>1 DEF Mined, Block
<1>3. TypeOK'
  BY <1>1, <1>2 DEF TInv, TypeOK, Msg
<1>4. WorldOK'
  BY <1>1, <1>2 DEF TInv, WorldOK
<1> QED
  BY <1>2, <1>3, <1>4 DEF TInv

LEMMA TypeMine ==
  ASSUME TInv, NEW n \in Node, Mine(n)
  PROVE  TInv' /\ Mined' = Mined \cup {Len(parents) + 1} /\ Block' = Block \cup {Len(parents) + 1}
<1> DEFINE b == Len(parents) + 1
           tip == parent_block[n]
<1>1. /\ parents' = Append(parents, tip) /\ miners' = Append(miners, n)
      /\ blocks' = [blocks EXCEPT ![n] = @ \cup {b}]
      /\ network' = Post(network, n, Node, "broadcast", Sent(n, tip, b))
      /\ setup' = setup /\ orphans' = orphans /\ parent_block' = parent_block /\ lost' = lost
      /\ dead' = dead /\ links' = links /\ broken' = broken
      /\ n \in setup.miners /\ Len(parents) < setup.bound
  BY DEF Mine, Mining, linkVars
<1>2. /\ Len(parents) \in Nat /\ b \in 1 .. MaxBlock /\ b <= setup.bound
      /\ tip \in Block /\ tip \in Node \cup 1 .. MaxBlock
  <2>1. setup.bound \in 0 .. MaxBlock /\ MaxBlock \in Nat
    BY SetupFacts DEF TInv
  <2>2. Len(parents) \in Nat /\ tip \in Block
    BY DEF TInv, TypeOK
  <2>3. b \in 1 .. MaxBlock /\ b <= setup.bound
    BY <1>1, <2>1, <2>2
  <2> QED
    BY <2>1, <2>2, <2>3 DEF Block, Mined
<1>3. /\ Len(parents') = b /\ parents' \in Seq(Node \cup 1 .. MaxBlock)
      /\ \A c \in 1 .. Len(parents) : parents'[c] = parents[c]
      /\ parents'[b] = tip
  BY <1>1, <1>2 DEF TInv, TypeOK
<1>4. miners' \in Seq(setup.miners) /\ Len(miners') = b
  BY <1>1, <1>2 DEF TInv, TypeOK
<1>5. Mined' = 1 .. b /\ Mined' = Mined \cup {b}
  <2>1. Mined' = 1 .. Len(parents')
    BY DEF Mined
  <2> QED
    BY <1>2, <1>3, <2>1 DEF Mined
<1>6. Block' = Node \cup 1 .. b /\ Block' = Block \cup {b} /\ Block \subseteq Block' /\ Mined \subseteq Mined'
  BY <1>5 DEF Block
<1>7. blocks' \in [Node -> SUBSET Block']
  BY <1>1, <1>6 DEF TInv, TypeOK
<1>8. orphans' \in [Node -> Seq(Mined')]
  <2>1. \A k \in Node : orphans[k] \in Seq(Mined')
    BY <1>6, SeqGrows DEF TInv, TypeOK
  <2> QED
    BY <1>1, <2>1 DEF TInv, TypeOK
<1>9. parent_block' \in [Node -> Block'] /\ lost' \in [Node -> SUBSET Mined']
  BY <1>1, <1>6 DEF TInv, TypeOK
<1>10. network' \in [Queue -> Seq(Msg')]
  <2>1. Msg \subseteq Msg'
    BY <1>6 DEF Msg
  <2>2. network \in [Queue -> Seq(Msg)]
    BY DEF TInv, TypeOK, Msg
  <2>3. network \in [Queue -> Seq(Msg')]
    <3>1. \A q \in Queue : network[q] \in Seq(Msg')
      BY <2>1, <2>2, SeqGrows
    <3> QED
      BY <2>2, <3>1
  <2>4. \A c \in {n, b} : Message("Blocks", c) \in Msg'
    BY <1>6, <1>2 DEF Msg, Message
  <2>5. Sent(n, tip, b) \in Seq(Msg')
    BY <2>4, SentTyped
  <2> HIDE DEF b, tip
  <2> QED
    BY <1>1, <2>3, <2>5, PostTyped
<1>11. WorldOK'
  <2>1. \A c \in 1 .. b : parents'[c] \in Node \cup 1 .. c - 1
    <3> TAKE c \in 1 .. b
    <3>1. CASE c = b
      BY <1>2, <1>3, <3>1 DEF Block, Mined
    <3>2. CASE c \in 1 .. Len(parents)
      BY <1>3, <3>2 DEF TInv, WorldOK, Mined
    <3> QED
      BY <1>2, <3>1, <3>2
  <2> QED
    BY <1>1, <1>2, <1>3, <1>5, <2>1 DEF WorldOK
<1>12. TypeOK'
  BY <1>1, <1>3, <1>4, <1>7, <1>8, <1>9, <1>10 DEF TInv, TypeOK, Msg
<1> QED
  BY <1>5, <1>6, <1>11, <1>12 DEF TInv

-----------------------------------------------------------------------------
(* What handling a message does.                                               *)

(* A node has a block, or had it until a clean-up removed it. *)
Had(n, b) == Holds(n, b) \/ b \in lost[n]

(* No message but the one handled goes, unless its receiver dies, and what     *)
(* comes is sent by the node that handles it; its blocks are in its chain.     *)
KeepsMessages(q, i) ==
  \A r \in Queue : \A msg \in ToSet(network[r]) :
     \/ r.to \in dead'
     \/ msg \in ToSet(network'[r])
     \/ r = q /\ msg = network[q][i]

SendsMessages(q) ==
  \A r \in Queue : \A msg \in ToSet(network'[r]) :
     \/ msg \in ToSet(network[r])
     \/ /\ r.from = q.to /\ Linked(r.from, r.to)
        /\ msg.kind = "Blocks" => msg.block \in blocks'[q.to]

(* Chains grow, together with the ancestors of what they get. *)
ChainsGrow ==
  \A n \in Node :
     /\ blocks[n] \subseteq blocks'[n]
     /\ \A b \in Mined : b \in blocks'[n] \ blocks[n] => parents[b] \in blocks'[n]

(* What a node had it still has, or has lost. *)
NothingForgotten == \A n \in Node, b \in Block : Had(n, b) => Had(n, b)'

(* A node that gets a block has its parent in its chain or asks every peer. *)
OrphansAsk(q, i) ==
  \A n \in Node, b \in Mined : ~Holds(n, b) /\ Holds(n, b)' =>
     \/ parents[b] \in blocks'[n]
     \/ /\ q.to = n /\ network[q][i] = Message("Blocks", b)
        /\ \A r \in Queue : Goes(r, n, Node, "broadcast") =>
               Message("GetBlocks", parents[b]) \in ToSet(network'[r])

(* A block that is handled is had, and one that is asked for is answered. *)
BlockHad(q, i) ==
  \A b \in Block : network[q][i] = Message("Blocks", b) => Had(q.to, b)'

BlockAnswered(q, i) ==
  \A b \in Block : network[q][i] = Message("GetBlocks", b) /\ b \in blocks[q.to] =>
     \A r \in Queue : Goes(r, q.to, {q.from}, "answer") =>
        Message("Blocks", b) \in ToSet(network'[r])

Handled(q, i) ==
  /\ UNCHANGED <<setup, worldVars, parent_block, linkVars>> /\ dead \subseteq dead'
  /\ KeepsMessages(q, i) /\ SendsMessages(q)
  /\ ChainsGrow /\ NothingForgotten /\ OrphansAsk(q, i)
  /\ BlockHad(q, i) /\ BlockAnswered(q, i)

(* A message is taken and others are posted. *)
LEMMA TakenPosted ==
  ASSUME TInv, NEW q \in Queue, NEW i \in 1 .. setup.workers, NEW kind, Take(q, i, kind),
         NEW n, NEW to, NEW way, NEW msgs \in Seq(Msg),
         network' = Post(Taken(q, i), n, to, way, msgs)
  PROVE  /\ network' \in [Queue -> Seq(Msg)] /\ KeepsMessages(q, i)
         /\ \A r \in Queue : \A msg \in ToSet(network'[r]) :
                msg \in ToSet(network[r]) \/ (Goes(r, n, to, way) /\ msg \in ToSet(msgs))
         /\ \A r \in Queue : Goes(r, n, to, way) => ToSet(msgs) \subseteq ToSet(network'[r])
<1> DEFINE net == Taken(q, i)
           all == Post(net, n, to, way, msgs)
<1>1. i \in 1 .. Len(network[q]) /\ network \in [Queue -> Seq(Msg)] /\ net \in [Queue -> Seq(Msg)]
  BY TakeFacts DEF TInv, TypeOK, Msg
<1>2. /\ \A r \in Queue : ToSet(net[r]) \subseteq ToSet(network[r])
      /\ \A r \in Queue : \A msg \in ToSet(network[r]) :
            msg \in ToSet(net[r]) \/ (r = q /\ msg = network[q][i])
  BY <1>1, TakenTyped
<1>3. network' = all
  OBVIOUS
<1> HIDE DEF net
<1>4. all \in [Queue -> Seq(Msg)]
  BY <1>1, PostTyped
<1>5. ASSUME NEW r \in Queue
      PROVE  /\ Goes(r, n, to, way) => ToSet(all[r]) = ToSet(net[r]) \cup ToSet(msgs)
             /\ ~Goes(r, n, to, way) => ToSet(all[r]) = ToSet(net[r])
  <2>1. net[r] \in Seq(Msg)
    BY <1>1
  <2> QED
    BY <2>1, PostAt
<1> HIDE DEF all
<1> QED
  BY <1>2, <1>3, <1>4, <1>5 DEF KeepsMessages

(* And nothing is posted. *)
LEMMA OnlyTaken ==
  ASSUME TInv, NEW q \in Queue, NEW i \in 1 .. setup.workers, NEW kind, Take(q, i, kind),
         network' = Taken(q, i)
  PROVE  network' \in [Queue -> Seq(Msg)] /\ KeepsMessages(q, i) /\ SendsMessages(q)
<1>1. i \in 1 .. Len(network[q]) /\ network \in [Queue -> Seq(Msg)]
      /\ Taken(q, i) \in [Queue -> Seq(Msg)]
  BY TakeFacts DEF TInv, TypeOK, Msg
<1>2. /\ \A r \in Queue : ToSet(Taken(q, i)[r]) \subseteq ToSet(network[r])
      /\ \A r \in Queue : \A msg \in ToSet(network[r]) :
            msg \in ToSet(Taken(q, i)[r]) \/ (r = q /\ msg = network[q][i])
  BY <1>1, TakenTyped
<1> QED
  BY <1>1, <1>2 DEF KeepsMessages, SendsMessages

(* The kinds of messages are told apart. *)
LEMMA MessagesDiffer ==
  ASSUME NEW k, NEW l, NEW b, NEW c, Message(k, b) = Message(l, c)
  PROVE  k = l /\ b = c
BY DEF Message

(* The handlers that leave the node as it is. *)
LEMMA NodeUnchanged ==
  ASSUME TInv, UNCHANGED <<setup, worldVars, nodeVars, linkVars>>,
         network' \in [Queue -> Seq(Msg)]
  PROVE  /\ TInv' /\ ChainsGrow /\ NothingForgotten
         /\ \A n \in Node, b \in Mined : Holds(n, b)' = Holds(n, b)
         /\ UNCHANGED <<setup, worldVars, parent_block, linkVars>> /\ dead \subseteq dead'
<1>1. /\ blocks' = blocks /\ orphans' = orphans /\ parent_block' = parent_block
      /\ lost' = lost /\ dead' = dead /\ links' = links /\ broken' = broken
  BY DEF nodeVars, linkVars
<1>2. TInv'
  <2>1. /\ blocks' \in [Node -> SUBSET Block] /\ orphans' \in [Node -> Seq(Mined)]
        /\ parent_block' \in [Node -> Block] /\ lost' \in [Node -> SUBSET Mined]
        /\ dead' \subseteq Node /\ links' \subseteq setup.edges /\ broken' \subseteq setup.edges
        /\ links' \cap broken' = {}
    BY <1>1 DEF TInv, TypeOK
  <2> QED
    BY <2>1, TypeFrame
<1>3. NothingForgotten
  BY <1>1 DEF NothingForgotten, Had, Holds
<1> QED
  BY <1>1, <1>2, <1>3 DEF ChainsGrow, Holds

LEMMA KnownHandled ==
  ASSUME TInv, NEW q \in Queue, NEW i \in 1 .. setup.workers, HandleKnown(q, i)
  PROVE  TInv' /\ Handled(q, i)
<1>1. /\ Take(q, i, "Blocks") /\ BlockOf(q, i) \in blocks[q.to] /\ network' = Taken(q, i)
      /\ UNCHANGED <<setup, worldVars, nodeVars, linkVars>> /\ blocks' = blocks
  BY DEF HandleKnown, nodeVars
<1>2. network[q][i] = Message("Blocks", BlockOf(q, i)) /\ q.to \in Node
  BY <1>1, TakeFacts
<1>3. network' \in [Queue -> Seq(Msg)] /\ KeepsMessages(q, i) /\ SendsMessages(q)
  BY <1>1, OnlyTaken
<1>4. /\ TInv' /\ ChainsGrow /\ NothingForgotten
      /\ \A n \in Node, b \in Mined : Holds(n, b)' = Holds(n, b)
      /\ UNCHANGED <<setup, worldVars, parent_block, linkVars>> /\ dead \subseteq dead'
  BY <1>1, <1>3, NodeUnchanged
<1>5. BlockHad(q, i)
  <2> SUFFICES ASSUME NEW b \in Block, network[q][i] = Message("Blocks", b)
               PROVE  Had(q.to, b)'
    BY DEF BlockHad
  <2>1. b \in blocks'[q.to]
    BY <1>1, <1>2, MessagesDiffer
  <2> QED
    BY <2>1 DEF Had, Holds
<1>6. BlockAnswered(q, i)
  BY <1>2, MessagesDiffer DEF BlockAnswered
<1>7. OrphansAsk(q, i)
  BY <1>4 DEF OrphansAsk
<1> QED
  BY <1>3, <1>4, <1>5, <1>6, <1>7 DEF Handled

LEMMA NewBlockHashesHandled ==
  ASSUME TInv, NEW q \in Queue, NEW i \in 1 .. setup.workers, HandleNewBlockHashes(q, i)
  PROVE  TInv' /\ Handled(q, i)
<1> DEFINE b == BlockOf(q, i)
<1>1. /\ Take(q, i, "NewBlockHashes")
      /\ UNCHANGED <<setup, worldVars, nodeVars, linkVars>>
      /\ network' = Taken(q, i) \/ network' = Post(Taken(q, i), q.to, {q.from}, "answer",
                                                   <<Message("GetBlocks", b)>>)
  BY DEF HandleNewBlockHashes
<1>2. network[q][i] = Message("NewBlockHashes", b) /\ b \in Block
  BY <1>1, TakeFacts
<1>3. network' \in [Queue -> Seq(Msg)] /\ KeepsMessages(q, i) /\ SendsMessages(q)
  <2>1. CASE network' = Taken(q, i)
    BY <1>1, <2>1, OnlyTaken
  <2>2. CASE network' = Post(Taken(q, i), q.to, {q.from}, "answer", <<Message("GetBlocks", b)>>)
    <3> DEFINE msgs == <<Message("GetBlocks", b)>>
    <3>1. msgs \in Seq(Msg) /\ \A msg \in ToSet(msgs) : msg.kind = "GetBlocks"
      BY <1>2, MessageTyped
    <3>2. network' = Post(Taken(q, i), q.to, {q.from}, "answer", msgs)
      BY <2>2
    <3> HIDE DEF msgs
    <3>3. /\ network' \in [Queue -> Seq(Msg)] /\ KeepsMessages(q, i)
          /\ \A r \in Queue : \A msg \in ToSet(network'[r]) :
                msg \in ToSet(network[r])
                \/ (Goes(r, q.to, {q.from}, "answer") /\ msg \in ToSet(msgs))
      BY <1>1, <3>1, <3>2, TakenPosted
    <3>4. SendsMessages(q)
      BY <3>1, <3>3 DEF SendsMessages, Goes
    <3> QED
      BY <3>3, <3>4
  <2> QED
    BY <1>1, <2>1, <2>2
<1>4. /\ TInv' /\ ChainsGrow /\ NothingForgotten
      /\ \A n \in Node, c \in Mined : Holds(n, c)' = Holds(n, c)
      /\ UNCHANGED <<setup, worldVars, parent_block, linkVars>> /\ dead \subseteq dead'
  BY <1>1, <1>3, NodeUnchanged
<1>5. BlockHad(q, i) /\ BlockAnswered(q, i)
  BY <1>2, MessagesDiffer DEF BlockHad, BlockAnswered
<1>6. OrphansAsk(q, i)
  BY <1>4 DEF OrphansAsk
<1> QED
  BY <1>3, <1>4, <1>5, <1>6 DEF Handled

LEMMA GetBlocksHandled ==
  ASSUME TInv, NEW q \in Queue, NEW i \in 1 .. setup.workers, HandleGetBlocks(q, i)
  PROVE  TInv' /\ Handled(q, i)
<1> DEFINE b == BlockOf(q, i)
           msgs == <<Message("Blocks", b)>>
<1>1. /\ Take(q, i, "GetBlocks")
      /\ UNCHANGED <<setup, worldVars, nodeVars, linkVars>> /\ blocks' = blocks
      /\ b \notin blocks[q.to] => network' = Taken(q, i)
      /\ b \in blocks[q.to] =>
            network' = Post(Taken(q, i), q.to, {q.from}, "answer", msgs)
  BY DEF HandleGetBlocks, nodeVars
<1>2. network[q][i] = Message("GetBlocks", b) /\ b \in Block
  BY <1>1, TakeFacts
<1>3. /\ network' \in [Queue -> Seq(Msg)] /\ KeepsMessages(q, i) /\ SendsMessages(q)
      /\ BlockAnswered(q, i)
  <2>1. CASE b \notin blocks[q.to]
    <3>1. network' \in [Queue -> Seq(Msg)] /\ KeepsMessages(q, i) /\ SendsMessages(q)
      BY <1>1, <2>1, OnlyTaken
    <3>2. BlockAnswered(q, i)
      BY <1>2, <2>1, MessagesDiffer DEF BlockAnswered
    <3> QED
      BY <3>1, <3>2
  <2>2. CASE b \in blocks[q.to]
    <3>1. msgs \in Seq(Msg) /\ ToSet(msgs) = {Message("Blocks", b)}
          /\ \A msg \in ToSet(msgs) : msg.block = b
      BY <1>2, MessageTyped
    <3> DEFINE asker == {q.from}
    <3>2. network' = Post(Taken(q, i), q.to, asker, "answer", msgs) /\ Take(q, i, "GetBlocks")
      BY <1>1, <2>2
    <3> HIDE DEF msgs, asker
    <3>3. network' \in [Queue -> Seq(Msg)] /\ KeepsMessages(q, i)
      BY <3>1, <3>2, TakenPosted
    <3>4. \A r \in Queue : \A msg \in ToSet(network'[r]) :
             msg \in ToSet(network[r])
             \/ (Goes(r, q.to, asker, "answer") /\ msg \in ToSet(msgs))
      BY <3>1, <3>2, TakenPosted
    <3>5. \A r \in Queue : Goes(r, q.to, asker, "answer") =>
             ToSet(msgs) \subseteq ToSet(network'[r])
      <4>1. msgs \in Seq(Msg)
        BY <3>1
      <4> QED
        BY <3>2, <4>1, TakenPosted
    <3>6. SendsMessages(q)
      BY <1>1, <2>2, <3>1, <3>4 DEF SendsMessages, Goes
    <3>7. BlockAnswered(q, i)
      BY <1>2, <3>1, <3>5, MessagesDiffer DEF BlockAnswered, asker
    <3> QED
      BY <3>3, <3>6, <3>7
  <2> QED
    BY <2>1, <2>2
<1>4. /\ TInv' /\ ChainsGrow /\ NothingForgotten
      /\ \A n \in Node, c \in Mined : Holds(n, c)' = Holds(n, c)
      /\ UNCHANGED <<setup, worldVars, parent_block, linkVars>> /\ dead \subseteq dead'
  BY <1>1, <1>3, NodeUnchanged
<1>5. BlockHad(q, i)
  BY <1>2, MessagesDiffer DEF BlockHad
<1>6. OrphansAsk(q, i)
  BY <1>4 DEF OrphansAsk
<1> QED
  BY <1>3, <1>4, <1>5, <1>6 DEF Handled

LEMMA GenesisHandled ==
  ASSUME TInv, NEW q \in Queue, NEW i \in 1 .. setup.workers, HandleGenesis(q, i)
  PROVE  TInv' /\ Handled(q, i)
<1> DEFINE b == BlockOf(q, i)
           msgs == Announced(b)
<1>1. /\ Take(q, i, "Blocks") /\ b \in Node
      /\ blocks' = [blocks EXCEPT ![q.to] = @ \cup {b}]
      /\ network' = Post(Taken(q, i), q.to, Node, "broadcast", msgs)
      /\ setup' = setup /\ parents' = parents /\ miners' = miners /\ orphans' = orphans
      /\ parent_block' = parent_block /\ lost' = lost /\ dead' = dead
      /\ links' = links /\ broken' = broken
  BY DEF HandleGenesis, worldVars, linkVars
<1>2. network[q][i] = Message("Blocks", b) /\ b \in Block /\ q.to \in Node /\ b \notin Mined
  BY <1>1, TakeFacts, MinedOrGenesis
<1>3. msgs \in Seq(Msg) /\ ToSet(msgs) = {Message("NewBlockHashes", b)}
      /\ \A msg \in ToSet(msgs) : msg.kind = "NewBlockHashes"
  BY <1>2, AnswersTyped DEF Message
<1>4. blocks \in [Node -> SUBSET Block] /\ orphans \in [Node -> Seq(Mined)]
      /\ parent_block \in [Node -> Block] /\ lost \in [Node -> SUBSET Mined] /\ dead \subseteq Node
      /\ links \subseteq setup.edges /\ broken \subseteq setup.edges /\ links \cap broken = {}
  BY DEF TInv, TypeOK
<1>5. /\ blocks' \in [Node -> SUBSET Block]
      /\ \A n \in Node : blocks'[n] = IF n = q.to THEN blocks[n] \cup {b} ELSE blocks[n]
  <2> HIDE DEF b
  <2> QED
    BY <1>1, <1>2, <1>4
<1> HIDE DEF msgs, b
<1>6. network' \in [Queue -> Seq(Msg)] /\ KeepsMessages(q, i)
  BY <1>1, <1>3, TakenPosted
<1>7. \A r \in Queue : \A msg \in ToSet(network'[r]) :
         msg \in ToSet(network[r]) \/ (Goes(r, q.to, Node, "broadcast") /\ msg \in ToSet(msgs))
  BY <1>1, <1>3, TakenPosted
<1>8. SendsMessages(q)
  BY <1>3, <1>7 DEF SendsMessages, Goes
<1>9. TInv'
  <2>1. UNCHANGED <<setup, worldVars>>
    BY <1>1 DEF worldVars
  <2>2. /\ orphans' \in [Node -> Seq(Mined)] /\ parent_block' \in [Node -> Block]
        /\ lost' \in [Node -> SUBSET Mined] /\ dead' \subseteq Node /\ links' \subseteq setup.edges
        /\ broken' \subseteq setup.edges /\ links' \cap broken' = {}
    BY <1>1, <1>4
  <2> QED
    BY <1>5, <1>6, <2>1, <2>2, TypeFrame
<1>10. ChainsGrow /\ OrphansAsk(q, i)
  BY <1>1, <1>2, <1>5 DEF ChainsGrow, OrphansAsk, Holds
<1>11. NothingForgotten /\ BlockHad(q, i) /\ BlockAnswered(q, i)
  <2>1. NothingForgotten
    BY <1>1, <1>5 DEF NothingForgotten, Had, Holds
  <2>2. \A c : network[q][i] = Message("Blocks", c) => c = b
    BY <1>2, MessagesDiffer
  <2>3. BlockHad(q, i)
    BY <1>2, <1>5, <2>2 DEF BlockHad, Had, Holds
  <2>4. BlockAnswered(q, i)
    BY <1>2, MessagesDiffer DEF BlockAnswered
  <2> QED
    BY <2>1, <2>3, <2>4
<1> QED
  BY <1>1, <1>6, <1>8, <1>9, <1>10, <1>11 DEF Handled, worldVars, linkVars

LEMMA OrphanHandled ==
  ASSUME TInv, NEW q \in Queue, NEW i \in 1 .. setup.workers, HandleOrphan(q, i)
  PROVE  TInv' /\ Handled(q, i)
<1> DEFINE b == BlockOf(q, i)
           msgs == AskedFor(b)
<1>1. /\ Take(q, i, "Blocks") /\ b \in Mined
      /\ orphans' = [orphans EXCEPT ![q.to] = Append(@, b)]
      /\ network' = Post(Taken(q, i), q.to, Node, "broadcast", msgs)
      /\ setup' = setup /\ parents' = parents /\ miners' = miners /\ blocks' = blocks
      /\ parent_block' = parent_block /\ lost' = lost /\ dead' = dead
      /\ links' = links /\ broken' = broken
  BY DEF HandleOrphan, Buffered, worldVars, linkVars
<1>2. network[q][i] = Message("Blocks", b) /\ b \in Block /\ q.to \in Node
  BY <1>1, TakeFacts
<1>3. msgs \in Seq(Msg) /\ Message("GetBlocks", parents[b]) \in ToSet(msgs)
      /\ \A msg \in ToSet(msgs) : msg.kind # "Blocks"
  BY <1>1, <1>2, AnswersTyped DEF Message
<1>4. blocks \in [Node -> SUBSET Block] /\ orphans \in [Node -> Seq(Mined)]
      /\ parent_block \in [Node -> Block] /\ lost \in [Node -> SUBSET Mined] /\ dead \subseteq Node
      /\ links \subseteq setup.edges /\ broken \subseteq setup.edges /\ links \cap broken = {}
  BY DEF TInv, TypeOK
<1>5. /\ orphans' \in [Node -> Seq(Mined)]
      /\ \A n \in Node : ToSet(orphans'[n]) = IF n = q.to THEN ToSet(orphans[n]) \cup {b}
                                              ELSE ToSet(orphans[n])
  <2> DEFINE s == orphans[q.to]
             t == Append(s, b)
  <2>1. s \in Seq(Mined)
    BY <1>2, <1>4
  <2> HIDE DEF b, s
  <2>2. t \in Seq(Mined) /\ ToSet(t) = ToSet(s) \cup {b}
    BY <1>1, <2>1, ToSetAppend
  <2>3. orphans' = [orphans EXCEPT ![q.to] = t]
    BY <1>1 DEF s
  <2> HIDE DEF t
  <2> QED
    BY <1>2, <1>4, <2>2, <2>3 DEF s
<1> HIDE DEF msgs, b
<1>6. network' \in [Queue -> Seq(Msg)] /\ KeepsMessages(q, i)
  BY <1>1, <1>3, TakenPosted
<1>7. \A r \in Queue : \A msg \in ToSet(network'[r]) :
         msg \in ToSet(network[r]) \/ (Goes(r, q.to, Node, "broadcast") /\ msg \in ToSet(msgs))
  BY <1>1, <1>3, TakenPosted
<1>8. \A r \in Queue : Goes(r, q.to, Node, "broadcast") => ToSet(msgs) \subseteq ToSet(network'[r])
  BY <1>1, <1>3, TakenPosted
<1>9. SendsMessages(q)
  BY <1>3, <1>7 DEF SendsMessages, Goes
<1>10. TInv'
  <2>1. UNCHANGED <<setup, worldVars>>
    BY <1>1 DEF worldVars
  <2>2. /\ blocks' \in [Node -> SUBSET Block] /\ parent_block' \in [Node -> Block]
        /\ lost' \in [Node -> SUBSET Mined] /\ dead' \subseteq Node /\ links' \subseteq setup.edges
        /\ broken' \subseteq setup.edges /\ links' \cap broken' = {}
    BY <1>1, <1>4
  <2> QED
    BY <1>5, <1>6, <2>1, <2>2, TypeFrame
<1>11. ChainsGrow /\ NothingForgotten
  BY <1>1, <1>5 DEF ChainsGrow, NothingForgotten, Had, Holds
<1>12. OrphansAsk(q, i)
  BY <1>1, <1>2, <1>3, <1>5, <1>8 DEF OrphansAsk, Holds
<1>13. BlockHad(q, i) /\ BlockAnswered(q, i)
  <2>1. \A c : network[q][i] = Message("Blocks", c) => c = b
    BY <1>2, MessagesDiffer
  <2>2. BlockHad(q, i)
    BY <1>2, <1>5, <2>1 DEF BlockHad, Had, Holds
  <2>3. BlockAnswered(q, i)
    BY <1>2, MessagesDiffer DEF BlockAnswered
  <2> QED
    BY <2>2, <2>3
<1> QED
  BY <1>1, <1>6, <1>9, <1>10, <1>11, <1>12, <1>13 DEF Handled, worldVars, linkVars

(* What a node gets when it inserts a block with its orphans. *)
LEMMA ChainGrown ==
  ASSUME TInv, NEW n \in Node, NEW b \in Mined, parents[b] \in blocks[n],
         blocks' = [blocks EXCEPT ![n] = Grown(n, b)], parents' = parents, Mined' = Mined
  PROVE  /\ blocks' \in [Node -> SUBSET Block] /\ ChainsGrow
         /\ \A m \in Node : blocks'[m] = IF m = n THEN Grown(n, b) ELSE blocks[m]
         /\ b \in blocks'[n]
         /\ \A c \in Mined : c \in blocks'[n] \ blocks[n] => parents[c] \in blocks'[n]
<1>1. blocks \in [Node -> SUBSET Block]
  BY DEF TInv, TypeOK
<1>2. /\ Grown(n, b) \in SUBSET Block
      /\ \A c \in Grown(n, b) \ blocks[n] : c \in Mined /\ (c # b => parents[c] \in Grown(n, b))
  BY GrownFacts
<1>3. blocks[n] \subseteq Grown(n, b) /\ b \in Grown(n, b)
  BY DEF Grown
<1>4. /\ blocks' \in [Node -> SUBSET Block]
      /\ \A m \in Node : blocks'[m] = IF m = n THEN Grown(n, b) ELSE blocks[m]
  BY <1>1, <1>2
<1>5. \A c \in Mined : c \in blocks'[n] \ blocks[n] => parents[c] \in blocks'[n]
  BY <1>2, <1>3, <1>4
<1>6. ChainsGrow
  BY <1>3, <1>4, <1>5 DEF ChainsGrow
<1> QED
  BY <1>3, <1>4, <1>5, <1>6

LEMMA ChildHandled ==
  ASSUME TInv, NEW q \in Queue, NEW i \in 1 .. setup.workers, HandleChild(q, i)
  PROVE  TInv' /\ Handled(q, i)
<1> DEFINE b == BlockOf(q, i)
           n == q.to
           adopted == Adopted(orphans[n], b)
           kept == RemoveAll(orphans[n], adopted)
           msgs == Announced(b)
           can == CanRemove(Len(orphans[n]), adopted)
<1>1. /\ Take(q, i, "Blocks") /\ b \in Mined /\ parents[b] \in blocks[n]
      /\ blocks' = [blocks EXCEPT ![n] = Grown(n, b)]
      /\ setup' = setup /\ parents' = parents /\ miners' = miners
      /\ parent_block' = parent_block /\ links' = links /\ broken' = broken
  BY DEF HandleChild, Grown, worldVars, linkVars
<1>2. /\ can => /\ orphans' = [orphans EXCEPT ![n] = kept]
                /\ lost' = [lost EXCEPT ![n] =
                        @ \cup (ToSet(orphans[n]) \ (ToSet(orphans'[n]) \cup blocks'[n]))]
                /\ network' = Post(Taken(q, i), n, Node, "broadcast", msgs)
                /\ dead' = dead
      /\ ~can => /\ dead' = dead \cup {n} /\ orphans' = orphans /\ lost' = lost
                 /\ network' = [r \in Queue |-> IF r.to = n THEN <<>> ELSE network[r]]
  BY DEF HandleChild
<1>3. network[q][i] = Message("Blocks", b) /\ b \in Block /\ n \in Node
  BY <1>1, TakeFacts
<1>4. msgs \in Seq(Msg) /\ \A msg \in ToSet(msgs) : msg.kind # "Blocks"
  BY <1>3, AnswersTyped DEF Message
<1>5. blocks \in [Node -> SUBSET Block] /\ orphans \in [Node -> Seq(Mined)]
      /\ parent_block \in [Node -> Block] /\ lost \in [Node -> SUBSET Mined] /\ dead \subseteq Node
      /\ links \subseteq setup.edges /\ broken \subseteq setup.edges /\ links \cap broken = {}
      /\ network \in [Queue -> Seq(Msg)]
  BY DEF TInv, TypeOK, Msg
<1>6. Mined' = Mined
  BY <1>1 DEF Mined
<1> HIDE DEF b, n, adopted, kept, msgs, can
<1>7. /\ blocks' \in [Node -> SUBSET Block] /\ ChainsGrow
      /\ \A m \in Node : blocks'[m] = IF m = n THEN Grown(n, b) ELSE blocks[m]
      /\ b \in blocks'[n]
      /\ \A c \in Mined : c \in blocks'[n] \ blocks[n] => parents[c] \in blocks'[n]
  BY <1>1, <1>3, <1>6, ChainGrown
<1>8. can => kept \in Seq(Mined) /\ ToSet(kept) \subseteq ToSet(orphans[n])
  BY <1>1, <1>3, CleanedFacts DEF can, kept, adopted
<1>9. /\ orphans' \in [Node -> Seq(Mined)] /\ lost' \in [Node -> SUBSET Mined]
      /\ dead' \subseteq Node /\ dead \subseteq dead'
      /\ \A m \in Node : ToSet(orphans'[m]) \subseteq ToSet(orphans[m])
      /\ \A m \in Node : \A c \in ToSet(orphans[m]) : Had(m, c)'
  <2>1. CASE can
    <3>1. orphans' \in [Node -> Seq(Mined)] /\ orphans'[n] = kept
          /\ \A m \in Node : m # n => orphans'[m] = orphans[m]
      BY <1>2, <1>3, <1>5, <1>8, <2>1
    <3>2. \A c \in ToSet(orphans[n]) : c \in Mined
      <4> DEFINE s == orphans[n]
      <4>1. s \in Seq(Mined)
        BY <1>3, <1>5
      <4> HIDE DEF s
      <4>2. \A c \in ToSet(s) : c \in Mined
        BY <4>1 DEF ToSet
      <4> QED
        BY <4>2 DEF s
    <3>3. lost' \in [Node -> SUBSET Mined]
          /\ lost'[n] = lost[n] \cup (ToSet(orphans[n]) \ (ToSet(orphans'[n]) \cup blocks'[n]))
      BY <1>2, <1>3, <1>5, <2>1, <3>2
    <3>4. \A m \in Node : ToSet(orphans'[m]) \subseteq ToSet(orphans[m])
      BY <1>8, <2>1, <3>1
    <3>5. \A m \in Node : \A c \in ToSet(orphans[m]) : Had(m, c)'
      BY <3>1, <3>3 DEF Had, Holds
    <3> QED
      BY <1>2, <1>5, <2>1, <3>1, <3>3, <3>4, <3>5
  <2>2. CASE ~can
    <3>1. orphans' = orphans /\ lost' = lost /\ dead' = dead \cup {n}
      BY <1>2, <2>2
    <3>2. \A m \in Node : \A c \in ToSet(orphans[m]) : Had(m, c)'
      BY <3>1 DEF Had, Holds
    <3> QED
      BY <1>3, <1>5, <3>1, <3>2
  <2> QED
    BY <2>1, <2>2
<1>10. network' \in [Queue -> Seq(Msg)] /\ KeepsMessages(q, i) /\ SendsMessages(q)
  <2>1. CASE can
    <3>1. network' = Post(Taken(q, i), n, Node, "broadcast", msgs)
      BY <1>2, <2>1
    <3>2. network' \in [Queue -> Seq(Msg)] /\ KeepsMessages(q, i)
      BY <1>1, <1>4, <3>1, TakenPosted
    <3>3. \A r \in Queue : \A msg \in ToSet(network'[r]) :
             msg \in ToSet(network[r]) \/ (Goes(r, n, Node, "broadcast") /\ msg \in ToSet(msgs))
      BY <1>1, <1>4, <3>1, TakenPosted
    <3>4. SendsMessages(q)
      BY <1>4, <3>3 DEF SendsMessages, Goes, n
    <3> QED
      BY <3>2, <3>4
  <2>2. CASE ~can
    <3>1. network' = [r \in Queue |-> IF r.to = n THEN <<>> ELSE network[r]] /\ n \in dead'
      BY <1>2, <2>2
    <3>2. \A r \in Queue : network'[r] = network[r] \/ (r.to = n /\ network'[r] = <<>>)
      BY <3>1
    <3>3. network' \in [Queue -> Seq(Msg)]
      BY <1>5, <3>1
    <3>4. ToSet(<<>>) = {}
      BY DEF ToSet
    <3>5. KeepsMessages(q, i)
      BY <3>1, <3>2 DEF KeepsMessages
    <3>6. SendsMessages(q)
      BY <3>2, <3>4 DEF SendsMessages
    <3> QED
      BY <3>3, <3>5, <3>6
  <2> QED
    BY <2>1, <2>2
<1>11. TInv'
  <2>1. UNCHANGED <<setup, worldVars>>
    BY <1>1 DEF worldVars
  <2>2. /\ parent_block' \in [Node -> Block] /\ links' \subseteq setup.edges
        /\ broken' \subseteq setup.edges /\ links' \cap broken' = {}
    BY <1>1, <1>5
  <2> QED
    BY <1>7, <1>9, <1>10, <2>1, <2>2, TypeFrame
<1>12. NothingForgotten
  <2>1. \A m \in Node : blocks[m] \subseteq blocks'[m]
    BY <1>7 DEF ChainsGrow
  <2>2. \A m \in Node : lost[m] \subseteq lost'[m]
    BY <1>2, <1>3, <1>5
  <2> QED
    BY <1>9, <2>1, <2>2 DEF NothingForgotten, Had, Holds
<1>13. OrphansAsk(q, i)
  BY <1>7, <1>9 DEF OrphansAsk, Holds
<1>14. BlockHad(q, i) /\ BlockAnswered(q, i)
  <2>1. \A c : network[q][i] = Message("Blocks", c) => c = b
    BY <1>3, MessagesDiffer
  <2>2. BlockHad(q, i)
    BY <1>7, <2>1 DEF BlockHad, Had, Holds, n
  <2>3. BlockAnswered(q, i)
    BY <1>3, MessagesDiffer DEF BlockAnswered
  <2> QED
    BY <2>2, <2>3
<1> QED
  BY <1>1, <1>7, <1>9, <1>10, <1>11, <1>12, <1>13, <1>14 DEF Handled, worldVars, linkVars

LEMMA HandleFacts ==
  ASSUME TInv, NEW q \in Queue, NEW i \in 1 .. setup.workers, Handle(q, i)
  PROVE  TInv' /\ Handled(q, i) /\ i \in 1 .. Len(network[q]) /\ q.to \notin dead
<1>1. TInv' /\ Handled(q, i)
  BY NewBlockHashesHandled, GetBlocksHandled, KnownHandled, GenesisHandled, OrphanHandled,
     ChildHandled DEF Handle
<1>2. PICK kind : Take(q, i, kind)
  BY DEF Handle, HandleNewBlockHashes, HandleGetBlocks, HandleKnown, HandleGenesis,
         HandleOrphan, HandleChild
<1> QED
  BY <1>1, <1>2, TakeFacts DEF Take

-----------------------------------------------------------------------------
(* The invariant: what a node is owed is on its way.                           *)

(* A chain starts from the genesis of the node, has the tip it mines on, and   *)
(* the parent of each of its blocks.                                           *)
ChainsOK ==
  \A n \in Node :
     /\ n \in blocks[n] /\ parent_block[n] \in blocks[n]
     /\ \A b \in Mined : b \in blocks[n] => parents[b] \in blocks[n]

MinedHeld == \A b \in Mined : miners[b] \in Node /\ b \in blocks[miners[b]]

LinksOK == setup.up \subseteq links \cup broken

(* Messages are on links there are, and who sends a block has it. *)
QueuesOK ==
  \A q \in Queue : \A msg \in ToSet(network[q]) :
     /\ Linked(q.from, q.to)
     /\ msg.kind = "Blocks" => msg.block \in blocks[q.from]

Between(m, n, way) == [from |-> m, to |-> n, way |-> way]
Sending(m, n, way, kind, b) == Message(kind, b) \in ToSet(network[Between(m, n, way)])

(* A peer with the block p is asked for it by n, or has sent it. *)
Asked(n, p) ==
  \E m \in Node, way \in Way :
     /\ Linked(m, n) /\ p \in blocks[m]
     /\ Sending(n, m, way, "GetBlocks", p) \/ Sending(m, n, way, "Blocks", p)

ParentsAsked ==
  \A n \in Node, b \in Mined :
     WellConnected(n) /\ Holds(n, b) => Had(n, parents[b]) \/ Asked(n, parents[b])

BlocksSent ==
  \A m, n \in Node, b \in Mined :
     WellConnected(n) /\ {m, n} \in setup.up /\ miners[b] = m =>
        Had(n, b) \/ Sending(m, n, "broadcast", "Blocks", b)

ClusterOK == TInv /\ ChainsOK /\ MinedHeld /\ LinksOK /\ QueuesOK
IInv == ClusterOK /\ ParentsAsked /\ BlocksSent

LEMMA BetweenIsQueue ==
  ASSUME NEW m \in Node, NEW n \in Node, NEW way \in Way
  PROVE  /\ Between(m, n, way) \in Queue
         /\ Between(m, n, way).from = m /\ Between(m, n, way).to = n /\ Between(m, n, way).way = way
BY DEF Between, Queue

LEMMA LinkedBothWays ==
  ASSUME NEW m, NEW n
  PROVE  Linked(m, n) => Linked(n, m)
<1>1. {m, n} = {n, m}
  OBVIOUS
<1> QED
  BY <1>1 DEF Linked

(* The peers of a well connected node live. *)
LEMMA PeersLive ==
  ASSUME TInv, NEW m \in Node, NEW n \in Node, Linked(m, n), WellConnected(n)
  PROVE  m \notin dead /\ n \notin dead
<1>1. {m, n} \in setup.edges
  BY DEF TInv, TypeOK, Linked
<1> QED
  BY <1>1 DEF WellConnected

LEMMA InvInit ==
  ASSUME Init
  PROVE  IInv
<1>1. TInv
  BY TypeInit
<1>2. Mined = {}
  BY DEF Init, Mined
<1>3. ToSet(<<>>) = {}
  BY DEF ToSet
<1> QED
  BY <1>1, <1>2, <1>3 DEF Init, IInv, ClusterOK, ChainsOK, MinedHeld, LinksOK, QueuesOK,
                          ParentsAsked, BlocksSent

(* A message is handled. *)
LEMMA HandleCluster ==
  ASSUME ClusterOK, NEW q \in Queue, NEW i \in 1 .. setup.workers, Handle(q, i)
  PROVE  ClusterOK'
<1>1. TInv' /\ Handled(q, i)
  BY HandleFacts DEF ClusterOK
<1>2. /\ setup' = setup /\ parents' = parents /\ miners' = miners
      /\ parent_block' = parent_block /\ links' = links /\ broken' = broken
      /\ SendsMessages(q) /\ ChainsGrow /\ Mined' = Mined
  BY <1>1 DEF Handled, worldVars, linkVars, Mined
<1>3. ChainsOK'
  BY <1>2 DEF ClusterOK, ChainsOK, ChainsGrow
<1>4. MinedHeld'
  BY <1>2 DEF ClusterOK, MinedHeld, ChainsGrow
<1>5. LinksOK'
  BY <1>2 DEF ClusterOK, LinksOK
<1>6. QueuesOK'
  <2> SUFFICES ASSUME NEW r \in Queue, NEW msg \in ToSet(network'[r])
               PROVE  /\ Linked(r.from, r.to)'
                      /\ msg.kind = "Blocks" => msg.block \in blocks'[r.from]
    BY DEF QueuesOK
  <2>1. r.from \in Node
    BY DEF Queue
  <2>2. Linked(r.from, r.to)' = Linked(r.from, r.to)
    BY <1>2 DEF Linked
  <2>3. CASE msg \in ToSet(network[r])
    BY <1>2, <2>1, <2>2, <2>3 DEF ClusterOK, QueuesOK, ChainsGrow
  <2>4. CASE msg \notin ToSet(network[r])
    BY <1>2, <2>2, <2>4 DEF SendsMessages
  <2> QED
    BY <2>3, <2>4
<1> QED
  BY <1>1, <1>3, <1>4, <1>5, <1>6 DEF ClusterOK

(* A block somebody was asked for is still asked for, or there. *)
LEMMA HandleAsked ==
  ASSUME ClusterOK, NEW q \in Queue, NEW i \in 1 .. setup.workers, Handle(q, i),
         NEW n \in Node, NEW p \in Block, WellConnected(n), WellConnected(n)', Asked(n, p)
  PROVE  Had(n, p)' \/ Asked(n, p)'
<1>1. TInv /\ TInv' /\ Handled(q, i)
  BY HandleFacts DEF ClusterOK
<1>2. /\ links' = links /\ KeepsMessages(q, i) /\ ChainsGrow /\ BlockHad(q, i)
      /\ BlockAnswered(q, i)
  BY <1>1 DEF Handled, linkVars
<1>3. PICK m \in Node, way \in Way :
         /\ Linked(m, n) /\ p \in blocks[m]
         /\ Sending(n, m, way, "GetBlocks", p) \/ Sending(m, n, way, "Blocks", p)
  BY DEF Asked
<1>4. Linked(m, n)' /\ Linked(n, m) /\ p \in blocks'[m]
  BY <1>2, <1>3, LinkedBothWays DEF Linked, ChainsGrow
<1>5. m \notin dead /\ n \notin dead
  BY <1>1, <1>3, PeersLive
<1>6. m \notin dead' /\ n \notin dead'
  <2>1. {m, n} \in setup'.edges
    BY <1>1, <1>4 DEF TInv, TypeOK, Linked
  <2> QED
    BY <2>1 DEF WellConnected
<1>7. CASE Sending(n, m, way, "GetBlocks", p)
  <2> DEFINE r == Between(n, m, way)
             a == Between(m, n, "answer")
  <2>1. r \in Queue /\ r.from = n /\ r.to = m
    BY BetweenIsQueue
  <2>2. a \in Queue /\ a.from = m /\ a.to = n /\ a.way = "answer" /\ "answer" \in Way
    BY BetweenIsQueue DEF Way
  <2>3. Message("GetBlocks", p) \in ToSet(network[r])
    BY <1>7 DEF Sending
  <2> HIDE DEF r, a
  <2>4. CASE Message("GetBlocks", p) \in ToSet(network'[r])
    <3>1. Sending(n, m, way, "GetBlocks", p)'
      BY <2>4 DEF Sending, r
    <3> QED
      BY <1>4, <3>1 DEF Asked
  <2>5. CASE r = q /\ Message("GetBlocks", p) = network[q][i]
    <3>1. Goes(a, q.to, {q.from}, "answer")
      BY <1>3, <1>5, <2>1, <2>2, <2>5 DEF Goes
    <3>2. Message("Blocks", p) \in ToSet(network'[a])
      BY <1>2, <1>3, <2>1, <2>2, <2>5, <3>1 DEF BlockAnswered
    <3>3. Sending(m, n, "answer", "Blocks", p)'
      BY <3>2 DEF Sending, a
    <3> QED
      BY <1>4, <2>2, <3>3 DEF Asked
  <2> QED
    BY <1>2, <1>6, <2>1, <2>3, <2>4, <2>5 DEF KeepsMessages
<1>8. CASE Sending(m, n, way, "Blocks", p)
  <2> DEFINE r == Between(m, n, way)
  <2>1. r \in Queue /\ r.to = n
    BY BetweenIsQueue
  <2>2. Message("Blocks", p) \in ToSet(network[r])
    BY <1>8 DEF Sending
  <2> HIDE DEF r
  <2>3. CASE Message("Blocks", p) \in ToSet(network'[r])
    <3>1. Sending(m, n, way, "Blocks", p)'
      BY <2>3 DEF Sending, r
    <3> QED
      BY <1>4, <3>1 DEF Asked
  <2>4. CASE r = q /\ Message("Blocks", p) = network[q][i]
    BY <1>2, <2>1, <2>4 DEF BlockHad
  <2> QED
    BY <1>2, <1>6, <2>1, <2>2, <2>3, <2>4 DEF KeepsMessages
<1> QED
  BY <1>3, <1>7, <1>8

LEMMA HandleOwed ==
  ASSUME IInv, NEW q \in Queue, NEW i \in 1 .. setup.workers, Handle(q, i)
  PROVE  ParentsAsked' /\ BlocksSent'
<1>1. TInv /\ Handled(q, i) /\ ClusterOK /\ i \in 1 .. Len(network[q])
  BY HandleFacts DEF ClusterOK, IInv
<1>2. /\ setup' = setup /\ parents' = parents /\ miners' = miners
      /\ links' = links /\ broken' = broken /\ dead \subseteq dead'
      /\ KeepsMessages(q, i) /\ ChainsGrow /\ NothingForgotten /\ OrphansAsk(q, i)
      /\ BlockHad(q, i) /\ Mined' = Mined
  BY <1>1 DEF Handled, worldVars, linkVars, Mined
<1>3. \A n \in Node : WellConnected(n)' => WellConnected(n)
  BY <1>2 DEF WellConnected
<1>4. Mined \subseteq Block
  BY DEF Block
<1>5. ParentsAsked'
  <2> SUFFICES ASSUME NEW n \in Node, NEW b \in Mined, WellConnected(n)', Holds(n, b)'
               PROVE  Had(n, parents[b])' \/ Asked(n, parents[b])'
    BY <1>2 DEF ParentsAsked
  <2>0. PICK p : p = parents[b]
    OBVIOUS
  <2>1. WellConnected(n) /\ p \in Block /\ b \in Block
    BY <1>1, <1>3, <1>4, <2>0, ParentIsBlock
  <2>2. parents'[b] = p
    BY <1>2, <2>0
  <2>3. CASE Holds(n, b)
    <3>1. Had(n, p) \/ Asked(n, p)
      BY <2>0, <2>1, <2>3 DEF IInv, ParentsAsked
    <3>2. CASE Had(n, p)
      BY <1>2, <2>1, <2>2, <3>2 DEF NothingForgotten
    <3>3. CASE Asked(n, p)
      BY <1>1, <2>1, <2>2, <3>3, HandleAsked
    <3> QED
      BY <3>1, <3>2, <3>3
  <2>4. CASE ~Holds(n, b)
    <3>1. CASE p \in blocks'[n]
      BY <2>2, <3>1 DEF Had, Holds
    <3>2. CASE p \notin blocks'[n]
      <4> DEFINE m == q.from
                 r == Between(n, m, "broadcast")
      <4>1. /\ q.to = n /\ network[q][i] = Message("Blocks", b)
            /\ \A s \in Queue : Goes(s, n, Node, "broadcast") =>
                  Message("GetBlocks", p) \in ToSet(network'[s])
        BY <1>2, <2>0, <2>4, <3>2 DEF OrphansAsk
      <4>2. m \in Node
        BY DEF Queue
      <4>3. network[q][i] \in ToSet(network[q])
        <5>1. network[q] \in Seq(Msg)
          BY <1>1 DEF TInv, TypeOK, Msg
        <5> QED
          BY <1>1, <5>1 DEF ToSet
      <4>4. Linked(m, n) /\ b \in blocks[m]
        BY <1>1, <4>1, <4>3 DEF ClusterOK, QueuesOK, Message
      <4>5. p \in blocks'[m] /\ Linked(m, n)' /\ Linked(n, m)
        BY <1>1, <1>2, <2>0, <4>2, <4>4, LinkedBothWays DEF ClusterOK, ChainsOK, ChainsGrow, Linked
      <4>6. m \notin dead
        BY <1>1, <2>1, <4>2, <4>4, PeersLive
      <4>7. r \in Queue /\ r.from = n /\ r.to = m /\ r.way = "broadcast" /\ "broadcast" \in Way
        BY <4>2, BetweenIsQueue DEF Way
      <4> HIDE DEF r, m
      <4>8. Goes(r, n, Node, "broadcast")
        BY <4>2, <4>5, <4>6, <4>7 DEF Goes
      <4>9. Sending(n, m, "broadcast", "GetBlocks", p)'
        BY <4>1, <4>7, <4>8 DEF Sending, r
      <4>10. Asked(n, p)'
        BY <4>2, <4>5, <4>7, <4>9 DEF Asked
      <4> QED
        BY <2>2, <4>10
    <3> QED
      BY <3>1, <3>2
  <2> QED
    BY <2>3, <2>4
<1>6. BlocksSent'
  <2> SUFFICES ASSUME NEW m \in Node, NEW n \in Node, NEW b \in Mined, WellConnected(n)',
                      {m, n} \in setup.up, miners[b] = m
               PROVE  Had(n, b)' \/ Sending(m, n, "broadcast", "Blocks", b)'
    BY <1>2 DEF BlocksSent
  <2> DEFINE r == Between(m, n, "broadcast")
  <2>1. r \in Queue /\ r.to = n
    BY BetweenIsQueue DEF Way
  <2>2. n \notin dead'
    BY DEF WellConnected
  <2>3. Had(n, b) \/ Message("Blocks", b) \in ToSet(network[r])
    BY <1>3 DEF IInv, BlocksSent, Sending
  <2>4. CASE Had(n, b)
    BY <1>2, <1>4, <2>4 DEF NothingForgotten
  <2>5. CASE Message("Blocks", b) \in ToSet(network[r])
    <3> HIDE DEF r
    <3>1. CASE Message("Blocks", b) \in ToSet(network'[r])
      BY <3>1 DEF Sending, r
    <3>2. CASE r = q /\ Message("Blocks", b) = network[q][i]
      BY <1>2, <1>4, <2>1, <3>2 DEF BlockHad
    <3> QED
      BY <1>2, <2>1, <2>2, <2>5, <3>1, <3>2 DEF KeepsMessages
  <2> QED
    BY <2>3, <2>4, <2>5
<1> QED
  BY <1>5, <1>6

(* A miner reads the tip. *)
LEMMA ReadTipKeeps ==
  ASSUME IInv, NEW n \in Node, ReadTip(n)
  PROVE  IInv'
<1>1. PICK tip \in TipsOf(n) : parent_block' = [parent_block EXCEPT ![n] = tip]
  BY DEF ReadTip
<1>2. /\ setup' = setup /\ parents' = parents /\ miners' = miners /\ blocks' = blocks
      /\ orphans' = orphans /\ lost' = lost /\ dead' = dead /\ links' = links
      /\ broken' = broken /\ network' = network /\ Mined' = Mined /\ TInv
  BY DEF ReadTip, worldVars, linkVars, Mined, IInv, ClusterOK
<1>3. tip \in blocks[n] /\ tip \in Block
  BY <1>1, <1>2 DEF TipsOf, TInv, TypeOK
<1>4. parent_block' \in [Node -> Block]
      /\ \A m \in Node : parent_block'[m] = IF m = n THEN tip ELSE parent_block[m]
  BY <1>1, <1>2, <1>3 DEF TInv, TypeOK
<1>5. TInv'
  <2>1. UNCHANGED <<setup, worldVars>>
    BY <1>2 DEF worldVars
  <2>2. /\ blocks' \in [Node -> SUBSET Block] /\ orphans' \in [Node -> Seq(Mined)]
        /\ lost' \in [Node -> SUBSET Mined] /\ dead' \subseteq Node /\ links' \subseteq setup.edges
        /\ broken' \subseteq setup.edges /\ links' \cap broken' = {}
        /\ network' \in [Queue -> Seq(Msg)]
    BY <1>2 DEF TInv, TypeOK, Msg
  <2> QED
    BY <1>2, <1>4, <2>1, <2>2, TypeFrame
<1>6. ChainsOK'
  BY <1>2, <1>3, <1>4 DEF IInv, ClusterOK, ChainsOK
<1>7. MinedHeld' /\ LinksOK' /\ QueuesOK'
  BY <1>2 DEF IInv, ClusterOK, MinedHeld, LinksOK, QueuesOK, Linked
<1>8. ParentsAsked' /\ BlocksSent'
  BY <1>2 DEF IInv, ParentsAsked, BlocksSent, WellConnected, Had, Holds, Asked, Sending, Linked
<1> QED
  BY <1>5, <1>6, <1>7, <1>8 DEF IInv, ClusterOK

(* A connection is made. *)
LEMMA ConnectKeeps ==
  ASSUME IInv, NEW e \in setup.edges, ConnectPeers(e)
  PROVE  IInv'
<1>1. /\ setup' = setup /\ parents' = parents /\ miners' = miners /\ blocks' = blocks
      /\ orphans' = orphans /\ parent_block' = parent_block /\ lost' = lost /\ dead' = dead
      /\ links' = links \cup {e} /\ broken' = broken /\ network' = network /\ Mined' = Mined
      /\ e \notin broken /\ TInv
  BY DEF ConnectPeers, worldVars, nodeVars, Mined, IInv, ClusterOK
<1>2. TInv'
  <2>1. UNCHANGED <<setup, worldVars>>
    BY <1>1 DEF worldVars
  <2>2. /\ blocks' \in [Node -> SUBSET Block] /\ orphans' \in [Node -> Seq(Mined)]
        /\ parent_block' \in [Node -> Block]
        /\ lost' \in [Node -> SUBSET Mined] /\ dead' \subseteq Node /\ links' \subseteq setup.edges
        /\ broken' \subseteq setup.edges /\ links' \cap broken' = {}
        /\ network' \in [Queue -> Seq(Msg)]
    BY <1>1 DEF TInv, TypeOK, Msg
  <2> QED
    BY <1>1, <2>1, <2>2, TypeFrame
<1>3. \A m, n \in Node : Linked(m, n) => Linked(m, n)'
  BY <1>1 DEF Linked
<1>4. ChainsOK' /\ MinedHeld' /\ LinksOK'
  BY <1>1 DEF IInv, ClusterOK, ChainsOK, MinedHeld, LinksOK
<1>5. QueuesOK'
  <2>1. \A q \in Queue : q.from \in Node /\ q.to \in Node
    BY DEF Queue
  <2> QED
    BY <1>1, <1>3, <2>1 DEF IInv, ClusterOK, QueuesOK
<1>6. ParentsAsked' /\ BlocksSent'
  <2>1. \A n \in Node : \A p : Asked(n, p) => Asked(n, p)'
    BY <1>1, <1>3 DEF Asked, Sending
  <2>2. /\ \A n \in Node : WellConnected(n)' = WellConnected(n)
        /\ \A n \in Node : \A b : Holds(n, b)' = Holds(n, b) /\ Had(n, b)' = Had(n, b)
        /\ \A m, n \in Node : \A b : Sending(m, n, "broadcast", "Blocks", b)' =
                                 Sending(m, n, "broadcast", "Blocks", b)
    BY <1>1 DEF WellConnected, Had, Holds, Sending
  <2>3. ParentsAsked'
    BY <1>1, <2>1, <2>2 DEF IInv, ParentsAsked
  <2>4. BlocksSent'
    BY <1>1, <2>2 DEF IInv, BlocksSent
  <2> QED
    BY <2>3, <2>4
<1> QED
  BY <1>2, <1>4, <1>5, <1>6 DEF IInv, ClusterOK

(* A connection breaks: what is on its queues is lost. *)
LEMMA BreakKeeps ==
  ASSUME IInv, NEW e \in setup.edges, BreakLink(e)
  PROVE  IInv'
<1>1. /\ setup' = setup /\ parents' = parents /\ miners' = miners /\ blocks' = blocks
      /\ orphans' = orphans /\ parent_block' = parent_block /\ lost' = lost /\ dead' = dead
      /\ links' = links \ {e} /\ broken' = broken \cup {e} /\ Mined' = Mined
      /\ network' = [q \in Queue |-> IF {q.from, q.to} = e THEN <<>> ELSE network[q]]
      /\ TInv /\ ClusterOK
  BY DEF BreakLink, worldVars, nodeVars, Mined, IInv, ClusterOK
<1>2. network \in [Queue -> Seq(Msg)] /\ ToSet(<<>>) = {}
  <2>1. network \in [Queue -> Seq(Msg)]
    BY <1>1 DEF TInv, TypeOK, Msg
  <2>2. ToSet(<<>>) = {}
    BY DEF ToSet
  <2> QED
    BY <2>1, <2>2
<1>3. network' \in [Queue -> Seq(Msg)]
      /\ \A q \in Queue : network'[q] = IF {q.from, q.to} = e THEN <<>> ELSE network[q]
  BY <1>1, <1>2
<1>4. TInv'
  <2>1. UNCHANGED <<setup, worldVars>>
    BY <1>1 DEF worldVars
  <2>2. /\ blocks' \in [Node -> SUBSET Block] /\ orphans' \in [Node -> Seq(Mined)]
        /\ parent_block' \in [Node -> Block]
        /\ lost' \in [Node -> SUBSET Mined] /\ dead' \subseteq Node /\ links' \subseteq setup.edges
        /\ broken' \subseteq setup.edges /\ links' \cap broken' = {}
    BY <1>1 DEF TInv, TypeOK
  <2> QED
    BY <1>1, <1>3, <2>1, <2>2, TypeFrame
<1>5. ChainsOK' /\ MinedHeld' /\ LinksOK'
  BY <1>1 DEF ClusterOK, ChainsOK, MinedHeld, LinksOK
<1>6. QueuesOK'
  <2> SUFFICES ASSUME NEW q \in Queue, NEW msg \in ToSet(network'[q])
               PROVE  /\ Linked(q.from, q.to)'
                      /\ msg.kind = "Blocks" => msg.block \in blocks'[q.from]
    BY DEF QueuesOK
  <2>1. {q.from, q.to} # e /\ msg \in ToSet(network[q])
    BY <1>2, <1>3
  <2>2. Linked(q.from, q.to) /\ (msg.kind = "Blocks" => msg.block \in blocks[q.from])
    BY <1>1, <2>1 DEF ClusterOK, QueuesOK
  <2> QED
    BY <1>1, <2>1, <2>2 DEF Linked
<1>7. \A n \in Node : WellConnected(n)' => WellConnected(n) /\ n \notin e
  BY <1>1 DEF WellConnected
<1>8. ASSUME NEW m \in Node, NEW n \in Node, NEW way \in Way, n \notin e, NEW kind, NEW b
      PROVE  /\ Linked(m, n) => Linked(m, n)'
             /\ Sending(m, n, way, kind, b) => Sending(m, n, way, kind, b)'
             /\ Sending(n, m, way, kind, b) => Sending(n, m, way, kind, b)'
  <2>1. n \in {m, n} /\ {m, n} # e /\ {n, m} # e
    BY <1>8
  <2>2. /\ Between(m, n, way) \in Queue
        /\ Between(m, n, way).from = m /\ Between(m, n, way).to = n
    BY BetweenIsQueue
  <2>3. /\ Between(n, m, way) \in Queue
        /\ Between(n, m, way).from = n /\ Between(n, m, way).to = m
    BY BetweenIsQueue
  <2>4. /\ network'[Between(m, n, way)] = network[Between(m, n, way)]
        /\ network'[Between(n, m, way)] = network[Between(n, m, way)]
    BY <1>3, <2>1, <2>2, <2>3
  <2> QED
    BY <1>1, <2>1, <2>4 DEF Linked, Sending
<1>9. ParentsAsked'
  <2> SUFFICES ASSUME NEW n \in Node, NEW b \in Mined, WellConnected(n)', Holds(n, b)'
               PROVE  Had(n, parents[b])' \/ Asked(n, parents[b])'
    BY <1>1 DEF ParentsAsked
  <2>1. PICK p : p = parents[b] /\ p = parents'[b]
    BY <1>1
  <2>2. Had(n, p) \/ Asked(n, p)
    BY <1>1, <1>7, <2>1 DEF IInv, ParentsAsked, Holds
  <2>3. CASE Had(n, p)
    BY <1>1, <2>1, <2>3 DEF Had, Holds
  <2>4. CASE Asked(n, p)
    <3>1. PICK m \in Node, way \in Way :
             /\ Linked(m, n) /\ p \in blocks[m]
             /\ Sending(n, m, way, "GetBlocks", p) \/ Sending(m, n, way, "Blocks", p)
      BY <2>4 DEF Asked
    <3>2. /\ Linked(m, n)' /\ p \in blocks'[m]
          /\ Sending(n, m, way, "GetBlocks", p)' \/ Sending(m, n, way, "Blocks", p)'
      BY <1>1, <1>7, <1>8, <3>1
    <3>3. Asked(n, p)'
      BY <3>2 DEF Asked
    <3> QED
      BY <2>1, <3>3
  <2> QED
    BY <2>2, <2>3, <2>4
<1>10. BlocksSent'
  <2> SUFFICES ASSUME NEW m \in Node, NEW n \in Node, NEW b \in Mined, WellConnected(n)',
                      {m, n} \in setup.up, miners[b] = m
               PROVE  Had(n, b)' \/ Sending(m, n, "broadcast", "Blocks", b)'
    BY <1>1 DEF BlocksSent
  <2>1. Had(n, b) \/ Sending(m, n, "broadcast", "Blocks", b)
    BY <1>7 DEF IInv, BlocksSent
  <2>2. Had(n, b) => Had(n, b)'
    BY <1>1 DEF Had, Holds
  <2>3. "broadcast" \in Way
    BY DEF Way
  <2> QED
    BY <1>7, <1>8, <2>1, <2>2, <2>3
<1> QED
  BY <1>4, <1>5, <1>6, <1>9, <1>10 DEF IInv, ClusterOK

(* A block is mined: who is connected from the start is sent it. *)
LEMMA MineKeeps ==
  ASSUME IInv, NEW n \in Node, Mine(n)
  PROVE  IInv'
<1>20. PICK b, tip, msgs :
         b = Len(parents) + 1 /\ tip = parent_block[n] /\ msgs = Sent(n, tip, b)
  OBVIOUS
<1>0. /\ parents' = Append(parents, tip) /\ miners' = Append(miners, n)
      /\ blocks' = [blocks EXCEPT ![n] = @ \cup {b}]
      /\ network' = Post(network, n, Node, "broadcast", msgs)
  BY <1>20 DEF Mine
<1>1. /\ setup' = setup /\ orphans' = orphans /\ parent_block' = parent_block /\ lost' = lost
      /\ dead' = dead /\ links' = links /\ broken' = broken
      /\ TInv /\ ClusterOK
  BY DEF Mine, linkVars, IInv, ClusterOK
<1>2. TInv' /\ Mined' = Mined \cup {b} /\ Block' = Block \cup {b}
  BY <1>20, <1>1, TypeMine
<1>3. /\ b \in Nat /\ b \notin Mined /\ Mined = 1 .. Len(parents) /\ tip \in Block
      /\ \A c \in Mined : parents'[c] = parents[c] /\ miners'[c] = miners[c]
      /\ parents'[b] = tip /\ miners'[b] = n /\ tip \in blocks[n]
      /\ blocks \in [Node -> SUBSET Block]
  <2>1. /\ parents \in Seq(Node \cup 1 .. MaxBlock) /\ miners \in Seq(setup.miners)
        /\ Len(miners) = Len(parents) /\ tip \in Block /\ Mined = 1 .. Len(parents)
        /\ blocks \in [Node -> SUBSET Block]
    BY <1>20, <1>1 DEF TInv, TypeOK, Mined
  <2>2. n \in setup.miners /\ tip \in Node \cup 1 .. MaxBlock
    <3>1. n \in setup.miners
      BY DEF Mine, Mining
    <3>2. Mined \subseteq 1 .. MaxBlock
      BY <1>1, MinedOrGenesis
    <3> QED
      BY <2>1, <3>1, <3>2 DEF Block
  <2>3. b \in Nat /\ b \notin Mined
    BY <1>20, <2>1
  <2>4. \A c \in Mined : parents'[c] = parents[c]
    BY <1>20, <1>0, <2>1, <2>2
  <2>5. \A c \in Mined : miners'[c] = miners[c]
    BY <1>20, <1>0, <2>1, <2>2
  <2>6. parents'[b] = tip
    BY <1>20, <1>0, <2>1, <2>2
  <2>7. miners'[b] = n
    BY <1>20, <1>0, <2>1, <2>2
  <2>8. tip \in blocks[n]
    BY <1>20, <1>1 DEF ClusterOK, ChainsOK
  <2> QED
    BY <2>1, <2>3, <2>4, <2>5, <2>6, <2>7, <2>8
<1>21. b \notin Block
  <2>1. b \in 1 .. MaxBlock
    BY <1>2, NextMined
  <2> QED
    BY <1>3, <2>1, ClusterAssumption DEF Block
<1>4. \A m \in Node : blocks'[m] = IF m = n THEN blocks[m] \cup {b} ELSE blocks[m]
  BY <1>0, <1>3
<1>5. network \in [Queue -> Seq(Msg)] /\ network \in [Queue -> Seq(Msg')] /\ msgs \in Seq(Msg')
      /\ ToSet(msgs) \subseteq {Message("Blocks", n), Message("Blocks", b)}
      /\ Message("Blocks", b) \in ToSet(msgs)
  <2>1. network \in [Queue -> Seq(Msg)]
    BY <1>1 DEF TInv, TypeOK, Msg
  <2>2. Msg \subseteq Msg'
    BY <1>2 DEF Msg
  <2>3. \A q \in Queue : network[q] \in Seq(Msg')
    BY <2>1, <2>2, SeqGrows
  <2>4. \A c \in {n, b} : Message("Blocks", c) \in Msg'
    BY <1>2 DEF Msg, Message, Block
  <2>5. msgs \in Seq(Msg') /\ ToSet(msgs) \subseteq {Message("Blocks", n), Message("Blocks", b)}
        /\ Message("Blocks", b) \in ToSet(msgs)
    BY <1>20, <1>1, <2>4, SentTyped
  <2> QED
    BY <2>1, <2>3, <2>5
<1>6. ASSUME NEW q \in Queue
      PROVE  /\ Goes(q, n, Node, "broadcast") =>
                    ToSet(network'[q]) = ToSet(network[q]) \cup ToSet(msgs)
             /\ ~Goes(q, n, Node, "broadcast") => ToSet(network'[q]) = ToSet(network[q])
  <2>1. PICK s : s = network[q] /\ s \in Seq(Msg')
    BY <1>5
  <2>2. PICK M : M = Msg'
    OBVIOUS
  <2>3. msgs \in Seq(M) /\ s \in Seq(M)
    BY <1>5, <2>1, <2>2
  <2>4. /\ Goes(q, n, Node, "broadcast") =>
                ToSet(Post(network, n, Node, "broadcast", msgs)[q]) = ToSet(s) \cup ToSet(msgs)
        /\ ~Goes(q, n, Node, "broadcast") =>
                ToSet(Post(network, n, Node, "broadcast", msgs)[q]) = ToSet(s)
    BY <2>1, <2>3, PostAt
  <2> QED
    BY <1>0, <2>1, <2>4
<1>7. ChainsOK'
  <2> SUFFICES ASSUME NEW m \in Node
               PROVE  /\ m \in blocks'[m] /\ parent_block'[m] \in blocks'[m]
                      /\ \A c \in Mined' : c \in blocks'[m] => parents'[c] \in blocks'[m]
    BY DEF ChainsOK
  <2>1. /\ m \in blocks[m] /\ parent_block[m] \in blocks[m] /\ blocks[m] \subseteq blocks'[m]
        /\ \A c \in Mined : c \in blocks[m] => parents[c] \in blocks[m]
    BY <1>1, <1>4 DEF ClusterOK, ChainsOK
  <2>2. b \notin blocks[m]
    BY <1>3, <1>21
  <2>3. ASSUME NEW c \in Mined', c \in blocks'[m] PROVE parents'[c] \in blocks'[m]
    <3>1. CASE c = b
      BY <1>3, <1>4, <2>1, <2>2, <2>3, <3>1
    <3>2. CASE c \in Mined
      <4>1. c # b /\ parents'[c] = parents[c]
        BY <1>3, <3>2
      <4>2. c \in blocks[m]
        BY <1>4, <2>3, <4>1
      <4> QED
        BY <2>1, <3>2, <4>1, <4>2
    <3> QED
      BY <1>2, <3>1, <3>2
  <2> QED
    BY <1>1, <2>1, <2>3
<1>8. MinedHeld' /\ LinksOK'
  <2>1. \A c \in Mined : miners[c] \in Node /\ c \in blocks[miners[c]]
    BY <1>1 DEF ClusterOK, MinedHeld
  <2>2. ASSUME NEW c \in Mined' PROVE miners'[c] \in Node /\ c \in blocks'[miners'[c]]
    <3>1. CASE c = b
      <4>1. miners'[c] = n /\ b \in blocks'[n]
        BY <1>3, <1>4, <3>1
      <4> QED
        BY <3>1, <4>1
    <3>2. CASE c \in Mined
      <4>1. PICK m : m = miners[c] /\ m = miners'[c]
        BY <1>3, <3>2
      <4>2. m \in Node /\ c \in blocks[m]
        BY <2>1, <3>2, <4>1
      <4>3. c \in blocks'[m]
        BY <1>4, <4>2
      <4> QED
        BY <4>1, <4>2, <4>3
    <3> QED
      BY <1>2, <3>1, <3>2
  <2> QED
    BY <1>1, <2>2 DEF ClusterOK, MinedHeld, LinksOK
<1>9. QueuesOK'
  <2> SUFFICES ASSUME NEW q \in Queue, NEW msg \in ToSet(network'[q])
               PROVE  /\ Linked(q.from, q.to)'
                      /\ msg.kind = "Blocks" => msg.block \in blocks'[q.from]
    BY DEF QueuesOK
  <2>1. q.from \in Node
    BY DEF Queue
  <2>2. Linked(q.from, q.to)' = Linked(q.from, q.to)
    BY <1>1 DEF Linked
  <2>3. CASE msg \in ToSet(network[q])
    BY <1>1, <1>4, <2>1, <2>2, <2>3 DEF ClusterOK, QueuesOK
  <2>4. CASE msg \notin ToSet(network[q])
    <3>1. Goes(q, n, Node, "broadcast") /\ msg \in {Message("Blocks", n), Message("Blocks", b)}
      BY <1>5, <1>6, <2>4
    <3>2. n \in blocks'[n] /\ b \in blocks'[n]
      BY <1>1, <1>4 DEF ClusterOK, ChainsOK
    <3> QED
      BY <2>2, <3>1, <3>2 DEF Goes, Message
  <2> QED
    BY <2>3, <2>4
<1>10. /\ \A m \in Node : WellConnected(m)' = WellConnected(m)
       /\ \A m \in Node : \A c : Had(m, c) => Had(m, c)'
       /\ \A m, k \in Node, way \in Way : \A kind, c :
             Sending(m, k, way, kind, c) => Sending(m, k, way, kind, c)'
       /\ \A m \in Node : \A c : Asked(m, c) => Asked(m, c)'
  <2>1. \A m \in Node : WellConnected(m)' = WellConnected(m)
    BY <1>1 DEF WellConnected
  <2>2. \A m \in Node : \A c : Had(m, c) => Had(m, c)'
    BY <1>1, <1>4 DEF Had, Holds
  <2>3. \A m, k \in Node, way \in Way : \A kind, c :
             Sending(m, k, way, kind, c) => Sending(m, k, way, kind, c)'
    BY <1>6, BetweenIsQueue DEF Sending
  <2>4. \A m, k : Linked(m, k)' = Linked(m, k)
    BY <1>1 DEF Linked
  <2>5. \A m \in Node : \A c : Asked(m, c) => Asked(m, c)'
    BY <1>4, <2>3, <2>4 DEF Asked
  <2> QED
    BY <2>1, <2>2, <2>3, <2>5
<1>11. ParentsAsked'
  <2> SUFFICES ASSUME NEW m \in Node, NEW c \in Mined', WellConnected(m)', Holds(m, c)'
               PROVE  Had(m, parents[c])' \/ Asked(m, parents[c])'
    BY DEF ParentsAsked
  <2>1. CASE c = b
    <3>1. m = n
      <4>1. b \notin ToSet(orphans[m])
        <5>1. orphans[m] \in Seq(Mined)
          BY <1>1 DEF TInv, TypeOK
        <5> DEFINE s == orphans[m]
        <5>2. s \in Seq(Mined)
          BY <5>1
        <5> HIDE DEF s
        <5>3. \A d \in ToSet(s) : d \in Mined
          BY <5>2 DEF ToSet
        <5> QED
          BY <1>3, <5>3 DEF s
      <4> QED
        BY <1>1, <1>3, <1>4, <1>21, <2>1, <4>1 DEF Holds
    <3>2. parents'[c] \in blocks'[m]
      BY <1>3, <1>4, <2>1, <3>1
    <3> QED
      BY <3>2 DEF Had, Holds
  <2>2. CASE c \in Mined
    <3>1. Holds(m, c)
      BY <1>1, <1>3, <1>4, <2>2 DEF Holds
    <3>2. PICK p : p = parents[c] /\ p = parents'[c]
      BY <1>3, <2>2
    <3>3. Had(m, p) \/ Asked(m, p)
      BY <1>10, <2>2, <3>1, <3>2 DEF IInv, ParentsAsked
    <3>4. Had(m, p)' \/ Asked(m, p)'
      BY <1>10, <3>3
    <3> QED
      BY <3>2, <3>4
  <2> QED
    BY <1>2, <2>1, <2>2
<1>12. BlocksSent'
  <2> SUFFICES ASSUME NEW m \in Node, NEW k \in Node, NEW c \in Mined', WellConnected(k)',
                      {m, k} \in setup'.up, miners'[c] = m
               PROVE  Had(k, c)' \/ Sending(m, k, "broadcast", "Blocks", c)'
    BY DEF BlocksSent
  <2>1. "broadcast" \in Way
    BY DEF Way
  <2>2. CASE c \in Mined
    <3>1. Had(k, c) \/ Sending(m, k, "broadcast", "Blocks", c)
      BY <1>1, <1>3, <1>10, <2>2 DEF IInv, BlocksSent
    <3> QED
      BY <1>10, <2>1, <3>1
  <2>3. CASE c = b
    <3>1. m = n
      BY <1>3, <2>3
    <3>2. CASE k = n
      BY <1>4, <2>3, <3>2 DEF Had, Holds
    <3>3. CASE k # n
      <4> DEFINE r == Between(n, k, "broadcast")
      <4>1. r \in Queue /\ r.from = n /\ r.to = k /\ r.way = "broadcast"
        BY <2>1, BetweenIsQueue
      <4>2. {n, k} \in setup.edges
        BY <1>1, <3>1, SetupFacts DEF TInv
      <4>3. k \notin dead /\ {n, k} \notin broken
        BY <1>10, <4>2 DEF WellConnected
      <4>4. Linked(n, k)
        BY <1>1, <3>1, <3>3, <4>3 DEF ClusterOK, LinksOK, Linked
      <4> HIDE DEF r
      <4>5. Goes(r, n, Node, "broadcast")
        BY <4>1, <4>3, <4>4 DEF Goes
      <4>6. Message("Blocks", b) \in ToSet(network'[r])
        BY <1>5, <1>6, <4>1, <4>5
      <4> QED
        BY <2>3, <3>1, <4>6 DEF Sending, r
    <3> QED
      BY <3>2, <3>3
  <2> QED
    BY <1>2, <2>2, <2>3
<1> QED
  BY <1>2, <1>7, <1>8, <1>9, <1>11, <1>12 DEF IInv, ClusterOK

LEMMA InvNext ==
  ASSUME IInv, [Next]_clusterVars
  PROVE  IInv'
<1>1. CASE UNCHANGED clusterVars
  <2>1. /\ setup' = setup /\ parents' = parents /\ miners' = miners /\ blocks' = blocks
        /\ orphans' = orphans /\ parent_block' = parent_block /\ lost' = lost /\ dead' = dead
        /\ links' = links /\ broken' = broken /\ network' = network
    BY <1>1 DEF clusterVars, worldVars, nodeVars, linkVars
  <2>2. Mined' = Mined /\ Block' = Block
    BY <2>1 DEF Mined, Block
  <2>3. TInv'
    BY <2>1, <2>2 DEF IInv, ClusterOK, TInv, TypeOK, WorldOK
  <2>4. ChainsOK' /\ MinedHeld' /\ LinksOK' /\ QueuesOK'
    BY <2>1, <2>2 DEF IInv, ClusterOK, ChainsOK, MinedHeld, LinksOK, QueuesOK, Linked
  <2>5. ParentsAsked' /\ BlocksSent'
    BY <2>1, <2>2 DEF IInv, ParentsAsked, BlocksSent, WellConnected, Had, Holds, Asked,
                      Sending, Linked
  <2> QED
    BY <2>3, <2>4, <2>5 DEF IInv, ClusterOK
<1>2. ASSUME NEW n \in Node, ReadTip(n) \/ Mine(n) PROVE IInv'
  BY <1>2, ReadTipKeeps, MineKeeps
<1>3. CASE HandleSome
  <2>1. PICK q \in Queue, i \in 1 .. setup.workers : Handle(q, i)
    BY <1>3 DEF HandleSome
  <2>2. ClusterOK'
    BY <2>1, HandleCluster DEF IInv
  <2>3. ParentsAsked' /\ BlocksSent'
    BY <2>1, HandleOwed
  <2> QED
    BY <2>2, <2>3 DEF IInv
<1>4. ASSUME NEW e \in setup.edges, ConnectPeers(e) \/ BreakLink(e) PROVE IInv'
  BY <1>4, ConnectKeeps, BreakKeeps
<1> QED
  BY <1>1, <1>2, <1>3, <1>4 DEF Next

-----------------------------------------------------------------------------
(* When the queues are empty nothing is asked for or sent any more.            *)
LEMMA QuietSends ==
  ASSUME Quiet, NEW m \in Node, NEW n \in Node, NEW way \in Way, NEW kind, NEW b
  PROVE  ~Sending(m, n, way, kind, b)
<1>1. network[Between(m, n, way)] = <<>>
  BY BetweenIsQueue DEF Quiet
<1>2. ToSet(<<>>) = {}
  BY DEF ToSet
<1> QED
  BY <1>1, <1>2 DEF Sending

LEMMA QuietMeansArrived ==
  ASSUME IInv
  PROVE  AncestorsArrive /\ NeighbourBlocksArrive
<1>2. AncestorsArrive
  <2> SUFFICES ASSUME Quiet, NEW n \in Node, WellConnected(n), NEW b \in Mined, Holds(n, b)
               PROVE  Holds(n, parents[b]) \/ parents[b] \in lost[n]
    BY DEF AncestorsArrive
  <2>1. ~Asked(n, parents[b])
    BY QuietSends DEF Asked
  <2> QED
    BY <2>1 DEF IInv, ParentsAsked, Had
<1>3. NeighbourBlocksArrive
  <2> SUFFICES ASSUME Quiet, NEW m \in Node, NEW n \in Node, WellConnected(n),
                      {m, n} \in setup.up, NEW b \in Mined, miners[b] = m
               PROVE  Holds(n, b) \/ b \in lost[n]
    BY DEF NeighbourBlocksArrive
  <2>1. ~Sending(m, n, "broadcast", "Blocks", b)
    BY QuietSends DEF Way
  <2> QED
    BY <2>1 DEF IInv, BlocksSent, Had
<1> QED
  BY <1>2, <1>3

(* Every chain, buffer and queue of the cluster has only blocks there are, and *)
(* a connection that broke is not there any more: server.rs:262-264, 165.      *)
THEOREM Cluster_TypeCorrect ==
  Spec => []TypeOK
<1>1. Init => IInv
  BY InvInit
<1>2. IInv /\ [Next]_clusterVars => IInv'
  BY InvNext
<1>3. IInv => TypeOK
  BY DEF IInv, ClusterOK, TInv
<1> QED
  BY <1>1, <1>2, <1>3, PTL DEF Spec

(* worker.rs:90: once the messages are handled, a node whose connections last   *)
(* has the parent of every block it has, or its clean-up removed the parent.    *)
THEOREM Ancestors_Arrive ==
  Spec => []AncestorsArrive
<1>1. Init => IInv
  BY InvInit
<1>2. IInv /\ [Next]_clusterVars => IInv'
  BY InvNext
<1>3. IInv => AncestorsArrive
  BY QuietMeansArrived
<1> QED
  BY <1>1, <1>2, <1>3, PTL DEF Spec

(* miner/worker.rs:52: and it has what its neighbours from the start have mined. *)
THEOREM Neighbour_BlocksArrive ==
  Spec => []NeighbourBlocksArrive
<1>1. Init => IInv
  BY InvInit
<1>2. IInv /\ [Next]_clusterVars => IInv'
  BY InvNext
<1>3. IInv => NeighbourBlocksArrive
  BY QuietMeansArrived
<1> QED
  BY <1>1, <1>2, <1>3, PTL DEF Spec
-----------------------------------------------------------------------------
(* The order of the messages, when one node mines and each has one worker.     *)
Ordered(g) ==
  /\ setup.workers = 1 /\ setup.miners = {g}
  /\ setup.edges = setup.up /\ broken = {} /\ dead = {}

NoOrphans == \A n \in Node : orphans[n] = <<>> /\ lost[n] = {}

(* Only the miner's genesis and the mined blocks are spoken of.  A hash is      *)
(* announced by a node that has the block, but never by the miner, so that the  *)
(* one who is asked for a block has it.                                         *)
Speaks(g, q, msg) ==
  /\ msg.block \in {g} \cup Mined
  /\ msg.kind = "GetBlocks" => q.way = "answer" /\ msg.block \in blocks[q.to]
  /\ msg.kind = "NewBlockHashes" =>
        q.way = "broadcast" /\ q.from # g /\ msg.block \in blocks[q.from]

Spoken(g) ==
  /\ \A n \in Node : blocks[n] \subseteq {n, g} \cup Mined
  /\ \A b \in Mined : parents[b] \in {g} \cup Mined
  /\ \A q \in Queue : \A i \in 1 .. Len(network[q]) : Speaks(g, q, network[q][i])

(* A block c of m is in the chain of n, on its way there or asked for, or its   *)
(* hash is on its way.                                                          *)
Fetched(m, n, c) ==
  \/ c \in blocks[n]
  \/ Sending(m, n, "answer", "Blocks", c)
  \/ Sending(n, m, "answer", "GetBlocks", c)

Covered(m, n, c) == Fetched(m, n, c) \/ Sending(m, n, "broadcast", "NewBlockHashes", c)

AllCovered(g) ==
  \A m, n \in Node : Linked(m, n) /\ m # g =>
     \A c \in blocks[m] \cap ({g} \cup Mined) : Covered(m, n, c)

(* No message about a block comes before one that brings its parent.            *)
Before(q, i, kind, c) == \E j \in 1 .. i - 1 : network[q][j] = Message(kind, c)

InTurn(q, i) ==
  network[q][i].block \in Mined =>
     /\ network[q][i].kind = "Blocks" =>
           \/ parents[network[q][i].block] \in blocks[q.to]
           \/ Before(q, i, "Blocks", parents[network[q][i].block])
     /\ network[q][i].kind = "GetBlocks" =>
           \/ parents[network[q][i].block] \in blocks[q.from]
           \/ Sending(q.to, q.from, "answer", "Blocks", parents[network[q][i].block])
           \/ Before(q, i, "GetBlocks", parents[network[q][i].block])
     /\ network[q][i].kind = "NewBlockHashes" =>
           \/ Fetched(q.from, q.to, parents[network[q][i].block])
           \/ Before(q, i, "NewBlockHashes", parents[network[q][i].block])

AllInTurn == \A q \in Queue : \A i \in 1 .. Len(network[q]) : InTurn(q, i)

InOrder(g) == NoOrphans /\ Spoken(g) /\ AllCovered(g) /\ AllInTurn
OrderInv == \A g \in Node : Ordered(g) => InOrder(g)

(* The first message is taken from some of the queues; the others move up, in   *)
(* their order, and new ones come after them.                                   *)
Off(taken, q) == IF q \in taken THEN 1 ELSE 0
Rest(taken, q) == Len(network[q]) - Off(taken, q)

Shifts(taken) ==
  \A q \in Queue :
     /\ q \in taken => Len(network[q]) > 0
     /\ Rest(taken, q) <= Len(network'[q])
     /\ \A i \in 1 .. Rest(taken, q) : network'[q][i] = network[q][i + Off(taken, q)]

(* What was taken is done with: a block is in the chain, and what was asked for  *)
(* was sent; who hears of a block asks for it.                                  *)
Settled(taken) ==
  \A q \in taken : \A c :
     /\ network[q][1] = Message("Blocks", c) => c \in blocks'[q.to]
     /\ network[q][1] = Message("GetBlocks", c) => Sending(q.to, q.from, "answer", "Blocks", c)'
     /\ network[q][1] = Message("NewBlockHashes", c) =>
           c \in blocks'[q.to] \/ Sending(q.to, q.from, "answer", "GetBlocks", c)'

Moves(taken) ==
  /\ taken \subseteq Queue /\ Shifts(taken) /\ Settled(taken)
  /\ network \in [Queue -> Seq(Msg)] /\ network' \in [Queue -> Seq(Msg')]
  /\ \A n \in Node : blocks[n] \subseteq blocks'[n]

(* A message that was not taken has moved up. *)
LEMMA MovedUp ==
  ASSUME NEW taken, Moves(taken), NEW q \in Queue, NEW i \in 1 .. Len(network[q]),
         ~(q \in taken /\ i = 1)
  PROVE  /\ i - Off(taken, q) \in 1 .. Rest(taken, q)
         /\ i - Off(taken, q) \in 1 .. Len(network'[q])
         /\ network'[q][i - Off(taken, q)] = network[q][i]
<1>1. Len(network[q]) \in Nat /\ Len(network'[q]) \in Nat
  <2>1. network[q] \in Seq(Msg) /\ network'[q] \in Seq(Msg')
    BY DEF Moves
  <2> QED
    BY <2>1
<1>2. Rest(taken, q) <= Len(network'[q])
      /\ \A k \in 1 .. Rest(taken, q) : network'[q][k] = network[q][k + Off(taken, q)]
  BY DEF Moves, Shifts
<1>3. i - Off(taken, q) \in 1 .. Rest(taken, q) /\ i - Off(taken, q) + Off(taken, q) = i
      /\ Rest(taken, q) \in Int
  BY <1>1 DEF Rest, Off
<1>4. network'[q][i - Off(taken, q)] = network[q][i]
  BY <1>2, <1>3
<1> QED
  BY <1>1, <1>2, <1>3, <1>4

LEMMA StillSending ==
  ASSUME NEW taken, Moves(taken), NEW m \in Node, NEW n \in Node, NEW way \in Way,
         NEW kind, NEW c, Sending(m, n, way, kind, c)
  PROVE  \/ Sending(m, n, way, kind, c)'
         \/ Between(m, n, way) \in taken /\ network[Between(m, n, way)][1] = Message(kind, c)
<1>1. PICK r : r = Between(m, n, way)
  OBVIOUS
<1>2. r \in Queue
  BY <1>1, BetweenIsQueue
<1>3. network[r] \in Seq(Msg) /\ network'[r] \in Seq(Msg')
  BY <1>2 DEF Moves
<1>4. DOMAIN network[r] = 1 .. Len(network[r]) /\ DOMAIN network'[r] = 1 .. Len(network'[r])
  BY <1>3
<1>5. PICK i \in 1 .. Len(network[r]) : network[r][i] = Message(kind, c)
  BY <1>1, <1>4 DEF Sending, ToSet
<1>6. CASE r \in taken /\ i = 1
  BY <1>1, <1>5, <1>6
<1>7. CASE ~(r \in taken /\ i = 1)
  <2>1. PICK k \in 1 .. Len(network'[r]) : network'[r][k] = Message(kind, c)
    BY <1>2, <1>5, <1>7, MovedUp
  <2>2. Message(kind, c) \in ToSet(network'[r])
    BY <1>4, <2>1 DEF ToSet
  <2> QED
    BY <1>1, <2>2 DEF Sending
<1> QED
  BY <1>6, <1>7

LEMMA StillFetched ==
  ASSUME NEW taken, Moves(taken), NEW m \in Node, NEW n \in Node, NEW c, Fetched(m, n, c)
  PROVE  Fetched(m, n, c)'
<1>1. "answer" \in Way
  BY DEF Way
<1>2. CASE c \in blocks[n]
  BY <1>2 DEF Moves, Fetched
<1>3. CASE Sending(m, n, "answer", "Blocks", c)
  <2>1. PICK r : r = Between(m, n, "answer") /\ r.to = n
    BY <1>1, BetweenIsQueue
  <2>2. Sending(m, n, "answer", "Blocks", c)' \/ (r \in taken /\ network[r][1] = Message("Blocks", c))
    BY <1>1, <1>3, <2>1, StillSending
  <2>3. r \in taken /\ network[r][1] = Message("Blocks", c) => c \in blocks'[n]
    BY <2>1 DEF Moves, Settled
  <2> QED
    BY <2>2, <2>3 DEF Fetched
<1>4. CASE Sending(n, m, "answer", "GetBlocks", c)
  <2>1. PICK r : r = Between(n, m, "answer") /\ r.to = m /\ r.from = n
    BY <1>1, BetweenIsQueue
  <2>2. Sending(n, m, "answer", "GetBlocks", c)'
        \/ (r \in taken /\ network[r][1] = Message("GetBlocks", c))
    BY <1>1, <1>4, <2>1, StillSending
  <2>3. r \in taken /\ network[r][1] = Message("GetBlocks", c) =>
            Sending(m, n, "answer", "Blocks", c)'
    BY <2>1 DEF Moves, Settled
  <2> QED
    BY <2>2, <2>3 DEF Fetched
<1> QED
  BY <1>2, <1>3, <1>4 DEF Fetched

LEMMA StillCovered ==
  ASSUME NEW taken, Moves(taken), NEW m \in Node, NEW n \in Node, NEW c, Covered(m, n, c)
  PROVE  Covered(m, n, c)'
<1>1. "broadcast" \in Way
  BY DEF Way
<1>2. CASE Fetched(m, n, c)
  BY <1>2, StillFetched DEF Covered
<1>3. CASE Sending(m, n, "broadcast", "NewBlockHashes", c)
  <2>1. PICK r : r = Between(m, n, "broadcast") /\ r.to = n /\ r.from = m
    BY <1>1, BetweenIsQueue
  <2>2. Sending(m, n, "broadcast", "NewBlockHashes", c)'
        \/ (r \in taken /\ network[r][1] = Message("NewBlockHashes", c))
    BY <1>1, <1>3, <2>1, StillSending
  <2>3. r \in taken /\ network[r][1] = Message("NewBlockHashes", c) =>
            c \in blocks'[n] \/ Sending(n, m, "answer", "GetBlocks", c)'
    BY <2>1 DEF Moves, Settled
  <2> QED
    BY <2>2, <2>3 DEF Covered, Fetched
<1> QED
  BY <1>2, <1>3 DEF Covered

(* The messages before it move up as well. *)
LEMMA StillBefore ==
  ASSUME NEW taken, Moves(taken), NEW q \in Queue, NEW i \in 1 .. Len(network[q]),
         NEW kind, NEW c, Before(q, i, kind, c)
  PROVE  \/ Before(q, i - Off(taken, q), kind, c)'
         \/ q \in taken /\ network[q][1] = Message(kind, c)
<1>1. PICK j \in 1 .. i - 1 : network[q][j] = Message(kind, c)
  BY DEF Before
<1>2. Len(network[q]) \in Nat
  <2>1. network[q] \in Seq(Msg)
    BY DEF Moves
  <2> QED
    BY <2>1
<1>3. j \in 1 .. Len(network[q])
  BY <1>1, <1>2
<1>4. CASE q \in taken /\ j = 1
  BY <1>1, <1>4
<1>5. CASE ~(q \in taken /\ j = 1)
  <2>1. j - Off(taken, q) \in 1 .. Rest(taken, q)
        /\ network'[q][j - Off(taken, q)] = network[q][j]
    BY <1>3, <1>5, MovedUp
  <2>2. j - Off(taken, q) \in 1 .. (i - Off(taken, q)) - 1
    BY <1>1, <1>2, <2>1 DEF Off
  <2>3. PICK d : d = i - Off(taken, q)
    OBVIOUS
  <2>4. \E k \in 1 .. d - 1 : network'[q][k] = Message(kind, c)
    BY <1>1, <2>1, <2>2, <2>3
  <2>5. Before(q, d, kind, c)'
    BY <2>4 DEF Before
  <2> QED
    BY <2>3, <2>5 DEF Before
<1> QED
  BY <1>4, <1>5

(* And its parent still comes before it, or has come. *)
LEMMA StillInTurn ==
  ASSUME NEW taken, Moves(taken), NEW q \in Queue, NEW i \in 1 .. Len(network[q]),
         ~(q \in taken /\ i = 1), InTurn(q, i),
         network[q][i].block \in Mined' => /\ network[q][i].block \in Mined
                                           /\ parents'[network[q][i].block] = parents[network[q][i].block]
  PROVE  InTurn(q, i - Off(taken, q))'
<1>1. PICK d : d = i - Off(taken, q)
  OBVIOUS
<1>2. PICK msg : msg = network[q][i]
  OBVIOUS
<1>3. network'[q][d] = msg
  BY <1>1, <1>2, MovedUp
<1>4. PICK p : p = parents[msg.block]
  OBVIOUS
<1>5. SUFFICES ASSUME msg.block \in Mined'
               PROVE  /\ msg.kind = "Blocks" => p \in blocks'[q.to] \/ Before(q, d, "Blocks", p)'
                      /\ msg.kind = "GetBlocks" =>
                            \/ p \in blocks'[q.from]
                            \/ Sending(q.to, q.from, "answer", "Blocks", p)'
                            \/ Before(q, d, "GetBlocks", p)'
                      /\ msg.kind = "NewBlockHashes" =>
                            Fetched(q.from, q.to, p)' \/ Before(q, d, "NewBlockHashes", p)'
  <2>1. msg.block \in Mined' => parents'[msg.block] = p
    BY <1>2, <1>4
  <2> SUFFICES InTurn(q, d)'
    BY <1>1
  <2> QED
    BY <1>3, <1>5, <2>1 DEF InTurn
<1>6. msg.block \in Mined
  BY <1>2, <1>5
<1>7. q.from \in Node /\ q.to \in Node /\ "answer" \in Way
  BY DEF Queue, Way
<1>8. \A kind : Before(q, i, kind, p) =>
        Before(q, d, kind, p)' \/ (q \in taken /\ network[q][1] = Message(kind, p))
  BY <1>1, StillBefore
<1>9. CASE msg.kind = "Blocks"
  <2>1. p \in blocks[q.to] \/ Before(q, i, "Blocks", p)
    BY <1>2, <1>4, <1>6, <1>9 DEF InTurn
  <2>2. q \in taken /\ network[q][1] = Message("Blocks", p) => p \in blocks'[q.to]
    BY DEF Moves, Settled
  <2>3. p \in blocks[q.to] => p \in blocks'[q.to]
    BY <1>7 DEF Moves
  <2> QED
    BY <1>8, <1>9, <2>1, <2>2, <2>3
<1>10. CASE msg.kind = "GetBlocks"
  <2>1. \/ p \in blocks[q.from]
        \/ Sending(q.to, q.from, "answer", "Blocks", p)
        \/ Before(q, i, "GetBlocks", p)
    BY <1>2, <1>4, <1>6, <1>10 DEF InTurn
  <2>2. q \in taken /\ network[q][1] = Message("GetBlocks", p) =>
            Sending(q.to, q.from, "answer", "Blocks", p)'
    BY DEF Moves, Settled
  <2>3. p \in blocks[q.from] => p \in blocks'[q.from]
    BY <1>7 DEF Moves
  <2>4. Sending(q.to, q.from, "answer", "Blocks", p) =>
            Sending(q.to, q.from, "answer", "Blocks", p)' \/ p \in blocks'[q.from]
    <3>1. PICK r : r = Between(q.to, q.from, "answer") /\ r.to = q.from
      BY <1>7, BetweenIsQueue
    <3>2. r \in taken /\ network[r][1] = Message("Blocks", p) => p \in blocks'[q.from]
      BY <3>1 DEF Moves, Settled
    <3> QED
      BY <1>7, <3>1, <3>2, StillSending
  <2> QED
    BY <1>8, <1>10, <2>1, <2>2, <2>3, <2>4
<1>11. CASE msg.kind = "NewBlockHashes"
  <2>1. Fetched(q.from, q.to, p) \/ Before(q, i, "NewBlockHashes", p)
    BY <1>2, <1>4, <1>6, <1>11 DEF InTurn
  <2>2. q \in taken /\ network[q][1] = Message("NewBlockHashes", p) => Fetched(q.from, q.to, p)'
    BY DEF Moves, Settled, Fetched
  <2>3. Fetched(q.from, q.to, p) => Fetched(q.from, q.to, p)'
    BY <1>7, StillFetched
  <2> QED
    BY <1>8, <1>11, <2>1, <2>2, <2>3
<1> QED
  BY <1>9, <1>10, <1>11

(* What is new: blocks of chains, messages and mined blocks. *)
NewInOrder(g, taken) ==
  /\ \A n \in Node : blocks'[n] \ blocks[n] \subseteq ({g} \cup Mined)'
  /\ \A m, n \in Node : Linked(m, n)' /\ m # g =>
        \A c \in blocks'[m] \ blocks[m] : Covered(m, n, c)'
  /\ \A q \in Queue : \A i \in 1 .. Len(network'[q]) : i > Rest(taken, q) =>
        Speaks(g, q, network[q][i])' /\ InTurn(q, i)'
  /\ Mined \subseteq Mined' /\ Mined' \cap Block \subseteq Mined
  /\ \A b \in Mined : parents'[b] = parents[b]
  /\ \A b \in Mined' \ Mined : parents'[b] \in ({g} \cup Mined)'

(* If that is in order, everything stays so. *)
LEMMA StillInOrder ==
  ASSUME TInv, NEW g \in Node, InOrder(g), NEW taken, Moves(taken), NewInOrder(g, taken),
         links' = links, NoOrphans'
  PROVE  InOrder(g)'
<1>1. /\ Mined \subseteq Mined' /\ Mined' \cap Block \subseteq Mined
      /\ \A n \in Node : blocks[n] \subseteq blocks'[n] /\ blocks[n] \subseteq Block
  BY DEF NewInOrder, Moves, TInv, TypeOK
<1>2. \A m, n : Linked(m, n)' = Linked(m, n)
  BY DEF Linked
<1>3. ASSUME NEW q \in Queue, NEW i \in 1 .. Len(network'[q]), ~(i > Rest(taken, q))
      PROVE  /\ i + Off(taken, q) \in 1 .. Len(network[q])
             /\ ~(q \in taken /\ i + Off(taken, q) = 1)
             /\ network'[q][i] = network[q][i + Off(taken, q)]
             /\ i = (i + Off(taken, q)) - Off(taken, q)
  <2>1. Len(network[q]) \in Nat /\ Len(network'[q]) \in Nat
    <3>1. network[q] \in Seq(Msg) /\ network'[q] \in Seq(Msg')
      BY DEF Moves
    <3> QED
      BY <3>1
  <2>4. Rest(taken, q) \in Int /\ Rest(taken, q) = Len(network[q]) - Off(taken, q)
        /\ Off(taken, q) \in {0, 1} /\ (q \in taken => Off(taken, q) = 1)
    BY <2>1 DEF Rest, Off
  <2>5. i \in Nat /\ i >= 1
    BY <2>1
  <2>2. i \in 1 .. Rest(taken, q)
    BY <1>3, <2>4, <2>5
  <2>3. network'[q][i] = network[q][i + Off(taken, q)]
    BY <2>2 DEF Moves, Shifts
  <2> QED
    BY <2>1, <2>2, <2>3, <2>4
<1>4. Spoken(g)'
  <2>1. \A n \in Node : blocks'[n] \subseteq {n, g} \cup Mined'
    BY <1>1 DEF InOrder, Spoken, NewInOrder
  <2>2. \A b \in Mined' : parents'[b] \in {g} \cup Mined'
    BY <1>1 DEF InOrder, Spoken, NewInOrder
  <2>3. ASSUME NEW q \in Queue, NEW i \in 1 .. Len(network'[q]) PROVE Speaks(g, q, network[q][i])'
    <3>1. CASE i > Rest(taken, q)
      BY <3>1 DEF NewInOrder
    <3>2. CASE ~(i > Rest(taken, q))
      <4>1. PICK j \in 1 .. Len(network[q]) : network'[q][i] = network[q][j]
        BY <1>3, <3>2
      <4>2. PICK msg : msg = network[q][j]
        OBVIOUS
      <4>3. Speaks(g, q, msg)
        BY <4>2 DEF InOrder, Spoken
      <4>4. q.from \in Node /\ q.to \in Node
        BY DEF Queue
      <4>5. Speaks(g, q, msg)'
        BY <1>1, <4>3, <4>4 DEF Speaks
      <4> QED
        BY <4>1, <4>2, <4>5
    <3> QED
      BY <3>1, <3>2
  <2> QED
    BY <2>1, <2>2, <2>3 DEF Spoken
<1>5. AllCovered(g)'
  <2> SUFFICES ASSUME NEW m \in Node, NEW n \in Node, Linked(m, n)', m # g,
                      NEW c \in blocks'[m], c \in {g} \cup Mined'
               PROVE  Covered(m, n, c)'
    BY DEF AllCovered
  <2>1. CASE c \in blocks[m]
    <3>1. c \in {g} \cup Mined /\ Linked(m, n)
      BY <1>1, <1>2, <2>1
    <3>2. Covered(m, n, c)
      BY <2>1, <3>1 DEF InOrder, AllCovered
    <3> QED
      BY <3>2, StillCovered
  <2>2. CASE c \notin blocks[m]
    BY <2>2 DEF NewInOrder
  <2> QED
    BY <2>1, <2>2
<1>6. AllInTurn'
  <2> SUFFICES ASSUME NEW q \in Queue, NEW i \in 1 .. Len(network'[q]) PROVE InTurn(q, i)'
    BY DEF AllInTurn
  <2>1. CASE i > Rest(taken, q)
    BY <2>1 DEF NewInOrder
  <2>2. CASE ~(i > Rest(taken, q))
    <3>1. PICK j : j = i + Off(taken, q)
      OBVIOUS
    <3>2. /\ j \in 1 .. Len(network[q]) /\ ~(q \in taken /\ j = 1)
          /\ i = j - Off(taken, q)
      BY <1>3, <2>2, <3>1
    <3>3. InTurn(q, j)
      BY <3>2 DEF InOrder, AllInTurn
    <3>4. network[q][j].block \in Block
      <4>1. network[q] \in Seq(Msg)
        BY DEF Moves
      <4>2. network[q][j] \in Msg
        BY <3>2, <4>1
      <4> QED
        BY <4>2 DEF Msg
    <3>5. network[q][j].block \in Mined' => /\ network[q][j].block \in Mined
                                            /\ parents'[network[q][j].block] = parents[network[q][j].block]
      BY <1>1, <3>4 DEF NewInOrder
    <3>6. InTurn(q, j - Off(taken, q))'
      BY <3>2, <3>3, <3>5, StillInTurn
    <3> QED
      BY <3>2, <3>6
  <2> QED
    BY <2>1, <2>2
<1> QED
  BY <1>4, <1>5, <1>6 DEF InOrder

(* A message posted now comes after those that stay in its queue. *)
LEMMA PostedAfter ==
  ASSUME NEW taken, Moves(taken), NEW q \in Queue, NEW kind, NEW c,
         Message(kind, c) \in ToSet(network[q]),
         q \in taken => network[q][1] # Message(kind, c),
         NEW d \in Int, d > Rest(taken, q)
  PROVE  Before(q, d, kind, c)'
<1>1. network[q] \in Seq(Msg)
  BY DEF Moves
<1>2. PICK i \in 1 .. Len(network[q]) : network[q][i] = Message(kind, c)
  BY <1>1 DEF ToSet
<1>3. i - Off(taken, q) \in 1 .. Rest(taken, q)
      /\ network'[q][i - Off(taken, q)] = network[q][i]
  BY <1>2, MovedUp
<1>4. Rest(taken, q) \in Int
  <2>1. Len(network[q]) \in Nat
    BY <1>1
  <2> QED
    BY <2>1 DEF Rest, Off
<1>5. i - Off(taken, q) \in 1 .. d - 1
  BY <1>3, <1>4
<1>6. \E k \in 1 .. d - 1 : network'[q][k] = Message(kind, c)
  BY <1>2, <1>3, <1>5
<1> QED
  BY <1>6 DEF Before

(* The one worker takes the first message and a message x may be posted to some *)
(* queues.                                                                      *)
Posts(q, G, x) ==
  \A r \in Queue : network'[r] = IF r \in G THEN Taken(q, 1)[r] \o <<x>> ELSE Taken(q, 1)[r]

(* What that makes of a queue r. *)
After(q, G, x, r, new) ==
  /\ r = q => Len(network[r]) > 0
  /\ Rest({q}, r) \in Nat
  /\ \A i \in 1 .. Rest({q}, r) : new[i] = network[r][i + Off({q}, r)]
  /\ r \notin G => Len(new) = Rest({q}, r)
  /\ r \in G => /\ Len(new) = Rest({q}, r) + 1
                /\ new[Rest({q}, r) + 1] = x
                /\ x \in ToSet(new)

LEMMA PostsFacts ==
  ASSUME TInv, setup.workers = 1, NEW q \in Queue, NEW kind, Take(q, 1, kind),
         NEW G, NEW x \in Msg, Posts(q, G, x), NEW r \in Queue,
         NEW new, new = network'[r]
  PROVE  After(q, G, x, r, new)
<1>1. 1 \in 1 .. setup.workers
  OBVIOUS
<1>2. network \in [Queue -> Seq(Msg)]
  BY DEF TInv, TypeOK, Msg
<1>3. 1 \in 1 .. Len(network[q]) /\ network[q] \in Seq(Msg)
  BY <1>1, <1>2, TakeFacts
<1>4. PICK s : s = network[r]
  OBVIOUS
<1>5. s \in Seq(Msg) /\ Len(s) \in Nat
  <2>1. s \in Seq(Msg)
    BY <1>2, <1>4
  <2> QED
    BY <2>1
<1>6. PICK t : t = Taken(q, 1)[r]
  OBVIOUS
<1>7. /\ t \in Seq(Msg) /\ Len(t) = Rest({q}, r) /\ (r = q => Len(s) > 0)
      /\ \A i \in 1 .. Rest({q}, r) : t[i] = s[i + Off({q}, r)]
  <2>1. CASE r = q
    <3>1. t = RemoveAt(s, 1)
      BY <1>2, <1>4, <1>6, <2>1 DEF Taken
    <3>2. /\ RemoveAt(s, 1) \in Seq(Msg) /\ Len(RemoveAt(s, 1)) = Len(s) - 1
          /\ \A k \in 1 .. Len(s) - 1 : RemoveAt(s, 1)[k] = IF k < 1 THEN s[k] ELSE s[k + 1]
      <4>1. 1 \in 1 .. Len(s)
        BY <1>3, <1>4, <2>1
      <4> QED
        BY <1>5, <4>1, RemoveAtSeq
    <3>3. Off({q}, r) = 1 /\ Rest({q}, r) = Len(s) - 1 /\ Len(s) > 0
      BY <1>3, <1>4, <1>5, <2>1 DEF Off, Rest
    <3>4. \A k \in 1 .. Len(s) - 1 : RemoveAt(s, 1)[k] = s[k + 1]
      BY <1>5, <3>2
    <3> QED
      BY <3>1, <3>2, <3>3, <3>4
  <2>2. CASE r # q
    <3>1. t = s
      BY <1>2, <1>4, <1>6, <2>2 DEF Taken
    <3>2. Off({q}, r) = 0 /\ Rest({q}, r) = Len(s)
      BY <1>4, <1>5, <2>2 DEF Off, Rest
    <3>3. \A i \in 1 .. Len(s) : i + 0 = i
      BY <1>5
    <3>4. \A i \in 1 .. Rest({q}, r) : t[i] = s[i + Off({q}, r)]
      BY <3>1, <3>2, <3>3
    <3> QED
      BY <1>5, <2>2, <3>1, <3>2, <3>4
  <2> QED
    BY <2>1, <2>2
<1>8. Rest({q}, r) \in Nat
  BY <1>7
<1>9. CASE r \notin G
  <2>1. new = t
    BY <1>6, <1>9 DEF Posts
  <2> QED
    BY <1>4, <1>7, <1>8, <1>9, <2>1 DEF After
<1>10. CASE r \in G
  <2>1. network'[r] = t \o <<x>>
    BY <1>6, <1>10 DEF Posts
  <2>2. PICK u : u = t \o <<x>>
    OBVIOUS
  <2>3. /\ Len(u) = Len(t) + 1 /\ u[Len(t) + 1] = x /\ u \in Seq(Msg)
        /\ \A i \in 1 .. Len(t) : u[i] = t[i]
    <3>1. t \in Seq(Msg) /\ <<x>> \in Seq(Msg) /\ Len(<<x>>) = 1 /\ <<x>>[1] = x
      BY <1>7
    <3>2. t \o <<x>> \in Seq(Msg)
      BY <3>1
    <3>3. Len(t \o <<x>>) = Len(t) + 1
      BY <3>1
    <3>4. (t \o <<x>>)[Len(t) + 1] = x
      BY <3>1
    <3>5. \A i \in 1 .. Len(t) : (t \o <<x>>)[i] = t[i]
      BY <3>1
    <3> QED
      BY <2>2, <3>2, <3>3, <3>4, <3>5
  <2>4. x \in ToSet(u)
    <3>1. DOMAIN u = 1 .. Len(t) + 1 /\ Len(t) \in Nat
      BY <1>7, <2>3
    <3> QED
      BY <2>3, <3>1 DEF ToSet
  <2>5. new = u
    BY <2>1, <2>2
  <2> QED
    BY <1>4, <1>7, <1>8, <1>10, <2>3, <2>4, <2>5 DEF After
<1> QED
  BY <1>9, <1>10

LEMMA PostsNew ==
  ASSUME TInv, setup.workers = 1, NEW q \in Queue, NEW kind, Take(q, 1, kind),
         NEW G, NEW x \in Msg, Posts(q, G, x), NEW r \in Queue,
         NEW i \in 1 .. Len(network'[r]), i > Rest({q}, r)
  PROVE  r \in G /\ i = Rest({q}, r) + 1 /\ network'[r][i] = x /\ i \in Nat
<1>1. PICK s : s = network'[r]
  OBVIOUS
<1>2. /\ Rest({q}, r) \in Nat
      /\ r \notin G => Len(s) = Rest({q}, r)
      /\ r \in G => Len(s) = Rest({q}, r) + 1 /\ s[Rest({q}, r) + 1] = x
  <2>1. After(q, G, x, r, s)
    BY <1>1, PostsFacts
  <2> QED
    BY <2>1 DEF After
<1>3. i \in 1 .. Len(s)
  BY <1>1
<1>4. r \in G /\ i = Rest({q}, r) + 1 /\ i \in Nat
  BY <1>2, <1>3
<1>5. s[i] = x
  BY <1>2, <1>4
<1> QED
  BY <1>1, <1>4, <1>5

LEMMA PostsShift ==
  ASSUME TInv, setup.workers = 1, NEW q \in Queue, NEW kind, Take(q, 1, kind),
         NEW G, NEW x \in Msg, Posts(q, G, x)
  PROVE  Shifts({q})
<1> SUFFICES ASSUME NEW r \in Queue
             PROVE  /\ r \in {q} => Len(network[r]) > 0
                    /\ Rest({q}, r) <= Len(network'[r])
                    /\ \A i \in 1 .. Rest({q}, r) : network'[r][i] = network[r][i + Off({q}, r)]
  BY DEF Shifts
<1>1. PICK new : new = network'[r]
  OBVIOUS
<1>2. /\ r = q => Len(network[r]) > 0
      /\ Rest({q}, r) \in Nat
      /\ r \notin G => Len(new) = Rest({q}, r)
      /\ r \in G => Len(new) = Rest({q}, r) + 1 /\ new[Rest({q}, r) + 1] = x
      /\ \A i \in 1 .. Rest({q}, r) : new[i] = network[r][i + Off({q}, r)]
  <2>1. After(q, G, x, r, new)
    BY <1>1, PostsFacts
  <2> QED
    BY <2>1 DEF After
<1>3. Rest({q}, r) <= Len(new)
  BY <1>2
<1> QED
  BY <1>1, <1>2, <1>3

LEMMA PostsMoves ==
  ASSUME TInv, TInv', setup.workers = 1, NEW q \in Queue, NEW kind, Take(q, 1, kind),
         NEW G, NEW x \in Msg, Posts(q, G, x), Settled({q}),
         \A n \in Node : blocks[n] \subseteq blocks'[n]
  PROVE  Moves({q})
<1>1. Shifts({q})
  BY PostsShift
<1>2. network \in [Queue -> Seq(Msg)] /\ network' \in [Queue -> Seq(Msg')]
  BY DEF TInv, TypeOK, Msg
<1> QED
  BY <1>1, <1>2 DEF Moves

(* What is new then. *)
NewByPost(g, q, G, x) ==
  /\ \A n \in Node : blocks[n] \subseteq blocks'[n] /\ blocks'[n] \ blocks[n] \subseteq {g} \cup Mined
  /\ \A m, n \in Node : Linked(m, n) /\ m # g =>
        \A c \in blocks'[m] \ blocks[m] : Covered(m, n, c)'
  /\ \A r \in Queue : r \in G =>
        Speaks(g, r, x)' /\ \A d \in Nat : d = Rest({q}, r) + 1 => InTurn(r, d)'

LEMMA PostsInOrder ==
  ASSUME TInv, TInv', setup.workers = 1, NEW g \in Node, InOrder(g),
         NEW q \in Queue, NEW kind, Take(q, 1, kind),
         NEW G, NEW x \in Msg, Posts(q, G, x), Settled({q}),
         parents' = parents, links' = links, NoOrphans', NewByPost(g, q, G, x)
  PROVE  InOrder(g)'
<1>1. Moves({q})
  <2>1. \A n \in Node : blocks[n] \subseteq blocks'[n]
    BY DEF NewByPost
  <2> QED
    BY <2>1, PostsMoves
<1>2. Mined' = Mined /\ \A m, n : Linked(m, n)' = Linked(m, n)
  BY DEF Mined, Linked
<1>3. ASSUME NEW r \in Queue, NEW i \in 1 .. Len(network'[r]), i > Rest({q}, r)
      PROVE  Speaks(g, r, network[r][i])' /\ InTurn(r, i)'
  <2>1. r \in G /\ i = Rest({q}, r) + 1 /\ network'[r][i] = x /\ i \in Nat
    BY <1>3, PostsNew
  <2>2. Speaks(g, r, x)' /\ InTurn(r, i)'
    BY <2>1 DEF NewByPost
  <2> QED
    BY <2>1, <2>2
<1>4. NewInOrder(g, {q})
  BY <1>2, <1>3 DEF NewInOrder, NewByPost
<1> QED
  BY <1>1, <1>4, StillInOrder

LEMMA PostsSends ==
  ASSUME TInv, setup.workers = 1, NEW q \in Queue, NEW kind, Take(q, 1, kind),
         NEW G, NEW x \in Msg, Posts(q, G, x), NEW r \in Queue, r \in G
  PROVE  x \in ToSet(network'[r])
<1>1. PICK new : new = network'[r]
  OBVIOUS
<1>2. After(q, G, x, r, new)
  BY <1>1, PostsFacts
<1> QED
  BY <1>1, <1>2 DEF After

(* Post and Taken, said in that way. *)
LEMMA PostIsPosts ==
  ASSUME NEW q, NEW n, NEW to, NEW way, NEW x,
         network' = Post(Taken(q, 1), n, to, way, <<x>>)
  PROVE  Posts(q, {r \in Queue : Goes(r, n, to, way)}, x)
BY DEF Post, Posts, Goes

LEMMA TakenIsPosts ==
  ASSUME NEW q, NEW x, network' = Taken(q, 1)
  PROVE  Posts(q, {}, x)
BY DEF Posts

(* What an ordered cluster knows of the message that is handled. *)
LEMMA OrderedFacts ==
  ASSUME IInv, NEW g \in Node, Ordered(g), InOrder(g), NEW q \in Queue,
         NEW kind, Take(q, 1, kind)
  PROVE  /\ TInv /\ ClusterOK /\ setup.workers = 1 /\ 1 \in 1 .. setup.workers /\ dead = {}
         /\ q.from \in Node /\ q.to \in Node /\ Linked(q.from, q.to)
         /\ network[q][1] = Message(kind, BlockOf(q, 1)) /\ network[q][1] \in Msg
         /\ Message(kind, BlockOf(q, 1)).kind = kind
         /\ Message(kind, BlockOf(q, 1)).block = BlockOf(q, 1)
         /\ Speaks(g, q, network[q][1]) /\ InTurn(q, 1) /\ BlockOf(q, 1) \in {g} \cup Mined
         /\ BlockOf(q, 1) \in Block
         /\ \A k, c : ~Before(q, 1, k, c)
         /\ {g} \cup Mined \subseteq blocks[g]
<1>1. TInv /\ ClusterOK /\ setup.workers = 1 /\ 1 \in 1 .. setup.workers /\ dead = {}
  BY DEF IInv, ClusterOK, Ordered
<1>2. /\ 1 \in 1 .. Len(network[q]) /\ BlockOf(q, 1) \in Block
      /\ network[q][1] = Message(kind, BlockOf(q, 1))
      /\ network[q][1] \in Msg /\ network[q][1] \in ToSet(network[q])
      /\ q.from \in Node /\ q.to \in Node
  BY <1>1, TakeFacts
<1>3. Linked(q.from, q.to)
  BY <1>1, <1>2 DEF ClusterOK, QueuesOK
<1>4. Speaks(g, q, network[q][1]) /\ InTurn(q, 1)
  BY <1>2 DEF InOrder, Spoken, AllInTurn
<1>5. Message(kind, BlockOf(q, 1)).kind = kind /\ Message(kind, BlockOf(q, 1)).block = BlockOf(q, 1)
  BY DEF Message
<1>6. BlockOf(q, 1) \in {g} \cup Mined
  BY <1>4 DEF Speaks, BlockOf
<1>7. \A k, c : ~Before(q, 1, k, c)
  BY DEF Before
<1>8. {g} \cup Mined \subseteq blocks[g]
  <2>1. g \in blocks[g]
    BY <1>1 DEF ClusterOK, ChainsOK
  <2>2. ASSUME NEW b \in Mined PROVE b \in blocks[g]
    <3>1. miners[b] \in Node /\ b \in blocks[miners[b]]
      BY <1>1 DEF ClusterOK, MinedHeld
    <3>2. miners[b] \in setup.miners
      BY <1>1 DEF TInv, TypeOK, Mined
    <3> QED
      BY <3>1, <3>2 DEF Ordered
  <2> QED
    BY <2>1, <2>2
<1> QED
  BY <1>1, <1>2, <1>3, <1>4, <1>5, <1>6, <1>7, <1>8

(* The answer to the message goes to one queue. *)
LEMMA AnswerQueue ==
  ASSUME NEW q \in Queue, Linked(q.from, q.to), dead = {},
         NEW a, a = Between(q.to, q.from, "answer")
  PROVE  /\ a \in Queue /\ a.from = q.to /\ a.to = q.from /\ a.way = "answer" /\ a # q
         /\ Goes(a, q.to, {q.from}, "answer")
         /\ \A r \in Queue : Goes(r, q.to, {q.from}, "answer") => r = a
<1>1. "answer" \in Way /\ q.from \in Node /\ q.to \in Node
  BY DEF Way, Queue
<1>2. a \in Queue /\ a.from = q.to /\ a.to = q.from /\ a.way = "answer"
  BY <1>1, BetweenIsQueue
<1>3. q.from # q.to
  BY DEF Linked
<1>4. Linked(q.to, q.from)
  BY LinkedBothWays
<1>5. \A r \in Queue : Goes(r, q.to, {q.from}, "answer") => r = a
  BY DEF Queue, Goes, Between
<1> QED
  BY <1>2, <1>3, <1>4, <1>5 DEF Goes

(* The handlers that leave the node as it is. *)
LEMMA QuietFrame ==
  ASSUME UNCHANGED <<setup, worldVars, nodeVars, linkVars>>, NEW g, InOrder(g)
  PROVE  /\ setup' = setup /\ parents' = parents /\ links' = links /\ blocks' = blocks
         /\ dead' = dead /\ broken' = broken /\ Mined' = Mined /\ NoOrphans'
BY DEF worldVars, nodeVars, linkVars, InOrder, NoOrphans, Mined

LEMMA KnownInOrder ==
  ASSUME IInv, IInv', NEW g \in Node, Ordered(g), InOrder(g), NEW q \in Queue, HandleKnown(q, 1)
  PROVE  InOrder(g)'
<1>1. Take(q, 1, "Blocks") /\ network' = Taken(q, 1) /\ BlockOf(q, 1) \in blocks[q.to]
      /\ UNCHANGED <<setup, worldVars, nodeVars, linkVars>>
  BY DEF HandleKnown
<1>2. /\ TInv /\ setup.workers = 1 /\ network[q][1] = Message("Blocks", BlockOf(q, 1))
      /\ network[q][1] \in Msg
  BY <1>1, OrderedFacts
<1>3. parents' = parents /\ links' = links /\ blocks' = blocks /\ NoOrphans'
  BY <1>1, QuietFrame
<1>4. PICK x : x = network[q][1]
  OBVIOUS
<1>5. x \in Msg /\ Posts(q, {}, x)
  BY <1>1, <1>2, <1>4, TakenIsPosts
<1>6. Settled({q})
  BY <1>1, <1>2, <1>3, MessagesDiffer DEF Settled
<1>7. NewByPost(g, q, {}, x)
  BY <1>3 DEF NewByPost
<1>8. TInv'
  BY DEF IInv, ClusterOK
<1> QED
  BY <1>1, <1>2, <1>3, <1>5, <1>6, <1>7, <1>8, PostsInOrder

(* Who is asked for a block has it, and the asker its parent: worker.rs:72-82. *)
LEMMA GetBlocksInOrder ==
  ASSUME IInv, IInv', NEW g \in Node, Ordered(g), InOrder(g), NEW q \in Queue, HandleGetBlocks(q, 1)
  PROVE  InOrder(g)'
<1>1. PICK b : b = BlockOf(q, 1)
  OBVIOUS
<1>2. /\ Take(q, 1, "GetBlocks") /\ UNCHANGED <<setup, worldVars, nodeVars, linkVars>>
      /\ b \in blocks[q.to] => network' = Post(Taken(q, 1), q.to, {q.from}, "answer",
                                               <<Message("Blocks", b)>>)
  BY <1>1 DEF HandleGetBlocks
<1>3. /\ TInv /\ setup.workers = 1 /\ dead = {} /\ Linked(q.from, q.to)
      /\ network[q][1] = Message("GetBlocks", b) /\ Message("GetBlocks", b).kind = "GetBlocks"
      /\ Message("GetBlocks", b).block = b
      /\ Speaks(g, q, network[q][1]) /\ InTurn(q, 1) /\ \A k, c : ~Before(q, 1, k, c)
      /\ b \in {g} \cup Mined /\ b \in Block /\ q.from \in Node /\ q.to \in Node
  BY <1>1, <1>2, OrderedFacts
<1>4. /\ parents' = parents /\ links' = links /\ blocks' = blocks /\ Mined' = Mined /\ NoOrphans'
  BY <1>2, QuietFrame
<1>5. b \in blocks[q.to]
  BY <1>3 DEF Speaks
<1>6. PICK x : x = Message("Blocks", b)
  OBVIOUS
<1>7. x \in Msg /\ x.kind = "Blocks" /\ x.block = b
  BY <1>3, <1>6, MessageTyped
<1>8. PICK a : a = Between(q.to, q.from, "answer")
  OBVIOUS
<1>9. /\ a \in Queue /\ a.from = q.to /\ a.to = q.from /\ a.way = "answer" /\ a # q
      /\ Goes(a, q.to, {q.from}, "answer")
      /\ \A r \in Queue : Goes(r, q.to, {q.from}, "answer") => r = a
  BY <1>3, <1>8, AnswerQueue
<1>10. PICK G : G = {r \in Queue : Goes(r, q.to, {q.from}, "answer")}
  OBVIOUS
<1>11. G = {a}
  BY <1>9, <1>10
<1>12. Posts(q, G, x)
  BY <1>2, <1>5, <1>6, <1>10, PostIsPosts
<1>13. x \in ToSet(network'[a])
  BY <1>2, <1>3, <1>7, <1>9, <1>11, <1>12, PostsSends
<1>14. Settled({q})
  <2>1. Sending(q.to, q.from, "answer", "Blocks", b)'
    BY <1>6, <1>8, <1>13 DEF Sending
  <2> QED
    BY <1>3, <2>1, MessagesDiffer DEF Settled
<1>15. TInv'
  BY DEF IInv, ClusterOK
<1>16. Moves({q})
  BY <1>2, <1>3, <1>4, <1>7, <1>12, <1>14, <1>15, PostsMoves
<1>17. Speaks(g, a, x)'
  BY <1>3, <1>4, <1>7 DEF Speaks
<1>18. ASSUME NEW d \in Nat, d = Rest({q}, a) + 1 PROVE InTurn(a, d)'
  <2>1. PICK s : s = network'[a]
    OBVIOUS
  <2>2. s[d] = x
    <3>1. After(q, G, x, a, s)
      BY <1>2, <1>3, <1>7, <1>9, <1>12, <2>1, PostsFacts
    <3> QED
      BY <1>11, <1>18, <3>1 DEF After
  <2>3. PICK p : p = parents[b]
    OBVIOUS
  <2>4. b \in Mined => p \in blocks'[a.to] \/ Before(a, d, "Blocks", p)'
    <3> SUFFICES ASSUME b \in Mined, p \notin blocks[q.from]
                 PROVE  Before(a, d, "Blocks", p)'
      BY <1>4, <1>9
    <3>1. Sending(q.to, q.from, "answer", "Blocks", p)
      BY <1>3, <2>3 DEF InTurn
    <3>2. Message("Blocks", p) \in ToSet(network[a])
      BY <1>8, <3>1 DEF Sending
    <3>3. d \in Int /\ d > Rest({q}, a)
      <4>1. After(q, G, x, a, s)
        BY <1>2, <1>3, <1>7, <1>9, <1>12, <2>1, PostsFacts
      <4> QED
        BY <1>18, <4>1 DEF After
    <3> QED
      BY <1>9, <1>16, <3>2, <3>3, PostedAfter
  <2> QED
    BY <1>4, <1>7, <2>1, <2>2, <2>3, <2>4 DEF InTurn
<1>19. NewByPost(g, q, G, x)
  BY <1>4, <1>11, <1>17, <1>18 DEF NewByPost
<1> QED
  BY <1>2, <1>3, <1>4, <1>7, <1>12, <1>14, <1>15, <1>19, PostsInOrder

(* A block is asked for after its parent: worker.rs:60-70. *)
LEMMA NewBlockHashesInOrder ==
  ASSUME IInv, IInv', NEW g \in Node, Ordered(g), InOrder(g), NEW q \in Queue,
         HandleNewBlockHashes(q, 1)
  PROVE  InOrder(g)'
<1>1. PICK b : b = BlockOf(q, 1)
  OBVIOUS
<1>2. /\ Take(q, 1, "NewBlockHashes") /\ UNCHANGED <<setup, worldVars, nodeVars, linkVars>>
      /\ b \in blocks[q.to] => network' = Taken(q, 1)
      /\ b \notin blocks[q.to] => network' = Post(Taken(q, 1), q.to, {q.from}, "answer",
                                                  <<Message("GetBlocks", b)>>)
  BY <1>1 DEF HandleNewBlockHashes
<1>3. /\ TInv /\ setup.workers = 1 /\ dead = {} /\ Linked(q.from, q.to)
      /\ network[q][1] = Message("NewBlockHashes", b) /\ network[q][1] \in Msg
      /\ Message("NewBlockHashes", b).kind = "NewBlockHashes"
      /\ Message("NewBlockHashes", b).block = b
      /\ Speaks(g, q, network[q][1]) /\ InTurn(q, 1) /\ \A k, c : ~Before(q, 1, k, c)
      /\ b \in {g} \cup Mined /\ b \in Block /\ q.from \in Node /\ q.to \in Node
  BY <1>1, <1>2, OrderedFacts
<1>4. /\ parents' = parents /\ links' = links /\ blocks' = blocks /\ Mined' = Mined /\ NoOrphans'
  BY <1>2, QuietFrame
<1>5. TInv'
  BY DEF IInv, ClusterOK
<1>6. CASE b \in blocks[q.to]
  <2>1. PICK x : x = network[q][1]
    OBVIOUS
  <2>2. x \in Msg /\ Posts(q, {}, x)
    BY <1>2, <1>3, <1>6, <2>1, TakenIsPosts
  <2>3. Settled({q})
    BY <1>3, <1>4, <1>6, MessagesDiffer DEF Settled
  <2>4. NewByPost(g, q, {}, x)
    BY <1>4 DEF NewByPost
  <2> QED
    BY <1>2, <1>3, <1>4, <1>5, <2>2, <2>3, <2>4, PostsInOrder
<1>7. CASE b \notin blocks[q.to]
  <2>1. PICK x : x = Message("GetBlocks", b)
    OBVIOUS
  <2>2. x \in Msg /\ x.kind = "GetBlocks" /\ x.block = b
    BY <1>3, <2>1, MessageTyped
  <2>3. PICK a : a = Between(q.to, q.from, "answer")
    OBVIOUS
  <2>4. /\ a \in Queue /\ a.from = q.to /\ a.to = q.from /\ a.way = "answer" /\ a # q
        /\ Goes(a, q.to, {q.from}, "answer")
        /\ \A r \in Queue : Goes(r, q.to, {q.from}, "answer") => r = a
    BY <1>3, <2>3, AnswerQueue
  <2>5. PICK G : G = {r \in Queue : Goes(r, q.to, {q.from}, "answer")}
    OBVIOUS
  <2>6. G = {a}
    BY <2>4, <2>5
  <2>7. Posts(q, G, x)
    BY <1>2, <1>7, <2>1, <2>5, PostIsPosts
  <2>8. x \in ToSet(network'[a])
    BY <1>2, <1>3, <2>2, <2>4, <2>6, <2>7, PostsSends
  <2>9. Settled({q})
    <3>1. Sending(q.to, q.from, "answer", "GetBlocks", b)'
      BY <2>1, <2>3, <2>8 DEF Sending
    <3> QED
      BY <1>3, <3>1, MessagesDiffer DEF Settled
  <2>10. Moves({q})
    BY <1>2, <1>3, <1>4, <1>5, <2>2, <2>7, <2>9, PostsMoves
  <2>11. Speaks(g, a, x)'
    <3>1. b \in blocks[q.from]
      BY <1>3 DEF Speaks
    <3> QED
      BY <1>3, <1>4, <2>2, <2>4, <3>1 DEF Speaks
  <2>12. ASSUME NEW d \in Nat, d = Rest({q}, a) + 1 PROVE InTurn(a, d)'
    <3>1. PICK s : s = network'[a]
      OBVIOUS
    <3>2. s[d] = x /\ d > Rest({q}, a)
      <4>1. After(q, G, x, a, s)
        BY <1>2, <1>3, <2>2, <2>4, <2>7, <3>1, PostsFacts
      <4> QED
        BY <2>6, <2>12, <4>1 DEF After
    <3>3. PICK p : p = parents[b]
      OBVIOUS
    <3>4. b \in Mined => \/ p \in blocks'[a.from]
                         \/ Sending(a.to, a.from, "answer", "Blocks", p)'
                         \/ Before(a, d, "GetBlocks", p)'
      <4> SUFFICES ASSUME b \in Mined
                   PROVE  \/ p \in blocks'[q.to]
                          \/ Sending(q.from, q.to, "answer", "Blocks", p)'
                          \/ Before(a, d, "GetBlocks", p)'
        BY <2>4
      <4>1. Fetched(q.from, q.to, p)
        BY <1>3, <3>3 DEF InTurn
      <4>2. CASE p \in blocks[q.to]
        BY <1>4, <4>2
      <4>3. CASE Sending(q.from, q.to, "answer", "Blocks", p)
        <5>1. PICK r : r = Between(q.from, q.to, "answer")
          OBVIOUS
        <5>2. r \in {q} => network[r][1] # Message("Blocks", p)
          BY <1>3, MessagesDiffer
        <5>3. "answer" \in Way
          BY DEF Way
        <5> QED
          BY <1>3, <2>10, <4>3, <5>1, <5>2, <5>3, StillSending
      <4>4. CASE Sending(q.to, q.from, "answer", "GetBlocks", p)
        <5>1. Message("GetBlocks", p) \in ToSet(network[a])
          BY <2>3, <4>4 DEF Sending
        <5> QED
          BY <2>4, <2>10, <3>2, <5>1, PostedAfter
      <4> QED
        BY <4>1, <4>2, <4>3, <4>4 DEF Fetched
    <3> QED
      BY <1>4, <2>2, <3>1, <3>2, <3>3, <3>4 DEF InTurn
  <2>13. NewByPost(g, q, G, x)
    BY <1>4, <2>6, <2>11, <2>12 DEF NewByPost
  <2> QED
    BY <1>2, <1>3, <1>4, <1>5, <2>2, <2>7, <2>9, <2>13, PostsInOrder
<1> QED
  BY <1>6, <1>7

(* A block is announced by who gets it, after its parent: worker.rs:90-145. *)
Inserts(n, b) ==
  \A k \in Node : blocks'[k] = IF k = n THEN blocks[k] \cup {b} ELSE blocks[k]

LEMMA InsertInOrder ==
  ASSUME IInv, IInv', NEW g \in Node, Ordered(g), InOrder(g), NEW q \in Queue,
         Take(q, 1, "Blocks"), NEW b, b = BlockOf(q, 1), NEW n \in Node, n = q.to,
         b \notin blocks[n], b \in Mined => parents[b] \in blocks[n], Inserts(n, b),
         NEW x, x = Message("NewBlockHashes", b),
         NEW G, G = {r \in Queue : Goes(r, n, Node, "broadcast")}, Posts(q, G, x),
         parents' = parents, links' = links, NoOrphans'
  PROVE  InOrder(g)'
<1>2. /\ TInv /\ setup.workers = 1 /\ dead = {}
      /\ network[q][1] = Message("Blocks", b)
      /\ b \in {g} \cup Mined /\ b \in Block /\ q.to \in Node
      /\ {g} \cup Mined \subseteq blocks[g]
  BY OrderedFacts
<1>3. n # g
  BY <1>2
<1>4. Mined' = Mined /\ \A k, m : Linked(k, m)' = Linked(k, m)
  BY DEF Mined, Linked
<1>5. \A k \in Node : blocks'[k] = IF k = n THEN blocks[k] \cup {b} ELSE blocks[k]
  BY DEF Inserts
<1>7. x \in Msg /\ x.kind = "NewBlockHashes" /\ x.block = b
  BY <1>2, MessageTyped
<1>10. TInv'
  BY DEF IInv, ClusterOK
<1>11. Settled({q})
  <2>1. b \in blocks'[q.to]
    BY <1>5
  <2>2. \A k, c : network[q][1] = Message(k, c) => k = "Blocks" /\ c = b
    BY <1>2, MessagesDiffer
  <2> QED
    BY <2>1, <2>2 DEF Settled
<1>12. Moves({q})
  <2>1. \A k \in Node : blocks[k] \subseteq blocks'[k]
    BY <1>5
  <2> QED
    BY <1>2, <1>7, <1>10, <1>11, <2>1, PostsMoves
<1>13. ASSUME NEW m \in Node, NEW k \in Node, Linked(m, k), NEW c \in blocks'[m] \ blocks[m]
       PROVE  Covered(m, k, c)'
  <2>1. m = n /\ c = b
    BY <1>5, <1>13
  <2>2. PICK r : r = Between(n, k, "broadcast")
    OBVIOUS
  <2>3. r \in Queue /\ r.from = n /\ r.to = k /\ r.way = "broadcast"
    BY <2>2, BetweenIsQueue DEF Way
  <2>4. r \in G
    BY <1>2, <1>13, <2>1, <2>3 DEF Goes
  <2>5. x \in ToSet(network'[r])
    BY <1>2, <1>7, <2>3, <2>4, PostsSends
  <2>6. Sending(n, k, "broadcast", "NewBlockHashes", b)'
    BY <2>2, <2>5 DEF Sending
  <2> QED
    BY <2>1, <2>6 DEF Covered
<1>14. ASSUME NEW r \in Queue, r \in G
       PROVE  Speaks(g, r, x)' /\ \A d \in Nat : d = Rest({q}, r) + 1 => InTurn(r, d)'
  <2>1. r.from = n /\ r.to \in Node /\ r.way = "broadcast" /\ Linked(n, r.to)
    BY <1>14 DEF Goes
  <2>2. Speaks(g, r, x)'
    <3>1. b \in blocks'[n]
      BY <1>5
    <3>2. b \in {g} \cup Mined'
      BY <1>2, <1>4
    <3> QED
      BY <1>3, <1>7, <2>1, <3>1, <3>2 DEF Speaks
  <2>3. ASSUME NEW d \in Nat, d = Rest({q}, r) + 1 PROVE InTurn(r, d)'
    <3>1. PICK s : s = network'[r]
      OBVIOUS
    <3>2. s[d] = x /\ d > Rest({q}, r)
      <4>1. After(q, G, x, r, s)
        BY <1>2, <1>7, <3>1, PostsFacts
      <4> QED
        BY <1>14, <2>3, <4>1 DEF After
    <3>3. PICK p : p = parents[b]
      OBVIOUS
    <3>4. b \in Mined => Fetched(n, r.to, p)' \/ Before(r, d, "NewBlockHashes", p)'
      <4> SUFFICES ASSUME b \in Mined
                   PROVE  Fetched(n, r.to, p)' \/ Before(r, d, "NewBlockHashes", p)'
        OBVIOUS
      <4>1. p \in blocks[n] /\ p \in {g} \cup Mined
        BY <3>3 DEF InOrder, Spoken
      <4>2. Covered(n, r.to, p)
        BY <1>3, <2>1, <4>1 DEF InOrder, AllCovered
      <4>3. CASE Fetched(n, r.to, p)
        BY <1>12, <2>1, <4>3, StillFetched
      <4>4. CASE Sending(n, r.to, "broadcast", "NewBlockHashes", p)
        <5>1. r = Between(n, r.to, "broadcast")
          BY <2>1 DEF Queue, Between
        <5>2. Message("NewBlockHashes", p) \in ToSet(network[r])
          BY <4>4, <5>1 DEF Sending
        <5>3. r \in {q} => network[r][1] # Message("NewBlockHashes", p)
          BY <1>2, MessagesDiffer
        <5> QED
          BY <1>12, <3>2, <5>2, <5>3, PostedAfter
      <4> QED
        BY <4>2, <4>3, <4>4 DEF Covered
    <3> QED
      BY <1>4, <1>7, <2>1, <3>1, <3>2, <3>3, <3>4 DEF InTurn
  <2> QED
    BY <2>2, <2>3
<1>15. NewByPost(g, q, G, x)
  BY <1>2, <1>5, <1>13, <1>14 DEF NewByPost
<1> QED
  BY <1>2, <1>7, <1>10, <1>11, <1>15, PostsInOrder

LEMMA GenesisInOrder ==
  ASSUME IInv, IInv', NEW g \in Node, Ordered(g), InOrder(g), NEW q \in Queue, HandleGenesis(q, 1)
  PROVE  InOrder(g)'
<1>1. PICK b, n : b = BlockOf(q, 1) /\ n = q.to
  OBVIOUS
<1>2. /\ Take(q, 1, "Blocks") /\ b \notin blocks[n] /\ b \in Node
      /\ blocks' = [blocks EXCEPT ![n] = @ \cup {b}]
      /\ network' = Post(Taken(q, 1), n, Node, "broadcast", Announced(b))
      /\ parents' = parents /\ links' = links /\ orphans' = orphans /\ lost' = lost
  BY <1>1 DEF HandleGenesis, worldVars, linkVars
<1>3. /\ n \in Node /\ b \notin Mined
  BY <1>1, <1>2, MinedOrGenesis DEF Queue, IInv, ClusterOK
<1>4. Inserts(n, b)
  BY <1>2, <1>3 DEF Inserts, IInv, ClusterOK, TInv, TypeOK
<1>5. NoOrphans'
  BY <1>2 DEF InOrder, NoOrphans
<1>6. PICK x : x = Message("NewBlockHashes", b)
  OBVIOUS
<1>7. PICK G : G = {r \in Queue : Goes(r, n, Node, "broadcast")}
  OBVIOUS
<1>8. Posts(q, G, x)
  BY <1>2, <1>6, <1>7, PostIsPosts DEF Announced
<1>9. /\ Take(q, 1, "Blocks") /\ b \notin blocks[n] /\ parents' = parents /\ links' = links
  BY <1>2
<1> QED
  BY <1>1, <1>3, <1>4, <1>5, <1>6, <1>7, <1>8, <1>9, InsertInOrder

(* No orphan waits for the block, and none is lost. *)
LEMMA ChildInOrder ==
  ASSUME IInv, IInv', NEW g \in Node, Ordered(g), InOrder(g), NEW q \in Queue, HandleChild(q, 1)
  PROVE  InOrder(g)'
<1>1. PICK b, n : b = BlockOf(q, 1) /\ n = q.to
  OBVIOUS
<1>2. PICK adopted : adopted = Adopted(orphans[n], b)
  OBVIOUS
<1>3. /\ Take(q, 1, "Blocks") /\ b \in Mined /\ b \notin blocks[n] /\ parents[b] \in blocks[n]
      /\ blocks' = [blocks EXCEPT ![n] =
                        @ \cup {b} \cup {orphans[n][k] : k \in ToSet(adopted)}]
      /\ CanRemove(Len(orphans[n]), adopted) =>
            /\ orphans' = [orphans EXCEPT ![n] = RemoveAll(@, adopted)]
            /\ lost' = [lost EXCEPT ![n] =
                    @ \cup (ToSet(orphans[n]) \ (ToSet(orphans'[n]) \cup blocks'[n]))]
            /\ network' = Post(Taken(q, 1), n, Node, "broadcast", Announced(b))
      /\ parents' = parents /\ links' = links
  BY <1>1, <1>2 DEF HandleChild, worldVars, linkVars
<1>4. n \in Node /\ b \in Block
  BY <1>1, <1>3 DEF Queue, Block
<1>5. orphans[n] = <<>> /\ lost[n] = {} /\ Len(<<>>) = 0 /\ ToSet(<<>>) = {}
  BY <1>4 DEF InOrder, NoOrphans, ToSet
<1>6. adopted = <<>>
  <2>1. <<>> \in Seq(Mined)
    OBVIOUS
  <2>2. Adopted(<<>>, b) \in Seq(1 .. Len(<<>>))
    BY <1>4, <2>1, AdoptedFollows DEF Follows
  <2>3. adopted \in Seq({})
    BY <1>2, <1>5, <2>2
  <2> QED
    BY <2>3
<1>7. RemoveAll(orphans[n], adopted) = <<>> /\ CanRemove(Len(orphans[n]), adopted)
  <2>1. CanRemove(Len(orphans[n]), adopted)
    BY <1>5, <1>6 DEF CanRemove
  <2>2. PICK kept : kept = RemoveAll(orphans[n], adopted)
    OBVIOUS
  <2>3. TInv
    BY DEF IInv, ClusterOK
  <2>4. kept \in Seq(Mined) /\ ToSet(kept) \subseteq ToSet(orphans[n])
    BY <1>2, <1>3, <1>4, <2>1, <2>2, <2>3, CleanedFacts
  <2>5. ToSet(kept) = {}
    BY <1>5, <2>4
  <2>6. DOMAIN kept = 1 .. Len(kept) /\ Len(kept) \in Nat /\ ~(1 \in DOMAIN kept)
    BY <2>4, <2>5 DEF ToSet
  <2>7. kept = <<>>
    BY <2>4, <2>6
  <2> QED
    BY <2>1, <2>2, <2>7
<1>8. Inserts(n, b)
  <2>1. {orphans[n][k] : k \in ToSet(adopted)} = {}
    BY <1>5, <1>6
  <2>2. blocks \in [Node -> SUBSET Block]
    BY DEF IInv, ClusterOK, TInv, TypeOK
  <2>3. blocks' = [blocks EXCEPT ![n] = @ \cup {b}]
    BY <1>3, <2>1
  <2> QED
    BY <1>4, <2>2, <2>3 DEF Inserts
<1>9. NoOrphans'
  <2>1. orphans' = [orphans EXCEPT ![n] = <<>>]
        /\ lost' = [lost EXCEPT ![n] =
                      @ \cup (ToSet(orphans[n]) \ (ToSet(orphans'[n]) \cup blocks'[n]))]
    BY <1>3, <1>7
  <2>2. orphans \in [Node -> Seq(Mined)] /\ lost \in [Node -> SUBSET Mined]
    BY DEF IInv, ClusterOK, TInv, TypeOK
  <2>3. orphans'[n] = <<>> /\ \A k \in Node : k # n => orphans'[k] = orphans[k]
    BY <1>4, <1>5, <1>7, <2>1, <2>2
  <2>4. lost'[n] = {} /\ \A k \in Node : k # n => lost'[k] = lost[k]
    BY <1>4, <1>5, <2>1, <2>2
  <2> QED
    BY <2>3, <2>4 DEF InOrder, NoOrphans
<1>10. PICK x : x = Message("NewBlockHashes", b)
  OBVIOUS
<1>11. PICK G : G = {r \in Queue : Goes(r, n, Node, "broadcast")}
  OBVIOUS
<1>12. Posts(q, G, x)
  <2>1. network' = Post(Taken(q, 1), n, Node, "broadcast", <<x>>)
    BY <1>3, <1>7, <1>10 DEF Announced
  <2> QED
    BY <1>11, <2>1, PostIsPosts
<1>13. /\ Take(q, 1, "Blocks") /\ b \notin blocks[n] /\ parents' = parents /\ links' = links
       /\ parents[b] \in blocks[n]
  BY <1>3
<1> QED
  BY <1>1, <1>4, <1>8, <1>9, <1>10, <1>11, <1>12, <1>13, InsertInOrder

(* A block does not come before its parent. *)
LEMMA NoOrphanInOrder ==
  ASSUME IInv, NEW g \in Node, Ordered(g), InOrder(g), NEW q \in Queue
  PROVE  ~HandleOrphan(q, 1)
<1> SUFFICES ASSUME HandleOrphan(q, 1) PROVE FALSE
  OBVIOUS
<1>1. PICK b : b = BlockOf(q, 1)
  OBVIOUS
<1>2. Take(q, 1, "Blocks") /\ b \in Mined /\ parents[b] \notin blocks[q.to]
  BY <1>1 DEF HandleOrphan
<1>3. /\ network[q][1] = Message("Blocks", b) /\ Message("Blocks", b).kind = "Blocks"
      /\ Message("Blocks", b).block = b /\ InTurn(q, 1) /\ \A k, c : ~Before(q, 1, k, c)
  BY <1>1, <1>2, OrderedFacts
<1> QED
  BY <1>2, <1>3 DEF InTurn

LEMMA HandleInOrder ==
  ASSUME IInv, IInv', NEW g \in Node, Ordered(g), InOrder(g), NEW q \in Queue, Handle(q, 1)
  PROVE  InOrder(g)'
BY NewBlockHashesInOrder, GetBlocksInOrder, KnownInOrder, GenesisInOrder, ChildInOrder,
   NoOrphanInOrder DEF Handle

(* A mined block is sent after its parent: the miner sent that or sends it now *)
(* (miner/worker.rs:41-60).                                                    *)
LEMMA SentInOrder ==
  ASSUME NEW n, NEW tip, NEW b, NEW s, s = Sent(n, tip, b), NEW k \in 1 .. Len(s)
  PROVE  \/ s[k] = Message("Blocks", b) /\ (tip = n => k > 1 /\ s[k - 1] = Message("Blocks", n))
         \/ s[k] = Message("Blocks", n)
<1>1. PICK x, y : x = Message("Blocks", n) /\ y = Message("Blocks", b)
  OBVIOUS
<1>2. CASE tip = n
  <2>1. s = <<x>> \o <<y>>
    BY <1>1, <1>2 DEF Sent
  <2>2. <<x>> \in Seq({x, y}) /\ <<y>> \in Seq({x, y}) /\ Len(<<x>>) = 1 /\ Len(<<y>>) = 1
    OBVIOUS
  <2>3. Len(<<x>> \o <<y>>) = 2 /\ (<<x>> \o <<y>>)[1] = x /\ (<<x>> \o <<y>>)[2] = y
    BY <2>2
  <2>4. k = 1 \/ k = 2
    BY <2>1, <2>3
  <2> QED
    BY <1>1, <2>1, <2>3, <2>4
<1>3. CASE tip # n
  <2>1. s = <<>> \o <<y>>
    BY <1>1, <1>3 DEF Sent
  <2>2. <<>> \o <<y>> = <<y>> /\ Len(<<y>>) = 1 /\ <<y>>[1] = y
    OBVIOUS
  <2> QED
    BY <1>1, <1>3, <2>1, <2>2
<1> QED
  BY <1>2, <1>3

(* The queues after that. *)
Appends(G, msgs) ==
  \A r \in Queue : network'[r] = IF r \in G THEN network[r] \o msgs ELSE network[r]

Appended(G, msgs, r, new) ==
  /\ Rest({}, r) \in Nat /\ Off({}, r) = 0 /\ Rest({}, r) <= Len(new)
  /\ \A i \in 1 .. Rest({}, r) : new[i] = network[r][i]
  /\ \A i \in 1 .. Len(new) : i > Rest({}, r) =>
        /\ r \in G /\ i - Rest({}, r) \in 1 .. Len(msgs)
        /\ new[i] = msgs[i - Rest({}, r)]

LEMMA AppendsFacts ==
  ASSUME NEW M, NEW msgs \in Seq(M), network \in [Queue -> Seq(M)], NEW G, Appends(G, msgs),
         NEW r \in Queue, NEW new, new = network'[r]
  PROVE  Appended(G, msgs, r, new)
<1>1. PICK s : s = network[r]
  OBVIOUS
<1>2. s \in Seq(M) /\ Len(s) \in Nat /\ Len(msgs) \in Nat
  <2>1. s \in Seq(M)
    BY <1>1
  <2> QED
    BY <2>1
<1>3. Rest({}, r) = Len(s) /\ Off({}, r) = 0
  BY <1>1, <1>2 DEF Rest, Off
<1>4. CASE r \in G
  <2>1. new = s \o msgs
    BY <1>1, <1>4 DEF Appends
  <2>2. PICK u : u = s \o msgs
    OBVIOUS
  <2>3. Len(u) = Len(s) + Len(msgs)
    BY <1>2, <2>2
  <2>4. \A i \in 1 .. Len(s) : u[i] = s[i]
    BY <1>2, <2>2
  <2>5. ASSUME NEW i \in 1 .. Len(u), i > Len(s)
        PROVE  i - Len(s) \in 1 .. Len(msgs) /\ u[i] = msgs[i - Len(s)]
    BY <1>2, <2>2, <2>3, <2>5
  <2> QED
    BY <1>1, <1>2, <1>3, <1>4, <2>1, <2>2, <2>3, <2>4, <2>5 DEF Appended
<1>5. CASE r \notin G
  <2>1. new = s
    BY <1>1, <1>5 DEF Appends
  <2> QED
    BY <1>1, <1>2, <1>3, <2>1 DEF Appended
<1> QED
  BY <1>4, <1>5

LEMMA MineInOrder ==
  ASSUME IInv, IInv', NEW g \in Node, Ordered(g), InOrder(g), Mine(g)
  PROVE  InOrder(g)'
<1>1. PICK b, tip, msgs :
         b = Len(parents) + 1 /\ tip = parent_block[g] /\ msgs = Sent(g, tip, b)
  OBVIOUS
<1>2. /\ parents' = Append(parents, tip) /\ blocks' = [blocks EXCEPT ![g] = @ \cup {b}]
      /\ network' = Post(network, g, Node, "broadcast", msgs)
      /\ setup' = setup /\ orphans' = orphans /\ lost' = lost
      /\ dead' = dead /\ links' = links /\ broken' = broken
  BY <1>1 DEF Mine, linkVars
<1>3. TInv /\ TInv' /\ ClusterOK
  BY DEF IInv, ClusterOK
<1>4. Mined' = Mined \cup {b} /\ Block' = Block \cup {b}
  BY <1>1, <1>3, TypeMine
<1>5. /\ b \notin Mined /\ b \notin Block /\ tip \in blocks[g] /\ tip \in {g} \cup Mined
      /\ parents'[b] = tip /\ \A c \in Mined : parents'[c] = parents[c]
      /\ blocks \in [Node -> SUBSET Block]
  <2>1. /\ parents \in Seq(Node \cup 1 .. MaxBlock) /\ tip \in Block /\ Mined = 1 .. Len(parents)
        /\ blocks \in [Node -> SUBSET Block]
    BY <1>1, <1>3 DEF TInv, TypeOK, Mined
  <2>2. b \notin Mined /\ b \in 1 .. MaxBlock
    <3>1. b \in 1 .. MaxBlock
      BY <1>3, <1>4, NextMined
    <3> QED
      BY <1>1, <2>1, <3>1
  <2>3. tip \in Node \cup 1 .. MaxBlock
    BY <1>3, <2>1, MinedOrGenesis DEF Block
  <2>4. parents'[b] = tip
    BY <1>1, <1>2, <2>1, <2>3
  <2>5. \A c \in Mined : parents'[c] = parents[c]
    BY <1>1, <1>2, <2>1, <2>3
  <2>6. tip \in blocks[g]
    BY <1>1, <1>3 DEF ClusterOK, ChainsOK
  <2>7. tip \in {g} \cup Mined
    BY <2>6 DEF InOrder, Spoken
  <2>8. b \notin Block
    BY <2>2, ClusterAssumption DEF Block
  <2> QED
    BY <2>1, <2>2, <2>4, <2>5, <2>6, <2>7, <2>8
<1>6. \A n \in Node : blocks'[n] = IF n = g THEN blocks[n] \cup {b} ELSE blocks[n]
  BY <1>2, <1>5
<1>7. PICK G : G = {r \in Queue : Goes(r, g, Node, "broadcast")}
  OBVIOUS
<1>8. Appends(G, msgs)
  BY <1>2, <1>7 DEF Appends, Post, Goes
<1>9. PICK M : M = Msg'
  OBVIOUS
<1>10. network \in [Queue -> Seq(Msg)] /\ network' \in [Queue -> Seq(M)]
       /\ network \in [Queue -> Seq(M)] /\ msgs \in Seq(M)
  <2>1. network \in [Queue -> Seq(Msg)] /\ network' \in [Queue -> Seq(M)]
    BY <1>3, <1>9 DEF TInv, TypeOK, Msg
  <2>2. Msg \subseteq M
    BY <1>4, <1>9 DEF Msg
  <2>3. \A q \in Queue : network[q] \in Seq(M)
    BY <2>1, <2>2, SeqGrows
  <2>4. \A c \in {g, b} : Message("Blocks", c) \in M
    BY <1>4, <1>9 DEF Msg, Message, Block
  <2>5. msgs \in Seq(M)
    BY <1>1, <1>3, <2>4, SentTyped
  <2> QED
    BY <2>1, <2>3, <2>5
<1>11. Moves({})
  <2>1. Shifts({})
    <3> SUFFICES ASSUME NEW r \in Queue
                 PROVE  /\ Rest({}, r) <= Len(network'[r])
                        /\ \A i \in 1 .. Rest({}, r) : network'[r][i] = network[r][i + Off({}, r)]
      BY DEF Shifts
    <3>1. PICK new : new = network'[r]
      OBVIOUS
    <3>2. /\ Rest({}, r) \in Nat /\ Off({}, r) = 0 /\ Rest({}, r) <= Len(new)
          /\ \A i \in 1 .. Rest({}, r) : new[i] = network[r][i]
      <4>1. Appended(G, msgs, r, new)
        BY <1>8, <1>10, <3>1, AppendsFacts
      <4> QED
        BY <4>1 DEF Appended
    <3>3. \A i \in 1 .. Rest({}, r) : i + Off({}, r) = i
      BY <3>2
    <3> QED
      BY <3>1, <3>2, <3>3
  <2>2. Settled({})
    BY DEF Settled
  <2>3. \A n \in Node : blocks[n] \subseteq blocks'[n]
    BY <1>6
  <2> QED
    BY <1>9, <1>10, <2>1, <2>2, <2>3 DEF Moves
<1>12. ASSUME NEW r \in Queue, NEW i \in 1 .. Len(network'[r]), i > Rest({}, r)
       PROVE  Speaks(g, r, network[r][i])' /\ InTurn(r, i)'
  <2>1. PICK new : new = network'[r]
    OBVIOUS
  <2>2. PICK d : d = Rest({}, r)
    OBVIOUS
  <2>3. /\ d \in Nat /\ r \in G /\ i - d \in 1 .. Len(msgs) /\ new[i] = msgs[i - d]
        /\ \A j \in 1 .. Len(new) : j > d => new[j] = msgs[j - d]
    <3>1. Appended(G, msgs, r, new)
      BY <1>8, <1>10, <2>1, AppendsFacts
    <3> QED
      BY <1>12, <2>1, <2>2, <3>1 DEF Appended
  <2>4. \/ new[i] = Message("Blocks", b) /\ (tip = g => i - d > 1 /\ msgs[i - d - 1] = Message("Blocks", g))
        \/ new[i] = Message("Blocks", g)
    BY <1>1, <2>3, SentInOrder
  <2>5. \A c : Message("Blocks", c).kind = "Blocks" /\ Message("Blocks", c).block = c
    BY DEF Message
  <2>6. Speaks(g, r, new[i])'
    BY <1>4, <2>4, <2>5 DEF Speaks
  <2>7. ASSUME new[i] = Message("Blocks", b), tip = g PROVE Before(r, i, "Blocks", g)'
    <3>1. i - d > 1 /\ msgs[i - d - 1] = Message("Blocks", g)
      <4>1. b # g
        BY <1>5 DEF Block
      <4>2. Message("Blocks", b) # Message("Blocks", g)
        BY <4>1, MessagesDiffer
      <4> QED
        BY <2>4, <2>7, <4>2
    <3>2. i \in Nat /\ i - 1 \in 1 .. Len(new) /\ i - 1 > d /\ i - 1 - d = i - d - 1
          /\ i - 1 \in 1 .. i - 1
      BY <2>1, <2>3, <3>1
    <3>3. new[i - 1] = Message("Blocks", g)
      BY <2>3, <3>1, <3>2
    <3>4. \E j \in 1 .. i - 1 : network'[r][j] = Message("Blocks", g)
      BY <2>1, <3>2, <3>3
    <3> QED
      BY <3>4 DEF Before
  <2>8. ASSUME tip # g PROVE tip \in blocks'[r.to] \/ Before(r, i, "Blocks", tip)'
    <3>1. PICK k \in Node : k = r.to
      BY DEF Queue
    <3>2. r = Between(g, k, "broadcast") /\ Linked(g, k)
      BY <1>7, <2>3, <3>1 DEF Goes, Queue, Between
    <3>3. tip \in Mined /\ miners[tip] = g
      <4>1. miners[tip] \in setup.miners
        BY <1>3, <1>5, <2>8 DEF TInv, TypeOK, Mined
      <4> QED
        BY <1>5, <2>8, <4>1 DEF Ordered
    <3>4. {g, k} \in setup.up
      BY <1>3, <3>2 DEF TInv, TypeOK, Linked, Ordered
    <3>5. WellConnected(k)
      BY DEF WellConnected, Ordered
    <3>6. Had(k, tip) \/ Sending(g, k, "broadcast", "Blocks", tip)
      BY <3>3, <3>4, <3>5 DEF IInv, BlocksSent
    <3>7. CASE Had(k, tip)
      <4>1. orphans[k] = <<>> /\ lost[k] = {} /\ ToSet(<<>>) = {}
        BY DEF InOrder, NoOrphans, ToSet
      <4>2. tip \in blocks[k]
        BY <3>7, <4>1 DEF Had, Holds
      <4> QED
        BY <1>6, <3>1, <4>2
    <3>8. CASE Sending(g, k, "broadcast", "Blocks", tip)
      <4>1. Message("Blocks", tip) \in ToSet(network[r])
        BY <3>2, <3>8 DEF Sending
      <4>2. i \in Int /\ i > Rest({}, r)
        BY <1>12
      <4> QED
        BY <1>11, <4>1, <4>2, PostedAfter
    <3> QED
      BY <3>6, <3>7, <3>8
  <2>9. InTurn(r, i)'
    <3>1. CASE new[i] = Message("Blocks", g)
      <4>1. g \notin Mined'
        BY <1>4, <1>3, <1>5, MinedOrGenesis DEF Block
      <4> QED
        BY <2>1, <2>5, <3>1, <4>1 DEF InTurn
    <3>2. CASE new[i] = Message("Blocks", b)
      <4>1. tip \in blocks'[r.to] \/ Before(r, i, "Blocks", tip)'
        BY <2>7, <2>8, <3>2
      <4> QED
        BY <1>5, <2>1, <2>5, <3>2, <4>1 DEF InTurn
    <3> QED
      BY <2>4, <3>1, <3>2
  <2> QED
    BY <2>1, <2>6, <2>9
<1>13. NewInOrder(g, {})
  BY <1>4, <1>5, <1>6, <1>12 DEF NewInOrder
<1>14. NoOrphans'
  BY <1>2 DEF InOrder, NoOrphans
<1> QED
  BY <1>2, <1>3, <1>11, <1>13, <1>14, StillInOrder

-----------------------------------------------------------------------------
(* The order is an invariant of the clusters that have it.                     *)
LEMMA OrderInit ==
  ASSUME Init
  PROVE  OrderInv
<1> SUFFICES ASSUME NEW g \in Node PROVE InOrder(g)
  BY DEF OrderInv
<1>1. Mined = {} /\ \A q \in Queue : network[q] = <<>>
  BY DEF Init, Mined
<1>2. NoOrphans
  BY DEF Init, NoOrphans
<1>3. Spoken(g)
  BY <1>1 DEF Init, Spoken
<1>4. AllCovered(g)
  BY <1>1 DEF Init, AllCovered, Linked
<1>5. AllInTurn
  BY <1>1 DEF AllInTurn
<1> QED
  BY <1>2, <1>3, <1>4, <1>5 DEF InOrder

LEMMA OrderNext ==
  ASSUME IInv, OrderInv, [Next]_clusterVars
  PROVE  OrderInv'
<1> SUFFICES ASSUME NEW g \in Node, Ordered(g)' PROVE InOrder(g)'
  BY DEF OrderInv
<1>0. IInv'
  BY InvNext
<1>1. ASSUME setup' = setup, broken \subseteq broken', dead \subseteq dead'
      PROVE  Ordered(g) /\ InOrder(g)
  BY <1>1 DEF Ordered, OrderInv
<1>2. ASSUME /\ setup' = setup /\ parents' = parents /\ blocks' = blocks /\ orphans' = orphans
             /\ lost' = lost /\ dead' = dead /\ links' = links /\ broken' = broken
             /\ network' = network
      PROVE  InOrder(g)'
  <2>1. InOrder(g) /\ Mined' = Mined
    BY <1>1, <1>2 DEF Mined
  <2> QED
    BY <1>2, <2>1 DEF InOrder, NoOrphans, Spoken, Speaks, AllCovered, Covered, Fetched, Sending,
                      Linked, AllInTurn, InTurn, Before
<1>3. CASE UNCHANGED clusterVars
  BY <1>2, <1>3 DEF clusterVars, worldVars, nodeVars, linkVars
<1>4. ASSUME NEW n \in Node, ReadTip(n) PROVE InOrder(g)'
  BY <1>2, <1>4 DEF ReadTip, worldVars, linkVars
<1>5. ASSUME NEW n \in Node, Mine(n) PROVE InOrder(g)'
  <2>1. setup' = setup /\ broken' = broken /\ dead' = dead /\ n \in setup.miners
    BY <1>5 DEF Mine, Mining, linkVars
  <2>2. Ordered(g) /\ InOrder(g)
    BY <1>1, <2>1
  <2>3. n = g
    BY <2>1, <2>2 DEF Ordered
  <2> QED
    BY <1>0, <1>5, <2>2, <2>3, MineInOrder
<1>6. ASSUME NEW q \in Queue, NEW i \in 1 .. setup.workers, Handle(q, i) PROVE InOrder(g)'
  <2>1. Handled(q, i)
    BY <1>6, HandleFacts DEF IInv, ClusterOK
  <2>2. setup' = setup /\ broken' = broken /\ dead \subseteq dead'
    BY <2>1 DEF Handled, linkVars
  <2>3. Ordered(g) /\ InOrder(g)
    BY <1>1, <2>2
  <2>4. i = 1
    BY <2>3 DEF Ordered
  <2>5. Handle(q, 1)
    BY <1>6, <2>4
  <2> QED
    BY <1>0, <2>3, <2>5, HandleInOrder
<1>7. ASSUME NEW e \in setup.edges, ConnectPeers(e) PROVE InOrder(g)'
  <2>1. setup' = setup /\ broken' = broken /\ dead' = dead /\ e \notin links \cup broken
    BY <1>7 DEF ConnectPeers, nodeVars
  <2>2. Ordered(g)
    BY <1>1, <2>1
  <2> QED
    BY <2>1, <2>2 DEF Ordered, IInv, ClusterOK, LinksOK
<1>8. ASSUME NEW e \in setup.edges, BreakLink(e) PROVE InOrder(g)'
  BY <1>8 DEF BreakLink, Ordered
<1> QED
  BY <1>3, <1>4, <1>5, <1>6, <1>7, <1>8 DEF Next, HandleSome

(* Once all hashes and requests are dealt with, what is covered is there.       *)
LEMMA OrderMeansConsensus ==
  ASSUME IInv, OrderInv
  PROVE  OrderedConsensus
<1> SUFFICES ASSUME NEW g \in Node, Ordered(g), Quiet
             PROVE  \A m, n \in Node : Linked(m, n) => blocks[m] \cap Mined = blocks[n] \cap Mined
  BY DEF OrderedConsensus, Consensus, Ordered
<1>1. InOrder(g)
  BY DEF OrderInv
<1>3. ASSUME NEW m \in Node, NEW n \in Node, Linked(m, n), NEW c \in Mined, c \in blocks[m]
      PROVE  c \in blocks[n]
  <2>1. CASE m # g
    <3>1. Covered(m, n, c)
      BY <1>1, <1>3, <2>1 DEF InOrder, AllCovered
    <3> QED
      BY QuietSends, <3>1 DEF Covered, Fetched, Way
  <2>2. CASE m = g
    <3>1. TInv
      BY DEF IInv, ClusterOK
    <3>2. miners[c] = g
      <4>1. miners[c] \in setup.miners
        BY <3>1 DEF TInv, TypeOK, Mined
      <4> QED
        BY <4>1 DEF Ordered
    <3>3. {g, n} \in setup.up
      BY <1>3, <2>2, <3>1 DEF TInv, TypeOK, Linked, Ordered
    <3>4. WellConnected(n)
      BY DEF WellConnected, Ordered
    <3>5. Had(n, c)
      BY QuietSends, <3>2, <3>3, <3>4 DEF IInv, BlocksSent, Way
    <3>6. orphans[n] = <<>> /\ lost[n] = {} /\ ToSet(<<>>) = {}
      BY <1>1 DEF InOrder, NoOrphans, ToSet
    <3> QED
      BY <3>5, <3>6 DEF Had, Holds
  <2> QED
    BY <2>1, <2>2
<1> QED
  BY <1>3, LinkedBothWays

(* worker.rs:202-217: when one node mines and every node has one worker, nodes  *)
(* whose connection lasts end up with the same blocks.                         *)
THEOREM Ordered_Consensus ==
  Spec => []OrderedConsensus
<1>1. Init => IInv /\ OrderInv
  BY InvInit, OrderInit
<1>2. IInv /\ OrderInv /\ [Next]_clusterVars => (IInv /\ OrderInv)'
  BY InvNext, OrderNext
<1>3. IInv /\ OrderInv => OrderedConsensus
  BY OrderMeansConsensus
<1> QED
  BY <1>1, <1>2, <1>3, PTL DEF Spec
================================================================================
