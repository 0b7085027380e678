---------------------------- MODULE BlockTreeProofs ----------------------------
(***************************************************************************)
(* The promises of BlockTree, for any set of hashes, any difficulties and  *)
(* any transactions and account states that ExecuteAssumption allows; and  *)
(* the walk of all_blocks_in_longest_chain on chains of any length.        *)
(***************************************************************************)
EXTENDS BlockTree, Induction

(* A genesis block is a block (types/block.rs:66-91). *)
LEMMA GenesisType ==
    ASSUME NEW h \in Hash, NEW d \in Difficulty
    PROVE  Genesis(h, d) \in Block
  BY BlockchainAssumption DEF Genesis, Block

(* So is what is mined on a block (miner/mod.rs:222-236). *)
LEMMA ChildType ==
    ASSUME NEW h \in Hash, NEW p \in Block, NEW data \in TxList
    PROVE  Child(h, p, data) \in Block
  BY DEF Child, Block

(* insert leaves a block that has the right length as it is (mod.rs:46-51). *)
LEMMA SameLength ==
    ASSUME NEW b \in Block PROVE [b EXCEPT !.length = b.length] = b
  BY DEF Block

IInv == TypeOK /\ WellFormed /\ LedgerReplays

LEMMA ParentInTree ==
    ASSUME TypeOK, WellFormed, NEW h \in DOMAIN tree, tree[h].length # 1
    PROVE  tree[h].parent \in DOMAIN tree
  <1>1. tree[h].length \in Nat \ {0}
    BY DEF TypeOK, Block
  <1>2. tree[h].length > 1
    BY <1>1
  <1> QED
    BY <1>2 DEF WellFormed

(* A child is inserted as it was mined when its parent is in the map. *)
LEMMA InsertChild ==
    ASSUME TypeOK, WellFormed,
           NEW h \in Hash, NEW p \in DOMAIN tree, NEW data \in TxList
    PROVE  Insert(tree, Child(h, tree[p], data))
             = Put(tree, h, Child(h, tree[p], data))
  <1>1. tree[p] \in Block /\ tree[p].hash = p
    BY DEF TypeOK, WellFormed
  <1>2. Child(h, tree[p], data).length = tree[p].length + 1
        /\ tree[p].length + 1 > 1
        /\ Child(h, tree[p], data).parent = p
        /\ Child(h, tree[p], data).hash = h
    BY <1>1 DEF Child, Block
  <1>3. [Child(h, tree[p], data) EXCEPT !.length = tree[p].length + 1]
          = Child(h, tree[p], data)
    BY <1>1, <1>2, ChildType, SameLength
  <1> QED
    BY <1>2, <1>3 DEF Insert

LEMMA InitIInv == Init => IInv
  <1> SUFFICES ASSUME NEW h \in Hash, NEW d \in Difficulty,
                      tree = Only(h, Genesis(h, d)), ledger = Only(h, Ico)
               PROVE  IInv
    BY DEF Init
  <1>1. TypeOK
    BY GenesisType, ExecuteAssumption DEF TypeOK, Only
  <1>2. WellFormed
    BY DEF WellFormed, Only, Genesis
  <1>3. LedgerReplays
    BY DEF LedgerReplays, Only, Genesis
  <1> QED
    BY <1>1, <1>2, <1>3 DEF IInv

LEMMA AddGenesisIInv ==
    ASSUME IInv, NEW h \in Hash, NEW d \in Difficulty, AddGenesis(h, d)
    PROVE  IInv'
  <1>1. /\ h \notin DOMAIN tree
        /\ tree' = Put(tree, h, Genesis(h, d))
        /\ ledger' = Put(ledger, h, Ico)
    BY DEF AddGenesis
  <1>2. TypeOK'
    BY <1>1, GenesisType, ExecuteAssumption DEF IInv, TypeOK, Put
  <1>3. WellFormed'
    BY <1>1 DEF IInv, WellFormed, Put, Genesis
  <1>4. LedgerReplays'
    <2> SUFFICES ASSUME NEW g \in DOMAIN tree'
                 PROVE  ledger'[g] = IF tree'[g].length = 1 THEN Ico
                          ELSE Execute(ledger'[tree'[g].parent], tree'[g].data).state
      BY DEF LedgerReplays
    <2>1. CASE g = h
      BY <1>1, <2>1 DEF IInv, TypeOK, Put, Genesis
    <2>2. CASE g # h
      <3>1. g \in DOMAIN tree /\ tree'[g] = tree[g] /\ ledger'[g] = ledger[g]
        BY <1>1, <2>2 DEF Put, IInv, TypeOK
      <3>2. tree[g].length # 1 => tree[g].parent \in DOMAIN tree
        BY <3>1, ParentInTree DEF IInv
      <3>3. tree[g].length # 1 => ledger'[tree[g].parent] = ledger[tree[g].parent]
        BY <1>1, <3>2 DEF Put, IInv, TypeOK
      <3> QED
        BY <3>1, <3>3 DEF IInv, LedgerReplays
    <2> QED
      BY <2>1, <2>2
  <1> QED
    BY <1>2, <1>3, <1>4 DEF IInv

LEMMA ExtendIInv ==
    ASSUME IInv, NEW h \in Hash, NEW p \in Hash, NEW data \in TxList,
           Extend(h, p, data)
    PROVE  IInv'
  <1> DEFINE child == Child(h, tree[p], data)
             state == Execute(ledger[p], data).state
  <1>1. h \notin DOMAIN tree /\ p \in DOMAIN tree /\ h # p
    BY DEF Extend
  <1>2. tree' = Put(tree, h, child) /\ ledger' = Put(ledger, h, state)
    BY <1>1, InsertChild DEF Extend, IInv
  <1>3. tree[p] \in Block /\ tree[p].hash = p
    BY <1>1 DEF IInv, TypeOK, WellFormed
  <1>4. child \in Block /\ state \in LedgerState
    BY <1>1, <1>3, ChildType, ExecuteAssumption DEF IInv, TypeOK
  <1>5. /\ child.hash = h /\ child.parent = p /\ child.data = data
        /\ child.length = tree[p].length + 1 /\ child.length > 1
        /\ CheckBlockValidity(child, tree[p])
    BY <1>3 DEF Child, CheckBlockValidity, Block
  <1> HIDE DEF child, state
  <1>6. TypeOK'
    BY <1>2, <1>4 DEF IInv, TypeOK, Put
  <1>7. WellFormed'
    <2> SUFFICES ASSUME NEW g \in DOMAIN tree'
                 PROVE  /\ tree'[g].hash = g
                        /\ tree'[g].length = 1 <=> tree'[g].parent = NoHash
                        /\ tree'[g].length > 1 =>
                             /\ tree'[g].parent \in DOMAIN tree'
                             /\ tree'[g].length = tree'[tree'[g].parent].length + 1
                             /\ CheckBlockValidity(tree'[g], tree'[tree'[g].parent])
      BY DEF WellFormed
    <2>1. CASE g = h
      <3>1. tree'[h] = child /\ tree'[p] = tree[p] /\ p \in DOMAIN tree'
        BY <1>1, <1>2 DEF Put
      <3> QED
        BY <1>1, <1>5, <2>1, <3>1, BlockchainAssumption DEF IInv, TypeOK
    <2>2. CASE g # h
      <3>1. g \in DOMAIN tree /\ tree'[g] = tree[g]
        BY <1>2, <2>2 DEF Put
      <3>2. \A q \in DOMAIN tree : q \in DOMAIN tree' /\ tree'[q] = tree[q]
        BY <1>1, <1>2 DEF Put
      <3> QED
        BY <3>1, <3>2 DEF IInv, WellFormed
    <2> QED
      BY <2>1, <2>2
  <1>8. LedgerReplays'
    <2> SUFFICES ASSUME NEW g \in DOMAIN tree'
                 PROVE  ledger'[g] = IF tree'[g].length = 1 THEN Ico
                          ELSE Execute(ledger'[tree'[g].parent], tree'[g].data).state
      BY DEF LedgerReplays
    <2>0. \A q \in DOMAIN tree : tree'[q] = tree[q] /\ ledger'[q] = ledger[q]
      BY <1>1, <1>2 DEF Put, IInv, TypeOK
    <2>1. CASE g = h
      <3>1. tree'[h] = child /\ ledger'[h] = state
        BY <1>2 DEF Put
      <3> QED
        BY <1>1, <1>5, <2>0, <2>1, <3>1 DEF state
    <2>2. CASE g # h
      <3>1. g \in DOMAIN tree
        BY <1>2, <2>2 DEF Put
      <3>2. tree[g].length # 1 => tree[g].parent \in DOMAIN tree
        BY <3>1, ParentInTree DEF IInv
      <3> QED
        BY <2>0, <3>1, <3>2 DEF IInv, LedgerReplays
    <2> QED
      BY <2>1, <2>2
  <1> QED
    BY <1>6, <1>7, <1>8 DEF IInv

LEMMA Invariance == Spec => []IInv
  <1>1. IInv /\ [Next]_vars => IInv'
    <2> SUFFICES ASSUME IInv, [Next]_vars PROVE IInv'
      OBVIOUS
    <2>1. CASE UNCHANGED vars
      BY <2>1 DEF IInv, TypeOK, WellFormed, LedgerReplays, vars
    <2> QED
      BY <2>1, AddGenesisIInv, ExtendIInv DEF Next
  <1> QED
    BY <1>1, InitIInv, PTL DEF Spec

(* Both maps speak of the same blocks, and hold blocks and states            *)
(* (mod.rs:10-11).                                                           *)
THEOREM Tree_TypeCorrect == Spec => []TypeOK
  BY Invariance, PTL DEF IInv

(* The view of the chain is a forest of valid blocks (mod.rs:41-52).         *)
THEOREM Tree_WellFormed == Spec => []WellFormed
  BY Invariance, PTL DEF IInv

(* The state of a block is its ancestors' transactions replayed on the ICO   *)
(* (network/worker.rs:97-99).                                                *)
THEOREM Ledger_Replays == Spec => []LedgerReplays
  BY Invariance, PTL DEF IInv

(* Blocks and their states never change, the longest chain never shrinks     *)
(* (mod.rs:41-67).                                                           *)
THEOREM History_Immutable == Spec => Immutable
  <1>1. IInv /\ [Next]_vars =>
          [/\ \A h \in DOMAIN tree :
                 /\ h \in DOMAIN tree'
                 /\ tree'[h] = tree[h]
                 /\ ledger'[h] = ledger[h]
           /\ \A old \in Tips(tree), new \in Tips(tree') :
                 tree[old].length <= tree'[new].length]_vars
    <2> SUFFICES ASSUME IInv, Next
                 PROVE  /\ \A h \in DOMAIN tree :
                              /\ h \in DOMAIN tree'
                              /\ tree'[h] = tree[h]
                              /\ ledger'[h] = ledger[h]
                        /\ \A old \in Tips(tree), new \in Tips(tree') :
                              tree[old].length <= tree'[new].length
      OBVIOUS
    <2> DEFINE Kept(g) == /\ g \in DOMAIN tree'
                          /\ tree'[g] = tree[g]
                          /\ ledger'[g] = ledger[g]
    <2>1. ASSUME NEW g \in DOMAIN tree PROVE Kept(g)
      <3>1. ASSUME NEW h \in Hash, NEW d \in Difficulty, AddGenesis(h, d)
            PROVE  Kept(g)
        BY <3>1 DEF AddGenesis, Put, IInv, TypeOK
      <3>2. ASSUME NEW h \in Hash, NEW p \in Hash, NEW data \in TxList,
                   Extend(h, p, data)
            PROVE  Kept(g)
        <4>1. tree' = Put(tree, h, Child(h, tree[p], data))
          BY <3>2, InsertChild DEF Extend, IInv
        <4> QED
          BY <3>2, <4>1 DEF Extend, Put, IInv, TypeOK
      <3> QED
        BY <3>1, <3>2 DEF Next
    <2> QED
      BY <2>1 DEF Tips
  <1> QED
    BY <1>1, Invariance, PTL DEF Spec, Immutable
-----------------------------------------------------------------------------
(* The walk from a tip.  No chain has more blocks than the map, so the walk  *)
(* ends below a genesis block before it runs out of rounds.                  *)
Bounded ==
    /\ IsFiniteSet(DOMAIN tree)
    /\ \A h \in DOMAIN tree : tree[h].length <= Cardinality(DOMAIN tree)

LEMMA PutBounded ==
    ASSUME TypeOK, Bounded, NEW h, h \notin DOMAIN tree, NEW b, tree' = Put(tree, h, b),
           b.length = 1 \/ \E p \in DOMAIN tree : b.length = tree[p].length + 1
    PROVE  Bounded'
  <1>1. DOMAIN tree' = DOMAIN tree \cup {h}
    BY DEF Put
  <1>2. /\ IsFiniteSet(DOMAIN tree')
        /\ Cardinality(DOMAIN tree') = Cardinality(DOMAIN tree) + 1
    BY <1>1, FS_AddElement DEF Bounded
  <1>3. PICK n \in Nat : n = Cardinality(DOMAIN tree)
    BY FS_CardinalityType DEF Bounded
  <1>4. \A g \in DOMAIN tree : tree[g].length \in Nat /\ tree[g].length <= n
    BY <1>3 DEF TypeOK, Bounded, Block
  <1>5. ASSUME NEW g \in DOMAIN tree' PROVE tree'[g].length <= n + 1
    <2>1. CASE g = h
      <3>1. tree'[g] = b
        BY <2>1 DEF Put
      <3> QED
        BY <1>3, <1>4, <3>1
    <2>2. CASE g # h
      <3>1. g \in DOMAIN tree /\ tree'[g] = tree[g]
        BY <1>1, <1>5, <2>2 DEF Put
      <3> QED
        BY <1>3, <1>4, <3>1
    <2> QED
      BY <2>1, <2>2
  <1> QED
    BY <1>2, <1>3, <1>5 DEF Bounded

LEMMA BoundedInvariant == Spec => []Bounded
  <1>1. Init => Bounded
    <2> SUFFICES ASSUME NEW h \in Hash, NEW d \in Difficulty,
                        tree = Only(h, Genesis(h, d))
                 PROVE  Bounded
      BY DEF Init
    <2>1. DOMAIN tree = {h} /\ tree[h].length = 1
      BY DEF Only, Genesis
    <2>2. IsFiniteSet({h}) /\ Cardinality({h}) = 1
      BY FS_Singleton
    <2> QED
      BY <2>1, <2>2 DEF Bounded
  <1>2. IInv /\ Bounded /\ [Next]_vars => Bounded'
    <2> SUFFICES ASSUME IInv, Bounded, [Next]_vars PROVE Bounded'
      OBVIOUS
    <2>1. ASSUME NEW h \in Hash, NEW d \in Difficulty, AddGenesis(h, d) PROVE Bounded'
      <3>1. h \notin DOMAIN tree /\ tree' = Put(tree, h, Genesis(h, d))
        BY <2>1 DEF AddGenesis
      <3>2. Genesis(h, d).length = 1
        BY DEF Genesis
      <3> QED
        BY <3>1, <3>2, PutBounded DEF IInv
    <2>2. ASSUME NEW h \in Hash, NEW p \in Hash, NEW data \in TxList, Extend(h, p, data)
          PROVE  Bounded'
      <3>1. /\ h \notin DOMAIN tree /\ p \in DOMAIN tree
            /\ tree' = Put(tree, h, Child(h, tree[p], data))
        BY <2>2, InsertChild DEF Extend, IInv
      <3>2. Child(h, tree[p], data).length = tree[p].length + 1
        BY DEF Child
      <3> QED
        BY <3>1, <3>2, PutBounded DEF IInv
    <2>3. CASE UNCHANGED vars
      BY <2>3 DEF Bounded, vars
    <2> QED
      BY <2>1, <2>2, <2>3 DEF Next
  <1> QED
    BY <1>1, <1>2, Invariance, PTL DEF Spec

(* curr of AllBlocksInLongestChain, and where the loop stops. *)
IsWalk(n, tip, curr) ==
    curr = [i \in 0 .. n |-> IF i = 0 THEN tip ELSE ParentOf(tree, curr[i - 1])]

Stops(curr, i) ==
    /\ curr[i] \notin DOMAIN tree
    /\ \A j \in 0 .. i - 1 : curr[j] \in DOMAIN tree

LEMMA WalkExists ==
    ASSUME TypeOK, NEW n \in Nat, NEW tip \in DOMAIN tree
    PROVE  \E curr : IsWalk(n, tip, curr)
  <1> DEFINE Value == Hash \cup {NoHash}
             allowed == [i \in 0 .. n |-> Value]
             step == [i \in 1 .. n |-> [h \in Value |-> ParentOf(tree, h)]]
  <1>1. \A h \in Value : ParentOf(tree, h) \in Value
    BY DEF ParentOf, TypeOK, Block
  <1>2. tip \in allowed[0] /\ allowed \in [0 .. n -> SUBSET Value]
    BY DEF TypeOK
  <1>3. StepsAllowed(n, allowed, step)
    <2> SUFFICES ASSUME NEW k \in 1 .. n, NEW v \in allowed[k - 1]
                 PROVE  step[k][v] \in allowed[k]
      BY DEF StepsAllowed
    <2>1. k - 1 \in 0 .. n /\ k \in 0 .. n
      OBVIOUS
    <2>2. v \in Value /\ allowed[k] = Value /\ step[k][v] = ParentOf(tree, v)
      BY <2>1
    <2> QED
      BY <1>1, <2>2
  <1> HIDE DEF allowed, step
  <1>4. PICK f \in [0 .. n -> Value] : IsIteration(f, n, tip, allowed, step)
    <2> HIDE DEF Value
    <2> QED
      BY <1>2, <1>3, IterationExists
  <1>5. ASSUME NEW i \in 0 .. n, i # 0 PROVE f[i] = ParentOf(tree, f[i - 1])
    <2>1. i \in 1 .. n /\ i - 1 \in 0 .. n
      BY <1>5
    <2>2. f[i - 1] \in Value
      BY <1>4, <2>1
    <2> HIDE DEF Value
    <2> QED
      BY <1>4, <2>1, <2>2 DEF step, IsIteration
  <1>6. \A i \in 0 .. n : f[i] = IF i = 0 THEN tip ELSE ParentOf(tree, f[i - 1])
    BY <1>4, <1>5 DEF IsIteration
  <1>7. f = [i \in 0 .. n |-> f[i]]
    BY <1>4
  <1> QED
    BY <1>6, <1>7 DEF IsWalk

(* After i rounds the walk is i blocks below the tip; it leaves the map when *)
(* it has passed all of them.                                                *)
LEMMA WalkDescends ==
    ASSUME TypeOK, WellFormed, NEW tip \in DOMAIN tree,
           NEW n \in Nat, tree[tip].length <= n, NEW curr, IsWalk(n, tip, curr)
    PROVE  /\ \A i \in 0 .. tree[tip].length - 1 :
                 curr[i] \in DOMAIN tree /\ tree[curr[i]].length = tree[tip].length - i
           /\ curr[tree[tip].length] \notin DOMAIN tree
  <1>1. PICK top \in Nat : top = tree[tip].length /\ top # 0 /\ top <= n
    BY DEF TypeOK, Block
  <1> DEFINE Good == {i \in 0 .. top - 1 :
                        curr[i] \in DOMAIN tree /\ tree[curr[i]].length = top - i}
  <1>2. \A i \in 0 .. n : curr[i] = IF i = 0 THEN tip ELSE ParentOf(tree, curr[i - 1])
    BY DEF IsWalk
  <1>3. 0 \in Good
    BY <1>1, <1>2
  <1>4. ASSUME NEW i \in 0 .. (top - 1) - 1, i \in Good PROVE i + 1 \in Good
    <2>1. /\ i + 1 \in 0 .. n /\ i + 1 # 0 /\ i + 1 - 1 = i /\ i + 1 \in 0 .. top - 1
          /\ top - i > 1 /\ top - i \in Nat
      BY <1>1
    <2>2. PICK h \in DOMAIN tree : h = curr[i] /\ tree[h].length = top - i
      BY <1>4
    <2>3. curr[i + 1] = tree[h].parent
      BY <1>2, <2>1, <2>2 DEF ParentOf
    <2>4. /\ tree[h].parent \in DOMAIN tree
          /\ top - i = tree[tree[h].parent].length + 1
      BY <2>1, <2>2 DEF WellFormed
    <2>5. tree[tree[h].parent].length \in Nat
      BY <2>4 DEF TypeOK, Block
    <2>6. tree[tree[h].parent].length = top - (i + 1)
      BY <1>1, <2>1, <2>4, <2>5
    <2> QED
      BY <2>1, <2>3, <2>4, <2>6
  <1>5. 0 .. top - 1 \subseteq Good
    <2>1. top - 1 \in Nat
      BY <1>1
    <2> HIDE DEF Good
    <2> QED
      BY <1>3, <1>4, <2>1, IntervalInduction
  <1>6. curr[top] \notin DOMAIN tree
    <2>1. top - 1 \in 0 .. top - 1 /\ top \in 0 .. n /\ top - (top - 1) = 1
      BY <1>1
    <2>2. PICK h \in DOMAIN tree : h = curr[top - 1] /\ tree[h].length = 1
      BY <1>5, <2>1
    <2>3. curr[top] = tree[h].parent
      BY <1>1, <1>2, <2>1, <2>2 DEF ParentOf
    <2>4. tree[h].parent = NoHash
      BY <2>2 DEF WellFormed
    <2> QED
      BY <2>3, <2>4, BlockchainAssumption DEF TypeOK
  <1> QED
    BY <1>1, <1>5, <1>6

(* all_blocks_in_longest_chain lists the blocks below the tip by height,     *)
(* down from the tip's own.                                                  *)
LEMMA ChainByHeight ==
    ASSUME TypeOK, WellFormed, Bounded, NEW tip \in DOMAIN tree
    PROVE  LET chain == AllBlocksInLongestChain(tree, tip)
               top == tree[tip].length
           IN  /\ Len(chain) = top
               /\ \A i \in 1 .. top :
                     chain[i] \in DOMAIN tree /\ tree[chain[i]].length = top + 1 - i
  <1>1. PICK n \in Nat : n = Cardinality(DOMAIN tree)
    BY FS_CardinalityType DEF Bounded
  <1>2. PICK top \in Nat : top = tree[tip].length /\ top # 0 /\ top <= n
    BY <1>1 DEF TypeOK, Block, Bounded
  <1> DEFINE curr == CHOOSE curr : IsWalk(n, tip, curr)
             rounds == CHOOSE i \in 0 .. n : Stops(curr, i)
  <1>3. IsWalk(n, tip, curr)
    BY WalkExists
  <1>4. AllBlocksInLongestChain(tree, tip) = [i \in 1 .. rounds |-> curr[i - 1]]
    BY <1>1 DEF AllBlocksInLongestChain, IsWalk, Stops
  <1> HIDE DEF curr
  <1>5. /\ \A i \in 0 .. top - 1 :
              curr[i] \in DOMAIN tree /\ tree[curr[i]].length = top - i
        /\ curr[top] \notin DOMAIN tree
    BY <1>2, <1>3, WalkDescends
  <1>6. rounds = top
    <2>1. top \in 0 .. n /\ Stops(curr, top)
      BY <1>2, <1>5 DEF Stops
    <2>2. \A i \in 0 .. n : Stops(curr, i) => i = top
      <3> SUFFICES ASSUME NEW i \in 0 .. n, Stops(curr, i) PROVE i = top
        OBVIOUS
      <3>1. ~(i < top)
        BY <1>2, <1>5 DEF Stops
      <3>2. ~(top < i)
        BY <1>2, <1>5 DEF Stops
      <3> QED
        BY <1>2, <3>1, <3>2
    <2> QED
      BY <2>1, <2>2
  <1> HIDE DEF rounds
  <1>7. PICK chain : chain = AllBlocksInLongestChain(tree, tip)
    OBVIOUS
  <1>8. Len(chain) = top
    <2>1. DOMAIN chain = 1 .. top /\ chain = [i \in 1 .. top |-> curr[i - 1]]
      BY <1>4, <1>6, <1>7
    <2> QED
      BY <1>2, <2>1
  <1>9. ASSUME NEW i \in 1 .. top
        PROVE  chain[i] \in DOMAIN tree /\ tree[chain[i]].length = top + 1 - i
    <2>1. chain[i] = curr[i - 1] /\ i - 1 \in 0 .. top - 1 /\ top - (i - 1) = top + 1 - i
      BY <1>2, <1>4, <1>6, <1>7
    <2> QED
      BY <1>5, <2>1
  <1> QED
    BY <1>2, <1>7, <1>8, <1>9

(* Whichever of the longest chains tip() picks, block=k finds its block of   *)
(* height k, and that block's state (api/mod.rs:196-212).                    *)
THEOREM StateQuery_FindsHeight == Spec => []StateQueryFindsHeight
  <1>1. IInv /\ Bounded => StateQueryFindsHeight
    <2> SUFFICES ASSUME IInv, Bounded, NEW tip \in DOMAIN tree,
                        NEW chain, chain = AllBlocksInLongestChain(tree, tip)
                 PROVE  /\ Len(chain) = tree[tip].length
                        /\ \A k \in 0 .. Len(chain) - 1 :
                              /\ tree[StateQuery(chain, k)].length = k + 1
                              /\ StateQuery(chain, k) \in DOMAIN ledger
      BY DEF StateQueryFindsHeight, Tips
    <2>1. PICK top \in Nat : top = tree[tip].length
      BY DEF IInv, TypeOK, Block
    <2>2. /\ Len(chain) = top
          /\ \A i \in 1 .. top :
                chain[i] \in DOMAIN tree /\ tree[chain[i]].length = top + 1 - i
      BY <2>1, ChainByHeight DEF IInv
    <2>3. ASSUME NEW k \in 0 .. top - 1
          PROVE  tree[chain[top - k]].length = k + 1 /\ chain[top - k] \in DOMAIN ledger
      <3>1. top - k \in 1 .. top /\ top + 1 - (top - k) = k + 1
        BY <2>1
      <3>2. DOMAIN ledger = DOMAIN tree
        BY DEF IInv, TypeOK
      <3> QED
        BY <2>2, <3>1, <3>2
    <2> QED
      BY <2>1, <2>2, <2>3 DEF StateQuery
  <1> QED
    BY <1>1, Invariance, BoundedInvariant, PTL
================================================================================
