------------------------------ MODULE NodeProofs ------------------------------
(***************************************************************************)
(* What the threads of a node keep, for any number of workers, any blocks, *)
(* transactions and batches, honest peers or not.                          *)
(*                                                                         *)
(* The invariants that are checked are not inductive: whether the queue of *)
(* mined blocks is sound depends on where the miner is, on which blocks    *)
(* the peers can have, and on what the handlers hold.  IInv adds that.     *)
(***************************************************************************)
EXTENDS Node, SequenceTheorems, TLAPS

(* A genesis block is a block (types/block.rs:66-91). *)
LEMMA GenesisType ==
    ASSUME NEW h \in Hash, NEW d \in Difficulty
    PROVE  Genesis(h, d) \in Block
  BY BlockchainAssumption DEF Genesis, Block

(* So is what is mined on a block (miner/mod.rs:222-236). *)
LEMMA ChildType ==
    ASSUME NEW h \in Hash, NEW p \in Block, NEW data \in TxList
    PROVE  Child(h, p, data) \in Block
  BY DEF Child, Block

(* insert leaves a block that has the right length as it is (mod.rs:46-51). *)
LEMMA SameLength ==
    ASSUME NEW b \in Block PROVE [b EXCEPT !.length = b.length] = b
  BY DEF Block

(* execute_tx gives a state and a list that a block may carry. *)
LEMMA ExecuteType ==
    ASSUME NEW s \in LedgerState, NEW txs \in TxList
    PROVE  Execute(s, txs).state \in LedgerState /\ Execute(s, txs).valid \in TxList
  BY ExecuteAssumption

(* Hashes name blocks, parents exist, lengths count from a genesis. *)
WorldOK ==
    \A h \in DOMAIN world :
        /\ world[h].hash = h
        /\ world[h].length = 1 => world[h] = Genesis(h, world[h].difficulty)
        /\ world[h].length > 1 =>
             /\ world[h].parent \in DOMAIN world
             /\ world[h].length = world[world[h].parent].length + 1
             /\ HonestHeaders =>
                  CheckBlockValidity(world[h], world[world[h].parent])

(* The chain is closed under parents, and its blocks passed the check. *)
ChainOK ==
    \A h \in DOMAIN blocks :
        blocks[h].length > 1 =>
            /\ blocks[h].parent \in DOMAIN blocks
            /\ CheckBlockValidity(blocks[h], blocks[blocks[h].parent])

(* The state a block leads to, when its parent's is stored. *)
StateOf(b) == IF b.length = 1 THEN Ico ELSE NewState(b)

(* Every block of the chain has its state; any other state stored is that   *)
(* of a block that no peer has.                                             *)
StatesOK ==
    /\ DOMAIN blocks \subseteq DOMAIN block_states
    /\ \A h \in DOMAIN blocks : block_states[h] = StateOf(blocks[h])
    /\ \A h \in DOMAIN block_states :
          h \in DOMAIN blocks \/ (h \in DOMAIN world /\ h \notin released)

(* The blocks that can come from a peer; a worker has no others in hand. *)
Known == {b \in Block : b.hash \in released /\ world[b.hash] = b}
Orphans == {b \in Known : b.length # 1}
InHand == todo \in Seq(Known) /\ orphan_buffer \in Seq(Orphans)

(* What a handler relies on where it stands. *)
HandlerOK ==
    \A w \in Worker :
        /\ wpc[w] \in {"attach", "adopt", "cleanup"} => todo # <<>>
        /\ wpc[w] = "attach" => Head(todo).hash \notin DOMAIN blocks
        /\ wpc[w] = "adopt" => idx_to_delete \in Seq(1 .. Len(orphan_buffer))

(* The miner's two blocks are blocks of the chain. *)
MinerOK ==
    /\ MinerReady
    /\ genesis_block.hash \in DOMAIN blocks
    /\ blocks[genesis_block.hash] = genesis_block

(* b can be inserted when the thread that inserts mined blocks gets to it. *)
Landing(b) ==
    /\ b.length > 1
    /\ b.parent \in DOMAIN blocks
    /\ CheckBlockValidity(b, blocks[b.parent])
    /\ b.hash \in DOMAIN block_states
    /\ block_states[b.hash] = NewState(b)

Own == {b \in Block : b.hash \in DOMAIN world /\ world[b.hash] = b}
Queueable ==
    {b \in Own :
        b.hash \in DOMAIN blocks \/ (b.hash \notin released /\ Landing(b))}
QueueOK ==
    /\ finished \in Seq(Queueable)
    /\ ipc = "broadcast" =>
         finished # <<>> /\ Head(finished).hash \in DOMAIN blocks

(* From the moment a block is found until it is sent it is the miner's     *)
(* alone; its state is stored in between.                                  *)
FoundOK ==
    mpc \in {"execute", "send"} =>
        /\ found.hash \in DOMAIN world /\ world[found.hash] = found
        /\ found.hash \notin DOMAIN blocks
        /\ found.hash \notin released
        /\ found = Child(found.hash, parent_block, found.data)
        /\ finished \in Seq({b \in Block : b.hash # found.hash})
        /\ mpc = "execute" => found.hash \notin DOMAIN block_states
        /\ mpc = "send" =>
             /\ found.hash \in DOMAIN block_states
             /\ block_states[found.hash] = NewState(found)

IInv ==
    /\ TypeOK /\ MutualExclusion
    /\ WorldOK /\ ChainIsWorld /\ ChainOK /\ StatesOK
    /\ InHand /\ HandlerOK /\ NoMissingState
    /\ MinerOK /\ QueueOK /\ FoundOK

-----------------------------------------------------------------------------
(* A block of the chain, found again by its hash, is the block of the world. *)
LEMMA InChain ==
    ASSUME IInv, NEW h \in DOMAIN blocks
    PROVE  /\ blocks[h] \in Block /\ blocks[h].hash = h /\ blocks[h] = world[h]
           /\ h \in Hash /\ h \in DOMAIN world
           /\ h \in DOMAIN block_states /\ block_states[h] \in LedgerState
           /\ blocks[h].length # 1 => blocks[h].length > 1
  <1>1. blocks[h] \in Block /\ h \in Hash
    BY DEF IInv, TypeOK
  <1>2. blocks[h] = world[h] /\ h \in DOMAIN world
    BY DEF IInv, ChainIsWorld
  <1>3. blocks[h].hash = h
    BY <1>2 DEF IInv, WorldOK
  <1>4. h \in DOMAIN block_states /\ block_states[h] \in LedgerState
    BY DEF IInv, StatesOK, TypeOK
  <1>5. blocks[h].length \in Nat \ {0}
    BY <1>1 DEF Block
  <1> QED
    BY <1>1, <1>2, <1>3, <1>4, <1>5

-----------------------------------------------------------------------------
(* The four steps that grow the chain.                                     *)

(* b may be inserted, whether it is there already or not. *)
Placeable(b) ==
    /\ b \in Own
    /\ b.length # 1 => /\ b.parent \in DOMAIN blocks
                       /\ CheckBlockValidity(b, blocks[b.parent])
    /\ b.hash \in DOMAIN block_states \ DOMAIN blocks =>
          block_states[b.hash] = StateOf(b)
    /\ mpc \in {"execute", "send"} => b.hash # found.hash

LEMMA InsertIsPut ==
    ASSUME IInv, NEW b \in Own, b.length # 1 => b.parent \in DOMAIN blocks
    PROVE  Insert(blocks, b) = Put(blocks, b.hash, b)
  <1>1. b \in Block /\ b = world[b.hash] /\ b.hash \in DOMAIN world
    BY DEF Own
  <1>2. b.length \in Nat \ {0}
    BY <1>1 DEF Block
  <1>3. CASE b.length = 1
    BY <1>3 DEF Insert
  <1>4. CASE b.length # 1
    <2>1. b.length = world[b.parent].length + 1
      BY <1>1, <1>2, <1>4 DEF IInv, WorldOK
    <2>2. blocks[b.parent] = world[b.parent]
      BY <1>4, InChain
    <2>3. [b EXCEPT !.length = blocks[b.parent].length + 1] = b
      BY <1>1, <2>1, <2>2, SameLength
    <2> QED
      BY <1>2, <1>4, <2>3 DEF Insert
  <1> QED
    BY <1>3, <1>4

LEMMA StateOfType ==
    ASSUME IInv, NEW b \in Block, b.length # 1 => b.parent \in DOMAIN blocks
    PROVE  StateOf(b) \in LedgerState
  <1>1. CASE b.length = 1
    BY <1>1, ExecuteAssumption DEF StateOf
  <1>2. CASE b.length # 1
    <2>1. block_states[b.parent] \in LedgerState
      BY <1>2, InChain
    <2>2. b.data \in TxList
      BY DEF Block
    <2> QED
      BY <1>2, <2>1, <2>2, ExecuteType DEF StateOf, NewState
  <1> QED
    BY <1>1, <1>2

(* Such a step adds one block at most and changes no block and no state. *)
LEMMA PlaceAdds ==
    ASSUME IInv, NEW b, Placeable(b),
           blocks' = Insert(blocks, b),
           block_states' = Put(block_states, b.hash, StateOf(b))
    PROVE  /\ b.hash \in Hash
           /\ DOMAIN blocks' = DOMAIN blocks \cup {b.hash}
           /\ blocks'[b.hash] = b
           /\ \A h \in DOMAIN blocks : blocks'[h] = blocks[h]
           /\ DOMAIN block_states' = DOMAIN block_states \cup {b.hash}
           /\ block_states'[b.hash] = StateOf(b)
           /\ \A h \in DOMAIN block_states : block_states'[h] = block_states[h]
  <1>1. b \in Block /\ b = world[b.hash] /\ b.hash \in DOMAIN world
    BY DEF Placeable, Own
  <1>2. blocks' = Put(blocks, b.hash, b)
    BY InsertIsPut DEF Placeable
  <1>3. b.hash \in DOMAIN blocks =>
          /\ blocks[b.hash] = b
          /\ block_states[b.hash] = StateOf(b)
    BY <1>1, InChain DEF IInv, StatesOK
  <1>4. b.hash \in DOMAIN block_states => block_states[b.hash] = StateOf(b)
    BY <1>3 DEF Placeable
  <1>5. b.hash \in Hash
    BY <1>1 DEF Block
  <1> QED
    BY <1>2, <1>3, <1>4, <1>5 DEF Put

(* It keeps everything said of the chain, of the miner's blocks and of the *)
(* queue; what is left to say is what the handler itself does.             *)
LEMMA PlaceKeepsChain ==
    ASSUME IInv, NEW b, Placeable(b),
           blocks' = Insert(blocks, b),
           block_states' = Put(block_states, b.hash, StateOf(b)),
           UNCHANGED peerVars
    PROVE  /\ WorldOK' /\ ChainIsWorld' /\ ChainOK' /\ StatesOK'
           /\ Known' = Known /\ Orphans' = Orphans
           /\ \A q \in Queueable : q \in Queueable'
  <1>1. b \in Block /\ b = world[b.hash] /\ b.hash \in DOMAIN world /\ b.length \in Nat \ {0}
    BY DEF Placeable, Own, Block
  <1>2. /\ b.hash \in Hash
        /\ DOMAIN blocks' = DOMAIN blocks \cup {b.hash}
        /\ blocks'[b.hash] = b
        /\ \A h \in DOMAIN blocks : blocks'[h] = blocks[h]
        /\ DOMAIN block_states' = DOMAIN block_states \cup {b.hash}
        /\ block_states'[b.hash] = StateOf(b)
        /\ \A h \in DOMAIN block_states : block_states'[h] = block_states[h]
    BY PlaceAdds
  <1>3. world' = world /\ released' = released
    BY DEF peerVars
  <1>4. WorldOK'
    BY <1>3 DEF IInv, WorldOK
  <1>5. ChainIsWorld'
    BY <1>1, <1>2, <1>3 DEF IInv, ChainIsWorld
  <1>6. ChainOK'
    <2> SUFFICES ASSUME NEW h \in DOMAIN blocks', blocks'[h].length > 1
                 PROVE  /\ blocks'[h].parent \in DOMAIN blocks'
                        /\ CheckBlockValidity(blocks'[h], blocks'[blocks'[h].parent])
      BY DEF ChainOK
    <2>1. CASE h = b.hash
      <3>1. b.length # 1
        BY <1>1, <1>2, <2>1
      <3>2. b.parent \in DOMAIN blocks /\ CheckBlockValidity(b, blocks[b.parent])
        BY <3>1 DEF Placeable
      <3> QED
        BY <1>2, <2>1, <3>2
    <2>2. CASE h # b.hash
      <3>1. h \in DOMAIN blocks /\ blocks'[h] = blocks[h]
        BY <1>2, <2>2
      <3>2. /\ blocks[h].parent \in DOMAIN blocks
            /\ CheckBlockValidity(blocks[h], blocks[blocks[h].parent])
        BY <3>1 DEF IInv, ChainOK
      <3> QED
        BY <1>2, <3>1, <3>2
    <2> QED
      BY <2>1, <2>2
  <1>7. \A q : q.parent \in DOMAIN blocks => block_states'[q.parent] = block_states[q.parent]
    BY <1>2 DEF IInv, StatesOK
  <1>8. ASSUME NEW q, q.length # 1 => q.parent \in DOMAIN blocks
        PROVE  (IF q.length = 1 THEN Ico ELSE Execute(block_states'[q.parent], q.data).state)
                 = StateOf(q)
    BY <1>7, <1>8 DEF StateOf, NewState
  <1>9. StatesOK'
    <2>1. DOMAIN blocks' \subseteq DOMAIN block_states'
      BY <1>2 DEF IInv, StatesOK
    <2>2. ASSUME NEW h \in DOMAIN blocks'
          PROVE  block_states'[h]
                   = IF blocks'[h].length = 1 THEN Ico
                     ELSE Execute(block_states'[blocks'[h].parent], blocks'[h].data).state
      <3>1. CASE h = b.hash
        BY <1>2, <1>8, <3>1 DEF Placeable
      <3>2. CASE h # b.hash
        <4>1. h \in DOMAIN blocks /\ blocks'[h] = blocks[h]
          BY <1>2, <3>2
        <4>2. block_states'[h] = StateOf(blocks[h])
          BY <1>2, <4>1 DEF IInv, StatesOK
        <4>3. blocks[h].length # 1 => blocks[h].parent \in DOMAIN blocks
          BY <4>1, InChain DEF IInv, ChainOK
        <4> QED
          BY <1>8, <4>1, <4>2, <4>3
      <3> QED
        BY <3>1, <3>2
    <2>3. \A h \in DOMAIN block_states' :
             h \in DOMAIN blocks' \/ (h \in DOMAIN world' /\ h \notin released')
      BY <1>2, <1>3 DEF IInv, StatesOK
    <2> QED
      BY <2>1, <2>2, <2>3 DEF StatesOK, StateOf, NewState
  <1>10. Known' = Known
    BY <1>3 DEF Known
  <1>11. Orphans' = Orphans
    BY <1>10 DEF Orphans
  <1>12. ASSUME NEW q \in Queueable
         PROVE  q \in Queueable'
    <2>1. q \in Own /\ q \in Own'
      BY <1>3 DEF Queueable, Own
    <2>2. CASE q.hash \in DOMAIN blocks
      BY <1>2, <2>1, <2>2 DEF Queueable
    <2>3. CASE q.hash \notin released /\ Landing(q)
      <3>1. Landing(q)'
        BY <1>2, <1>7, <2>3 DEF Landing, NewState
      <3> QED
        BY <1>3, <2>1, <2>3, <3>1 DEF Queueable
    <2> QED
      BY <2>2, <2>3 DEF Queueable
  <1> QED
    BY <1>4, <1>5, <1>6, <1>9, <1>10, <1>11, <1>12

(* What every step that leaves the peers alone does to the chain: nothing, *)
(* or it places a block.                                                   *)
Places(b) ==
    /\ Placeable(b)
    /\ blocks' = Insert(blocks, b)
    /\ block_states' = Put(block_states, b.hash, StateOf(b))
Grows == UNCHANGED peerVars /\ (UNCHANGED chainVars \/ \E b : Places(b))

LEMMA GrowsKeepsChain ==
    ASSUME IInv, Grows
    PROVE  /\ WorldOK' /\ ChainIsWorld' /\ ChainOK' /\ StatesOK'
           /\ Known' = Known /\ Orphans' = Orphans
           /\ \A q \in Queueable : q \in Queueable'
  <1>1. CASE UNCHANGED chainVars
    <2>1. /\ world' = world /\ released' = released
          /\ blocks' = blocks /\ block_states' = block_states
      BY <1>1 DEF Grows, peerVars, chainVars
    <2>2. WorldOK' /\ ChainIsWorld' /\ ChainOK'
      BY <2>1 DEF IInv, WorldOK, ChainIsWorld, ChainOK
    <2>3. StatesOK'
      BY <2>1 DEF IInv, StatesOK, StateOf, NewState
    <2>4. Known' = Known /\ Orphans' = Orphans
      BY <2>1 DEF Known, Orphans
    <2>5. Queueable' = Queueable
      BY <2>1 DEF Queueable, Own, Landing, NewState
    <2> QED
      BY <2>2, <2>3, <2>4, <2>5
  <1>2. CASE \E b : Places(b)
    <2> PICK b : Places(b)
      BY <1>2
    <2>1. UNCHANGED peerVars
      BY DEF Grows
    <2> QED
      BY <2>1, PlaceKeepsChain DEF Places
  <1> QED
    BY <1>1, <1>2 DEF Grows

LEMMA GrowsOnly ==
    ASSUME IInv, Grows
    PROVE  /\ world' = world /\ released' = released
           /\ DOMAIN blocks' \subseteq Hash /\ blocks' \in [DOMAIN blocks' -> Block]
           /\ DOMAIN block_states' \subseteq Hash
           /\ block_states' \in [DOMAIN block_states' -> LedgerState]
           /\ \A h \in DOMAIN blocks : h \in DOMAIN blocks' /\ blocks'[h] = blocks[h]
           /\ \A h \in DOMAIN block_states :
                 h \in DOMAIN block_states' /\ block_states'[h] = block_states[h]
           /\ mpc \in {"execute", "send"} =>
                 /\ found.hash \notin DOMAIN blocks'
                 /\ found.hash \in DOMAIN block_states'
                       <=> found.hash \in DOMAIN block_states
  <1>1. world' = world /\ released' = released
    BY DEF Grows, peerVars
  <1>2. CASE UNCHANGED chainVars
    BY <1>1, <1>2 DEF chainVars, IInv, TypeOK, FoundOK
  <1>3. CASE \E b : Places(b)
    <2> PICK b : Places(b)
      BY <1>3
    <2>1. /\ b.hash \in Hash
          /\ DOMAIN blocks' = DOMAIN blocks \cup {b.hash}
          /\ blocks'[b.hash] = b
          /\ \A h \in DOMAIN blocks : blocks'[h] = blocks[h]
          /\ DOMAIN block_states' = DOMAIN block_states \cup {b.hash}
          /\ block_states'[b.hash] = StateOf(b)
          /\ \A h \in DOMAIN block_states : block_states'[h] = block_states[h]
      BY PlaceAdds DEF Places
    <2>2. b \in Block /\ (b.length # 1 => b.parent \in DOMAIN blocks)
      BY DEF Places, Placeable, Own
    <2>3. StateOf(b) \in LedgerState
      BY <2>2, StateOfType
    <2>4. DOMAIN blocks' \subseteq Hash /\ blocks' \in [DOMAIN blocks' -> Block]
      <3>1. blocks' = Insert(blocks, b)
        BY DEF Places
      <3>2. blocks' = [h \in DOMAIN blocks' |-> blocks'[h]]
        BY <3>1 DEF Insert, Put
      <3> QED
        BY <2>1, <2>2, <3>2 DEF IInv, TypeOK
    <2>5. DOMAIN block_states' \subseteq Hash
          /\ block_states' \in [DOMAIN block_states' -> LedgerState]
      <3>1. block_states' = [h \in DOMAIN block_states' |-> block_states'[h]]
        BY DEF Places, Put
      <3> QED
        BY <2>1, <2>3, <3>1 DEF IInv, TypeOK
    <2>6. mpc \in {"execute", "send"} =>
             b.hash # found.hash /\ found.hash \notin DOMAIN blocks
      BY DEF Places, Placeable, IInv, FoundOK
    <2> QED
      BY <1>1, <2>1, <2>4, <2>5, <2>6
  <1> QED
    BY <1>2, <1>3 DEF Grows

(* Then the miner and the queue are as well off as before. *)
LEMMA GrowsKeepsFound ==
    ASSUME IInv, Grows, UNCHANGED <<minerVars, finished>>
    PROVE  MinerOK' /\ FoundOK'
  <1>0. /\ mpc' = mpc /\ genesis_block' = genesis_block
        /\ parent_block' = parent_block /\ found' = found /\ finished' = finished
    BY DEF minerVars
  <1>1. MinerOK'
    BY <1>0, GrowsOnly DEF IInv, MinerOK, MinerReady
  <1>2. FoundOK'
    <2> SUFFICES ASSUME mpc \in {"execute", "send"} PROVE FoundOK'
      BY <1>0 DEF FoundOK
    <2>1. parent_block.hash \in DOMAIN blocks /\ found = Child(found.hash, parent_block, found.data)
      BY DEF IInv, MinerOK, MinerReady, FoundOK
    <2>2. found.parent = parent_block.hash
      BY <2>1 DEF Child
    <2>3. block_states'[found.parent] = block_states[found.parent]
      BY <2>1, <2>2, GrowsOnly DEF IInv, StatesOK
    <2>4. mpc = "send" => block_states'[found.hash]
                            = Execute(block_states'[found.parent], found.data).state
      BY <2>3, GrowsOnly DEF IInv, FoundOK, NewState
    <2> QED
      BY <1>0, <2>4, GrowsOnly DEF IInv, FoundOK, NewState
  <1> QED
    BY <1>1, <1>2

LEMMA GrowsKeepsMiner ==
    ASSUME IInv, Grows, UNCHANGED <<minerVars, queueVars>>
    PROVE  MinerOK' /\ QueueOK' /\ FoundOK'
  <1>1. finished' = finished /\ ipc' = ipc
    BY DEF queueVars
  <1>2. finished' \in Seq(Queueable)'
    BY <1>1, GrowsKeepsChain, SeqMonotonic DEF IInv, QueueOK
  <1>3. QueueOK'
    BY <1>1, <1>2, GrowsOnly DEF IInv, QueueOK
  <1> QED
    BY <1>1, <1>3, GrowsKeepsFound

-----------------------------------------------------------------------------
(* The steps of a handler.                                                 *)

Handling == {"next", "news", "attach", "adopt", "cleanup"}

LEMMA HandlerAlone ==
    ASSUME IInv, NEW w \in Worker, wpc[w] \in Handling
    PROVE  /\ chain_lock = w /\ w \notin {"free", "miner", "poisoned"}
           /\ \A v \in Worker : v # w => wpc[v] \notin Handling
  BY NodeAssumption DEF IInv, MutualExclusion, Handling

(* What is left to show of a step in which a handler goes from one place   *)
(* to another.                                                             *)
LEMMA HandlerStep ==
    ASSUME IInv, Grows, UNCHANGED <<lockVars, minerSide>>, mempool' \subseteq Signed,
           NEW w \in Worker, NEW x \in Handling, wpc[w] \in Handling,
           wpc' = [wpc EXCEPT ![w] = x],
           todo' \in Seq(Known), orphan_buffer' \in Seq(Orphans),
           idx_to_delete' \in Seq(Nat \ {0}),
           x \in {"attach", "adopt", "cleanup"} => todo' # <<>>,
           x = "attach" => Head(todo').hash \notin DOMAIN blocks',
           x = "adopt" =>
              /\ idx_to_delete' \in Seq(1 .. Len(orphan_buffer'))
              /\ HonestHeaders => NewBlockInserted'.hash \in DOMAIN blocks'
    PROVE  IInv'
  <1>1. /\ chain_lock' = chain_lock /\ pool_lock' = pool_lock
        /\ UNCHANGED <<minerVars, queueVars>>
    BY DEF lockVars, minerSide
  <1>2. /\ mpc' = mpc /\ genesis_block' = genesis_block
        /\ parent_block' = parent_block /\ found' = found /\ tx_data' = tx_data
        /\ ipc' = ipc /\ finished' = finished
    BY <1>1 DEF minerVars, queueVars
  <1>3. wpc \in [Worker -> Handling \cup {"recv", "dead"}]
    BY DEF IInv, TypeOK, Handling
  <1>4. wpc'[w] = x /\ \A v \in Worker : v # w => wpc'[v] = wpc[v] /\ wpc[v] \notin Handling
    BY <1>3, HandlerAlone
  <1>5. Known \subseteq Block /\ Orphans \subseteq Block
    BY DEF Known, Orphans
  <1>6. TypeOK'
    <2>1. todo' \in Seq(Block) /\ orphan_buffer' \in Seq(Block)
      BY <1>5, SeqMonotonic
    <2>2. wpc' \in [Worker -> Handling \cup {"recv", "dead"}]
      BY <1>3
    <2> QED
      BY <1>1, <1>2, <2>1, <2>2, GrowsOnly DEF IInv, TypeOK, Handling
  <1>7. MutualExclusion'
    BY <1>1, <1>2, <1>4 DEF IInv, MutualExclusion, Handling
  <1>8. /\ WorldOK' /\ ChainIsWorld' /\ ChainOK' /\ StatesOK'
        /\ Known' = Known /\ Orphans' = Orphans
    BY GrowsKeepsChain
  <1>9. InHand'
    BY <1>8 DEF InHand
  <1>10. HandlerOK' /\ NoMissingState'
    BY <1>4 DEF HandlerOK, NoMissingState, Handling
  <1>11. MinerOK' /\ QueueOK' /\ FoundOK'
    BY <1>1, GrowsKeepsMiner
  <1> QED
    BY <1>6, <1>7, <1>8, <1>9, <1>10, <1>11 DEF IInv

(* The block at hand comes from a peer; so does every orphan. *)
LEMMA InHandFacts ==
    ASSUME IInv
    PROVE  /\ todo \in Seq(Known) /\ orphan_buffer \in Seq(Orphans)
           /\ todo # <<>> => Head(todo) \in Known /\ Tail(todo) \in Seq(Known)
           /\ \A i \in 1 .. Len(orphan_buffer) :
                 orphan_buffer[i] \in Known /\ orphan_buffer[i].length # 1
  <1>1. todo \in Seq(Known) /\ orphan_buffer \in Seq(Orphans)
    BY DEF IInv, InHand
  <1>2. todo # <<>> => Head(todo) \in Known /\ Tail(todo) \in Seq(Known)
    BY <1>1, HeadTailProperties
  <1>3. ASSUME NEW i \in 1 .. Len(orphan_buffer)
        PROVE  orphan_buffer[i] \in Known /\ orphan_buffer[i].length # 1
    <2>1. orphan_buffer[i] \in Orphans
      BY <1>1, ElementOfSeq
    <2> QED
      BY <2>1 DEF Orphans
  <1> QED
    BY <1>1, <1>2, <1>3

LEMMA KnownFacts ==
    ASSUME IInv, NEW b \in Known
    PROVE  /\ b \in Own /\ b \in Block /\ b.hash \in Hash /\ b.hash \in released
           /\ b.hash \in DOMAIN block_states => b.hash \in DOMAIN blocks
           /\ b.hash \in DOMAIN blocks => blocks[b.hash] = b
           /\ mpc \in {"execute", "send"} => b.hash # found.hash
           /\ b.parent \in Hash => b.length # 1
           /\ b.length # 1 =>
                 /\ b.length > 1
                 /\ b.parent \in DOMAIN world
                 /\ HonestHeaders => CheckBlockValidity(b, world[b.parent])
  <1>1. b \in Block /\ b.hash \in released /\ world[b.hash] = b
    BY DEF Known
  <1>2. b \in Own /\ b.hash \in Hash
    BY <1>1 DEF Own, IInv, TypeOK
  <1>3. b.hash \in DOMAIN block_states => b.hash \in DOMAIN blocks
    BY <1>1 DEF IInv, StatesOK
  <1>4. b.hash \in DOMAIN blocks => blocks[b.hash] = b
    BY <1>1 DEF IInv, ChainIsWorld
  <1>5. mpc \in {"execute", "send"} => b.hash # found.hash
    BY <1>1 DEF IInv, FoundOK
  <1>6. b.length \in Nat \ {0} /\ b.hash \in DOMAIN world
    BY <1>1, <1>2 DEF Block, Own
  <1>7. b.parent \in Hash => b.length # 1
    <2> SUFFICES ASSUME b.length = 1 PROVE b.parent \notin Hash
      OBVIOUS
    <2>1. b = Genesis(b.hash, b.difficulty)
      BY <1>1, <1>6 DEF IInv, WorldOK
    <2>2. b.parent = NoHash
      BY <2>1 DEF Genesis
    <2> QED
      BY <2>2, BlockchainAssumption
  <1>8. b.length # 1 =>
           /\ b.length > 1
           /\ b.parent \in DOMAIN world
           /\ HonestHeaders => CheckBlockValidity(b, world[b.parent])
    BY <1>1, <1>6 DEF IInv, WorldOK
  <1> QED
    BY <1>1, <1>2, <1>3, <1>4, <1>5, <1>7, <1>8

LEMMA AttachGrows ==
    ASSUME IInv, NEW b \in Known, b.length # 1, NEW p,
           b.parent \in DOMAIN blocks => blocks[b.parent] = p,
           IF CheckBlockValidity(b, p) THEN Attach(b) ELSE UNCHANGED chainVars,
           UNCHANGED peerVars
    PROVE  Grows /\ (CheckBlockValidity(b, p) => b.hash \in DOMAIN blocks')
  <1>1. CASE CheckBlockValidity(b, p)
    <2>1. Attach(b)
      BY <1>1
    <2>2. b.parent \in DOMAIN blocks /\ CheckBlockValidity(b, blocks[b.parent])
      BY <1>1, <2>1, KnownFacts DEF Attach, CanAttach, Insertable
    <2>3. Placeable(b)
      BY <2>2, KnownFacts DEF Placeable
    <2>4. StateOf(b) = NewState(b)
      BY DEF StateOf
    <2>5. Places(b)
      BY <2>1, <2>3, <2>4 DEF Attach, Places
    <2>6. DOMAIN blocks' = DOMAIN blocks \cup {b.hash}
      BY <2>5, PlaceAdds DEF Places
    <2> QED
      BY <2>5, <2>6 DEF Grows
  <1>2. CASE ~ CheckBlockValidity(b, p)
    BY <1>2 DEF Grows
  <1> QED
    BY <1>1, <1>2

LEMMA SkipSeenIInv ==
    ASSUME IInv, NEW w \in Worker, SkipSeen(w) PROVE IInv'
  <1>1. /\ UNCHANGED <<peerVars, chainVars, lockVars, minerSide>>
        /\ mempool' = mempool /\ orphan_buffer' = orphan_buffer
        /\ idx_to_delete' = idx_to_delete /\ wpc' = wpc
        /\ wpc[w] \in {"next", "news"} /\ todo # <<>> /\ todo' = Tail(todo)
    BY DEF SkipSeen, AtTurn, outside
  <1>2. wpc' = [wpc EXCEPT ![w] = wpc[w]]
    BY <1>1 DEF IInv, TypeOK
  <1>3. mempool \subseteq Signed /\ idx_to_delete \in Seq(Nat \ {0})
    BY DEF IInv, TypeOK
  <1> QED
    BY <1>1, <1>2, <1>3, InHandFacts, HandlerStep DEF Grows, Handling

LEMMA PurgeMempoolIInv ==
    ASSUME IInv, NEW w \in Worker, PurgeMempool(w) PROVE IInv'
  <1>1. /\ UNCHANGED <<peerVars, chainVars, lockVars, minerSide>>
        /\ blocks' = blocks
        /\ mempool' = mempool \ ToSet(Head(todo).data)
        /\ orphan_buffer' = orphan_buffer
        /\ idx_to_delete' = idx_to_delete /\ todo' = todo
        /\ wpc[w] \in {"next", "news"} /\ wpc' = [wpc EXCEPT ![w] = "attach"]
        /\ todo # <<>> /\ Head(todo).hash \notin DOMAIN blocks
    BY DEF PurgeMempool, AtTurn, handlerVars, chainVars, DeleteTx
  <1>2. mempool' \subseteq Signed /\ idx_to_delete \in Seq(Nat \ {0})
    BY <1>1 DEF IInv, TypeOK
  <1> QED
    BY <1>1, <1>2, InHandFacts, HandlerStep DEF Grows, Handling

LEMMA HandleGenesisIInv ==
    ASSUME IInv, NEW w \in Worker, HandleGenesis(w) PROVE Grows /\ IInv'
  <1> DEFINE b == Head(todo)
  <1>1. /\ UNCHANGED <<peerVars, lockVars, minerSide>>
        /\ mempool' = mempool /\ orphan_buffer' = orphan_buffer
        /\ idx_to_delete' = idx_to_delete
        /\ wpc[w] = "attach" /\ wpc' = [wpc EXCEPT ![w] = "news"]
        /\ todo' = Tail(todo)
        /\ b.length = 1
        /\ blocks' = Insert(blocks, b)
        /\ block_states' = Put(block_states, b.hash, Ico)
    BY DEF HandleGenesis, outside
  <1>2. todo # <<>>
    BY <1>1 DEF IInv, HandlerOK
  <1>3. b \in Known
    BY <1>2, InHandFacts
  <1>4. Places(b)
    BY <1>1, <1>3, KnownFacts DEF Places, Placeable, StateOf
  <1>5. Grows
    BY <1>1, <1>4 DEF Grows
  <1>6. mempool \subseteq Signed /\ idx_to_delete \in Seq(Nat \ {0})
    BY DEF IInv, TypeOK
  <1> QED
    BY <1>1, <1>2, <1>5, <1>6, InHandFacts, HandlerStep DEF Handling

LEMMA BufferOrphanIInv ==
    ASSUME IInv, NEW w \in Worker, BufferOrphan(w) PROVE IInv'
  <1>1. /\ UNCHANGED <<peerVars, chainVars, lockVars, minerSide>>
        /\ mempool' = mempool /\ idx_to_delete' = idx_to_delete
        /\ orphan_buffer' = Append(orphan_buffer, Head(todo))
        /\ wpc[w] = "attach" /\ wpc' = [wpc EXCEPT ![w] = "news"]
        /\ todo' = Tail(todo) /\ Head(todo).length # 1
    BY DEF BufferOrphan, outside
  <1>2. todo # <<>>
    BY <1>1 DEF IInv, HandlerOK
  <1>3. Head(todo) \in Orphans
    BY <1>1, <1>2, InHandFacts DEF Orphans
  <1>4. orphan_buffer' \in Seq(Orphans)
    BY <1>1, <1>3, InHandFacts, AppendProperties
  <1>5. mempool \subseteq Signed /\ idx_to_delete \in Seq(Nat \ {0})
    BY DEF IInv, TypeOK
  <1> QED
    BY <1>1, <1>2, <1>4, <1>5, InHandFacts, HandlerStep DEF Grows, Handling

LEMMA HandleChildIInv ==
    ASSUME IInv, NEW w \in Worker, HandleChild(w) PROVE Grows /\ IInv'
  <1> DEFINE b == Head(todo)
  <1>1. /\ UNCHANGED <<peerVars, lockVars, minerSide>>
        /\ mempool' = mempool /\ orphan_buffer' = orphan_buffer
        /\ todo' = todo /\ idx_to_delete' = <<>>
        /\ wpc[w] = "attach" /\ wpc' = [wpc EXCEPT ![w] = "adopt"]
        /\ b.parent \in DOMAIN blocks
        /\ IF CheckBlockValidity(b, blocks[b.parent]) THEN Attach(b)
           ELSE UNCHANGED chainVars
    BY DEF HandleChild, outside
  <1>2. todo # <<>>
    BY <1>1 DEF IInv, HandlerOK
  <1>3. b \in Known
    BY <1>2, InHandFacts
  <1>4. b.length # 1 /\ blocks[b.parent] = world[b.parent]
    BY <1>1, <1>3, KnownFacts, InChain
  <1>5. Grows /\ (CheckBlockValidity(b, blocks[b.parent]) => b.hash \in DOMAIN blocks')
    BY <1>1, <1>3, <1>4, AttachGrows
  <1>6. HonestHeaders => b.hash \in DOMAIN blocks'
    BY <1>3, <1>4, <1>5, KnownFacts
  <1>7. NewBlockInserted' = b
    BY <1>1 DEF NewBlockInserted
  <1>8. mempool \subseteq Signed
    BY DEF IInv, TypeOK
  <1>9. idx_to_delete' \in Seq(1 .. Len(orphan_buffer')) /\ idx_to_delete' \in Seq(Nat \ {0})
    BY <1>1
  <1> QED
    BY <1>1, <1>2, <1>5, <1>6, <1>7, <1>8, <1>9, InHandFacts, HandlerStep DEF Handling

LEMMA NewBlockKnown ==
    ASSUME IInv, NEW w \in Worker, wpc[w] = "adopt"
    PROVE  NewBlockInserted \in Known /\ todo # <<>>
  <1>1. todo # <<>> /\ idx_to_delete \in Seq(1 .. Len(orphan_buffer))
    BY DEF IInv, HandlerOK
  <1>2. CASE idx_to_delete = <<>>
    BY <1>1, <1>2, InHandFacts DEF NewBlockInserted
  <1>3. CASE idx_to_delete # <<>>
    <2>1. Last(idx_to_delete) \in 1 .. Len(orphan_buffer)
      BY <1>1, <1>3 DEF Last
    <2> QED
      BY <1>1, <1>3, <2>1, InHandFacts DEF NewBlockInserted
  <1> QED
    BY <1>1, <1>2, <1>3

LEMMA AdoptOrphanIInv ==
    ASSUME IInv, NEW w \in Worker, NEW i \in 1 .. Len(orphan_buffer), AdoptOrphan(w, i)
    PROVE  Grows /\ IInv'
  <1> DEFINE o == orphan_buffer[i]
             p == NewBlockInserted
  <1>1. /\ UNCHANGED <<peerVars, lockVars, minerSide>>
        /\ mempool' = mempool /\ orphan_buffer' = orphan_buffer
        /\ todo' = todo /\ idx_to_delete' = Append(idx_to_delete, i)
        /\ wpc[w] = "adopt" /\ wpc' = wpc
        /\ IF CheckBlockValidity(o, p) THEN Attach(o) ELSE UNCHANGED chainVars
    BY DEF AdoptOrphan, outside
  <1>2. o.parent = p.hash
    BY DEF AdoptOrphan, FirstChild
  <1>3. p \in Known /\ todo # <<>>
    BY <1>1, NewBlockKnown
  <1>4. o \in Known /\ o.length # 1
    BY InHandFacts
  <1>5. o.parent \in DOMAIN blocks => blocks[o.parent] = p
    BY <1>2, <1>3, KnownFacts
  <1>6. Grows /\ (CheckBlockValidity(o, p) => o.hash \in DOMAIN blocks')
    BY <1>1, <1>4, <1>5, AttachGrows
  <1>7. p = world[o.parent]
    BY <1>2, <1>3 DEF Known
  <1>8. HonestHeaders => o.hash \in DOMAIN blocks'
    BY <1>4, <1>6, <1>7, KnownFacts
  <1>9. idx_to_delete \in Seq(1 .. Len(orphan_buffer)) /\ idx_to_delete \in Seq(Nat \ {0})
    BY <1>1 DEF IInv, HandlerOK, TypeOK
  <1>10. /\ idx_to_delete' \in Seq(1 .. Len(orphan_buffer'))
         /\ idx_to_delete' \in Seq(Nat \ {0})
         /\ idx_to_delete' # <<>> /\ Last(idx_to_delete') = i
    BY <1>1, <1>9, AppendProperties DEF Last
  <1>11. NewBlockInserted' = o
    BY <1>1, <1>10 DEF NewBlockInserted
  <1>12. mempool \subseteq Signed /\ wpc' = [wpc EXCEPT ![w] = "adopt"]
    BY <1>1 DEF IInv, TypeOK
  <1> HIDE DEF o, p
  <1> QED
    BY <1>1, <1>3, <1>6, <1>8, <1>10, <1>11, <1>12, InHandFacts, HandlerStep DEF Handling

LEMMA AdoptDoneIInv ==
    ASSUME IInv, NEW w \in Worker, AdoptDone(w) PROVE IInv'
  <1>1. /\ UNCHANGED <<peerVars, chainVars, lockVars, minerSide>>
        /\ mempool' = mempool /\ orphan_buffer' = orphan_buffer
        /\ todo' = todo /\ idx_to_delete' = idx_to_delete
        /\ wpc[w] = "adopt" /\ wpc' = [wpc EXCEPT ![w] = "cleanup"]
    BY DEF AdoptDone, outside, handlerVars
  <1>2. todo # <<>>
    BY <1>1, NewBlockKnown
  <1>3. mempool \subseteq Signed /\ idx_to_delete \in Seq(Nat \ {0})
    BY DEF IInv, TypeOK
  <1> QED
    BY <1>1, <1>2, <1>3, InHandFacts, HandlerStep DEF Grows, Handling

LEMMA RemoveIndexIInv ==
    ASSUME IInv, NEW w \in Worker, RemoveIndex(w) PROVE IInv'
  <1> DEFINE k == Head(idx_to_delete)
             n == Len(orphan_buffer)
  <1>1. /\ UNCHANGED <<peerVars, chainVars, lockVars, minerSide>>
        /\ mempool' = mempool /\ todo' = todo
        /\ wpc[w] = "cleanup" /\ wpc' = wpc
        /\ idx_to_delete # <<>> /\ idx_to_delete' = Tail(idx_to_delete)
        /\ k <= n
        /\ orphan_buffer' = SubSeq(orphan_buffer, 1, k - 1)
                              \o SubSeq(orphan_buffer, k + 1, n)
    BY DEF RemoveIndex, outside, RemoveAt
  <1>2. mempool \subseteq Signed /\ idx_to_delete \in Seq(Nat \ {0})
        /\ wpc' = [wpc EXCEPT ![w] = "cleanup"]
    BY <1>1 DEF IInv, TypeOK
  <1>3. k \in Nat \ {0} /\ idx_to_delete' \in Seq(Nat \ {0})
    BY <1>1, <1>2, HeadTailProperties
  <1>4. orphan_buffer \in Seq(Orphans) /\ n \in Nat
    BY InHandFacts
  <1>5. SubSeq(orphan_buffer, 1, k - 1) \in Seq(Orphans)
    BY <1>1, <1>3, <1>4, SubSeqProperties
  <1>6. SubSeq(orphan_buffer, k + 1, n) \in Seq(Orphans)
    BY <1>3, <1>4, SubSeqProperties
  <1>7. orphan_buffer' \in Seq(Orphans)
    BY <1>1, <1>5, <1>6, ConcatProperties
  <1>8. todo # <<>>
    BY <1>1 DEF IInv, HandlerOK
  <1> QED
    BY <1>1, <1>2, <1>3, <1>7, <1>8, InHandFacts, HandlerStep DEF Grows, Handling

LEMMA CleanupDoneIInv ==
    ASSUME IInv, NEW w \in Worker, CleanupDone(w) PROVE IInv'
  <1>1. /\ UNCHANGED <<peerVars, chainVars, lockVars, minerSide>>
        /\ mempool' = mempool /\ orphan_buffer' = orphan_buffer
        /\ todo' = Tail(todo) /\ idx_to_delete' = idx_to_delete
        /\ wpc[w] = "cleanup" /\ wpc' = [wpc EXCEPT ![w] = "news"]
    BY DEF CleanupDone, outside
  <1>2. todo # <<>>
    BY <1>1 DEF IInv, HandlerOK
  <1>3. mempool \subseteq Signed /\ idx_to_delete \in Seq(Nat \ {0})
    BY DEF IInv, TypeOK
  <1> QED
    BY <1>1, <1>2, <1>3, InHandFacts, HandlerStep DEF Grows, Handling

(* The beginning and the end of a message, and the panics of a worker: the *)
(* chain, the peers and the miner are left alone.                          *)
LEMMA WorkerStep ==
    ASSUME IInv, UNCHANGED <<peerVars, chainVars, minerSide>>
    PROVE  /\ WorldOK' /\ ChainIsWorld' /\ ChainOK' /\ StatesOK'
           /\ Known' = Known /\ Orphans' = Orphans
           /\ MinerOK' /\ QueueOK' /\ FoundOK'
           /\ mpc' = mpc /\ blocks' = blocks
  BY GrowsKeepsChain, GrowsKeepsMiner DEF Grows, minerSide, minerVars, chainVars

LEMMA FinishBlocksIInv ==
    ASSUME IInv, NEW w \in Worker, FinishBlocks(w) PROVE IInv'
  <1>1. /\ UNCHANGED <<peerVars, chainVars, minerSide>>
        /\ mempool' = mempool /\ orphan_buffer' = orphan_buffer
        /\ todo' = todo /\ idx_to_delete' = idx_to_delete /\ pool_lock' = pool_lock
        /\ wpc[w] \in Handling /\ wpc' = [wpc EXCEPT ![w] = "recv"]
        /\ chain_lock' = "free"
    BY DEF FinishBlocks, AtTurn, Handling, handlerVars
  <1>2. \A v \in Worker : wpc'[v] = IF v = w THEN "recv" ELSE wpc[v]
    BY <1>1 DEF IInv, TypeOK
  <1>3. \A v \in Worker : wpc'[v] \notin Handling
    BY <1>1, <1>2, HandlerAlone DEF Handling
  <1>4. TypeOK'
    BY <1>1 DEF IInv, TypeOK, peerVars, chainVars, minerSide, minerVars, queueVars
  <1>5. MutualExclusion'
    BY <1>1, <1>3, WorkerStep, NodeAssumption DEF IInv, MutualExclusion, Handling
  <1>6. InHand' /\ HandlerOK' /\ NoMissingState'
    BY <1>1, <1>3, WorkerStep DEF IInv, InHand, HandlerOK, NoMissingState, Handling
  <1> QED
    BY <1>1, <1>4, <1>5, <1>6, WorkerStep DEF IInv

LEMMA HandlerPanicIInv ==
    ASSUME IInv, NEW w \in Worker, HandlerPanic(w) PROVE IInv'
  <1>1. /\ UNCHANGED <<peerVars, chainVars, minerSide>>
        /\ mempool' = mempool /\ orphan_buffer' = orphan_buffer
        /\ todo' = <<>> /\ idx_to_delete' = <<>> /\ pool_lock' = pool_lock
        /\ wpc[w] \in Handling /\ wpc' = [wpc EXCEPT ![w] = "dead"]
        /\ chain_lock' = "poisoned"
    BY DEF HandlerPanic, HandlerPanics, AtTurn, Handling
  <1>2. \A v \in Worker : wpc'[v] = IF v = w THEN "dead" ELSE wpc[v]
    BY <1>1 DEF IInv, TypeOK
  <1>3. \A v \in Worker : wpc'[v] \notin Handling
    BY <1>1, <1>2, HandlerAlone DEF Handling
  <1>4. TypeOK'
    BY <1>1 DEF IInv, TypeOK, peerVars, chainVars, minerSide, minerVars, queueVars
  <1>5. MutualExclusion'
    BY <1>1, <1>3, WorkerStep, NodeAssumption DEF IInv, MutualExclusion, Handling
  <1>6. InHand' /\ HandlerOK' /\ NoMissingState'
    BY <1>1, <1>3, WorkerStep DEF IInv, InHand, HandlerOK, NoMissingState, Handling
  <1> QED
    BY <1>1, <1>4, <1>5, <1>6, WorkerStep DEF IInv

LEMMA WorkerPoisonedIInv ==
    ASSUME IInv, NEW w \in Worker, WorkerPoisoned(w) PROVE IInv'
  <1>1. /\ UNCHANGED <<peerVars, chainVars, minerSide>>
        /\ mempool' = mempool /\ orphan_buffer' = orphan_buffer
        /\ todo' = todo /\ idx_to_delete' = idx_to_delete
        /\ pool_lock' = pool_lock /\ chain_lock' = chain_lock
        /\ wpc[w] = "recv" /\ wpc' = [wpc EXCEPT ![w] = "dead"]
    BY DEF WorkerPoisoned, handlerVars, outside, lockVars
  <1>2. \A v \in Worker : wpc'[v] = IF v = w THEN "dead" ELSE wpc[v]
    BY <1>1 DEF IInv, TypeOK
  <1>3. \A v \in Worker : wpc'[v] = wpc[v] \/ (wpc[v] \notin Handling /\ wpc'[v] \notin Handling)
    BY <1>1, <1>2 DEF Handling
  <1>4. TypeOK'
    BY <1>1 DEF IInv, TypeOK, peerVars, chainVars, minerSide, minerVars, queueVars
  <1>5. MutualExclusion'
    BY <1>1, <1>3, WorkerStep DEF IInv, MutualExclusion, Handling
  <1>6. NewBlockInserted' = NewBlockInserted
    BY <1>1 DEF NewBlockInserted
  <1>7. InHand' /\ HandlerOK' /\ NoMissingState'
    BY <1>1, <1>3, <1>6, WorkerStep DEF IInv, InHand, HandlerOK, NoMissingState, Handling
  <1> QED
    BY <1>1, <1>4, <1>5, <1>7, WorkerStep DEF IInv

LEMMA ReceiveTransactionIInv ==
    ASSUME IInv, NEW w \in Worker, NEW tx \in Tx, ReceiveTransaction(w, tx) PROVE IInv'
  <1>1. /\ UNCHANGED <<peerVars, chainVars, minerSide, workerSide, lockVars>>
        /\ mempool' = mempool \cup {tx} /\ tx \in Signed
    BY DEF ReceiveTransaction, CheckTxValidity
  <1>2. /\ orphan_buffer' = orphan_buffer /\ wpc' = wpc
        /\ todo' = todo /\ idx_to_delete' = idx_to_delete
        /\ pool_lock' = pool_lock /\ chain_lock' = chain_lock
    BY <1>1 DEF workerSide, handlerVars, lockVars
  <1>3. TypeOK'
    BY <1>1, <1>2 DEF IInv, TypeOK, peerVars, chainVars, minerSide, minerVars, queueVars
  <1>4. MutualExclusion'
    BY <1>1, <1>2, WorkerStep DEF IInv, MutualExclusion
  <1>5. NewBlockInserted' = NewBlockInserted
    BY <1>2 DEF NewBlockInserted
  <1>6. InHand' /\ HandlerOK' /\ NoMissingState'
    BY <1>1, <1>2, <1>5, WorkerStep DEF IInv, InHand, HandlerOK, NoMissingState
  <1> QED
    BY <1>1, <1>3, <1>4, <1>6, WorkerStep DEF IInv

LEMMA TransactionsPanicIInv ==
    ASSUME IInv, NEW w \in Worker, NEW tx \in Tx, TransactionsPanic(w, tx) PROVE IInv'
  <1>1. /\ UNCHANGED <<peerVars, chainVars, minerSide>>
        /\ mempool' = mempool \cup {tx} /\ tx \in Signed
        /\ orphan_buffer' = orphan_buffer
        /\ todo' = todo /\ idx_to_delete' = idx_to_delete
        /\ pool_lock = "free" /\ pool_lock' = "poisoned"
        /\ chain_lock' = chain_lock
        /\ wpc[w] = "recv" /\ wpc' = [wpc EXCEPT ![w] = "dead"]
    BY DEF TransactionsPanic, CheckTxValidity, PoolFree, handlerVars
  <1>2. \A v \in Worker : wpc'[v] = IF v = w THEN "dead" ELSE wpc[v]
    BY <1>1 DEF IInv, TypeOK
  <1>3. \A v \in Worker : wpc'[v] = wpc[v] \/ (wpc[v] \notin Handling /\ wpc'[v] \notin Handling)
    BY <1>1, <1>2 DEF Handling
  <1>4. TypeOK'
    BY <1>1 DEF IInv, TypeOK, peerVars, chainVars, minerSide, minerVars, queueVars
  <1>5. MutualExclusion'
    BY <1>1, <1>3, WorkerStep DEF IInv, MutualExclusion, Handling
  <1>6. NewBlockInserted' = NewBlockInserted
    BY <1>1 DEF NewBlockInserted
  <1>7. InHand' /\ HandlerOK' /\ NoMissingState'
    BY <1>1, <1>3, <1>6, WorkerStep DEF IInv, InHand, HandlerOK, NoMissingState, Handling
  <1> QED
    BY <1>1, <1>4, <1>5, <1>7, WorkerStep DEF IInv

LEMMA ReceiveBlocksIInv ==
    ASSUME IInv, NEW w \in Worker, NEW batch \in Seq(released), batch # <<>>,
           ReceiveBlocks(w, batch)
    PROVE  IInv'
  <1>1. /\ UNCHANGED <<peerVars, chainVars, minerSide>>
        /\ mempool' = mempool /\ orphan_buffer' = orphan_buffer
        /\ todo' = [i \in 1 .. Len(batch) |-> world[batch[i]]]
        /\ idx_to_delete' = idx_to_delete /\ pool_lock' = pool_lock
        /\ wpc[w] = "recv" /\ wpc' = [wpc EXCEPT ![w] = "next"]
        /\ chain_lock = "free" /\ chain_lock' = w
    BY DEF ReceiveBlocks, ChainFree
  <1>2. \A v \in Worker : wpc'[v] = IF v = w THEN "next" ELSE wpc[v]
    BY <1>1 DEF IInv, TypeOK
  <1>3. \A v \in Worker : wpc[v] \notin Handling
    BY <1>1, NodeAssumption DEF IInv, MutualExclusion, Handling
  <1>4. ASSUME NEW i \in 1 .. Len(batch) PROVE world[batch[i]] \in Known
    <2>1. batch[i] \in released
      BY ElementOfSeq
    <2> QED
      BY <2>1 DEF Known, IInv, TypeOK, WorldOK
  <1>5. todo' \in Seq(Known)
    BY <1>1, <1>4
  <1>6. todo' \in Seq(Block)
    BY <1>5, SeqMonotonic DEF Known
  <1>7. TypeOK'
    BY <1>1, <1>6 DEF IInv, TypeOK, peerVars, chainVars, minerSide, minerVars, queueVars
  <1>8. MutualExclusion'
    BY <1>1, <1>2, <1>3, WorkerStep, NodeAssumption DEF IInv, MutualExclusion, Handling
  <1>9. InHand' /\ HandlerOK' /\ NoMissingState'
    BY <1>1, <1>2, <1>3, <1>5, WorkerStep
       DEF IInv, InHand, HandlerOK, NoMissingState, Handling
  <1> QED
    BY <1>1, <1>7, <1>8, <1>9, WorkerStep DEF IInv

-----------------------------------------------------------------------------
(* The steps of the others: no handler moves.                              *)

(* What a handler holds stays good when blocks are made or released, or    *)
(* inserted while no handler is at work.                                   *)
LEMMA HandsKept ==
    ASSUME IInv, UNCHANGED workerSide, Known \subseteq Known',
           blocks' = blocks \/ (ChainFree /\ DOMAIN blocks \subseteq DOMAIN blocks')
    PROVE  InHand' /\ HandlerOK' /\ NoMissingState'
  <1>1. /\ orphan_buffer' = orphan_buffer /\ wpc' = wpc
        /\ todo' = todo /\ idx_to_delete' = idx_to_delete
    BY DEF workerSide, handlerVars
  <1>2. Orphans \subseteq Orphans'
    BY DEF Orphans
  <1>3. InHand'
    BY <1>1, <1>2, SeqMonotonic DEF IInv, InHand
  <1>4. NewBlockInserted' = NewBlockInserted
    BY <1>1 DEF NewBlockInserted
  <1>5. CASE blocks' = blocks
    BY <1>1, <1>3, <1>4, <1>5 DEF IInv, HandlerOK, NoMissingState
  <1>6. CASE ChainFree
    <2>1. \A v \in Worker : wpc[v] \notin Handling
      BY <1>6, NodeAssumption DEF ChainFree, IInv, MutualExclusion, Handling
    <2> QED
      BY <1>1, <1>3, <2>1 DEF HandlerOK, NoMissingState, Handling
  <1> QED
    BY <1>5, <1>6

(* A block is made, or blocks are given to the peers. *)
WorldGrows ==
    /\ UNCHANGED chainVars
    /\ DOMAIN world \subseteq DOMAIN world'
    /\ \A h \in DOMAIN world : world'[h] = world[h]
    /\ released \subseteq released' /\ released' \subseteq DOMAIN world'
    /\ \A h \in released' \ released : h \in DOMAIN blocks \/ h \notin DOMAIN world

LEMMA WorldGrowsKeeps ==
    ASSUME IInv, WorldGrows
    PROVE  /\ ChainIsWorld' /\ ChainOK' /\ StatesOK'
           /\ Known \subseteq Known' /\ (\A q \in Queueable : q \in Queueable')
           /\ UNCHANGED <<minerVars, queueVars>> => MinerOK' /\ QueueOK' /\ FoundOK'
  <1>1. blocks' = blocks /\ block_states' = block_states
    BY DEF WorldGrows, chainVars
  <1>2. ChainIsWorld' /\ ChainOK'
    BY <1>1 DEF WorldGrows, IInv, ChainIsWorld, ChainOK
  <1>3. StatesOK'
    BY <1>1 DEF WorldGrows, IInv, StatesOK, StateOf, NewState
  <1>4. Known \subseteq Known'
    BY DEF WorldGrows, Known, IInv, TypeOK
  <1>5. ASSUME NEW q \in Queueable PROVE q \in Queueable'
    <2>1. q \in Own /\ q \in Own'
      BY DEF WorldGrows, Queueable, Own
    <2>2. q.hash \in DOMAIN world
      BY <2>1 DEF Own
    <2>3. Landing(q) => Landing(q)'
      BY <1>1 DEF Landing, NewState
    <2> QED
      BY <1>1, <2>1, <2>2, <2>3 DEF WorldGrows, Queueable
  <1>6. ASSUME UNCHANGED <<minerVars, queueVars>>
        PROVE  MinerOK' /\ QueueOK' /\ FoundOK'
    <2>1. /\ mpc' = mpc /\ genesis_block' = genesis_block
          /\ parent_block' = parent_block /\ found' = found
          /\ ipc' = ipc /\ finished' = finished
      BY <1>6 DEF minerVars, queueVars
    <2>2. MinerOK'
      BY <1>1, <2>1 DEF IInv, MinerOK, MinerReady
    <2>3. finished' \in Seq(Queueable)'
      BY <1>5, <2>1, SeqMonotonic DEF IInv, QueueOK
    <2>4. QueueOK'
      BY <1>1, <2>1, <2>3 DEF IInv, QueueOK
    <2>5. FoundOK'
      BY <1>1, <2>1 DEF WorldGrows, IInv, FoundOK, NewState
    <2> QED
      BY <2>2, <2>4, <2>5
  <1> QED
    BY <1>2, <1>3, <1>4, <1>5, <1>6

(* A block that is new to the world fits into it. *)
LEMMA MadeKeepsWorld ==
    ASSUME IInv, NEW h \in Hash, Fresh(h), NEW b \in Block, b.hash = h,
           b.length = 1 => b = Genesis(h, b.difficulty),
           b.length > 1 =>
              /\ b.parent \in DOMAIN world
              /\ b.length = world[b.parent].length + 1
              /\ HonestHeaders => CheckBlockValidity(b, world[b.parent]),
           world' = Put(world, h, b)
    PROVE  /\ WorldOK'
           /\ DOMAIN world' = DOMAIN world \cup {h}
           /\ \A g \in DOMAIN world : world'[g] = world[g]
           /\ world'[h] = b
           /\ DOMAIN world' \subseteq Hash /\ world' \in [DOMAIN world' -> Block]
  <1>1. /\ DOMAIN world' = DOMAIN world \cup {h}
        /\ \A g \in DOMAIN world : world'[g] = world[g]
        /\ world'[h] = b
    BY DEF Fresh, Put
  <1>2. DOMAIN world' \subseteq Hash /\ world' \in [DOMAIN world' -> Block]
    BY <1>1 DEF IInv, TypeOK, Put
  <1>3. ASSUME NEW g \in DOMAIN world'
        PROVE  /\ world'[g].hash = g
               /\ world'[g].length = 1 => world'[g] = Genesis(g, world'[g].difficulty)
               /\ world'[g].length > 1 =>
                    /\ world'[g].parent \in DOMAIN world'
                    /\ world'[g].length = world'[world'[g].parent].length + 1
                    /\ HonestHeaders =>
                         CheckBlockValidity(world'[g], world'[world'[g].parent])
    <2>1. CASE g = h
      BY <1>1, <2>1
    <2>2. CASE g # h
      <3>1. g \in DOMAIN world /\ world'[g] = world[g]
        BY <1>1, <2>2
      <3> QED
        BY <1>1, <3>1 DEF IInv, WorldOK
    <2> QED
      BY <2>1, <2>2
  <1> QED
    BY <1>1, <1>2, <1>3 DEF WorldOK

LEMMA PeerMakesIInv ==
    ASSUME IInv, NEW h \in Hash, Fresh(h), NEW b \in Block, b.hash = h,
           b.length = 1 => b = Genesis(h, b.difficulty),
           b.length > 1 =>
              /\ b.parent \in DOMAIN world
              /\ b.length = world[b.parent].length + 1
              /\ HonestHeaders => CheckBlockValidity(b, world[b.parent]),
           world' = Put(world, h, b), released' = released \cup {h},
           UNCHANGED <<chainVars, workerSide, mempool, lockVars, minerSide>>
    PROVE  IInv'
  <1>1. /\ WorldOK'
        /\ DOMAIN world' = DOMAIN world \cup {h}
        /\ \A g \in DOMAIN world : world'[g] = world[g]
        /\ DOMAIN world' \subseteq Hash /\ world' \in [DOMAIN world' -> Block]
    BY MadeKeepsWorld
  <1>2. WorldGrows
    BY <1>1 DEF WorldGrows, Fresh, IInv, TypeOK
  <1>3. UNCHANGED <<minerVars, queueVars>> /\ blocks' = blocks
    BY DEF minerSide, chainVars
  <1>4. InHand' /\ HandlerOK' /\ NoMissingState'
    BY <1>2, <1>3, WorldGrowsKeeps, HandsKept
  <1>5. TypeOK'
    BY <1>1, <1>2 DEF IInv, TypeOK, WorldGrows, chainVars, workerSide, handlerVars,
                      lockVars, minerSide, minerVars, queueVars
  <1>6. MutualExclusion'
    BY DEF IInv, MutualExclusion, workerSide, lockVars, minerSide, minerVars
  <1> QED
    BY <1>1, <1>2, <1>3, <1>4, <1>5, <1>6, WorldGrowsKeeps DEF IInv

LEMMA PeerGenesisIInv ==
    ASSUME IInv, NEW h \in Hash, NEW d \in Difficulty, PeerGenesis(h, d) PROVE IInv'
  <1> DEFINE b == Genesis(h, d)
  <1>1. b \in Block /\ b.hash = h /\ b.length = 1 /\ b.difficulty = d
    BY GenesisType DEF Genesis
  <1>2. /\ Fresh(h)
        /\ world' = Put(world, h, b) /\ released' = released \cup {h}
        /\ UNCHANGED <<chainVars, workerSide, mempool, lockVars, minerSide>>
    BY DEF PeerGenesis
  <1>3. b = Genesis(h, b.difficulty)
    BY <1>1
  <1> HIDE DEF b
  <1> QED
    BY <1>1, <1>2, <1>3, PeerMakesIInv

LEMMA PeerMineIInv ==
    ASSUME IInv, NEW h \in Hash, NEW p \in Hash, NEW data \in TxList,
           NEW d \in Difficulty, NEW w \in BOOLEAN, PeerMine(h, p, data, d, w)
    PROVE  IInv'
  <1> DEFINE c == Child(h, world[p], data)
             b == [c EXCEPT !.difficulty = d, !.work = w]
  <1>1. /\ Fresh(h) /\ p \in released
        /\ HonestHeaders => CheckBlockValidity(b, world[p])
        /\ world' = Put(world, h, b) /\ released' = released \cup {h}
        /\ UNCHANGED <<chainVars, workerSide, mempool, lockVars, minerSide>>
    BY DEF PeerMine
  <1>2. world[p] \in Block /\ world[p].hash = p /\ p \in DOMAIN world
    BY <1>1 DEF IInv, TypeOK, WorldOK
  <1>3. c \in Block /\ c.hash = h /\ c.parent = p /\ c.length = world[p].length + 1
    BY <1>2, ChildType DEF Child
  <1> HIDE DEF c
  <1>4. b \in Block /\ b.hash = h /\ b.parent = p /\ b.length = world[p].length + 1
    BY <1>3 DEF Block
  <1>5. world[p].length \in Nat \ {0}
    BY <1>2 DEF Block
  <1> HIDE DEF b
  <1> QED
    BY <1>1, <1>2, <1>4, <1>5, PeerMakesIInv

LEMMA ServeBlocksIInv ==
    ASSUME IInv, NEW w \in Worker, NEW h \in Hash, ServeBlocks(w, h) PROVE IInv'
  <1>1. /\ UNCHANGED <<world, chainVars, workerSide, mempool, lockVars, minerSide>>
        /\ h \in DOMAIN blocks /\ released' = released \cup {h}
    BY DEF ServeBlocks
  <1>2. WorldGrows
    BY <1>1, InChain DEF WorldGrows, IInv, TypeOK
  <1>3. UNCHANGED <<minerVars, queueVars>> /\ blocks' = blocks /\ world' = world
    BY <1>1 DEF minerSide, chainVars
  <1>4. InHand' /\ HandlerOK' /\ NoMissingState'
    BY <1>1, <1>2, <1>3, WorldGrowsKeeps, HandsKept
  <1>5. TypeOK'
    BY <1>1, <1>2 DEF IInv, TypeOK, WorldGrows, chainVars, workerSide, handlerVars,
                      lockVars, minerSide, minerVars, queueVars
  <1>6. MutualExclusion'
    BY <1>1 DEF IInv, MutualExclusion, workerSide, lockVars, minerSide, minerVars
  <1>7. WorldOK'
    BY <1>3 DEF IInv, WorldOK
  <1> QED
    BY <1>2, <1>3, <1>4, <1>5, <1>6, <1>7, WorldGrowsKeeps DEF IInv

LEMMA BroadcastMinedIInv ==
    ASSUME IInv, BroadcastMined PROVE IInv'
  <1> DEFINE h == Head(finished).hash
  <1>1. /\ UNCHANGED <<world, chainVars, workerSide, mempool, lockVars, minerVars>>
        /\ ipc = "broadcast" /\ ipc' = "recv"
        /\ released' = released \cup {h}
        /\ finished' = Tail(finished)
    BY DEF BroadcastMined
  <1>2. /\ finished \in Seq(Queueable) /\ finished # <<>>
        /\ h \in DOMAIN blocks
    BY <1>1 DEF IInv, QueueOK
  <1>3. WorldGrows
    BY <1>1, <1>2, InChain DEF WorldGrows, IInv, TypeOK
  <1>4. blocks' = blocks /\ block_states' = block_states /\ world' = world
    BY <1>1 DEF chainVars
  <1>5. InHand' /\ HandlerOK' /\ NoMissingState'
    BY <1>1, <1>3, <1>4, WorldGrowsKeeps, HandsKept
  <1>6. finished' \in Seq(Queueable)
    BY <1>1, <1>2, HeadTailProperties
  <1>7. finished' \in Seq(Block)
    BY <1>6, SeqMonotonic DEF Queueable, Own
  <1>8. TypeOK'
    BY <1>1, <1>3, <1>7 DEF IInv, TypeOK, WorldGrows, chainVars, workerSide,
                            handlerVars, lockVars, minerVars
  <1>9. MutualExclusion'
    BY <1>1 DEF IInv, MutualExclusion, workerSide, lockVars, minerVars
  <1>10. WorldOK'
    BY <1>4 DEF IInv, WorldOK
  <1>11. MinerOK'
    BY <1>1, <1>4 DEF IInv, MinerOK, MinerReady, minerVars
  <1>12. finished' \in Seq(Queueable)'
    BY <1>3, <1>6, WorldGrowsKeeps, SeqMonotonic
  <1>13. QueueOK'
    BY <1>1, <1>12 DEF QueueOK
  <1>14. FoundOK'
    <2> SUFFICES ASSUME mpc \in {"execute", "send"} PROVE FoundOK'
      BY <1>1 DEF FoundOK, minerVars
    <2>1. finished \in Seq({b \in Block : b.hash # found.hash})
      BY DEF IInv, FoundOK
    <2>2. finished' \in Seq({b \in Block : b.hash # found.hash})
      BY <1>1, <1>2, <2>1, HeadTailProperties
    <2>3. found.hash # h
      BY <1>2 DEF IInv, FoundOK
    <2> QED
      BY <1>1, <1>4, <2>2, <2>3 DEF IInv, FoundOK, NewState, minerVars
  <1> QED
    BY <1>3, <1>5, <1>8, <1>9, <1>10, <1>11, <1>13, <1>14, WorldGrowsKeeps DEF IInv

LEMMA InsertMinedIInv ==
    ASSUME IInv, InsertMined PROVE Grows /\ IInv'
  <1> DEFINE b == Head(finished)
  <1>1. /\ UNCHANGED <<peerVars, workerSide, mempool, lockVars, minerVars>>
        /\ finished' = finished /\ block_states' = block_states
        /\ ipc = "recv" /\ ipc' = "broadcast" /\ finished # <<>> /\ ChainFree
        /\ blocks' = Insert(blocks, b)
    BY DEF InsertMined
  <1>2. finished \in Seq(Queueable)
    BY DEF IInv, QueueOK
  <1>3. b \in Queueable
    BY <1>1, <1>2, HeadTailProperties
  <1>4. b \in Own /\ b \in Block /\ b.length \in Nat \ {0}
    BY <1>3 DEF Queueable, Own, Block
  <1>5. /\ b.hash \in DOMAIN block_states /\ block_states[b.hash] = StateOf(b)
        /\ b.length # 1 => /\ b.parent \in DOMAIN blocks
                           /\ CheckBlockValidity(b, blocks[b.parent])
    <2>1. CASE b.hash \in DOMAIN blocks
      <3>1. blocks[b.hash] = b
        BY <1>4, <2>1 DEF Own, IInv, ChainIsWorld
      <3>2. b.hash \in DOMAIN block_states /\ block_states[b.hash] = StateOf(b)
        BY <2>1, <3>1 DEF IInv, StatesOK
      <3> QED
        BY <1>4, <2>1, <3>1, <3>2 DEF IInv, ChainOK
    <2>2. CASE b.hash \notin DOMAIN blocks
      <3>1. Landing(b)
        BY <1>3, <2>2 DEF Queueable
      <3> QED
        BY <1>4, <3>1 DEF Landing, StateOf
    <2> QED
      BY <2>1, <2>2
  <1>6. mpc \in {"execute", "send"} => b.hash # found.hash
    <2> SUFFICES ASSUME mpc \in {"execute", "send"} PROVE b.hash # found.hash
      OBVIOUS
    <2>1. finished \in Seq({q \in Block : q.hash # found.hash})
      BY DEF IInv, FoundOK
    <2> QED
      BY <1>1, <2>1, HeadTailProperties
  <1>7. Placeable(b)
    BY <1>4, <1>5, <1>6 DEF Placeable
  <1>8. block_states' = Put(block_states, b.hash, StateOf(b))
    <2>1. block_states = [h \in DOMAIN block_states |-> block_states[h]]
      BY DEF IInv, TypeOK
    <2> QED
      BY <1>1, <1>5, <2>1 DEF Put
  <1>9. Places(b)
    BY <1>1, <1>7, <1>8 DEF Places
  <1>10. Grows
    BY <1>1, <1>9 DEF Grows
  <1>11. b.hash \in DOMAIN blocks'
    BY <1>7, <1>1, <1>8, PlaceAdds
  <1>12. TypeOK'
    <2>1. /\ wpc' = wpc /\ orphan_buffer' = orphan_buffer /\ todo' = todo
          /\ idx_to_delete' = idx_to_delete /\ chain_lock' = chain_lock
          /\ pool_lock' = pool_lock /\ mempool' = mempool /\ mpc' = mpc
          /\ genesis_block' = genesis_block /\ parent_block' = parent_block
          /\ found' = found /\ tx_data' = tx_data
      BY <1>1 DEF workerSide, handlerVars, lockVars, minerVars
    <2> QED
      BY <1>1, <1>10, <2>1, GrowsOnly DEF IInv, TypeOK
  <1>13. MutualExclusion'
    BY <1>1 DEF IInv, MutualExclusion, workerSide, lockVars, minerVars
  <1>14. Known \subseteq Known' /\ DOMAIN blocks \subseteq DOMAIN blocks'
    BY <1>10, GrowsKeepsChain, GrowsOnly
  <1>15. InHand' /\ HandlerOK' /\ NoMissingState'
    BY <1>1, <1>14, HandsKept
  <1>16. finished' \in Seq(Queueable)'
    BY <1>1, <1>2, <1>10, GrowsKeepsChain, SeqMonotonic
  <1>17. QueueOK'
    BY <1>1, <1>11, <1>16 DEF QueueOK
  <1>18. MinerOK' /\ FoundOK'
    BY <1>1, <1>10, GrowsKeepsFound
  <1> QED
    BY <1>10, <1>12, <1>13, <1>15, <1>17, <1>18, GrowsKeepsChain DEF IInv

-----------------------------------------------------------------------------
(* The miner's steps that leave chain and peers alone.                     *)
LEMMA MinerSideStep ==
    ASSUME IInv, UNCHANGED <<peerVars, chainVars, workerSide>>
    PROVE  /\ WorldOK' /\ ChainIsWorld' /\ ChainOK' /\ StatesOK'
           /\ InHand' /\ HandlerOK' /\ NoMissingState'
           /\ \A q \in Queueable : q \in Queueable'
           /\ world' = world /\ released' = released
           /\ blocks' = blocks /\ block_states' = block_states
           /\ wpc' = wpc /\ orphan_buffer' = orphan_buffer
           /\ todo' = todo /\ idx_to_delete' = idx_to_delete
  <1>1. Grows
    BY DEF Grows
  <1>2. /\ world' = world /\ released' = released
        /\ blocks' = blocks /\ block_states' = block_states
        /\ wpc' = wpc /\ orphan_buffer' = orphan_buffer
        /\ todo' = todo /\ idx_to_delete' = idx_to_delete
    BY DEF peerVars, chainVars, workerSide, handlerVars
  <1> QED
    BY <1>1, <1>2, GrowsKeepsChain, HandsKept

LEMMA TipFacts ==
    ASSUME IInv, NEW b \in TipBlocks
    PROVE  b \in Block /\ b.hash \in DOMAIN blocks /\ blocks[b.hash] = b
  <1> PICK tip \in Tips(blocks) : b = blocks[tip]
    BY DEF TipBlocks
  <1>1. tip \in DOMAIN blocks
    BY DEF Tips
  <1> QED
    BY <1>1, InChain

(* From where it holds no block found, nothing but its two blocks counts. *)
LEMMA MinerTurns ==
    ASSUME IInv, UNCHANGED <<peerVars, chainVars, workerSide, mempool, lockVars>>,
           UNCHANGED <<found, tx_data, queueVars>>,
           mpc \notin {"execute", "send"}, mpc' \in {"top", "mine"},
           genesis_block' = genesis_block \/ genesis_block' \in TipBlocks,
           parent_block' \in TipBlocks \/ (parent_block' = parent_block /\ mpc' = "top")
    PROVE  IInv'
  <1>1. ipc' = ipc /\ finished' = finished /\ chain_lock' = chain_lock /\ pool_lock' = pool_lock
    BY DEF queueVars, lockVars
  <1>2. TypeOK'
    BY <1>1, MinerSideStep, TipFacts DEF IInv, TypeOK
  <1>3. MutualExclusion'
    BY <1>1, MinerSideStep DEF IInv, MutualExclusion
  <1>4. MinerOK'
    BY MinerSideStep, TipFacts DEF IInv, MinerOK, MinerReady
  <1>5. finished' \in Seq(Queueable)'
    BY <1>1, MinerSideStep, SeqMonotonic DEF IInv, QueueOK
  <1>6. QueueOK' /\ FoundOK'
    BY <1>1, <1>5, MinerSideStep DEF IInv, QueueOK, FoundOK
  <1> QED
    BY <1>2, <1>3, <1>4, <1>6, MinerSideStep DEF IInv

LEMMA MinerStartIInv ==
    ASSUME IInv, MinerStart PROVE IInv'
  BY MinerTurns DEF MinerStart

LEMMA MinerReadTipIInv ==
    ASSUME IInv, MinerReadTip PROVE IInv'
  BY MinerTurns DEF MinerReadTip

LEMMA MinerMissIInv ==
    ASSUME IInv, MinerMiss PROVE IInv'
  BY MinerTurns DEF MinerMiss

LEMMA MinerPanicIInv ==
    ASSUME IInv, MinerPanic PROVE IInv'
  <1>1. /\ UNCHANGED <<peerVars, chainVars, workerSide>>
        /\ mempool' = mempool /\ chain_lock' = chain_lock
        /\ genesis_block' = genesis_block /\ parent_block' = parent_block
        /\ found' = found /\ tx_data' = tx_data /\ ipc' = ipc /\ finished' = finished
        /\ mpc' = "dead"
        /\ pool_lock' = IF pool_lock = "miner" THEN "poisoned" ELSE pool_lock
    BY DEF MinerPanic, queueVars
  <1>2. TypeOK'
    BY <1>1, MinerSideStep DEF IInv, TypeOK
  <1>3. MutualExclusion'
    BY <1>1, MinerSideStep DEF IInv, MutualExclusion
  <1>4. MinerOK'
    BY <1>1, MinerSideStep DEF IInv, MinerOK, MinerReady
  <1>5. finished' \in Seq(Queueable)'
    BY <1>1, MinerSideStep, SeqMonotonic DEF IInv, QueueOK
  <1>6. QueueOK' /\ FoundOK'
    BY <1>1, <1>5, MinerSideStep DEF IInv, QueueOK, FoundOK
  <1> QED
    BY <1>1, <1>2, <1>3, <1>4, <1>6, MinerSideStep DEF IInv

LEMMA InserterPanicIInv ==
    ASSUME IInv, InserterPanic PROVE IInv'
  <1>1. /\ UNCHANGED <<peerVars, chainVars, workerSide, mempool, lockVars, minerVars>>
        /\ finished' = finished /\ ipc' = "dead"
    BY DEF InserterPanic
  <1>2. Grows
    BY <1>1 DEF Grows
  <1>3. TypeOK'
    BY <1>1, MinerSideStep DEF IInv, TypeOK, lockVars, minerVars
  <1>4. MutualExclusion'
    BY <1>1 DEF IInv, MutualExclusion, workerSide, lockVars, minerVars
  <1>5. finished' \in Seq(Queueable)'
    BY <1>1, MinerSideStep, SeqMonotonic DEF IInv, QueueOK
  <1>6. QueueOK'
    BY <1>1, <1>5 DEF QueueOK
  <1> QED
    BY <1>1, <1>2, <1>3, <1>4, <1>6, MinerSideStep, GrowsKeepsFound DEF IInv

LEMMA MinerSendIInv ==
    ASSUME IInv, MinerSend PROVE IInv'
  <1>1. /\ UNCHANGED <<peerVars, chainVars, workerSide>>
        /\ mempool' = mempool /\ chain_lock' = chain_lock
        /\ genesis_block' = genesis_block /\ parent_block' = parent_block
        /\ found' = found /\ tx_data' = tx_data /\ ipc' = ipc
        /\ finished' = finished \o Sent
        /\ mpc = "send" /\ mpc' = "top" /\ pool_lock' = "free"
    BY DEF MinerSend
  <1>2. parent_block \in Block /\ parent_block.length \in Nat \ {0} /\ found \in Block
    BY DEF IInv, TypeOK, Block
  <1>3. /\ found.hash \in DOMAIN world /\ world[found.hash] = found
        /\ found.hash \notin released
        /\ found = Child(found.hash, parent_block, found.data)
        /\ found.hash \in DOMAIN block_states
        /\ block_states[found.hash] = NewState(found)
    BY <1>1 DEF IInv, FoundOK
  <1>4. parent_block.hash \in DOMAIN blocks /\ blocks[parent_block.hash] = parent_block
    BY <1>1 DEF IInv, MinerOK, MinerReady
  <1>5. /\ found.parent = parent_block.hash
        /\ found.length = parent_block.length + 1
        /\ found.work = TRUE /\ found.difficulty = parent_block.difficulty
    BY <1>3 DEF Child
  <1>6. Landing(found)
    BY <1>2, <1>3, <1>4, <1>5 DEF Landing, CheckBlockValidity
  <1>7. found \in Queueable
    BY <1>2, <1>3, <1>6 DEF Queueable, Own
  <1>8. genesis_block \in Queueable
    BY InChain DEF IInv, MinerOK, Queueable, Own
  <1>9. Sent \in Seq(Queueable) /\ Sent # <<>>
    BY <1>7, <1>8 DEF Sent
  <1>10. finished \in Seq(Queueable)
    BY DEF IInv, QueueOK
  <1>11. finished' \in Seq(Queueable)
    BY <1>1, <1>9, <1>10, ConcatProperties
  <1>12. finished # <<>> => finished' # <<>> /\ Head(finished') = Head(finished)
    BY <1>1, <1>9, <1>10, ConcatProperties
  <1>13. finished' \in Seq(Block)
    BY <1>11, SeqMonotonic DEF Queueable, Own
  <1>14. TypeOK'
    BY <1>1, <1>13, MinerSideStep DEF IInv, TypeOK
  <1>15. MutualExclusion'
    BY <1>1, MinerSideStep DEF IInv, MutualExclusion
  <1>16. MinerOK'
    BY <1>1, MinerSideStep DEF IInv, MinerOK, MinerReady
  <1>17. finished' \in Seq(Queueable)'
    BY <1>1, <1>11, MinerSideStep, SeqMonotonic
  <1>18. QueueOK' /\ FoundOK'
    BY <1>1, <1>12, <1>17, MinerSideStep DEF IInv, QueueOK, FoundOK
  <1> QED
    BY <1>1, <1>14, <1>15, <1>16, <1>18, MinerSideStep DEF IInv

-----------------------------------------------------------------------------
(* The miner finds a block and executes it.                                *)
LEMMA MinerFindIInv ==
    ASSUME IInv, NEW h \in Hash, MinerFind(h) PROVE IInv'
  <1> DEFINE b == Child(h, parent_block, <<>>)
  <1>1. /\ UNCHANGED <<released, chainVars, workerSide>>
        /\ mempool' = mempool /\ chain_lock' = chain_lock
        /\ genesis_block' = genesis_block /\ parent_block' = parent_block
        /\ ipc' = ipc /\ finished' = finished
        /\ mpc = "mine" /\ mpc' = "execute" /\ pool_lock' = "miner"
        /\ Fresh(h) /\ tx_data' \in TxList
        /\ found' = b /\ world' = Put(world, h, b)
    BY DEF MinerFind, queueVars, Selections
  <1>2. parent_block \in Block /\ parent_block.length \in Nat \ {0}
    BY DEF IInv, TypeOK, Block
  <1>3. /\ parent_block.hash \in DOMAIN blocks
        /\ blocks[parent_block.hash] = parent_block
    BY <1>1 DEF IInv, MinerOK, MinerReady
  <1>4. parent_block.hash \in DOMAIN world /\ world[parent_block.hash] = parent_block
    BY <1>3, InChain
  <1>5. /\ b \in Block /\ b.hash = h /\ b.parent = parent_block.hash
        /\ b.length = parent_block.length + 1 /\ b.data = <<>>
        /\ CheckBlockValidity(b, parent_block)
    BY <1>2, ChildType, BlockchainAssumption DEF Child, CheckBlockValidity
  <1>6. b = Child(b.hash, parent_block, b.data)
    BY <1>5
  <1> HIDE DEF b
  <1>7. /\ WorldOK'
        /\ DOMAIN world' = DOMAIN world \cup {h}
        /\ \A g \in DOMAIN world : world'[g] = world[g]
        /\ world'[h] = b
        /\ DOMAIN world' \subseteq Hash /\ world' \in [DOMAIN world' -> Block]
    <2>1. b.length # 1
      BY <1>2, <1>5
    <2>2. /\ b.parent \in DOMAIN world
          /\ b.length = world[b.parent].length + 1
          /\ CheckBlockValidity(b, world[b.parent])
      BY <1>4, <1>5
    <2>3. Fresh(h) /\ b \in Block /\ b.hash = h /\ world' = Put(world, h, b)
      BY <1>1, <1>5
    <2> QED
      BY <2>1, <2>2, <2>3, MadeKeepsWorld
  <1>8. WorldGrows
    BY <1>1, <1>7 DEF WorldGrows, Fresh, IInv, TypeOK
  <1>9. blocks' = blocks /\ block_states' = block_states /\ released' = released
        /\ wpc' = wpc
    BY <1>1 DEF chainVars, workerSide
  <1>10. InHand' /\ HandlerOK' /\ NoMissingState'
    BY <1>1, <1>8, <1>9, WorldGrowsKeeps, HandsKept
  <1>11. TypeOK'
    BY <1>1, <1>5, <1>7, <1>8 DEF IInv, TypeOK, WorldGrows, chainVars, workerSide,
                                  handlerVars
  <1>12. MutualExclusion'
    BY <1>1, <1>9 DEF IInv, MutualExclusion
  <1>13. MinerOK'
    BY <1>1, <1>3, <1>9 DEF IInv, MinerOK, MinerReady
  <1>14. finished' \in Seq(Queueable)'
    BY <1>1, <1>8, WorldGrowsKeeps, SeqMonotonic DEF IInv, QueueOK
  <1>15. QueueOK'
    BY <1>1, <1>9, <1>14 DEF IInv, QueueOK
  <1>16. h \notin DOMAIN world /\ h \notin DOMAIN blocks /\ h \notin DOMAIN block_states
         /\ h \notin released
    BY <1>1 DEF Fresh, IInv, ChainIsWorld, StatesOK, TypeOK
  <1>17. Queueable \subseteq {q \in Block : q.hash # h}
    BY <1>16 DEF Queueable, Own
  <1>18. finished \in Seq({q \in Block : q.hash # h})
    BY <1>17, SeqMonotonic DEF IInv, QueueOK
  <1>19. FoundOK'
    BY <1>1, <1>5, <1>6, <1>7, <1>9, <1>16, <1>18 DEF FoundOK
  <1> QED
    BY <1>7, <1>8, <1>10, <1>11, <1>12, <1>13, <1>15, <1>19, WorldGrowsKeeps DEF IInv

(* Only the transactions of the block found change, and nobody else has it. *)
LEMMA MinerExecuteIInv ==
    ASSUME IInv, MinerExecute
    PROVE  /\ IInv'
           /\ \A h \in DOMAIN block_states :
                 h \in DOMAIN block_states' /\ block_states'[h] = block_states[h]
  <1> DEFINE f == found.hash
             s == block_states[parent_block.hash]
             e == Execute(s, tx_data)
  <1>1. /\ released' = released /\ blocks' = blocks /\ UNCHANGED workerSide
        /\ wpc' = wpc /\ chain_lock' = chain_lock /\ pool_lock' = pool_lock
        /\ genesis_block' = genesis_block /\ parent_block' = parent_block
        /\ ipc' = ipc /\ finished' = finished
        /\ mpc = "execute" /\ mpc' = "send"
        /\ mempool' \subseteq mempool /\ tx_data' = <<>>
        /\ block_states' = Put(block_states, f, e.state)
        /\ found' = [found EXCEPT !.data = e.valid]
        /\ world' = Put(world, f, found')
    BY DEF MinerExecute, Mined, queueVars, lockVars, workerSide, DeleteTx
  <1>2. /\ found \in Block /\ parent_block \in Block /\ parent_block.length \in Nat \ {0}
        /\ f \in DOMAIN world /\ world[f] = found
        /\ f \notin DOMAIN blocks /\ f \notin released /\ f \notin DOMAIN block_states
        /\ found = Child(f, parent_block, found.data)
        /\ finished \in Seq({b \in Block : b.hash # f})
    BY <1>1 DEF IInv, FoundOK, TypeOK, Block
  <1>3. /\ parent_block.hash \in DOMAIN blocks
        /\ blocks[parent_block.hash] = parent_block
    BY <1>1 DEF IInv, MinerOK, MinerReady
  <1>4. s \in LedgerState /\ tx_data \in TxList /\ parent_block.hash \in DOMAIN block_states
    BY <1>3, InChain DEF IInv, TypeOK
  <1>5. e.state \in LedgerState /\ e.valid \in TxList /\ Execute(s, e.valid).state = e.state
    BY <1>4, ExecuteAssumption
  <1>6. found.parent = parent_block.hash /\ found.length = parent_block.length + 1
        /\ found.difficulty = parent_block.difficulty /\ found.work = TRUE
    BY <1>2 DEF Child
  <1> HIDE DEF e, s
  <1>7. /\ found' \in Block /\ found'.hash = f /\ found'.parent = found.parent
        /\ found'.length = found.length /\ found'.difficulty = found.difficulty
        /\ found'.work = found.work /\ found'.data = e.valid
    BY <1>1, <1>2, <1>5 DEF Block
  <1>8. found' = Child(f, parent_block, e.valid)
    BY <1>2, <1>6, <1>7 DEF Block, Child
  <1>9. /\ DOMAIN world' = DOMAIN world
        /\ world'[f] = found'
        /\ \A h \in DOMAIN world : h # f => world'[h] = world[h]
    BY <1>1, <1>2 DEF Put
  <1>10. /\ DOMAIN block_states' = DOMAIN block_states \cup {f}
         /\ block_states'[f] = e.state
         /\ \A h \in DOMAIN block_states : block_states'[h] = block_states[h]
    BY <1>1, <1>2 DEF Put
  <1>11. f \in Hash /\ \A h \in DOMAIN blocks : h # f /\ h \in DOMAIN world
    BY <1>2, InChain DEF IInv, TypeOK
  <1>12. TypeOK'
    <2>1. world' \in [DOMAIN world' -> Block]
      BY <1>1, <1>7, <1>9 DEF Put, IInv, TypeOK
    <2>2. block_states' \in [DOMAIN block_states' -> LedgerState]
      BY <1>1, <1>5, <1>10 DEF Put, IInv, TypeOK
    <2> QED
      BY <1>1, <1>7, <1>9, <1>10, <1>11, <2>1, <2>2, BlockchainAssumption
         DEF IInv, TypeOK, workerSide, handlerVars
  <1>13. MutualExclusion'
    BY <1>1 DEF IInv, MutualExclusion
  <1>14. \A h \in DOMAIN world :
            /\ world'[h].hash = world[h].hash /\ world'[h].parent = world[h].parent
            /\ world'[h].length = world[h].length
            /\ world'[h].difficulty = world[h].difficulty
            /\ world'[h].work = world[h].work
    BY <1>2, <1>7, <1>9
  <1>15. WorldOK'
    <2> SUFFICES ASSUME NEW h \in DOMAIN world
                 PROVE  /\ world'[h].hash = h
                        /\ world'[h].length = 1 =>
                             world'[h] = Genesis(h, world'[h].difficulty)
                        /\ world'[h].length > 1 =>
                             /\ world'[h].parent \in DOMAIN world
                             /\ world'[h].length = world'[world'[h].parent].length + 1
                             /\ HonestHeaders =>
                                  CheckBlockValidity(world'[h], world'[world'[h].parent])
      BY <1>9 DEF WorldOK
    <2>1. world'[h].hash = h
      BY <1>14 DEF IInv, WorldOK
    <2>2. world'[h].length = 1 => world'[h] = Genesis(h, world'[h].difficulty)
      BY <1>2, <1>6, <1>9, <1>14 DEF IInv, WorldOK
    <2>3. world'[h].length > 1 =>
             /\ world'[h].parent \in DOMAIN world
             /\ world'[h].length = world'[world'[h].parent].length + 1
             /\ HonestHeaders => CheckBlockValidity(world'[h], world'[world'[h].parent])
      BY <1>14 DEF IInv, WorldOK, CheckBlockValidity
    <2> QED
      BY <2>1, <2>2, <2>3
  <1>16. ChainIsWorld' /\ ChainOK'
    BY <1>1, <1>9, <1>11 DEF IInv, ChainIsWorld, ChainOK
  <1>17. \A b : b.parent \in DOMAIN blocks => block_states'[b.parent] = block_states[b.parent]
    BY <1>10 DEF IInv, StatesOK
  <1>18. StatesOK'
    <2>1. DOMAIN blocks' \subseteq DOMAIN block_states'
      BY <1>1, <1>10 DEF IInv, StatesOK
    <2>2. ASSUME NEW h \in DOMAIN blocks
          PROVE  block_states'[h] = IF blocks[h].length = 1 THEN Ico
                      ELSE Execute(block_states'[blocks[h].parent], blocks[h].data).state
      <3>1. block_states'[h] = StateOf(blocks[h])
        BY <1>10 DEF IInv, StatesOK
      <3>2. blocks[h].length # 1 => blocks[h].parent \in DOMAIN blocks
        BY InChain DEF IInv, ChainOK
      <3> QED
        BY <1>17, <3>1, <3>2 DEF StateOf, NewState
    <2>3. \A h \in DOMAIN block_states' :
             h \in DOMAIN blocks \/ (h \in DOMAIN world /\ h \notin released)
      BY <1>2, <1>10 DEF IInv, StatesOK
    <2> QED
      BY <1>1, <1>9, <2>1, <2>2, <2>3 DEF StatesOK, StateOf, NewState
  <1>19. Known \subseteq Known'
    BY <1>1, <1>2, <1>9 DEF Known, IInv, TypeOK
  <1>20. InHand' /\ HandlerOK' /\ NoMissingState'
    BY <1>1, <1>19, HandsKept
  <1>21. MinerOK'
    BY <1>1, <1>3 DEF IInv, MinerOK, MinerReady
  <1>22. QueueOK'
    <2>1. ASSUME NEW i \in 1 .. Len(finished) PROVE finished[i] \in Queueable'
      <3> DEFINE b == finished[i]
      <3>1. b \in Queueable /\ b.hash # f
        BY <1>2, ElementOfSeq DEF IInv, QueueOK
      <3>2. b \in Own'
        BY <1>9, <3>1 DEF Queueable, Own
      <3>3. Landing(b) => Landing(b)'
        BY <1>1, <1>10, <1>17 DEF Landing, NewState
      <3> QED
        BY <1>1, <3>1, <3>2, <3>3 DEF Queueable
    <2>2. finished \in Seq(Queueable)
      BY DEF IInv, QueueOK
    <2>3. finished' \in Seq(Queueable)'
      BY <1>1, <2>1, <2>2
    <2> QED
      BY <1>1, <2>3 DEF IInv, QueueOK
  <1>23. FoundOK'
    <2>1. block_states'[found'.parent] = s
      BY <1>3, <1>6, <1>7, <1>10, <1>17 DEF s
    <2>2. NewState(found)' = e.state
      BY <1>5, <1>7, <2>1 DEF NewState
    <2> QED
      BY <1>1, <1>2, <1>7, <1>8, <1>9, <1>10, <2>2 DEF FoundOK
  <1> QED
    BY <1>10, <1>12, <1>13, <1>15, <1>16, <1>18, <1>20, <1>21, <1>22, <1>23 DEF IInv

-----------------------------------------------------------------------------
LEMMA InitIInv == Init => IInv
  <1> SUFFICES ASSUME Init PROVE IInv
    OBVIOUS
  <1> PICK h \in Hash, d \in Difficulty :
        /\ world = Only(h, Genesis(h, d))
        /\ blocks = Only(h, Genesis(h, d))
        /\ block_states = Only(h, Ico)
        /\ genesis_block = Genesis(h, d)
        /\ parent_block = Genesis(h, d)
        /\ found = Genesis(h, d)
    BY DEF Init
  <1>1. /\ DOMAIN world = {h} /\ world[h] = Genesis(h, d)
        /\ DOMAIN blocks = {h} /\ blocks[h] = Genesis(h, d)
        /\ DOMAIN block_states = {h} /\ block_states[h] = Ico
        /\ world = [g \in {h} |-> Genesis(h, d)]
        /\ blocks = [g \in {h} |-> Genesis(h, d)]
        /\ block_states = [g \in {h} |-> Ico]
    BY DEF Only
  <1>2. /\ released = {} /\ orphan_buffer = <<>> /\ mempool = {}
        /\ chain_lock = "free" /\ pool_lock = "free"
        /\ wpc = [w \in Worker |-> "recv"] /\ todo = <<>> /\ idx_to_delete = <<>>
        /\ mpc = "start" /\ tx_data = <<>> /\ ipc = "recv" /\ finished = <<>>
    BY DEF Init
  <1>3. /\ Genesis(h, d) \in Block /\ Genesis(h, d).hash = h
        /\ Genesis(h, d).length = 1 /\ Genesis(h, d).difficulty = d
    BY GenesisType DEF Genesis
  <1>4. TypeOK
    BY <1>1, <1>2, <1>3, BlockchainAssumption, ExecuteAssumption DEF TypeOK
  <1>5. MutualExclusion
    BY <1>2, NodeAssumption DEF MutualExclusion
  <1>6. WorldOK /\ ChainIsWorld /\ ChainOK
    BY <1>1, <1>3 DEF WorldOK, ChainIsWorld, ChainOK
  <1>7. StatesOK
    BY <1>1, <1>3 DEF StatesOK, StateOf
  <1>8. InHand /\ HandlerOK /\ NoMissingState
    BY <1>2 DEF InHand, HandlerOK, NoMissingState
  <1>9. MinerOK /\ QueueOK /\ FoundOK
    BY <1>1, <1>2, <1>3 DEF MinerOK, MinerReady, QueueOK, FoundOK
  <1> QED
    BY <1>4, <1>5, <1>6, <1>7, <1>8, <1>9 DEF IInv

(* What a step may do to the chain: place a block, or store states that    *)
(* were not there.                                                         *)
ChainStep ==
    \/ \E b : Places(b)
    \/ /\ blocks' = blocks
       /\ \A h \in DOMAIN block_states :
             h \in DOMAIN block_states' /\ block_states'[h] = block_states[h]

LEMMA GrowsIsChainStep ==
    ASSUME Grows \/ UNCHANGED chainVars PROVE ChainStep
  BY DEF Grows, ChainStep, chainVars

LEMMA HandleIInv ==
    ASSUME IInv, NEW w \in Worker, Handle(w) PROVE IInv' /\ ChainStep
  <1>1. CASE SkipSeen(w)
    BY <1>1, SkipSeenIInv, GrowsIsChainStep DEF SkipSeen
  <1>2. CASE PurgeMempool(w)
    BY <1>2, PurgeMempoolIInv, GrowsIsChainStep DEF PurgeMempool
  <1>3. CASE FinishBlocks(w)
    BY <1>3, FinishBlocksIInv, GrowsIsChainStep DEF FinishBlocks
  <1>4. CASE HandleGenesis(w)
    BY <1>4, HandleGenesisIInv, GrowsIsChainStep
  <1>5. CASE BufferOrphan(w)
    BY <1>5, BufferOrphanIInv, GrowsIsChainStep DEF BufferOrphan
  <1>6. CASE HandleChild(w)
    BY <1>6, HandleChildIInv, GrowsIsChainStep
  <1>7. CASE \E i \in 1 .. Len(orphan_buffer) : AdoptOrphan(w, i)
    BY <1>7, AdoptOrphanIInv, GrowsIsChainStep
  <1>8. CASE AdoptDone(w)
    BY <1>8, AdoptDoneIInv, GrowsIsChainStep DEF AdoptDone
  <1>9. CASE RemoveIndex(w)
    BY <1>9, RemoveIndexIInv, GrowsIsChainStep DEF RemoveIndex
  <1>10. CASE CleanupDone(w)
    BY <1>10, CleanupDoneIInv, GrowsIsChainStep DEF CleanupDone
  <1>11. CASE HandlerPanic(w)
    BY <1>11, HandlerPanicIInv, GrowsIsChainStep DEF HandlerPanic
  <1> QED
    BY <1>1, <1>2, <1>3, <1>4, <1>5, <1>6, <1>7, <1>8, <1>9, <1>10, <1>11 DEF Handle

LEMMA ReceiveIInv ==
    ASSUME IInv, NEW w \in Worker, Receive(w) PROVE IInv' /\ ChainStep
  <1>1. CASE \E batch \in SeqOf(released, MaxBatch) \ {<<>>} : ReceiveBlocks(w, batch)
    <2> PICK batch \in SeqOf(released, MaxBatch) \ {<<>>} : ReceiveBlocks(w, batch)
      BY <1>1
    <2>1. batch \in Seq(released)
      BY DEF SeqOf
    <2> QED
      BY <2>1, ReceiveBlocksIInv, GrowsIsChainStep DEF ReceiveBlocks
  <1>2. CASE \E h \in Hash : ServeBlocks(w, h)
    BY <1>2, ServeBlocksIInv, GrowsIsChainStep DEF ServeBlocks
  <1>3. CASE \E tx \in Tx : ReceiveTransaction(w, tx)
    BY <1>3, ReceiveTransactionIInv, GrowsIsChainStep DEF ReceiveTransaction
  <1>4. CASE \E tx \in Tx : TransactionsPanic(w, tx)
    BY <1>4, TransactionsPanicIInv, GrowsIsChainStep DEF TransactionsPanic
  <1>5. CASE WorkerPoisoned(w)
    BY <1>5, WorkerPoisonedIInv, GrowsIsChainStep DEF WorkerPoisoned
  <1> QED
    BY <1>1, <1>2, <1>3, <1>4, <1>5 DEF Receive

LEMMA MinerStepIInv ==
    ASSUME IInv, MinerStep PROVE IInv' /\ ChainStep
  <1>1. CASE MinerStart
    BY <1>1, MinerStartIInv, GrowsIsChainStep DEF MinerStart
  <1>2. CASE MinerReadTip
    BY <1>2, MinerReadTipIInv, GrowsIsChainStep DEF MinerReadTip
  <1>3. CASE MinerMiss
    BY <1>3, MinerMissIInv, GrowsIsChainStep DEF MinerMiss
  <1>4. CASE \E h \in Hash : MinerFind(h)
    BY <1>4, MinerFindIInv, GrowsIsChainStep DEF MinerFind
  <1>5. CASE MinerExecute
    BY <1>5, MinerExecuteIInv DEF ChainStep, MinerExecute
  <1>6. CASE MinerSend
    BY <1>6, MinerSendIInv, GrowsIsChainStep DEF MinerSend
  <1>7. CASE MinerPanic
    BY <1>7, MinerPanicIInv, GrowsIsChainStep DEF MinerPanic
  <1> QED
    BY <1>1, <1>2, <1>3, <1>4, <1>5, <1>6, <1>7 DEF MinerStep

LEMMA InserterStepIInv ==
    ASSUME IInv, InserterStep PROVE IInv' /\ ChainStep
  <1>1. CASE InsertMined
    BY <1>1, InsertMinedIInv, GrowsIsChainStep
  <1>2. CASE BroadcastMined
    BY <1>2, BroadcastMinedIInv, GrowsIsChainStep DEF BroadcastMined
  <1>3. CASE InserterPanic
    BY <1>3, InserterPanicIInv, GrowsIsChainStep DEF InserterPanic
  <1> QED
    BY <1>1, <1>2, <1>3 DEF InserterStep

LEMMA PeerStepIInv ==
    ASSUME IInv, PeerStep PROVE IInv' /\ ChainStep
  <1> PICK h \in Hash, d \in Difficulty :
        \/ PeerGenesis(h, d)
        \/ \E p \in Hash, data \in TxList, w \in BOOLEAN : PeerMine(h, p, data, d, w)
    BY DEF PeerStep
  <1>1. CASE PeerGenesis(h, d)
    BY <1>1, PeerGenesisIInv, GrowsIsChainStep DEF PeerGenesis
  <1>2. CASE \E p \in Hash, data \in TxList, w \in BOOLEAN : PeerMine(h, p, data, d, w)
    BY <1>2, PeerMineIInv, GrowsIsChainStep DEF PeerMine
  <1> QED
    BY <1>1, <1>2

LEMMA StutterIInv ==
    ASSUME IInv, UNCHANGED nodeVars PROVE IInv' /\ ChainStep
  <1>1. UNCHANGED <<peerVars, chainVars, workerSide, mempool, lockVars, minerSide>>
    BY DEF nodeVars, peerVars, chainVars, workerSide, handlerVars, lockVars, minerSide,
           minerVars, queueVars
  <1>2. TypeOK' /\ MutualExclusion'
    BY DEF nodeVars, IInv, TypeOK, MutualExclusion
  <1> QED
    BY <1>1, <1>2, MinerSideStep, WorkerStep, GrowsIsChainStep DEF IInv

LEMMA NextIInv == IInv /\ [Next]_nodeVars => IInv' /\ ChainStep
  BY HandleIInv, ReceiveIInv, MinerStepIInv, InserterStepIInv, PeerStepIInv, StutterIInv
     DEF Next

-----------------------------------------------------------------------------
(* The invariant holds in every state the node reaches. *)
THEOREM Node_Inductive == Spec => []IInv
  BY InitIInv, NextIInv, PTL DEF Spec

(* Every variable keeps its type: only signed transactions are in the      *)
(* mempool, only blocks in the maps and the channel                        *)
(* (network/worker.rs:143-200, miner/mod.rs:182-209).                      *)
THEOREM Node_TypeCorrect == Spec => []TypeOK
  <1>1. IInv => TypeOK
    BY DEF IInv
  <1> QED
    BY <1>1, Node_Inductive, PTL

(* The blockchain mutex lets one handler in, the mempool's belongs to the  *)
(* miner from finding a block to sending it (network/worker.rs:202,        *)
(* miner/mod.rs:182).                                                      *)
THEOREM Node_Mutex == Spec => []MutualExclusion
  <1>1. IInv => MutualExclusion
    BY DEF IInv
  <1> QED
    BY <1>1, Node_Inductive, PTL

(* The chain holds each block as it was made, length and transactions      *)
(* included (blockchain/mod.rs:41-52).                                     *)
THEOREM Node_ChainIsWorld == Spec => []ChainIsWorld
  <1>1. IInv => ChainIsWorld
    BY DEF IInv
  <1> QED
    BY <1>1, Node_Inductive, PTL

(* A mined block that waits can be inserted when its turn comes, and its   *)
(* state is there (miner/worker.rs:46-52).                                 *)
THEOREM Node_QueueReady == Spec => []QueueReady
  <1>1. IInv => QueueReady
    <2> SUFFICES ASSUME IInv, NEW i \in 1 .. Len(finished),
                        finished[i].hash \notin DOMAIN blocks
                 PROVE  /\ finished[i].parent \in DOMAIN blocks
                        /\ finished[i].hash \in DOMAIN block_states
                        /\ block_states[finished[i].hash]
                             = Execute(block_states[finished[i].parent],
                                       finished[i].data).state
      BY DEF QueueReady
    <2>1. finished[i] \in Queueable
      BY ElementOfSeq DEF IInv, QueueOK
    <2>2. Landing(finished[i])
      BY <2>1 DEF Queueable
    <2> QED
      BY <2>2 DEF Landing, NewState
  <1> QED
    BY <1>1, Node_Inductive, PTL

(* No peer has a block of this node before it is in its chain              *)
(* (miner/worker.rs:48-52).                                                *)
THEOREM Node_InsertedFirst == Spec => []InsertedBeforeBroadcast
  <1>1. IInv => InsertedBeforeBroadcast
    <2> SUFFICES ASSUME IInv, NEW i \in 1 .. Len(finished), finished[i].hash \in released
                 PROVE  finished[i].hash \in DOMAIN blocks
      BY DEF InsertedBeforeBroadcast
    <2>1. finished[i] \in Queueable
      BY ElementOfSeq DEF IInv, QueueOK
    <2> QED
      BY <2>1 DEF Queueable
  <1> QED
    BY <1>1, Node_Inductive, PTL

(* The block the miner works on stays in the chain, as it read it          *)
(* (miner/mod.rs:155-195).                                                 *)
THEOREM Node_MinerReady == Spec => []MinerReady
  <1>1. IInv => MinerReady
    BY DEF IInv, MinerOK
  <1> QED
    BY <1>1, Node_Inductive, PTL

(* With peers whose headers pass the checks, the orphan loop finds the     *)
(* state it unwraps (network/worker.rs:97,115).                            *)
THEOREM Node_NoMissingState == Spec => []NoMissingState
  <1>1. IInv => NoMissingState
    BY DEF IInv
  <1> QED
    BY <1>1, Node_Inductive, PTL

LEMMA ChainStepKeepsStates ==
    ASSUME IInv, ChainStep
    PROVE  \A h \in DOMAIN block_states :
              h \in DOMAIN block_states' /\ block_states'[h] = block_states[h]
  BY PlaceAdds DEF ChainStep, Places

(* What is stored for a block is never dropped or written over, by the     *)
(* miner or by a worker (miner/mod.rs:198, network/worker.rs:99,117).      *)
THEOREM Node_StatesKept == Spec => StatesNeverRewritten
  <1>1. IInv /\ [Next]_nodeVars =>
          [\A h \in DOMAIN block_states :
             /\ h \in DOMAIN block_states'
             /\ block_states'[h] = block_states[h]]_nodeVars
    BY NextIInv, ChainStepKeepsStates
  <1> QED
    BY <1>1, Node_Inductive, PTL DEF Spec, StatesNeverRewritten

-----------------------------------------------------------------------------
(* The node implements BlockTree.                                          *)

(* The operators of Blockchain are the same in the abstract specification. *)
LEMMA SameOperators ==
    /\ \A h, d : View!Genesis(h, d) = Genesis(h, d)
    /\ \A h, p, data : View!Child(h, p, data) = Child(h, p, data)
    /\ \A k, v : View!Only(k, v) = Only(k, v)
    /\ \A m, k, v : View!Put(m, k, v) = Put(m, k, v)
    /\ \A m, b : View!Insert(m, b) = Insert(m, b)
  BY DEF View!Genesis, Genesis, View!Child, Child, View!Only, Only, View!Put, Put,
         View!Insert, Insert

LEMMA InitRefines == Init => View!Init
  <1> SUFFICES ASSUME Init PROVE View!Init
    OBVIOUS
  <1> PICK h \in Hash, d \in Difficulty :
        blocks = Only(h, Genesis(h, d)) /\ block_states = Only(h, Ico)
    BY DEF Init
  <1>1. [g \in DOMAIN blocks |-> block_states[g]] = Only(h, Ico)
    BY DEF Only
  <1> QED
    BY <1>1, SameOperators DEF View!Init

LEMMA PlacesRefines ==
    ASSUME IInv, NEW b, Places(b), b.hash \notin DOMAIN blocks
    PROVE  View!Next
  <1> DEFINE ledger == [g \in DOMAIN blocks |-> block_states[g]]
             ledgerAfter == [g \in DOMAIN blocks' |-> block_states'[g]]
  <1>1. /\ b.hash \in Hash
        /\ DOMAIN blocks' = DOMAIN blocks \cup {b.hash}
        /\ block_states'[b.hash] = StateOf(b)
        /\ \A h \in DOMAIN block_states : block_states'[h] = block_states[h]
    BY PlaceAdds DEF Places
  <1>2. /\ b \in Block /\ b.length \in Nat \ {0} /\ b.difficulty \in Difficulty
        /\ b.data \in TxList /\ b.hash \in DOMAIN world /\ world[b.hash] = b
    BY DEF Places, Placeable, Own, Block
  <1>3. ledgerAfter = Put(ledger, b.hash, StateOf(b))
    BY <1>1 DEF Put, IInv, StatesOK
  <1>4. blocks' = Insert(blocks, b) /\ blocks' = Put(blocks, b.hash, b)
    BY InsertIsPut DEF Places, Placeable
  <1>5. CASE b.length = 1
    <2>1. b = Genesis(b.hash, b.difficulty)
      BY <1>2, <1>5 DEF IInv, WorldOK
    <2>2. StateOf(b) = Ico
      BY <1>5 DEF StateOf
    <2>3. View!AddGenesis(b.hash, b.difficulty)
      BY <1>3, <1>4, <2>1, <2>2, SameOperators DEF View!AddGenesis
    <2> QED
      BY <1>1, <1>2, <2>3 DEF View!Next
  <1>6. CASE b.length # 1
    <2> DEFINE p == b.parent
    <2>1. p \in DOMAIN blocks /\ CheckBlockValidity(b, blocks[p])
      BY <1>6 DEF Places, Placeable
    <2>2. blocks[p] \in Block /\ blocks[p] = world[p] /\ blocks[p].hash = p /\ p \in Hash
      BY <2>1, InChain
    <2>3. b.length = blocks[p].length + 1
      BY <1>2, <1>6, <2>2 DEF IInv, WorldOK
    <2>4. b = Child(b.hash, blocks[p], b.data)
      BY <1>2, <2>1, <2>2, <2>3 DEF Block, Child, CheckBlockValidity
    <2>5. StateOf(b) = Execute(ledger[p], b.data).state
      BY <1>6, <2>1 DEF StateOf, NewState
    <2>6. View!Extend(b.hash, p, b.data)
      BY <1>3, <1>4, <2>1, <2>4, <2>5, SameOperators DEF View!Extend
    <2> QED
      BY <1>1, <1>2, <2>2, <2>6 DEF View!Next
  <1> QED
    BY <1>5, <1>6

LEMMA ChainStepRefines ==
    ASSUME IInv, ChainStep
    PROVE  [View!Next]_(View!vars)
  <1> DEFINE ledger == [g \in DOMAIN blocks |-> block_states[g]]
             ledgerAfter == [g \in DOMAIN blocks' |-> block_states'[g]]
  <1>1. \A h \in DOMAIN block_states :
           h \in DOMAIN block_states' /\ block_states'[h] = block_states[h]
    BY ChainStepKeepsStates
  <1>2. CASE blocks' = blocks
    <2>1. ledgerAfter = ledger
      BY <1>1, <1>2 DEF IInv, StatesOK
    <2> QED
      BY <1>2, <2>1 DEF View!vars
  <1>3. CASE \E b : Places(b)
    <2> PICK b : Places(b)
      BY <1>3
    <2>1. CASE b.hash \notin DOMAIN blocks
      BY <2>1, PlacesRefines
    <2>2. CASE b.hash \in DOMAIN blocks
      <3>1. blocks[b.hash] = b
        BY <2>2, InChain DEF Places, Placeable, Own
      <3>2. blocks' = Put(blocks, b.hash, b)
        BY InsertIsPut DEF Places, Placeable
      <3>3. blocks' = blocks
        BY <2>2, <3>1, <3>2 DEF Put, IInv, TypeOK
      <3> QED
        BY <1>2, <3>3
    <2> QED
      BY <2>1, <2>2
  <1> QED
    BY <1>2, <1>3 DEF ChainStep

(* Whatever threads and peers do, the node's maps make no step that struct *)
(* Blockchain's contract does not allow (blockchain/mod.rs:10-67).         *)
THEOREM Node_Refines == Spec => RefinesBlockTree
  <1>1. Init => View!Init
    BY InitRefines
  <1>2. IInv /\ [Next]_nodeVars => [View!Next]_(View!vars)
    BY NextIInv, ChainStepRefines
  <1> QED
    BY <1>1, <1>2, Node_Inductive, PTL DEF Spec, RefinesBlockTree, View!Spec

(* So what is proved of BlockTree holds of the node's chain.               *)
Tree == INSTANCE BlockTreeProofs
            WITH tree <- blocks,
                 ledger <- [h \in DOMAIN blocks |-> block_states[h]]

LEMMA SameSpec == View!Spec => Tree!Spec
  <1>1. View!Init => Tree!Init
    BY DEF View!Init, Tree!Init, View!Only, Tree!Only, View!Genesis, Tree!Genesis
  <1>2. [View!Next]_(View!vars) => [Tree!Next]_(Tree!vars)
    BY DEF View!Next, Tree!Next, View!vars, Tree!vars,
           View!AddGenesis, Tree!AddGenesis, View!Extend, Tree!Extend,
           View!Put, Tree!Put, View!Insert, Tree!Insert,
           View!Child, Tree!Child, View!Genesis, Tree!Genesis
  <1> QED
    BY <1>1, <1>2, PTL DEF View!Spec, Tree!Spec

(* The blocks a node has form a forest of valid blocks, each as long as    *)
(* its height (blockchain/mod.rs:41-52).                                   *)
THEOREM Node_Forest == Spec => []Tree!WellFormed
  <1>1. Tree!Spec => []Tree!WellFormed
    BY Tree!Tree_WellFormed, BlockchainAssumption, ExecuteAssumption
       DEF Tree!BlockchainAssumption, Tree!ExecuteAssumption
  <1> QED
    BY <1>1, Node_Refines, SameSpec, PTL DEF RefinesBlockTree

(* The state a node keeps for a block is the ICO state run through the     *)
(* transactions from its genesis to it, whether it mined the block or      *)
(* received it (miner/mod.rs:195-198, network/worker.rs:97-99).            *)
THEOREM Node_StatesReplay == Spec => []Tree!LedgerReplays
  <1>1. Tree!Spec => []Tree!LedgerReplays
    BY Tree!Ledger_Replays, BlockchainAssumption, ExecuteAssumption
       DEF Tree!BlockchainAssumption, Tree!ExecuteAssumption
  <1> QED
    BY <1>1, Node_Refines, SameSpec, PTL DEF RefinesBlockTree

(* No thread rewrites a block or its state, and the longest chain never    *)
(* gets shorter (blockchain/mod.rs:41-67).                                 *)
THEOREM Node_History == Spec => Tree!Immutable
  <1>1. Tree!Spec => Tree!Immutable
    BY Tree!History_Immutable, BlockchainAssumption, ExecuteAssumption
       DEF Tree!BlockchainAssumption, Tree!ExecuteAssumption
  <1> QED
    BY <1>1, Node_Refines, SameSpec, PTL DEF RefinesBlockTree
================================================================================
