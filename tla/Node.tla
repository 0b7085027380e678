--------------------------------- MODULE Node ---------------------------------
(***************************************************************************)
(* The threads of one client and the state they share: the P2P workers     *)
(* (src/network/worker.rs), the miner (src/miner/mod.rs) and the thread    *)
(* that inserts what it mined (src/miner/worker.rs), over the chain, the   *)
(* orphan buffer and the mempool.                                          *)
(*                                                                         *)
(* Steps are cut where a thread takes or releases a lock, and at each turn *)
(* of a loop.  A section that runs under the blockchain mutex and takes no *)
(* other lock is one step; handle_new_block, which runs under it, goes     *)
(* block by block, orphan by orphan and index by index.  The orphan buffer *)
(* has a mutex of its own that is only ever taken under the blockchain's,  *)
(* so nobody waits for it and it is left out.  Messages that only read     *)
(* (NewBlockHashes, NewTransactionHashes, GetTransactions, Ping, Pong)     *)
(* change no state and are left out too.                                   *)
(*                                                                         *)
(* A lock is "free", held by a thread, or "poisoned" by one that panicked  *)
(* while it held it: every later lock().unwrap() panics in turn.  With     *)
(* ServerEnds, a broadcast may panic: the P2P server is gone.  (That one   *)
(* waits for room in its channel, for ever once the server hangs, is in    *)
(* PeerServer and Control; here a broadcast that does not panic returns.)  *)
(*                                                                         *)
(* The peers are the environment: they make genesis blocks, mine on any    *)
(* block they have, and send any batch of blocks they have, in any order,  *)
(* again and again.                                                        *)
(***************************************************************************)
EXTENDS Blockchain, Transaction

CONSTANTS
    Worker,         (* the P2P worker threads (--p2p-workers)              *)
    Tx,             (* transactions                                        *)
    Signed,         (* those whose signature verifies (check_tx_validity)  *)
    MaxTxPerBlock,  (* MAX_TX_PER_BLOCK                                    *)
    Mining,         (* is the miner ever started (/miner/start)            *)
    HonestHeaders,  (* do peers only make blocks that pass the checks      *)
    ServerEnds,     (* may the P2P server end                              *)
    MaxBatch,       (* bound: blocks in one message                        *)
    MaxOrphans      (* bound: orphans the peers cause                      *)

ASSUME NodeAssumption ==
    /\ Worker \cap {"free", "miner", "poisoned"} = {}
    /\ Signed \subseteq Tx
    /\ \A txs \in TxList : txs \in Seq(Tx)
    /\ Mining \in BOOLEAN /\ HonestHeaders \in BOOLEAN /\ ServerEnds \in BOOLEAN
    /\ MaxTxPerBlock \in Nat /\ MaxBatch \in Nat /\ MaxOrphans \in Nat

VARIABLES
    world,          (* every block made so far, by anyone, by its hash     *)
    released,       (* the hashes of those the peers have                  *)
    blocks,         (* Blockchain.blocks                                   *)
    block_states,   (* Blockchain.block_states                             *)
    orphan_buffer,  (* Worker.orphan_buffer                                *)
    mempool,        (* the mempool, a set: the HashMap's keys are hashes   *)
    chain_lock,     (* the mutex of the chain                              *)
    pool_lock,      (* the mutex of the mempool                            *)
    wpc,            (* where each P2P worker is                            *)
    todo,           (* blocks of the message at hand, the current one first*)
    idx_to_delete,  (* positions of adopted orphans (from 1)               *)
    mpc,            (* where the miner is                                  *)
    genesis_block,  (* the miner's genesis_block                           *)
    parent_block,   (* the miner's parent_block                            *)
    found,          (* the block whose nonce it found                      *)
    tx_data,        (* the transactions it took from the mempool           *)
    ipc,            (* where the miner's inserting thread is               *)
    finished        (* finished_block_chan                                 *)

chainVars == <<blocks, block_states>>
handlerVars == <<todo, idx_to_delete>>
minerVars == <<mpc, genesis_block, parent_block, found, tx_data>>
queueVars == <<ipc, finished>>
peerVars == <<world, released>>
lockVars == <<chain_lock, pool_lock>>
workerSide == <<orphan_buffer, wpc, handlerVars>>
minerSide == <<minerVars, queueVars>>
(* What a turn of handle_new_block leaves alone in any case. *)
outside == <<peerVars, mempool, lockVars, minerSide>>

nodeVars == <<world, released, blocks, block_states, orphan_buffer, mempool,
              chain_lock, pool_lock, wpc, todo, idx_to_delete, mpc,
              genesis_block, parent_block, found, tx_data, ipc, finished>>

(* The abstract view of the chain: the state of a block that is not in the *)
(* chain yet is no part of it.                                             *)
View == INSTANCE BlockTree
            WITH tree <- blocks,
                 ledger <- [h \in DOMAIN blocks |-> block_states[h]]

-----------------------------------------------------------------------------
Init ==
    /\ \E h \in Hash, d \in Difficulty :
          /\ world = Only(h, Genesis(h, d))
          /\ blocks = Only(h, Genesis(h, d))
          /\ block_states = Only(h, Ico)
          /\ genesis_block = Genesis(h, d)
          /\ parent_block = Genesis(h, d)
          /\ found = Genesis(h, d)
    /\ released = {}
    /\ orphan_buffer = <<>>
    /\ mempool = {}
    /\ chain_lock = "free"
    /\ pool_lock = "free"
    /\ wpc = [w \in Worker |-> "recv"]
    /\ todo = <<>>
    /\ idx_to_delete = <<>>
    /\ mpc = "start"
    /\ tx_data = <<>>
    /\ ipc = "recv"
    /\ finished = <<>>

-----------------------------------------------------------------------------
ChainFree == chain_lock = "free"
PoolFree == pool_lock = "free"

-----------------------------------------------------------------------------
(* The peers.  What they make while a message is handled can only matter to *)
(* the next one, so they make it in between (a reduction, not a guard).     *)
Fresh(h) == h \notin DOMAIN world

PeerGenesis(h, d) ==
    /\ ChainFree
    /\ Fresh(h)
    /\ world' = Put(world, h, Genesis(h, d))
    /\ released' = released \cup {h}
    /\ UNCHANGED <<chainVars, workerSide, mempool, lockVars, minerSide>>

PeerMine(h, p, data, d, w) ==
    /\ ChainFree
    /\ Fresh(h)
    /\ p \in released
    /\ LET b == [Child(h, world[p], data) EXCEPT !.difficulty = d, !.work = w]
       IN  /\ HonestHeaders => CheckBlockValidity(b, world[p])
           /\ world' = Put(world, h, b)
    /\ released' = released \cup {h}
    /\ UNCHANGED <<chainVars, workerSide, mempool, lockVars, minerSide>>

-----------------------------------------------------------------------------
(* worker_loop. *)

(* Between two blocks of a message; with "news" new_hashes is not empty. *)
AtTurn(w) == wpc[w] \in {"next", "news"}

(* Message::Blocks: the blockchain mutex is taken for the whole message. *)
ReceiveBlocks(w, batch) ==
    /\ wpc[w] = "recv"
    /\ ChainFree
    /\ Len(orphan_buffer) + Len(batch) <= MaxOrphans
    /\ chain_lock' = w
    /\ todo' = [i \in 1 .. Len(batch) |-> world[batch[i]]]
    /\ wpc' = [wpc EXCEPT ![w] = "next"]
    /\ UNCHANGED <<peerVars, chainVars, orphan_buffer, mempool, pool_lock,
                   idx_to_delete, minerSide>>

SkipSeen(w) ==
    /\ AtTurn(w) /\ todo # <<>>
    /\ Head(todo).hash \in DOMAIN blocks
    /\ todo' = Tail(todo)
    /\ UNCHANGED <<outside, chainVars, orphan_buffer, wpc, idx_to_delete>>

(* The end of the message: new hashes are broadcast, the mutex released. *)
FinishBlocks(w) ==
    /\ AtTurn(w) /\ todo = <<>>
    /\ chain_lock' = "free"
    /\ wpc' = [wpc EXCEPT ![w] = "recv"]
    /\ UNCHANGED <<peerVars, chainVars, orphan_buffer, mempool, pool_lock,
                   handlerVars, minerSide>>

(* Message::GetBlocks: a peer that has a block asks for its parent. *)
ServeBlocks(w, h) ==
    /\ wpc[w] = "recv" /\ ChainFree
    /\ h \in DOMAIN blocks
    /\ h \notin released
    /\ \E g \in released : world[g].parent = h
    /\ released' = released \cup {h}
    /\ UNCHANGED <<world, chainVars, workerSide, mempool, lockVars, minerSide>>

(* check_tx_validity, and a mutant of it. *)
AnyTx(tx) == tx \in Tx
CheckTxValidity(tx) == tx \in Signed

(* Message::Transactions, one transaction of it. *)
ReceiveTransaction(w, tx) ==
    /\ wpc[w] = "recv" /\ PoolFree
    /\ CheckTxValidity(tx)
    /\ mempool' = mempool \cup {tx}
    /\ UNCHANGED <<peerVars, chainVars, workerSide, lockVars, minerSide>>

-----------------------------------------------------------------------------
(* handle_new_block, on the first block of todo. *)

PurgeMempool(w) ==
    /\ AtTurn(w) /\ todo # <<>>
    /\ Head(todo).hash \notin DOMAIN blocks
    /\ PoolFree
    /\ mempool' = DeleteTx(mempool, Head(todo).data)
    /\ wpc' = [wpc EXCEPT ![w] = "attach"]
    /\ UNCHANGED <<peerVars, chainVars, orphan_buffer, lockVars, handlerVars,
                   minerSide>>

HandleGenesis(w) ==
    LET b == Head(todo)
    IN  /\ wpc[w] = "attach"
        /\ b.parent \notin DOMAIN blocks
        /\ b.length = 1
        /\ blocks' = Insert(blocks, b)
        /\ block_states' = Put(block_states, b.hash, Ico)
        /\ todo' = Tail(todo)
        /\ wpc' = [wpc EXCEPT ![w] = "news"]
        /\ UNCHANGED <<outside, orphan_buffer, idx_to_delete>>

(* A mutant: the orphan loop runs after an orphan too. *)
BufferOrphanThenAdopt(w) ==
    LET b == Head(todo)
    IN  /\ wpc[w] = "attach"
        /\ b.parent \notin DOMAIN blocks
        /\ b.length # 1
        /\ orphan_buffer' = Append(orphan_buffer, b)
        /\ wpc' = [wpc EXCEPT ![w] = "adopt"]
        /\ UNCHANGED <<outside, chainVars, handlerVars>>

BufferOrphan(w) ==
    LET b == Head(todo)
    IN  /\ wpc[w] = "attach"
        /\ b.parent \notin DOMAIN blocks
        /\ b.length # 1
        /\ orphan_buffer' = Append(orphan_buffer, b)
        /\ todo' = Tail(todo)
        /\ wpc' = [wpc EXCEPT ![w] = "news"]
        /\ UNCHANGED <<outside, chainVars, idx_to_delete>>

(* The insertion of a block that passed, with the state it leads to; the   *)
(* two unwraps of it need the parent's state and the parent.               *)
CanAttach(b) == b.parent \in DOMAIN block_states /\ Insertable(blocks, b)

NewStateOnIco(b) == Execute(Ico, b.data).state   \* a mutant
NewState(b) == Execute(block_states[b.parent], b.data).state

Attach(b) ==
    /\ CanAttach(b)
    /\ block_states' = Put(block_states, b.hash, NewState(b))
    /\ blocks' = Insert(blocks, b)

HandleChild(w) ==
    LET b == Head(todo)
    IN  /\ wpc[w] = "attach"
        /\ b.parent \in DOMAIN blocks
        /\ IF CheckBlockValidity(b, blocks[b.parent])
           THEN Attach(b)
           ELSE UNCHANGED chainVars
        /\ idx_to_delete' = <<>>
        /\ wpc' = [wpc EXCEPT ![w] = "adopt"]
        /\ UNCHANGED <<outside, orphan_buffer, todo>>

(* new_block_inserted: the last orphan adopted, first of all the block.     *)
NewBlockInserted ==
    IF idx_to_delete = <<>> THEN Head(todo)
    ELSE orphan_buffer[Last(idx_to_delete)]

(* The for loop stops at the first orphan whose parent that block is. *)
FirstChild(i) ==
    LET IsChild(j) == orphan_buffer[j].parent = NewBlockInserted.hash
    IN  IsChild(i) /\ \A j \in 1 .. (i - 1) : ~ IsChild(j)

(* A mutant: the loop does not move on to the orphan it adopted. *)
AdoptOrphanAgain(w, i) ==
    LET o == orphan_buffer[i]
    IN  /\ wpc[w] = "adopt"
        /\ FirstChild(i)
        /\ IF CheckBlockValidity(o, NewBlockInserted)
           THEN Attach(o)
           ELSE UNCHANGED chainVars
        /\ UNCHANGED <<outside, workerSide>>

AdoptOrphan(w, i) ==
    LET o == orphan_buffer[i]
    IN  /\ wpc[w] = "adopt"
        /\ FirstChild(i)
        /\ IF CheckBlockValidity(o, NewBlockInserted)
           THEN Attach(o)
           ELSE UNCHANGED chainVars
        /\ idx_to_delete' = Append(idx_to_delete, i)
        /\ UNCHANGED <<outside, orphan_buffer, wpc, todo>>

AdoptDone(w) ==
    /\ wpc[w] = "adopt"
    /\ ~ \E i \in 1 .. Len(orphan_buffer) : FirstChild(i)
    /\ wpc' = [wpc EXCEPT ![w] = "cleanup"]
    /\ UNCHANGED <<outside, chainVars, orphan_buffer, handlerVars>>

(* orphan_buffer.remove, one index of idx_to_delete after the other. *)
RemoveIndex(w) ==
    /\ wpc[w] = "cleanup" /\ idx_to_delete # <<>>
    /\ Head(idx_to_delete) <= Len(orphan_buffer)
    /\ orphan_buffer' = RemoveAt(orphan_buffer, Head(idx_to_delete))
    /\ idx_to_delete' = Tail(idx_to_delete)
    /\ UNCHANGED <<outside, chainVars, wpc, todo>>

CleanupDone(w) ==
    /\ wpc[w] = "cleanup" /\ idx_to_delete = <<>>
    /\ todo' = Tail(todo)
    /\ wpc' = [wpc EXCEPT ![w] = "news"]
    /\ UNCHANGED <<outside, chainVars, orphan_buffer, idx_to_delete>>

-----------------------------------------------------------------------------
(* miner_loop.  The control channel is reduced to whether /miner/start was *)
(* ever called: paused, the miner waits at the top with its tip read.      *)

(* A mutant: the miner may go on from the block it found last. *)
TipBlocksOrFound == {blocks[tip] : tip \in Tips(blocks)} \cup {found}

(* What a read of the tip may give. *)
TipBlocks == {blocks[tip] : tip \in Tips(blocks)}

MinerStart ==
    /\ mpc = "start" /\ ChainFree
    /\ genesis_block' \in TipBlocks
    /\ parent_block' = genesis_block'
    /\ mpc' = "top"
    /\ UNCHANGED <<peerVars, chainVars, workerSide, mempool, lockVars, found,
                   tx_data, queueVars>>

MinerReadTip ==
    /\ mpc = "top" /\ ChainFree
    /\ Mining
    /\ parent_block' \in TipBlocks
    /\ mpc' = "mine"
    /\ UNCHANGED <<peerVars, chainVars, workerSide, mempool, lockVars,
                   genesis_block, found, tx_data, queueVars>>

(* The nonce does not give a block; the next turn reads the tip again. *)
MinerMiss ==
    /\ mpc = "mine"
    /\ mpc' = "top"
    /\ UNCHANGED <<peerVars, chainVars, workerSide, mempool, lockVars,
                   genesis_block, parent_block, found, tx_data, queueVars>>

(* Up to MAX_TX_PER_BLOCK transactions of the pool, in the HashMap's order. *)
Selections(pool) ==
    {txs \in TxList :
        /\ ToSet(txs) \subseteq pool
        /\ Len(txs) <= MaxTxPerBlock
        /\ Len(txs) = MaxTxPerBlock \/ ToSet(txs) = pool
        /\ \A i, j \in 1 .. Len(txs) : txs[i] = txs[j] => i = j}

(* A nonce is found: the mempool is locked, to stay so until the block is   *)
(* sent, and its transactions are taken.                                    *)
MinerFind(h) ==
    /\ mpc = "mine" /\ PoolFree
    /\ Fresh(h)
    /\ tx_data' \in Selections(mempool)
    /\ found' = Child(h, parent_block, <<>>)
    /\ world' = Put(world, h, Child(h, parent_block, <<>>))
    /\ pool_lock' = "miner"
    /\ mpc' = "execute"
    /\ UNCHANGED <<released, chainVars, workerSide, mempool, chain_lock,
                   genesis_block, parent_block, queueVars>>

(* A mutant: the state of what is the tip now. *)
MinedOnTip ==
    LET tip == CHOOSE h \in Tips(blocks) : TRUE
    IN  Execute(block_states[tip], tx_data)

(* execute_tx on the parent's state. *)
Mined == Execute(block_states[parent_block.hash], tx_data)

(* A mutant: the state is stored under the parent's hash. *)
MinerExecuteAtParent ==
    /\ mpc = "execute" /\ ChainFree
    /\ block_states' = Put(block_states, parent_block.hash, Mined.state)
    /\ found' = [found EXCEPT !.data = Mined.valid]
    /\ world' = Put(world, found.hash, found')
    /\ mempool' = DeleteTx(mempool, tx_data)
    /\ tx_data' = <<>>
    /\ mpc' = "send"
    /\ UNCHANGED <<released, blocks, workerSide, lockVars, genesis_block,
                   parent_block, queueVars>>

(* With the mempool locked the chain is locked too: the state of the block  *)
(* is stored before the block is in the chain, its data are the valid       *)
(* transactions, and all that were taken leave the mempool.  (The unwrap of *)
(* the parent's state cannot panic: MinerReady and RefinesBlockTree.)       *)
MinerExecute ==
    /\ mpc = "execute" /\ ChainFree
    /\ parent_block.hash \in DOMAIN block_states
    /\ block_states' = Put(block_states, found.hash, Mined.state)
    /\ found' = [found EXCEPT !.data = Mined.valid]
    /\ world' = Put(world, found.hash, found')
    /\ mempool' = DeleteTx(mempool, tx_data)
    /\ tx_data' = <<>>
    /\ mpc' = "send"
    /\ UNCHANGED <<released, blocks, workerSide, lockVars, genesis_block,
                   parent_block, queueVars>>

(* A mutant: the genesis is sent instead of the first block on it. *)
SentOneOnly ==
    IF found.parent = genesis_block.hash THEN <<genesis_block>> ELSE <<found>>

(* What is sent: a block on the genesis goes after the genesis itself. *)
Sent ==
    IF found.parent = genesis_block.hash
    THEN <<genesis_block, found>> ELSE <<found>>

MinerSend ==
    /\ mpc = "send" /\ ipc # "dead"
    /\ finished' = finished \o Sent
    /\ pool_lock' = "free"
    /\ mpc' = "top"
    /\ UNCHANGED <<peerVars, chainVars, workerSide, mempool, chain_lock,
                   genesis_block, parent_block, found, tx_data, ipc>>

-----------------------------------------------------------------------------
(* worker_loop of miner/worker.rs.  The block is dropped from `finished`    *)
(* when it was broadcast, so that the variable shows it until then.         *)

(* A mutant: the block is broadcast before it is inserted. *)
InsertMinedReleased ==
    /\ ipc = "recv" /\ finished # <<>> /\ ChainFree
    /\ released' = released \cup {Head(finished).hash}
    /\ ipc' = "broadcast"
    /\ UNCHANGED <<world, chainVars, workerSide, mempool, lockVars,
                   minerVars, finished>>

InsertMined ==
    /\ ipc = "recv" /\ finished # <<>> /\ ChainFree
    /\ Insertable(blocks, Head(finished))
    /\ blocks' = Insert(blocks, Head(finished))
    /\ ipc' = "broadcast"
    /\ UNCHANGED <<peerVars, block_states, workerSide, mempool, lockVars,
                   minerVars, finished>>

BroadcastMined ==
    /\ ipc = "broadcast"
    /\ released' = released \cup {Head(finished).hash}
    /\ finished' = Tail(finished)
    /\ ipc' = "recv"
    /\ UNCHANGED <<world, chainVars, workerSide, mempool, lockVars, minerVars>>

-----------------------------------------------------------------------------
(* Panics.  A thread that unwinds drops its guards, which poisons the       *)
(* mutexes it holds.                                                        *)

MissingState(b, parent) == CheckBlockValidity(b, parent) /\ ~ CanAttach(b)

(* In handle_new_block: get_block_state(..).unwrap() on a block whose state *)
(* is not there, Vec::remove past the end, or the mempool's mutex poisoned; *)
(* and in a broadcast, of GetBlocks for an orphan (the orphan is left out:  *)
(* nobody reads the buffer again) or of the new hashes.                     *)
HandlerPanics(w) ==
    \/ /\ wpc[w] = "attach"
       /\ Head(todo).parent \in DOMAIN blocks
       /\ MissingState(Head(todo), blocks[Head(todo).parent])
    \/ /\ wpc[w] = "adopt"
       /\ \E i \in 1 .. Len(orphan_buffer) :
             FirstChild(i) /\ MissingState(orphan_buffer[i], NewBlockInserted)
    \/ /\ wpc[w] = "cleanup" /\ idx_to_delete # <<>>
       /\ Head(idx_to_delete) > Len(orphan_buffer)
    \/ /\ AtTurn(w) /\ todo # <<>>
       /\ Head(todo).hash \notin DOMAIN blocks
       /\ pool_lock = "poisoned"
    \/ /\ ServerEnds /\ wpc[w] = "attach"
       /\ Head(todo).parent \notin DOMAIN blocks
       /\ Head(todo).length # 1
    \/ ServerEnds /\ wpc[w] = "news" /\ todo = <<>>

HandlerPanic(w) ==
    /\ HandlerPanics(w)
    /\ wpc' = [wpc EXCEPT ![w] = "dead"]
    /\ chain_lock' = "poisoned"
    /\ todo' = <<>> /\ idx_to_delete' = <<>>
    /\ UNCHANGED <<peerVars, chainVars, orphan_buffer, mempool, pool_lock,
                   minerSide>>

(* lock().unwrap() on a poisoned mutex, for the message that arrived. *)
WorkerPoisoned(w) ==
    /\ wpc[w] = "recv"
    /\ "poisoned" \in {chain_lock, pool_lock}
    /\ wpc' = [wpc EXCEPT ![w] = "dead"]
    /\ UNCHANGED <<outside, chainVars, orphan_buffer, handlerVars>>

(* Message::Transactions, when the broadcast panics: the transaction is in   *)
(* the pool, whose mutex is poisoned.                                        *)
TransactionsPanic(w, tx) ==
    /\ ServerEnds
    /\ wpc[w] = "recv" /\ PoolFree
    /\ CheckTxValidity(tx) /\ tx \notin mempool
    /\ mempool' = mempool \cup {tx}
    /\ pool_lock' = "poisoned"
    /\ wpc' = [wpc EXCEPT ![w] = "dead"]
    /\ UNCHANGED <<peerVars, chainVars, orphan_buffer, chain_lock, handlerVars,
                   minerSide>>

MinerPanics ==
    \/ mpc \in {"start", "top", "execute"} /\ chain_lock = "poisoned"
    \/ mpc = "mine" /\ pool_lock = "poisoned"
    \/ mpc = "send" /\ ipc = "dead"

MinerPanic ==
    /\ MinerPanics
    /\ mpc' = "dead"
    /\ pool_lock' = IF pool_lock = "miner" THEN "poisoned" ELSE pool_lock
    /\ UNCHANGED <<peerVars, chainVars, workerSide, mempool, chain_lock,
                   genesis_block, parent_block, found, tx_data, queueVars>>

(* At lock().unwrap(), or in the broadcast of a block that is inserted. *)
InserterPanic ==
    /\ \/ ipc = "recv" /\ finished # <<>> /\ chain_lock = "poisoned"
       \/ ipc = "broadcast" /\ ServerEnds
    /\ ipc' = "dead"
    /\ UNCHANGED <<peerVars, chainVars, workerSide, mempool, lockVars,
                   minerVars, finished>>

-----------------------------------------------------------------------------
Handle(w) ==
    \/ SkipSeen(w) \/ PurgeMempool(w) \/ FinishBlocks(w)
    \/ HandleGenesis(w) \/ BufferOrphan(w) \/ HandleChild(w)
    \/ \E i \in 1 .. Len(orphan_buffer) : AdoptOrphan(w, i)
    \/ AdoptDone(w) \/ RemoveIndex(w) \/ CleanupDone(w)
    \/ HandlerPanic(w)

Receive(w) ==
    \/ \E batch \in SeqOf(released, MaxBatch) \ {<<>>} : ReceiveBlocks(w, batch)
    \/ \E h \in Hash : ServeBlocks(w, h)
    \/ \E tx \in Tx : ReceiveTransaction(w, tx) \/ TransactionsPanic(w, tx)
    \/ WorkerPoisoned(w)

MinerStep ==
    \/ MinerStart \/ MinerReadTip \/ MinerMiss
    \/ \E h \in Hash : MinerFind(h)
    \/ MinerExecute \/ MinerSend \/ MinerPanic

InserterStep == InsertMined \/ BroadcastMined \/ InserterPanic

PeerStep ==
    \E h \in Hash, d \in Difficulty :
        \/ PeerGenesis(h, d)
        \/ \E p \in Hash, data \in TxList, w \in BOOLEAN : PeerMine(h, p, data, d, w)

Next ==
    \/ \E w \in Worker : Handle(w) \/ Receive(w)
    \/ MinerStep
    \/ InserterStep
    \/ PeerStep

Spec == Init /\ [][Next]_nodeVars

-----------------------------------------------------------------------------
TypeOK ==
    /\ DOMAIN world \subseteq Hash /\ world \in [DOMAIN world -> Block]
    /\ released \subseteq DOMAIN world
    /\ DOMAIN blocks \subseteq Hash /\ blocks \in [DOMAIN blocks -> Block]
    /\ DOMAIN block_states \subseteq Hash
    /\ block_states \in [DOMAIN block_states -> LedgerState]
    /\ orphan_buffer \in Seq(Block)
    /\ mempool \subseteq Signed
    /\ chain_lock \in Worker \cup {"free", "poisoned"}
    /\ pool_lock \in {"free", "miner", "poisoned"}
    /\ wpc \in [Worker -> {"recv", "next", "news", "attach", "adopt", "cleanup",
                          "dead"}]
    /\ todo \in Seq(Block)
    /\ idx_to_delete \in Seq(Nat \ {0})
    /\ mpc \in {"start", "top", "mine", "execute", "send", "dead"}
    /\ genesis_block \in Block /\ parent_block \in Block /\ found \in Block
    /\ tx_data \in TxList
    /\ ipc \in {"recv", "broadcast", "dead"}
    /\ finished \in Seq(Block)

(* network/worker.rs:202, miner/mod.rs:182: the blockchain mutex lets one    *)
(* handler in at a time, and the mempool's is the miner's from the moment it *)
(* found a block until it was sent; nobody else holds on to either.          *)
MutualExclusion ==
    /\ \A w \in Worker :
          wpc[w] \in {"next", "news", "attach", "adopt", "cleanup"} <=> chain_lock = w
    /\ pool_lock = "miner" <=> mpc \in {"execute", "send"}

(* mod.rs:46-51: a block in the chain is the block that was made under its   *)
(* hash, with the transactions and the length it was made with, although the *)
(* hash covers neither and insert computes the length again.                 *)
ChainIsWorld ==
    \A h \in DOMAIN blocks : h \in DOMAIN world /\ blocks[h] = world[h]

(* miner/mod.rs:198, network/worker.rs:99,117: two threads write             *)
(* block_states, the miner before its block is in the chain; what is stored  *)
(* for a block is never overwritten by something else or dropped.            *)
StatesNeverRewritten ==
    [][\A h \in DOMAIN block_states :
          /\ h \in DOMAIN block_states'
          /\ block_states'[h] = block_states[h]]_nodeVars

(* miner/worker.rs:46-52: whatever the workers do to the chain while a mined *)
(* block waits in the channel, it can be inserted when its turn comes: its   *)
(* parent is there, and so is its state, the one its transactions lead to.   *)
QueueReady ==
    \A i \in 1 .. Len(finished) :
        LET b == finished[i]
        IN  \/ b.hash \in DOMAIN blocks
            \/ /\ b.parent \in DOMAIN blocks
               /\ b.hash \in DOMAIN block_states
               /\ block_states[b.hash]
                     = Execute(block_states[b.parent], b.data).state

(* miner/worker.rs:48-52: peers never have a block of this node that is not  *)
(* in its own chain, so they can ask it for that block's parent.             *)
InsertedBeforeBroadcast ==
    \A i \in 1 .. Len(finished) :
        finished[i].hash \in released => finished[i].hash \in DOMAIN blocks

(* miner/mod.rs:195: between reading the tip and executing on it the miner   *)
(* holds no lock on the chain, and still finds the state of its parent.      *)
MinerReady ==
    mpc \in {"mine", "execute", "send"} =>
        /\ parent_block.hash \in DOMAIN blocks
        /\ blocks[parent_block.hash] = parent_block

(* network/worker.rs:97,115: when the peers' headers pass the checks, the    *)
(* state that the orphan loop unwraps is there.                              *)
NoMissingState ==
    HonestHeaders =>
        \A w \in Worker :
            wpc[w] = "adopt" => NewBlockInserted.hash \in DOMAIN blocks

(* mod.rs:10-11 with everything that writes them: the node's view of the     *)
(* chain is a forest of valid blocks with replayed states, grown a block at  *)
(* a time (module BlockTree).                                                *)
RefinesBlockTree == View!Spec

-----------------------------------------------------------------------------
(* A worker waits for the mempool while the miner, which holds it, waits for *)
(* the chain that the worker holds.                                          *)
LockCycle(w) ==
    /\ chain_lock = w /\ AtTurn(w) /\ todo # <<>>
    /\ Head(todo).hash \notin DOMAIN blocks
    /\ mpc = "execute"

(* The threads are scheduled: a worker that holds the chain goes on, and so  *)
(* do the inserting thread and a miner that has found a block, when the      *)
(* mutex they need stays free.                                               *)
FairSpec ==
    /\ Spec
    /\ \A w \in Worker : WF_nodeVars(Handle(w))
    /\ WF_nodeVars(InserterStep)
    /\ WF_nodeVars(MinerExecute \/ MinerSend)

(* network/worker.rs:109-140: the orphan loop ends, and every handler gives  *)
(* the blockchain mutex back, unless it ends up in a deadlock with the miner.*)
HandlerFinishes ==
    \A w \in Worker : (chain_lock = w) ~> (chain_lock # w \/ LockCycle(w))

(* miner/mod.rs:206-209, miner/worker.rs:45-53: once no more handler takes   *)
(* the chain, every block the miner finds, or found before and still has in  *)
(* hand, ends up in the chain and with the peers (while the server runs).    *)
MinedBlocksLand ==
    <>[]ChainFree =>
        \A h \in Hash :
            (mpc = "execute" /\ found.hash = h)
                ~> (h \in DOMAIN blocks /\ h \in released)

-----------------------------------------------------------------------------
(* MidtermProject4/README.md:30: "remove the block from orphan buffer and    *)
(* process the block"; network/worker.rs:137 says "cleanup orphan buffers":  *)
(* it does so without a panic, whatever orphans were adopted.                *)
NoCleanupPanic == \A w \in Worker : wpc[w] # "dead"

(* MidtermProject4/README.md:36: connected nodes "keep the chain growing":   *)
(* no worker and the miner wait for each other.                              *)
NoLockCycle == ~ \E w \in Worker : LockCycle(w)
================================================================================
