# A TLA+ model of the blockchain client

The repository holds a Bitcoin-like client in Rust (`src/`, about 2600 lines):
nodes that mine blocks, exchange them over TCP, keep an account state per block
and answer an HTTP API.  Around it are course hand-outs (`MidtermProject4` to
`MidtermProject6`, which are also the client's requirements), warm-up exercises,
test scripts and, as an assignment of its own, a set of Solidity contracts
(`FinalProject`).  This directory models the client.  Paths below are relative to
`ece598pv-sp2022-main (4)/ece598pv-sp2022-main/`; a bare `worker.rs:67` is in
`src/network/`, `mod.rs:41` in `src/blockchain/`, `miner/mod.rs` and
`miner/worker.rs` in `src/miner/`, `transaction.rs` in `src/types/`.

## 1. Inventory

### Threads and shared state

| thread | code | what it does |
|---|---|---|
| P2P workers (`--p2p-workers`, several) | `src/network/worker.rs` | take messages from one channel and handle them |
| miner | `src/miner/mod.rs` | tries nonces on the tip, builds a block from the mempool |
| miner worker | `src/miner/worker.rs` | inserts and broadcasts what the miner found |
| P2P server | `src/network/server.rs`, `peer.rs` | one reactor: peers, readers, writers, broadcasts |
| API server | `src/api/mod.rs` | one thread per request |
| transaction generator | `generate_tx_loop` | random transfers, broadcast to the peers |

They share `Arc<Mutex<Blockchain>>`, `Arc<Mutex<HashMap<H256, SignedTransaction>>>`
(the mempool), the workers an `Arc<Mutex<Vec<Block>>>` (the orphan buffer), and
four kinds of channels: messages from the server to the workers (bounded, 10000),
finished blocks from the miner to its worker, control signals to the miner, and
control signals to the server.

### Components

| component | state | operations | hard part | what makes it correct |
|---|---|---|---|---|
| account state (`transaction.rs`) | `State`: address to (nonce, balance) | `execute_tx`, `delete_tx_from_mempool`, sign, verify | every transaction of a block is checked against the state *before* the block; u32 arithmetic | coins are bounded, nonces advance, everybody who executes a block gets the same state |
| `Blockchain` (`mod.rs`) | `blocks`, `block_states` | `new`, `insert`, `tip`, `all_blocks_in_longest_chain`, getters | `insert` panics without the parent and recomputes the length; `tip` is any of the longest | a forest of valid blocks with the replayed state of each, never rewritten |
| network worker (`worker.rs`) | orphan buffer; blockchain and mempool shared | one handler per message, `handle_new_block` | order of arrival, nested mutexes, indices used after the buffer changed, panics that poison | no orphan is left behind, no panic, every handler ends |
| miner (`miner/`) | tip it mines on, block in hand, queue of finished blocks, operating state | read tip, find, execute, send; insert, broadcast | reads the tip, lets go of the lock, uses it later; a queue of blocks that are not in the chain yet; takes both mutexes; dies of others' panics | what it queues can be inserted, every block lands, the states it stores are right; it obeys signals, and dies only when something broke |
| P2P server (`server.rs`, `peer.rs`) | `peers` (by address), a queue per peer, the control channel | connect, accept, broadcast, drop; a reader and a writer task per peer | one bounded channel for broadcasts and for the tasks' own reports; registration and removal by address; a panic of one task ends all | broadcasts reach each peer in order and without gaps, dead peers leave, nobody who broadcasts is stuck |
| API (`src/api/mod.rs`) | `started_tx_gen` | miner/start, tx-generator/start, queries | a thread per request; the flag's mutex is held while the generator runs, the chain's while a response is written, and a panic poisons them | every request but one for the generator is answered; the state of the block asked for |
| transaction generator (`transaction.rs`) | none | read the tip's state, broadcast a transaction, sleep | never returns, but may panic with the flag's mutex held | one in a node's life |
| Merkle tree (`src/types/merkle.rs`) | none | build, proof, verify | odd levels, directions worked out without the tree | a proof verifies exactly for its leaf |
| contracts (`FinalProject`) | positions, balances | mint, burn, deposit, withdraw | collateral ratios, integer division | positions stay collateralised |

### How they interact

A worker that gets `Blocks` locks the blockchain for the whole message and, inside
it, the mempool (to purge it) and the orphan buffer for each block.  The miner that
found a nonce locks the mempool and, inside it, the blockchain (to execute).  What it
found goes through a channel to the thread that inserts and broadcasts it.  The
miner therefore stores the *state* of a block before the block is in the chain.
Panics matter: `lock().unwrap()` on a mutex whose holder panicked panics in turn, and so
does a send into a channel whose receiver is gone: a broadcast once the server's dispatcher
ended, the miner's once its worker died, `/miner/start` once the miner is gone.

All tasks of the P2P server run in one thread, which catches no panic.  Workers,
miner worker, API and generator broadcast through the server's control channel,
most of them with the chain locked; workers answer a peer through the handle that
came with its message, past the control channel.  Answers and broadcasts to one
peer therefore do not keep their order.

The hazards of this code, line by line, with the properties that cover them, are
in `PROJECT.json` ("hazards").

## 2. Modules

| module | models | kind |
|---|---|---|
| `Transaction` | `execute_tx`, `delete_tx_from_mempool` | operators |
| `Ledger` | the account state along one chain | state machine over `Transaction` |
| `Blockchain` | `Blockchain`'s methods, `check_block_validity`, the index of the state query | operators |
| `BlockTree` | what a node promises about its chain | abstract state machine over `Blockchain` |
| `Node` | workers, miner and inserting thread, with the locks | state machine; implements `BlockTree` |
| `Cluster` | the block messages among several nodes, their connections | state machine |
| `PeerServer` | the P2P server's tasks, its channel, the connector thread | state machine |
| `Control` | API threads, the miner's control channel and states, the generator, and how one thread's panic or end reaches the others | state machine |
| `Merkle` | `gen_helper`, `proof_helper`, `order_proof`, `verify` | state machine over the calls, with a reference tree |
| `MCLedger`, `MCBlockTree`, `MCNode`, `MCCluster`, `MCPeerServer`, `MCControl`, `MCMerkle` | instances for TLC | |
| `LedgerProofs`, `BlockTreeProofs`, `NodeProofs`, `ControlProofs`, `PeerServerProofs`, `ClusterProofs`, `MerkleProofs` | theorems about the module each is named after | proofs |
| `Induction` | induction on numbers, and that recursive functions exist | proofs |

**Transaction.**  A `State` is a function from the accounts that exist to
`[nonce, balance]`; `Lookup` is the `match` that reads an unknown account as
(0, 0).  `TxValid` is the three `continue`s, `Transfer` the inserts, `ExecuteStep` a
round of the loop and `ExecuteTx` the loop, as a recursive function of the rounds.  Additions wrap at `Word`, as u32 does in a release build;
the subtraction is guarded by the balance check.

**Ledger.**  `ExecuteNext(tx)` is an iteration of the loop that pushes to `valid_tx`
(an iteration that `continue`s changes nothing, so it is the stutter).  `SealBlock`
ends a block: its state becomes the parent state of the next one.  `chain_tx`
remembers what earlier blocks executed.

**Blockchain.**  The hash of a block covers the header only: neither the length
nor the transactions.  Hashes are therefore model values, fresh for each block that
is made; `work` is the outcome of `hash <= difficulty`.  `Insert` recomputes the
length from the parent, `Insertable` is the map index that panics, `Tips` the set of
hashes `tip()` may return, depending on the order of the `HashMap`.

**BlockTree.**  Two actions, `AddGenesis` and `Extend`.  The properties are what the
users of a chain rely on (forest, replayed states, immutability, the API's index).

**Node.**  One action per section of code between two lock operations, and one per
turn of a loop:

| actions | code |
|---|---|
| `ReceiveBlocks`, `SkipSeen`, `FinishBlocks` | `worker.rs:201-218` |
| `PurgeMempool` | `worker.rs:64-70` |
| `HandleGenesis`, `BufferOrphan`, `HandleChild` | `worker.rs:72-102` |
| `AdoptOrphan`, `AdoptDone` | `worker.rs:104-135`, the orphan loop, one turn per step |
| `RemoveIndex`, `CleanupDone` | `worker.rs:137-140`, one `remove` per step |
| `ServeBlocks`, `ReceiveTransaction` | `worker.rs:183-200`, `257-276` |
| `MinerStart`, `MinerReadTip`, `MinerMiss` | `miner/mod.rs:105-177` |
| `MinerFind`, `MinerExecute`, `MinerSend` | `miner/mod.rs:177-210`; the mempool is held from the first to the last |
| `InsertMined`, `BroadcastMined` | `miner/worker.rs:45-53` |
| `HandlerPanic`, `TransactionsPanic`, `WorkerPoisoned`, `MinerPanic`, `InserterPanic` | the `unwrap`s, `remove` and broadcasts, and the mutexes they poison |
| `PeerGenesis`, `PeerMine` | external: the other nodes |

`world` and `released` are not program state: they are the blocks that exist and
those the peers have.  Peers send any sequence of blocks they have (up to
`MaxBatch`), any number of times, in any order; with `HonestHeaders = FALSE` they
also make blocks without work or with another difficulty.  Peers tell the truth
about the length of their own blocks, and one hash stands for one block.  With
`ServerEnds` any broadcast may panic (lines 90, 216 and 274 with a mutex held,
`miner/worker.rs:52` without).  A broadcast that does not panic returns: that it may wait
for room in the channel is in `PeerServer`, and that it may wait for ever, once the server
hangs, in `Control`.

The reductions: the orphan buffer's mutex is only taken under the blockchain's and
is left out; handlers that only read and answer are left out; peers make blocks only
while nobody holds the chain, which loses nothing since a message is fixed when it
arrives; the miner's control channel is reduced to the constant `Mining` (`Control`
has it).

**Cluster.**  Here the network that `Node` leaves open is closed: each node's peers
are the other nodes.  A handler holds the chain from its first read to its last
write, so it is one step (`HandleNewBlockHashes`, `HandleGetBlocks`, and for `Blocks`
one action for each way `handle_new_block` goes: `HandleKnown`, `HandleGenesis`,
`HandleOrphan`, `HandleChild`).  `HandleChild` follows the orphans as the loop does
and removes them by position, so a node can die of it as in `Node`.  `ReadTip` and
`Mine` are apart: a block may be mined on a tip that is no longer one.  Between two
nodes there are two queues, one for broadcasts and one for answers; a node with
several workers takes a message near the head of one.  `lost` is not program state: it has the
orphans that the clean-up removed although they were not inserted (section 4).  Connections are made once
(`ConnectPeers`) and may break with what is on the way (`BreakLink`); the code sends
nothing again.  Every message is about one block, since the mined block is sent by
itself and every answer is as long as the question.  All blocks are valid: `Node` has
those that are not.

**PeerServer.**

| actions | code |
|---|---|
| `AskConnect`, `ConnectFails`, `ConnectorPanics` | `main.rs:97-123` and `Handle::connect` |
| `ListenerAccept`, `ListenerHandsOver`, `ListenerFails` | `listener_loop` |
| `DispatchConnect`, `ConnectSucceeds`, `DispatchBroadcast`, `DispatchNewPeer`, `DispatchNewPeerFails`, `DispatchDropped` | `dispatch_control`, an action per signal; two for the one that awaits |
| `ReaderReads`, `ReaderEnds`, `ReaderPanics` | the reader task, `server.rs:150-184` |
| `WriterTakes`, `WriteEnds`, `WriterReports`, `WriterPanics` | the writer task, `server.rs:189-222` |
| `BroadcastCall`, `BroadcastSend`, `BroadcastPanics` | `Handle::broadcast` in any thread |
| `WorkerHandles` | a worker is done with a message and drops its handle |
| `PeerCloses` | external: the other end |

Connections have names of their own, the server knows addresses; `SameAddr` is what
`peers.insert` replaces.  `Panic` is the end of the one thread: `reactor` names the
task at fault, since the channel closes only if that was the dispatcher.  After it no
task runs and the model forgets what they had.

**Control.**

| actions | code |
|---|---|
| `MinerReadTip` | `miner/mod.rs:105-123`, the read before the loop and the one at its top |
| `PausedTake`, `MinerReturn`, `RunTakeNothing`, `RunTakeStart`, `RunTakeUpdate`, `RunTakeExit` | `miner/mod.rs:126-172`, one action for each state and signal |
| `MinerMiss`, `MinerFind`, `MinerSend`, `MinerSendPanics`, `MinerWake` | `miner/mod.rs:174-217` |
| `InsertMined`, `InserterPanics`, `InserterBroadcast`, `InserterEnds` | `miner/worker.rs:44-54` |
| `Accept`, `Refuse`, `StartMiner`, `Ping`, `QueryLock`, `QueryRespond`, `LockFlag`, `CheckFlag` | `api/mod.rs:69-222`, a thread for each request |
| `GeneratorRead`, `GeneratorBroadcast` | `transaction.rs:92-113`, in the thread of the request that started it |
| `WorkerInserts`, `WorkerPanics`, `WorkerTransactions` | what the P2P workers do to the two mutexes |
| `ServerStops` | the dispatcher's end (`server` is "closed") or another task's panic ("full") |
| `SendSignal` | `Handle::update` and `Handle::exit`, which nothing in `src/` calls: the miner is checked for its whole interface |

What a turn does to the chain is `Node`'s; here `tip` counts its moves, and `asof` is the
tip when a Start last woke the miner or it last took an Update.  A Start that a running
miner takes does not move `asof`: the turn goes on with the tip read before it.  Every
`unwrap` that can fail is there: on a poisoned mutex (chain, mempool, flag), on a
disconnected channel (`ipc = "dead"` for the miner, `MinerGone` for its worker and for
`/miner/start`), on a broadcast into a closed channel, and on the write of a response with
the chain locked (`QueryRespond`).  Only where the first panic comes from is left open:
workers panic and the server stops at any time (`Node` and `PeerServer` have the reasons).
`MinerSend` takes mempool and chain at once; what becomes of the two in the wrong order is
`Node`'s `LockCycle`, and it is not in `Control`.

**Merkle.**  The levels of the tree are built one after the other, then one proof is
made and checked by one call of `verify` with any datum, index and size.  In the code a
node owns its children; the levels are finished one after the other, so the model keeps
them (`levels`) and a node has its children's positions in the level below.  The
recursion of `proof_helper` and the two loops of `order_proof` are recursive functions;
the loops' are on the number of turns, of which `leaf_size` are always enough, and a loop
that is over changes nothing.  `Hashes` is the reference: the tree as a table from
level and position, with the last node of an odd level repeated.

## 3. Runs

| run | instance | shows |
|---|---|---|
| `MCLedger` | 3 accounts, 3 blocks of up to 3 transfers of 1 or 2 coins, `Word = 6` | `LastWriterWins`, `BalanceBounded`, `NonceStep`, `ReexecutionAgrees`; in the third block a balance reaches `Word` and wraps |
| `MCBlockTree` | every forest of 4 blocks, 2 difficulties, 4 transaction lists | `WellFormed`, `LedgerReplays`, `StateQueryFindsHeight`, `Immutable` |
| `MCNode` | 2 workers, miner on, 4 blocks, batches of 2, a good and a badly signed transaction, a P2P server that may end | types, queue of mined blocks, states, orphans of orphans (`NoMissingState`), and that `Node` implements `BlockTree` (`RefinesBlockTree`) |
| `MCNodeFaulty` | 2 workers, miner on, 4 blocks, 2 difficulties, bad headers | panics and poisoning: the chain is still a `BlockTree`; `HandlerFinishes`, `MinedBlocksLand` |
| `MCCluster` | a line of 3 nodes mining at one end (3 blocks), or at two nodes with a connection that may break (2 blocks); 2 nodes with 2 workers, one joining late (3 blocks) or both mining (2 blocks), or one mining 4 blocks | `AncestorsArrive`, `NeighbourBlocksArrive`, `OrderedConsensus`, `GossipEnds` |
| `MCPeerServer` | 2 connections (a known peer and one that comes in, or one peer listed twice), channel of 2, 2 broadcasts by a thread, one message read per peer | `InOrder`, `DeadPeerReported`, `AllServed`, `BroadcastReturns`, `BroadcastsWritten`, `PeersAdmitted` |
| `MCControl` | 2 requests, one signal past the API, panics and stops at any time; 1 block with requests of any kind, 2 if they are about the miner and the chain | `FreshAfterSignal`, `DeathsHaveCause`, `FlagHeldByGenerator`, `StartedMines`, `ExitEnds`, `FailStop`, `OthersAnswered` |
| `MCMerkle` | up to 6 leaves of 2 data, every proof, every call of `verify` | `RootIsReference`, `ProofIsSiblings`, `ProofAccepted`, `AcceptedIsThere` |
| `MCLedgerReplay`, `MCNodeCleanup`, `MCNodeLocks`, `MCClusterConsensus` | the smallest instances with the behaviour | violations, section 4 |

Bounds.  Four blocks are the own genesis, a foreign genesis, its child and
grandchild: enough for forks, for an orphan that is adopted, for a competing tip
while the miner works, and for two mined blocks in the queue (the first after the
genesis).  Two workers are enough for one to wait while the other is anywhere in its
handler, and for one to run into the mutex that the other poisoned.  Liveness rules
symmetry out, so `MCNodeFaulty` has the constraint `InOrder` in its place: blocks take
their hashes in a fixed order, the own genesis has difficulty 1 (hashes and difficulties
are all alike), and a block without work, which is refused under any difficulty, has
difficulty 1 too.  Three transactions in a
block are the least that make one account pay twice and be credited.  Three blocks
are the least in which a balance wraps with the initial coins in range.
Three nodes in a line are the least with a block that is passed on; three blocks of
one miner are the least with an orphan of an orphan and with a removal past the end,
two miners' blocks the least with one node's block on another's, and four blocks of one
miner the least in which the clean-up removes an orphan that was not inserted.  A channel of two
signals is full after a broadcast and a report, and both queue up behind a
connection attempt.  One thread broadcasts in `MCPeerServer`: that the broadcasts of
several keep their order for every peer (`InOrder`) is shown by the theorem
`Broadcasts_InOrder` alone.  Two requests to the miner and one signal make three
signals in its channel, and two blocks are the least of which one waits while the other is
inserted; the constraint `OneBlockOrMiner` allows the second only if both requests are
about the miner or the chain, as the others reach the miner through the chain's mutex at
most, which a query takes too.  Six leaves have an odd number of nodes on their second level,
five on two levels.
`CHECK_DEADLOCK FALSE` is set everywhere: a run of a bounded model ends when the
hashes, blocks, signals or requests are used up, and `Merkle`'s ends with the call.  The deadlock the code can reach is the invariant
`NoLockCycle`.

Fairness (`FairSpec`): weak fairness of every worker's handler, of the inserting
thread, and of a miner that holds the mempool.  They are OS threads in loops
without exits; weak fairness says no more than that they are scheduled.  A mutex of
the standard library is not fair, so no strong fairness is assumed: that is why
`MinedBlocksLand` speaks of behaviours in which the handlers stop taking the chain.
`HandlerFinishes` holds up to the deadlock that `MCNodeLocks` shows.

* `Cluster`: weak fairness of handling *some* message, so one peer's messages may
  overtake another's for any finite time, and nothing about miners and connections.
* `PeerServer`: weak fairness of the dispatcher and of each writer, which are tasks of
  an executor that runs all that are ready; strong fairness of the three sends into
  the control channel, whose waiting senders are woken in the order they came.  Peers,
  network, workers and `main` owe nothing: that connection attempts end (the operating
  system's timeout) and that a peer reads what is written to it are hypotheses of the
  properties, where they are needed.  "While the server runs" is `~Up` as a way out:
  the panics of section 4 are actions of the model.
* `Control`: weak fairness of the miner, its inserting thread and each request's own
  steps.  A client need not read its response, and a worker that broadcasts to a server that
  hangs keeps its mutex; so the properties assume that nobody keeps the chain's mutex, or
  the mempool's, for ever (`ChainGetsFree`, `PoolGetsFree`; a poisoned mutex will do).
  Nothing is assumed of panics: where they change what must happen, the property says so.
* A miner that holds the mempool in the deadlock of `MCNodeLocks` obeys no signal either:
  `Control` leaves that out, so its liveness holds up to that deadlock, as
  `HandlerFinishes` says it of `Node`.

## 4. What the checks found in the code

| run | property | code | what it does |
|---|---|---|---|
| `MCNodeCleanup` | `NoCleanupPanic` | `worker.rs:139` | adopted orphans are removed by the positions they had before the first removal; with two of them the second is past the end: the worker panics with the chain locked, and the node is dead |
| `MCNodeLocks` | `NoLockCycle` | `miner/mod.rs:194`, `worker.rs:67` | mempool and blockchain are locked in both orders |
| `MCLedgerReplay` | `NoDuplicateTx` | `transaction.rs:168` | a credit restores the nonce of an account that has just paid, so the payment passes again |
| `MCClusterConsensus` | `Consensus` | `worker.rs:75` | a block that comes before the genesis it builds on stays an orphan when the genesis comes: connected nodes with all messages handled differ for as long as nobody builds on that block |

What the models also show or contain, without a run of its own:

* `worker.rs:121`: the orphan loop goes from a block to its first child only, so a
  second child of a block stays in the buffer, like the children of a genesis
  (`Adopted` in `Cluster`, `AdoptOrphan` in `Node`).
* `worker.rs:139`: the positions that the first removal shifted need not be past the end.
  Then the clean-up removes another orphan, which is in no chain yet, without a panic; it
  comes back only if somebody sends it again, and what is built on it stays out until
  then.  With four blocks of one miner and two workers this happens: `AncestorsArrive` and
  `NeighbourBlocksArrive` hold up to the blocks in `lost`, and not without.
* `worker.rs:263`: a transaction that comes after the block that carries it enters the
  mempool (`ReceiveTransaction` does not look at the chain), although
  `MidtermProject5/README.md:52` wants those "which have not been included in the
  blockchain yet".
* `transaction.rs:135`: two payments of the same coins in one block both pass, and the
  supply grows, although `MidtermProject6/README.md:16` wants to "prevent misbehavior
  such as double spending".  `BalanceBounded` is what is left.
* `server.rs:96`, `145`: a connection that is reset before it is registered ends the
  dispatcher (`DispatchNewPeerFails`); from then on every broadcast panics.  A panic of
  any other task leaves the channel open, and broadcasts block when it is full.
* `server.rs:226`, `100`: two connections with one address, as when a peer is listed
  twice, share an entry of `peers`; the report of one removes the other, whose writer
  can then run out of handles, panic at line 192 and take the server down.  That is
  why `AllServed` speaks of distinct addresses.
* `server.rs:183`: a reader that ends tells nobody; a peer that only closed leaves the
  map when a write to it fails.  `main` connects to each known peer once.
* `api/mod.rs:134`: `generate_tx_loop` does not return, so the two responses of the
  endpoint are never sent (`FlagHeldByGenerator`); and it broadcasts the transaction
  without putting it into its own mempool.
* `api/mod.rs:131`, `transaction.rs:96`, `108`: when the chain is poisoned or the server's
  channel closed, the generator dies with the flag's mutex held.  The flag then stays set
  and poisoned without a generator, and later requests for one panic instead of being
  answered (`FlagHeldByGenerator`, `LockFlag`).
* `api/mod.rs:149`, `168`, `200`, `221`: a client that goes away while a response about the
  chain is written makes `respond().unwrap()` panic with the chain locked; the poison stops
  the miner, its worker and the workers (`QueryRespond`, `FailStop`).
* `miner/worker.rs:49`, `52`: the thread that inserts mined blocks can die with blocks still
  in its channel, of a poisoned chain or of a closed server.  `DeathsHaveCause` and
  `ExitEnds` say that it does so in no other case.
* `mod.rs:69`: `all_blocks_in_longest_chain` lists the blocks from the tip to the
  genesis, although the comment says "ordered from genesis to the tip"; its callers in
  the API rely on the order it really has (`StateQueryFindsHeight`).

## 5. What is proved

Every theorem holds for any values of the constants that satisfy the named
assumptions: any accounts, hashes, workers, transactions and bounds.

**`Induction`** (no assumption).  `LeastNumber`, `IntervalInduction`, `SetInduction` and
`IterationExists`.  The induction theorems of the library take a predicate, which the
provers here cannot instantiate; these are about *sets* of numbers, which they can.
They come from one fact of the library, that strict inclusion of finite sets is well
founded.  `IterationExists` says that there is a function in which each value is made from
the one before: without it nothing is known of a recursive function, which TLA+ defines
by `CHOOSE`.

**`LedgerProofs`** (assumes `TransactionAssumption`, `LedgerAssumption`).
`TypeCorrect`, `LastWriter_Decides`, `Balance_Bounded` and `Nonce_Steps`, by the
invariant `IInv == TypeOK /\ NonceBounded /\ BalanceBounded /\ LastWriterWins`.
`LastWriterWins` carries the argument: each check and each entry written is a
function of the *parent* state and one transaction, so however many transfers a
block holds, the entry of an account is explained by the last that touches it.
Then `execute_tx` on lists of any length: `ExecuteAppend` (the result for a longer list is
one more round on the result for the shorter), from it `Reexecution_Agrees`, and
`Execution_MeetsAssumption`: `ExecuteTx` does what `ExecuteAssumption` asks of it, so what
`BlockTreeProofs` and `NodeProofs` show for any `Execute` holds for `execute_tx`.

**`BlockTreeProofs`** (assumes `BlockchainAssumption`, `ExecuteAssumption`).
`Tree_TypeCorrect`, `Tree_WellFormed`, `Ledger_Replays` and `History_Immutable`, by
`IInv == TypeOK /\ WellFormed /\ LedgerReplays`.  `StateQuery_FindsHeight` needs that no
chain has more blocks than the map (`Bounded`); then each round of the walk of
`all_blocks_in_longest_chain` is one block lower (`WalkDescends`), and the list has the
heights in descending order (`ChainByHeight`).

**`NodeProofs`** (also `NodeAssumption`).  All the safety properties of `Node` that its
passing runs check (`TypeOK`, `ChainIsWorld`, `QueueReady`, `InsertedBeforeBroadcast`,
`MinerReady`, `NoMissingState`, `StatesNeverRewritten`), that one handler at a time is
in the chain and the mempool is the miner's from finding a block to sending it
(`Node_Mutex`), and that `Node` implements `BlockTree` (`Node_Refines`), with honest peers and with
others.  None of these is inductive alone.  That a queued block can be inserted
depends on what the miner read, on which states are stored, and on what the peers can
have; so `IInv` adds:

* `WorldOK`: hashes name blocks and lengths count from a genesis;
* `ChainOK`, `StatesOK`: the chain is closed under parents, every block in it has the
  state its transactions lead to, and a state whose block is *not* in the chain
  belongs to a block that no peer has.  This is what keeps a worker from overwriting
  what the miner stored;
* `InHand`: workers hold only blocks that peers have (the blocks at hand and the
  orphans), so none of them is the one the miner is about to send;
* `FoundOK`: from finding a block to sending it, the block is the miner's alone, is not
  in the channel, and has its state exactly from `MinerExecute` on;
* `QueueOK`: each block in the channel is in the chain or is `Landing`: parent there,
  header valid, state stored and right;
* `HandlerOK`, `MinerOK`: what a handler and the miner rely on where they stand.

The proof follows one notion: a step either *places* a block (`Places(b)`: insert it
and store its state) or leaves blocks and stored states as they are (`ChainStep`).
`Placeable(b)` is what makes a placement harmless; four actions have to establish it
(`HandleGenesis`, `HandleChild`, `AdoptOrphan`, `InsertMined`), and everything else
about the chain follows once for all of them (`PlaceKeepsChain`, `GrowsOnly`,
`GrowsKeepsMiner`).  A placement is an `AddGenesis` or an `Extend` of `BlockTree`, which
gives the refinement; with the theorems of `BlockTreeProofs` it yields that the node's
blocks form a forest, that the state of each is the replay of its ancestors, and
that none is ever rewritten (`Node_Forest`, `Node_StatesReplay`, `Node_History`).

`IInv` itself was checked by TLC on instances of `MCNode`, with five blocks and with
bad headers, before it was proved.

**`ControlProofs`** (assumes `ControlAssumption`).  The three safety invariants of the
run, the type invariant, and `NothingMined_AfterExit`, by

    IInv == TypeOK /\ ThreadsOK /\ RequestsOK
    ThreadsOK == TipsRead /\ ShutDownIsIdle /\ DeathsHaveCause
    RequestsOK == ChainHolder /\ FlagHolder /\ FlagHeldByGenerator

`FreshAfterSignal` speaks of the mining turn only; `TipsRead` says it from the moment the
tip was read, and that no remembered tip is ahead of the chain's.  `DeathsHaveCause` is kept
because nothing heals: a poisoned mutex stays poisoned and a stopped server stopped, so each
panic has to be traced to one of them when it happens: the miner's when its worker is dead
(`MinerSendPanics`) to the worker's own cause, which is not the miner's orderly end, since
the miner runs.  `ChainHolder` and `FlagHolder` are who may hold a mutex: only a request
that writes a response can poison the chain from the API, and a request that looks at the
flag finds no generator, since that would hold the mutex, alive or, poisoned, dead.

**`PeerServerProofs`** (assumes `PeerServerAssumption`).  All the safety properties of its
run, in steps, each an invariant on top of the ones before:

* `IInv == TypeOK /\ OneAttempt`: the control channel keeps to its capacity, and a request
  to connect is under way in one place at most (`PeerServer_TypeCorrect`, `One_Attempt`).
  The one needs the other: `ConnectSucceeds` takes the first known peer off, and there
  must be one.
* `Lives`, `PeersRegistered` (`Registered_Once`): the connections that wait to be
  registered, at `main` or in the channel, are distinct and without tasks, so registering
  one starts its tasks for the first time.
* `Numbers` (`Broadcasts_InOrder`): the broadcasts in the channel are those that were made
  and not dispatched, in the order of their numbers; so the one the dispatcher takes is
  the next for every peer, and `InOrder` is kept.
* `DeadPeer_Reported`: alone on top of `IInv`.
* `DropsEnded` (`All_Served`): while addresses are distinct, a report is in the channel only
  for a writer that ended; with `Registered_Once`, that nothing is replaced in `peers`.

**`ClusterProofs`** (assumes `ClusterAssumption`).  `Cluster_TypeCorrect`, `Ancestors_Arrive`,
`Neighbour_BlocksArrive` and `Ordered_Consensus`.  The first three by

    IInv == TypeOK /\ WorldOK /\ ChainsOK /\ MinedHeld /\ LinksOK /\ QueuesOK
                   /\ ParentsAsked /\ BlocksSent

The last two carry the argument.  The properties speak of a network without messages,
and say what was kept on the way there: a parent that a node lacks is asked for at a peer
that has it, or was sent by one (`ParentsAsked`); a neighbour's block that it lacks is on
its way (`BlocksSent`).  `ChainsOK` and `QueuesOK` make sure that who is asked can answer:
a block is sent only by a node that has it in its chain, with all its ancestors.
The six handlers are brought to one form first: `Handled(q, i)` says that no message but
the one handled goes, that chains grow, that every orphan is kept, inserted or in `lost`,
that a new orphan's parent is asked for, and that a question is answered.  From `Handled`
the invariant follows once.  `Adopted` and `RemoveAll` are recursive functions, treated
with `Induction`: the positions that the walk collects are positions of orphans, each
adopted orphan has its parent among the adopted or the inserted, and removal by position
leaves a part of the buffer, whichever orphans it takes.

`Ordered_Consensus` needs the order of the messages, which `IInv` says nothing of.  On top
of it, as long as no connection broke, `OrderInv` says of one miner and nodes with one
worker:

    InOrder(g) == NoOrphans /\ Spoken(g) /\ AllCovered(g) /\ AllInTurn

`AllInTurn` is the heart: in each queue a block comes after its parent unless the receiver
has that, a question after the question for the parent, and so for hashes.  So a block
that arrives finds its parent (`NoOrphans`), and with no orphans every block a node
has is one it announced (`AllCovered`: each block of a node other than the miner is with its
neighbour or on its way there, as a hash, a question or a block; the miner's blocks are in
`BlocksSent`).  `Spoken` makes the requests harmless: only the miner's genesis and the
mined blocks are spoken of, and a node asks only for a block that the other has.  Once the
queues are empty, two linked nodes have the same blocks.  The handlers are brought to one
form again: `Shifts` says that the queues move up by what was taken and grow at their ends,
and one lemma carries the order over a shift.

**`MerkleProofs`** (assumes `MerkleAssumption`).  The four properties of the run, for any
data and any number of leaves: `Root_IsReference`, `Proof_IsSiblings`, `Proof_Accepted`,
`Accepted_IsThere`.  The reference is by halves, from the leaves up (`Ancestors`,
`LastNode`), the code goes by levels, by recursion from the root and by bisection from a
power of two; each is brought to the reference by a lemma:

* `gen_helper`: a level the code has finished is the reference's (`PairsAreRow`), since the
  last node of a level is half of the last one below, and the copy of an odd level's last
  node is the reference's node past the end (`RowEvened`);
* `proof_helper`: the answer at a node, whether the leaf is below it and which siblings are
  on the way, by induction on levels (`HelperFindsSiblings`); a copied node is never on
  the way, although it may be a sibling;
* `order_proof`: `RoundUp` is the power of two of the depth (`RoundUpPower`), the bisection is
  after `t` turns between the first and the last leaf below the index's ancestor `t`
  levels under the root, and takes its side (`NarrowedSearch`, `OrderIsSides`).

The invariant then says of `verify` that after `done` siblings the hash is the one above the
index's leaf at that level if the query is right, and, as no two hashes are equal, only
if the datum is that leaf's (`Verifying`).  It also counts: as many directions are left as
there are levels under `leaf_size` leaves, so they run out early only if those are too few.

Only model-checked: liveness (TLAPS does not reason about fairness and `ENABLED`).  The type invariants that are theorems are not checked once more by a run, except
`Node`'s.

## 6. Not modelled

* Signatures, hashes, addresses and JSON: calls of libraries and conversions of
  bytes.  A transaction is either well signed or not.
* Messages that only read and answer: transaction hashes, `Ping` and `Pong`.  Nor a message
  that does not decode (`worker.rs:154`), which ends the worker while it holds no mutex.  The
  gossip of transactions has the shape of that of blocks, without ancestors.
* `Handle::send` and `SendToPeer`: no caller, and `unimplemented!()`.
* The contracts of `FinalProject`: an assignment of its own that shares nothing with the
  client.
* Argument parsing and start-up (`main.rs`): what it builds is `Node`'s `Init`; the
  thread that connects is in `PeerServer`.
* Scripts, warm-ups and archives.

## 7. Plan

Done: all the modules of section 2, their instances, and the proofs of section 5.
Every safety property a run checks and expects to hold is a theorem.  What is worth
proving next, in this order:

1. `Cluster`: that handling a message lowers a measure (hashes before questions before
   blocks, each at a node for the first time), the safety half of `GossipEnds`.
2. `Cluster`: that the blocks of one node implement `BlockTree` without account states, as
   `Node`'s do with them.
3. `Node`: that a cycle of locks always has the miner in it, at the same two places: what
   is left of `NoLockCycle` once its counterexample is excluded.
