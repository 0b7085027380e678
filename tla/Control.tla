-------------------------------- MODULE Control --------------------------------
(***************************************************************************)
(* How a client is operated, and how its threads end: the threads of the   *)
(* HTTP API (src/api/mod.rs), the control channel and the operating state  *)
(* of the miner (src/miner/mod.rs), the thread that inserts what was mined *)
(* (src/miner/worker.rs) and the transaction generator (generate_tx_loop   *)
(* of src/types/transaction.rs).                                           *)
(*                                                                         *)
(* Node models what a turn of the miner does to the chain and leaves out   *)
(* what lets it turn; here a turn is a step that may find a block.  The    *)
(* chain is reduced to its mutex and to `tip`, how often its tip moved; a  *)
(* tip that was read is the value `tip` had then.  A section that takes a  *)
(* mutex and gives it back without waiting for anything else is one step.  *)
(*                                                                         *)
(* As in Node, a mutex is "free", held, or "poisoned" by a thread that     *)
(* panicked with it: each later lock().unwrap() panics in turn.  The P2P   *)
(* workers and the P2P server are here for what they do to the others:     *)
(* workers insert blocks and may panic or block with a mutex held, and the *)
(* server may stop.  Why they do so is in Node and in PeerServer.          *)
(***************************************************************************)
EXTENDS Integers, Sequences

CONSTANTS
    Request,    (* HTTP requests; each has a thread of its own             *)
    Lambda,     (* values of the parameter lambda; 0 is no sleep           *)
    Signal,     (* the signals sent past the API (no code in src/ does)    *)
    MaxTip,     (* bound: blocks that are made                             *)
    MaxSent     (* bound: signals sent past the API                        *)

ASSUME ControlAssumption ==
    /\ Request \cap {"free", "worker", "poisoned"} = {}
    /\ Lambda \subseteq Nat
    /\ Signal \subseteq {"Update", "Exit"}
    /\ MaxTip \in Nat /\ MaxSent \in Nat

VARIABLES
    tip,                (* how often the tip of the chain moved            *)
    chain_lock,         (* the mutex of the chain                          *)
    pool_lock,          (* the mutex of the mempool                        *)
    server,             (* the server's control channel: "up", "closed", or*)
                        (* "full" for ever                                 *)
    mpc,                (* where the miner is                              *)
    operating_state,    (* Paused, Run or ShutDown                         *)
    lambda,             (* the lambda of Run                               *)
    parent_block,       (* the tip the miner read last                     *)
    control_chan,       (* signals to the miner, the next one first        *)
    asof,               (* the tip when a Start last woke the miner, or it *)
                        (* last took an Update while running               *)
    finished,           (* mined blocks sent and not inserted; a genesis   *)
                        (* that is sent along counts with its block        *)
    ipc,                (* where the inserting thread is                   *)
    rpc,                (* where each request's thread is                  *)
    flag_lock,          (* the mutex of started_tx_gen                     *)
    started_tx_gen,
    sent                (* how many signals were sent past the API         *)

minerVars == <<mpc, operating_state, lambda, parent_block, asof>>
queueVars == <<finished, ipc>>
flagVars == <<flag_lock, started_tx_gen>>
nodeVars == <<tip, chain_lock, pool_lock, server>>
controlVars == <<nodeVars, minerVars, control_chan, queueVars, rpc, flagVars, sent>>

StartSignal(l) == [kind |-> "Start", lambda |-> l]
PlainSignal(s) == [kind |-> s]
ControlSignal == {StartSignal(l) : l \in Lambda} \cup {PlainSignal(s) : s \in Signal}

Init ==
    /\ tip = 0 /\ chain_lock = "free" /\ pool_lock = "free"
    /\ server = "up"
    /\ mpc = "start" /\ operating_state = "Paused" /\ lambda = 0
    /\ parent_block = 0 /\ asof = 0
    /\ control_chan = <<>>
    /\ finished = 0 /\ ipc = "recv"
    /\ rpc = [r \in Request |-> "none"]
    /\ flag_lock = "free" /\ started_tx_gen = FALSE
    /\ sent = 0

ChainFree == chain_lock = "free"
ChainPoisoned == chain_lock = "poisoned"
PoolFree == pool_lock = "free"

(* The miner's thread is over, and its ends of the channels are dropped. *)
MinerGone == mpc \in {"returned", "panicked"}

-----------------------------------------------------------------------------
(* miner_loop. *)

(* A mutant: the poison of the chain's mutex is ignored. *)
MinerReadTipAnyway ==
    /\ mpc \in {"start", "top"} /\ chain_lock \in {"free", "poisoned"}
    /\ parent_block' = tip
    /\ mpc' = IF mpc = "start" THEN "top" ELSE "signal"
    /\ UNCHANGED <<nodeVars, operating_state, lambda, asof, control_chan, queueVars,
                   rpc, flagVars, sent>>

(* The first read of the tip, and the one at the top of each turn. *)
MinerReadTip ==
    /\ mpc \in {"start", "top"}
    /\ \/ /\ ChainFree
          /\ parent_block' = tip
          /\ mpc' = IF mpc = "start" THEN "top" ELSE "signal"
       \/ /\ ChainPoisoned
          /\ mpc' = "panicked"
          /\ UNCHANGED parent_block
    /\ UNCHANGED <<nodeVars, operating_state, lambda, asof, control_chan, queueVars,
                   rpc, flagVars, sent>>

(* What a signal taken does to the operating state. *)
Obey(signal) ==
    CASE signal.kind = "Start" -> operating_state' = "Run" /\ lambda' = signal.lambda
      [] signal.kind = "Exit" -> operating_state' = "ShutDown" /\ UNCHANGED lambda
      [] signal.kind = "Update" -> UNCHANGED <<operating_state, lambda>>

Take == control_chan # <<>> /\ control_chan' = Tail(control_chan)

(* Mutants: the turn goes on after a signal instead of starting over, and a *)
(* signal that does not wake the miner.                                     *)
PausedTakeGoesOn ==
    /\ mpc = "signal" /\ operating_state = "Paused"
    /\ Take /\ Obey(Head(control_chan))
    /\ asof' = IF operating_state' = "Run" THEN tip ELSE asof
    /\ mpc' = IF operating_state' = "Run" THEN "mine" ELSE "top"
    /\ UNCHANGED <<nodeVars, parent_block, queueVars, rpc, flagVars, sent>>

PausedTakeIgnored ==
    /\ mpc = "signal" /\ operating_state = "Paused"
    /\ Take
    /\ mpc' = "top"
    /\ UNCHANGED <<nodeVars, operating_state, lambda, asof, parent_block, queueVars,
                   rpc, flagVars, sent>>

(* Paused: recv blocks, and `continue` reads the tip again.  (The API server *)
(* keeps a handle for ever, so the channel is never disconnected.)           *)
PausedTake ==
    /\ mpc = "signal" /\ operating_state = "Paused"
    /\ Take /\ Obey(Head(control_chan))
    /\ asof' = IF operating_state' = "Run" THEN tip ELSE asof
    /\ mpc' = "top"
    /\ UNCHANGED <<nodeVars, parent_block, queueVars, rpc, flagVars, sent>>

MinerReturn ==
    /\ mpc = "signal" /\ operating_state = "ShutDown"
    /\ mpc' = "returned"
    /\ UNCHANGED <<nodeVars, operating_state, lambda, asof, parent_block,
                   control_chan, queueVars, rpc, flagVars, sent>>

(* Running: one try_recv a turn.  Update reads the tip once more. *)
RunTakeNothing ==
    /\ mpc = "signal" /\ operating_state = "Run"
    /\ control_chan = <<>>
    /\ mpc' = "mine"
    /\ UNCHANGED <<nodeVars, operating_state, lambda, asof, parent_block,
                   control_chan, queueVars, rpc, flagVars, sent>>

RunTakeStart ==
    /\ mpc = "signal" /\ operating_state = "Run"
    /\ Take /\ Head(control_chan).kind = "Start"
    /\ Obey(Head(control_chan))
    /\ mpc' = "mine"
    /\ UNCHANGED <<nodeVars, asof, parent_block, queueVars, rpc, flagVars, sent>>

RunTakeUpdate ==
    /\ mpc = "signal" /\ operating_state = "Run"
    /\ Take /\ Head(control_chan).kind = "Update"
    /\ \/ /\ ChainFree
          /\ parent_block' = tip /\ asof' = tip
          /\ mpc' = "mine"
       \/ /\ ChainPoisoned
          /\ mpc' = "panicked"
          /\ UNCHANGED <<parent_block, asof>>
    /\ UNCHANGED <<nodeVars, operating_state, lambda, queueVars, rpc, flagVars, sent>>

(* A mutant: Exit pauses. *)
RunTakeExitPauses ==
    /\ mpc = "signal" /\ operating_state = "Run"
    /\ Take /\ Head(control_chan).kind = "Exit"
    /\ operating_state' = "Paused"
    /\ mpc' = "top"
    /\ UNCHANGED <<nodeVars, lambda, asof, parent_block, queueVars, rpc, flagVars, sent>>

RunTakeExit ==
    /\ mpc = "signal" /\ operating_state = "Run"
    /\ Take /\ Head(control_chan).kind = "Exit"
    /\ Obey(Head(control_chan))
    /\ mpc' = "returned"
    /\ UNCHANGED <<nodeVars, asof, parent_block, queueVars, rpc, flagVars, sent>>

(* The end of a turn. *)
TurnOver == mpc' = IF lambda = 0 THEN "top" ELSE "sleep"

MinerMiss ==
    /\ mpc = "mine"
    /\ TurnOver
    /\ UNCHANGED <<nodeVars, operating_state, lambda, asof, parent_block,
                   control_chan, queueVars, rpc, flagVars, sent>>

(* The nonce gives a block on parent_block. *)
MinerFind ==
    /\ mpc = "mine"
    /\ tip + finished < MaxTip
    /\ mpc' = "found"
    /\ UNCHANGED <<nodeVars, operating_state, lambda, asof, parent_block,
                   control_chan, queueVars, rpc, flagVars, sent>>

(* The mempool is locked, then the chain, then the block is sent; the mempool *)
(* is held to the end.  (What the order of the mutexes does is in Node.)      *)
MinerSend ==
    /\ mpc = "found" /\ PoolFree /\ ChainFree /\ ipc # "dead"
    /\ finished' = finished + 1
    /\ TurnOver
    /\ UNCHANGED <<nodeVars, operating_state, lambda, asof, parent_block,
                   control_chan, ipc, rpc, flagVars, sent>>

(* Each of the three may panic, the last when the receiver's thread is over. *)
MinerSendPanics ==
    /\ mpc = "found"
    /\ \/ pool_lock = "poisoned"
       \/ PoolFree /\ (ChainPoisoned \/ (ChainFree /\ ipc = "dead"))
    /\ mpc' = "panicked"
    /\ pool_lock' = "poisoned"
    /\ UNCHANGED <<tip, chain_lock, server, operating_state, lambda, asof,
                   parent_block, control_chan, queueVars, rpc, flagVars, sent>>

MinerWake ==
    /\ mpc = "sleep"
    /\ mpc' = "top"
    /\ UNCHANGED <<nodeVars, operating_state, lambda, asof, parent_block,
                   control_chan, queueVars, rpc, flagVars, sent>>

MinerStep ==
    \/ MinerReadTip \/ PausedTake \/ MinerReturn
    \/ RunTakeNothing \/ RunTakeStart \/ RunTakeUpdate \/ RunTakeExit
    \/ MinerMiss \/ MinerFind \/ MinerSend \/ MinerSendPanics \/ MinerWake

-----------------------------------------------------------------------------
(* worker_loop of miner/worker.rs. *)

(* A block is received and inserted; the tip moves if it is longer. *)
InsertMined ==
    /\ ipc = "recv" /\ finished > 0 /\ ChainFree
    /\ finished' = finished - 1
    /\ tip' \in {tip, tip + 1}
    /\ ipc' = "broadcast"
    /\ UNCHANGED <<chain_lock, pool_lock, server, minerVars, control_chan, rpc,
                   flagVars, sent>>

(* lock().unwrap() with the block received. *)
InserterPanics ==
    /\ ipc = "recv" /\ finished > 0 /\ ChainPoisoned
    /\ ipc' = "dead"
    /\ UNCHANGED <<nodeVars, minerVars, control_chan, finished, rpc, flagVars, sent>>

(* server.broadcast returns, panics on a closed channel, or waits for ever. *)
InserterBroadcast ==
    /\ ipc = "broadcast" /\ server # "full"
    /\ ipc' = IF server = "up" THEN "recv" ELSE "dead"
    /\ UNCHANGED <<nodeVars, minerVars, control_chan, finished, rpc, flagVars, sent>>

(* A mutant: the end of the miner ends the thread at once. *)
InserterEndsAtOnce ==
    /\ ipc = "recv" /\ MinerGone
    /\ ipc' = "dead"
    /\ UNCHANGED <<nodeVars, minerVars, control_chan, finished, rpc, flagVars, sent>>

(* recv fails, and its expect panics, when the sender is gone and the channel *)
(* empty.                                                                     *)
InserterEnds ==
    /\ ipc = "recv" /\ MinerGone /\ finished = 0
    /\ ipc' = "dead"
    /\ UNCHANGED <<nodeVars, minerVars, control_chan, finished, rpc, flagVars, sent>>

InserterStep == InsertMined \/ InserterPanics \/ InserterBroadcast \/ InserterEnds

-----------------------------------------------------------------------------
(* The P2P workers and the P2P server. *)

(* What becomes of a mutex under which a worker broadcasts. *)
AfterBroadcast ==
    CASE server = "up" -> "free" [] server = "full" -> "worker"
      [] server = "closed" -> "poisoned"

(* Message::Blocks: blocks are inserted and their hashes broadcast, or an      *)
(* orphan's parent asked for, with the chain locked.                           *)
WorkerInserts ==
    /\ ChainFree
    /\ \/ tip' = tip
       \/ tip + finished < MaxTip /\ tip' = tip + 1
    /\ chain_lock' = AfterBroadcast
    /\ UNCHANGED <<pool_lock, server, minerVars, control_chan, queueVars, rpc,
                   flagVars, sent>>

(* The panics of handle_new_block (Node), with the chain locked. *)
WorkerPanics ==
    /\ ChainFree
    /\ chain_lock' = "poisoned"
    /\ UNCHANGED <<tip, pool_lock, server, minerVars, control_chan, queueVars, rpc,
                   flagVars, sent>>

(* Message::Transactions: the hashes are broadcast with the mempool locked. *)
WorkerTransactions ==
    /\ PoolFree /\ server # "up"
    /\ pool_lock' = AfterBroadcast
    /\ UNCHANGED <<tip, chain_lock, server, minerVars, control_chan, queueVars, rpc,
                   flagVars, sent>>

(* The dispatcher ends and the channel is closed, or another task panics and *)
(* takes the dispatcher along: then the channel fills up.                    *)
ServerStops ==
    /\ server = "up"
    /\ server' \in {"closed", "full"}
    /\ UNCHANGED <<tip, chain_lock, pool_lock, minerVars, control_chan, queueVars,
                   rpc, flagVars, sent>>

(* Handle::update and Handle::exit. *)
SendSignal(s) ==
    /\ sent < MaxSent /\ ~ MinerGone
    /\ control_chan' = Append(control_chan, PlainSignal(s))
    /\ sent' = sent + 1
    /\ UNCHANGED <<nodeVars, minerVars, queueVars, rpc, flagVars>>

-----------------------------------------------------------------------------
(* The API: one thread for each request. *)
Goes(r, from, to) ==
    /\ rpc[r] = from
    /\ rpc' = [rpc EXCEPT ![r] = to]

(* What a request asks for; "bad" has a parameter missing or malformed, or   *)
(* names no endpoint that does anything.  A thread that holds no mutex is    *)
(* done whether or not its response can be written: "answered" stands for    *)
(* the I/O error that ends it, too.                                          *)
Endpoint == {"/miner/start", "/tx-generator/start", "/network/ping", "/blockchain",
             "bad"}

Accept(r) ==
    /\ \E e \in Endpoint : Goes(r, "none", e)
    /\ UNCHANGED <<nodeVars, minerVars, control_chan, queueVars, flagVars, sent>>

Refuse(r) ==
    /\ Goes(r, "bad", "answered")
    /\ UNCHANGED <<nodeVars, minerVars, control_chan, queueVars, flagVars, sent>>

(* A mutant: one mutex for all that a request starts. *)
StartMinerLocked(r) ==
    /\ flag_lock = "free"
    /\ Goes(r, "/miner/start", "answered")
    /\ \E l \in Lambda : control_chan' = Append(control_chan, StartSignal(l))
    /\ UNCHANGED <<nodeVars, minerVars, queueVars, flagVars, sent>>

(* Handle::start; its unwrap panics when the miner is gone. *)
StartMiner(r) ==
    /\ \/ /\ MinerGone
          /\ Goes(r, "/miner/start", "panicked")
          /\ UNCHANGED control_chan
       \/ /\ ~ MinerGone
          /\ Goes(r, "/miner/start", "answered")
          /\ \E l \in Lambda : control_chan' = Append(control_chan, StartSignal(l))
    /\ UNCHANGED <<nodeVars, minerVars, queueVars, flagVars, sent>>

Ping(r) ==
    /\ server # "full"
    /\ Goes(r, "/network/ping", IF server = "up" THEN "answered" ELSE "panicked")
    /\ UNCHANGED <<nodeVars, minerVars, control_chan, queueVars, flagVars, sent>>

(* The guard of the chain lives to the end of the match arm: the response is *)
(* written to the client with the chain locked, and an I/O error poisons it. *)
QueryLock(r) ==
    /\ \/ /\ ChainFree
          /\ Goes(r, "/blockchain", "respond")
          /\ chain_lock' = r
       \/ /\ ChainPoisoned
          /\ Goes(r, "/blockchain", "panicked")
          /\ UNCHANGED chain_lock
    /\ UNCHANGED <<tip, pool_lock, server, minerVars, control_chan, queueVars,
                   flagVars, sent>>

QueryRespond(r) ==
    /\ \/ Goes(r, "respond", "answered") /\ chain_lock' = "free"
       \/ Goes(r, "respond", "panicked") /\ chain_lock' = "poisoned"
    /\ UNCHANGED <<tip, pool_lock, server, minerVars, control_chan, queueVars,
                   flagVars, sent>>

LockFlag(r) ==
    /\ \/ /\ flag_lock = "free"
          /\ Goes(r, "/tx-generator/start", "flag")
          /\ flag_lock' = r
       \/ /\ flag_lock = "poisoned"
          /\ Goes(r, "/tx-generator/start", "panicked")
          /\ UNCHANGED flag_lock
    /\ UNCHANGED <<nodeVars, minerVars, control_chan, queueVars, started_tx_gen, sent>>

(* A mutant: the generator has a thread of its own, and the mutex is released. *)
CheckFlagApart(r) ==
    /\ Goes(r, "flag", IF started_tx_gen THEN "already" ELSE "generate")
    /\ started_tx_gen' = TRUE
    /\ flag_lock' = "free"
    /\ UNCHANGED <<nodeVars, minerVars, control_chan, queueVars, sent>>

(* The generator is called with the mutex held and never comes back; a request *)
(* that finds the flag set answers that it has started already.               *)
CheckFlag(r) ==
    /\ Goes(r, "flag", IF started_tx_gen THEN "already" ELSE "generate")
    /\ started_tx_gen' = TRUE
    /\ flag_lock' = IF started_tx_gen THEN "free" ELSE r
    /\ UNCHANGED <<nodeVars, minerVars, control_chan, queueVars, sent>>

(* generate_tx_loop: the state of the tip is read, the transaction made on it *)
(* is broadcast, and it starts over.  Where it panics, the guard of the flag  *)
(* is dropped with the request's thread.                                      *)
GeneratorDies(r, from) ==
    /\ Goes(r, from, "panicked")
    /\ flag_lock' = "poisoned"

GeneratorRead(r) ==
    /\ \/ /\ ChainFree
          /\ Goes(r, "generate", "broadcast")
          /\ UNCHANGED flag_lock
       \/ ChainPoisoned /\ GeneratorDies(r, "generate")
    /\ UNCHANGED <<nodeVars, minerVars, control_chan, queueVars, started_tx_gen, sent>>

GeneratorBroadcast(r) ==
    /\ \/ /\ server = "up"
          /\ Goes(r, "broadcast", "generate")
          /\ UNCHANGED flag_lock
       \/ server = "closed" /\ GeneratorDies(r, "broadcast")
    /\ UNCHANGED <<nodeVars, minerVars, control_chan, queueVars, started_tx_gen, sent>>

(* What a request's thread does by itself; the client has to read a response. *)
RequestStep(r) ==
    \/ Refuse(r) \/ StartMiner(r) \/ Ping(r) \/ QueryLock(r)
    \/ LockFlag(r) \/ CheckFlag(r)
    \/ GeneratorRead(r) \/ GeneratorBroadcast(r)

Next ==
    \/ MinerStep
    \/ InserterStep
    \/ WorkerInserts \/ WorkerPanics \/ WorkerTransactions \/ ServerStops
    \/ \E s \in Signal : SendSignal(s)
    \/ \E r \in Request : Accept(r) \/ RequestStep(r) \/ QueryRespond(r)

Spec == Init /\ [][Next]_controlVars

(* The threads are scheduled.  Nothing makes a client read its response, or  *)
(* send a request.                                                           *)
FairSpec ==
    /\ Spec
    /\ WF_controlVars(MinerStep)
    /\ WF_controlVars(InserterStep)
    /\ \A r \in Request : WF_controlVars(RequestStep(r))

-----------------------------------------------------------------------------
TypeOK ==
    /\ tip \in Nat /\ parent_block \in Nat /\ asof \in Nat /\ lambda \in Nat
    /\ finished \in Nat /\ sent \in Nat
    /\ chain_lock \in Request \cup {"free", "worker", "poisoned"}
    /\ pool_lock \in {"free", "worker", "poisoned"}
    /\ server \in {"up", "closed", "full"}
    /\ flag_lock \in Request \cup {"free", "poisoned"}
    /\ started_tx_gen \in BOOLEAN
    /\ mpc \in {"start", "top", "signal", "mine", "found", "sleep", "returned",
                "panicked"}
    /\ operating_state \in {"Paused", "Run", "ShutDown"}
    /\ control_chan \in Seq(ControlSignal)
    /\ ipc \in {"recv", "broadcast", "dead"}
    /\ rpc \in [Request -> Endpoint \cup {"none", "answered", "panicked", "respond",
                                          "flag", "already", "generate", "broadcast"}]

(* miner/mod.rs:128,142,158: however long the miner was paused with a tip it  *)
(* had read, and however late it takes an Update, it mines only on a tip it   *)
(* read after the Start that woke it, or the Update.                          *)
FreshAfterSignal == mpc = "mine" => parent_block >= asof

(* miner/mod.rs:170: from the step that takes Exit on, no more nonce is tried *)
(* and no more block sent, whatever else waits in the channel.                *)
NothingMinedAfterExit ==
    [][operating_state' = "ShutDown" => mpc' # "mine" /\ finished' <= finished]_controlVars

(* What takes the node down: a thread panicked with the chain locked, or the *)
(* P2P server stopped.                                                       *)
Broken == ChainPoisoned \/ server # "up"

(* miner/mod.rs:182,194,207, miner/worker.rs:46-52, api/mod.rs:131: a panic   *)
(* spreads from thread to thread by poisoned mutexes and disconnected         *)
(* channels, but no thread dies of another's orderly end: the miner dies, and *)
(* the mempool and the generator's flag are poisoned, only in a broken node,  *)
(* and the inserting thread dies there or when the miner returned and all the *)
(* blocks it sent are inserted.                                               *)
DeathsHaveCause ==
    /\ (mpc = "panicked" \/ "poisoned" \in {pool_lock, flag_lock}) => Broken
    /\ ipc = "dead" => Broken \/ (mpc = "returned" /\ finished = 0)

(* The requests whose thread is the generator. *)
Generating == {r \in Request : rpc[r] \in {"generate", "broadcast"}}

(* api/mod.rs:131-134: the generator runs with the flag's mutex held, so a    *)
(* node has one generator in its life: the flag stays set from then on, with  *)
(* the mutex held while the generator runs and poisoned once it died, and no  *)
(* request is ever told that it runs already.                                 *)
FlagHeldByGenerator ==
    /\ started_tx_gen => \/ flag_lock \in Generating
                         \/ flag_lock = "poisoned"
    /\ \A r \in Generating : started_tx_gen /\ flag_lock = r
    /\ flag_lock = "poisoned" => started_tx_gen
    /\ \A r \in Request : rpc[r] # "already"

-----------------------------------------------------------------------------
(* Nobody keeps the chain locked for ever: clients read their responses, and *)
(* no worker waits for a channel that stays full.                            *)
ChainGetsFree == <>[](chain_lock \in {"free", "poisoned"})

(* No worker waits for that channel with the mempool locked either. *)
PoolGetsFree == <>[](pool_lock # "worker")

(* Where a request's thread is over. *)
Over == {"answered", "panicked"}

Waiting(kind) == \E i \in 1 .. Len(control_chan) : control_chan[i].kind = kind

(* miner/mod.rs:128,147: a miner that was told to start tries nonces, and goes *)
(* on doing so, unless it was told to exit or died (DeathsHaveCause).          *)
StartedMines ==
    (ChainGetsFree /\ PoolGetsFree) =>
        (Waiting("Start") \/ operating_state = "Run")
            ~> (mpc \in {"mine", "panicked"} \/ operating_state = "ShutDown")

(* miner/mod.rs:130,150, miner/worker.rs:45-53: an Exit ends the miner, paused *)
(* or running, whatever was sent before it; and after the miner the thread     *)
(* that inserts, once it inserted all that the miner had sent, unless the node *)
(* broke on the way.                                                           *)
ExitEnds ==
    (ChainGetsFree /\ PoolGetsFree) =>
        (Waiting("Exit")
            ~> (MinerGone /\ ((ipc = "dead" /\ finished = 0) \/ Broken)))

(* miner/mod.rs:119, miner/worker.rs:49: a poisoned chain stops the miner as   *)
(* soon as it has anything to do, and the inserting thread after it; neither   *)
(* goes on with a chain that nobody can extend any more.                       *)
FailStop ==
    PoolGetsFree =>
        (ChainPoisoned /\ (operating_state = "Run" \/ control_chan # <<>>))
            ~> (MinerGone /\ (ipc = "dead" \/ server = "full"))

(* api/mod.rs:74: every request has a thread of its own, so a running          *)
(* generator, or one that died, holds up nothing but other requests for it.    *)
OthersAnswered ==
    ChainGetsFree =>
        \A r \in Request :
            /\ rpc[r] \in {"/miner/start", "/blockchain", "bad"} ~> rpc[r] \in Over
            /\ rpc[r] = "/network/ping" ~> (rpc[r] \in Over \/ server = "full")
================================================================================
