----------------------------- MODULE ControlProofs ------------------------------
(***************************************************************************)
(* Theorems about Control, for any requests, values of lambda and signals: *)
(* its type invariant, its three safety invariants, and that nothing is    *)
(* mined once Exit was taken.                                              *)
(***************************************************************************)
EXTENDS Control, TLAPS

(* What was read or remembered of the tip is not ahead of it; once the miner *)
(* is past the top of a turn, it has read the tip since it was told.         *)
TipsRead ==
    /\ parent_block <= tip /\ asof <= tip
    /\ mpc \in {"signal", "mine", "found", "sleep"} => parent_block >= asof

(* A miner that was shut down is not in the middle of a turn. *)
ShutDownIsIdle == operating_state = "ShutDown" => mpc \notin {"mine", "found", "sleep"}

(* A request that writes its response with the chain locked holds the chain. *)
ChainHolder == \A r \in Request : rpc[r] = "respond" => chain_lock = r

(* The flag's mutex belongs to the request that looks at the flag, or generates. *)
FlagHolder ==
    /\ \A r \in Request : rpc[r] = "flag" => flag_lock = r
    /\ \A r \in Request : flag_lock = r => rpc[r] \in {"flag", "generate", "broadcast"}

(* The part about the requests, and the part about the other threads. *)
RequestsOK == ChainHolder /\ FlagHolder /\ FlagHeldByGenerator
ThreadsOK == TipsRead /\ ShutDownIsIdle /\ DeathsHaveCause

IInv == TypeOK /\ ThreadsOK /\ RequestsOK

-----------------------------------------------------------------------------
(* The initial state satisfies the invariant. *)
LEMMA InitIInv == Init => IInv
  <1> SUFFICES ASSUME Init PROVE IInv
    OBVIOUS
  <1> USE ControlAssumption DEF Init
  <1>1. TypeOK
    <2>1. control_chan \in Seq(ControlSignal)
      OBVIOUS
    <2>2. rpc \in [Request -> Endpoint
                \cup {"none", "answered", "panicked", "respond",
                      "flag", "already", "generate", "broadcast"}]
      OBVIOUS
    <2> QED
      BY <2>1, <2>2 DEF TypeOK
  <1>2. ThreadsOK
    BY DEF ThreadsOK, TipsRead, ShutDownIsIdle, DeathsHaveCause
  <1>3. RequestsOK
    BY DEF RequestsOK, ChainHolder, FlagHolder, FlagHeldByGenerator, Generating
  <1> QED
    BY <1>1, <1>2, <1>3 DEF IInv

(* What the types say of a signal that is taken. *)
LEMMA HeadTail ==
  ASSUME TypeOK, Take
  PROVE  /\ Head(control_chan) \in ControlSignal
         /\ control_chan' \in Seq(ControlSignal)
  <1>1. control_chan \in Seq(ControlSignal) /\ control_chan # <<>>
    BY DEF TypeOK, Take
  <1>2. control_chan' = Tail(control_chan)
    BY DEF Take
  <1> QED
    BY <1>1, <1>2

(* A signal that is sent. *)
LEMMA Sent ==
  ASSUME TypeOK, NEW s \in ControlSignal, control_chan' = Append(control_chan, s)
  PROVE  control_chan' \in Seq(ControlSignal)
  BY DEF TypeOK

(* Obeying a signal keeps the types, and does not shut down what it starts. *)
LEMMA Obeyed ==
  ASSUME TypeOK, NEW s \in ControlSignal, Obey(s)
  PROVE  operating_state' \in {"Paused", "Run", "ShutDown"} /\ lambda' \in Nat
  <1>1. CASE \E l \in Lambda : s = StartSignal(l)
    BY <1>1, ControlAssumption DEF Obey, StartSignal
  <1>2. CASE \E k \in Signal : s = PlainSignal(k)
    <2>1. s.kind \in {"Update", "Exit"}
      BY <1>2, ControlAssumption DEF PlainSignal
    <2> QED
      BY <2>1 DEF Obey, TypeOK
  <1> QED
    BY <1>1, <1>2 DEF ControlSignal

(* The steps of the miner. *)
LEMMA MinerKeeps ==
  ASSUME IInv, MinerStep
  PROVE  IInv'
  <1> USE DEF IInv, TypeOK, ThreadsOK, TipsRead, ShutDownIsIdle, DeathsHaveCause, Broken,
              ChainPoisoned, ChainFree, PoolFree, TurnOver, minerVars, queueVars, flagVars,
              nodeVars
  <1>0. UNCHANGED <<flagVars, rpc, sent, chain_lock, ipc, tip, server>>
    BY DEF MinerStep, MinerReadTip, PausedTake, MinerReturn, RunTakeNothing, RunTakeStart,
           RunTakeUpdate, RunTakeExit, MinerMiss, MinerFind, MinerSend, MinerSendPanics,
           MinerWake
  <1>1. RequestsOK'
    BY <1>0 DEF RequestsOK, ChainHolder, FlagHolder, FlagHeldByGenerator, Generating
  <1>2. ~ MinerGone
    BY DEF MinerStep, MinerReadTip, PausedTake, MinerReturn, RunTakeNothing, RunTakeStart,
           RunTakeUpdate, RunTakeExit, MinerMiss, MinerFind, MinerSend, MinerSendPanics,
           MinerWake, MinerGone
  <1>3. mpc \notin {"returned", "panicked"}
    BY <1>2 DEF MinerGone
  <1>4. CASE MinerReadTip
    BY <1>0, <1>1, <1>3, <1>4 DEF MinerReadTip
  <1>5. CASE PausedTake
    <2>1. /\ Head(control_chan) \in ControlSignal
          /\ control_chan' \in Seq(ControlSignal)
      BY <1>5, HeadTail DEF PausedTake
    <2>2. operating_state' \in {"Paused", "Run", "ShutDown"} /\ lambda' \in Nat
      BY <1>5, <2>1, Obeyed DEF PausedTake
    <2> QED
      BY <1>0, <1>1, <1>3, <1>5, <2>1, <2>2 DEF PausedTake
  <1>6. CASE MinerReturn
    BY <1>0, <1>1, <1>3, <1>6 DEF MinerReturn
  <1>7. CASE RunTakeNothing
    BY <1>0, <1>1, <1>3, <1>7 DEF RunTakeNothing
  <1>8. CASE RunTakeStart
    <2>1. /\ Head(control_chan) \in ControlSignal
          /\ control_chan' \in Seq(ControlSignal)
      BY <1>8, HeadTail DEF RunTakeStart
    <2>2. lambda' \in Nat /\ operating_state' = "Run"
      BY <1>8, <2>1, Obeyed DEF RunTakeStart, Obey
    <2> QED
      BY <1>0, <1>1, <1>3, <1>8, <2>1, <2>2 DEF RunTakeStart
  <1>9. CASE RunTakeUpdate
    <2>1. control_chan' \in Seq(ControlSignal)
      BY <1>9, HeadTail DEF RunTakeUpdate
    <2> QED
      BY <1>0, <1>1, <1>3, <1>9, <2>1 DEF RunTakeUpdate
  <1>10. CASE RunTakeExit
    <2>1. /\ Head(control_chan) \in ControlSignal
          /\ control_chan' \in Seq(ControlSignal)
      BY <1>10, HeadTail DEF RunTakeExit
    <2>2. operating_state' \in {"Paused", "Run", "ShutDown"} /\ lambda' \in Nat
      BY <1>10, <2>1, Obeyed DEF RunTakeExit
    <2> QED
      BY <1>0, <1>1, <1>3, <1>10, <2>1, <2>2 DEF RunTakeExit
  <1>11. CASE MinerMiss
    BY <1>0, <1>1, <1>3, <1>11 DEF MinerMiss
  <1>12. CASE MinerFind
    BY <1>0, <1>1, <1>3, <1>12 DEF MinerFind
  <1>13. CASE MinerSend
    BY <1>0, <1>1, <1>3, <1>13 DEF MinerSend
  <1>14. CASE MinerSendPanics
    <2>1. Broken
      (* The receiver's thread does not die before a miner that mines, unless    *)
      (* the node is broken.                                                      *)
      BY <1>14 DEF MinerSendPanics
    <2> QED
      BY <1>0, <1>1, <1>14, <2>1 DEF MinerSendPanics
  <1>15. CASE MinerWake
    BY <1>0, <1>1, <1>3, <1>15 DEF MinerWake
  <1> QED
    BY <1>4, <1>5, <1>6, <1>7, <1>8, <1>9, <1>10, <1>11, <1>12, <1>13, <1>14, <1>15
    DEF MinerStep

(* The inserting thread. *)
LEMMA InserterKeeps ==
  ASSUME IInv, InserterStep
  PROVE  IInv'
  <1> USE DEF IInv, TypeOK, ThreadsOK, TipsRead, ShutDownIsIdle, DeathsHaveCause, Broken,
              ChainPoisoned, ChainFree, MinerGone, minerVars, queueVars, flagVars, nodeVars
  <1>0. UNCHANGED <<flagVars, rpc, minerVars, chain_lock, pool_lock, server, control_chan,
                    sent>>
    BY DEF InserterStep, InsertMined, InserterPanics, InserterBroadcast, InserterEnds
  <1>1. RequestsOK'
    BY <1>0 DEF RequestsOK, ChainHolder, FlagHolder, FlagHeldByGenerator, Generating
  <1>2. CASE InsertMined
    BY <1>0, <1>1, <1>2 DEF InsertMined
  <1>3. CASE InserterPanics
    BY <1>0, <1>1, <1>3 DEF InserterPanics
  <1>4. CASE InserterBroadcast
    BY <1>0, <1>1, <1>4 DEF InserterBroadcast
  <1>5. CASE InserterEnds
    BY <1>0, <1>1, <1>5 DEF InserterEnds
  <1> QED
    BY <1>2, <1>3, <1>4, <1>5 DEF InserterStep

(* The P2P workers and server, and the signals past the API. *)
LEMMA OthersKeep ==
  ASSUME IInv,
         \/ WorkerInserts \/ WorkerPanics \/ WorkerTransactions \/ ServerStops
         \/ \E s \in Signal : SendSignal(s)
  PROVE  IInv'
  <1> USE DEF IInv, TypeOK, ThreadsOK, TipsRead, ShutDownIsIdle, DeathsHaveCause, Broken,
              ChainPoisoned, ChainFree, PoolFree, AfterBroadcast, minerVars, queueVars,
              flagVars, nodeVars
  <1>0. UNCHANGED <<flagVars, rpc, minerVars, queueVars>>
    BY DEF WorkerInserts, WorkerPanics, WorkerTransactions, ServerStops, SendSignal
  <1>1. chain_lock' = chain_lock \/ ChainFree
    BY DEF WorkerInserts, WorkerPanics, WorkerTransactions, ServerStops, SendSignal
  <1>2. RequestsOK'
    BY <1>0, <1>1, ControlAssumption
    DEF RequestsOK, ChainHolder, FlagHolder, FlagHeldByGenerator, Generating
  <1>3. CASE WorkerInserts
    BY <1>0, <1>2, <1>3 DEF WorkerInserts
  <1>4. CASE WorkerPanics
    BY <1>0, <1>2, <1>4 DEF WorkerPanics
  <1>5. CASE WorkerTransactions
    BY <1>0, <1>2, <1>5 DEF WorkerTransactions
  <1>6. CASE ServerStops
    BY <1>0, <1>2, <1>6 DEF ServerStops
  <1>7. ASSUME NEW s \in Signal, SendSignal(s)
        PROVE  IInv'
    <2>1. control_chan' \in Seq(ControlSignal)
      BY <1>7, Sent DEF SendSignal, ControlSignal
    <2> QED
      BY <1>0, <1>2, <1>7, <2>1 DEF SendSignal
  <1> QED
    BY <1>3, <1>4, <1>5, <1>6, <1>7

-----------------------------------------------------------------------------
(* The requests.  What the other threads rely on is left alone, but for a     *)
(* chain that may be poisoned by who holds it, and a flag that may be         *)
(* poisoned in a broken node.                                                 *)
LEMMA RequestLeavesThreads ==
  ASSUME IInv, NEW r \in Request, UNCHANGED <<minerVars, queueVars, tip, pool_lock, server>>,
         chain_lock' = chain_lock \/ ~ ChainPoisoned,
         flag_lock' = "poisoned" => flag_lock = "poisoned" \/ Broken
  PROVE  ThreadsOK'
  BY DEF IInv, ThreadsOK, TipsRead, ShutDownIsIdle, DeathsHaveCause, Broken, ChainPoisoned,
         minerVars, queueVars

(* A request's step that leaves the mutexes alone, between places where it     *)
(* holds none, or from one turn of the generator to the next.                  *)
LEMMA RequestMoves ==
  ASSUME IInv, NEW r \in Request, NEW from, NEW to, Goes(r, from, to),
         UNCHANGED <<flagVars, chain_lock>>,
         \/ /\ from \notin {"flag", "generate", "broadcast"}
            /\ to \notin {"respond", "flag", "already", "generate", "broadcast"}
         \/ from \in {"generate", "broadcast"} /\ to \in {"generate", "broadcast"}
  PROVE  RequestsOK'
  <1>1. /\ rpc[r] = from /\ rpc'[r] = to
        /\ \A q \in Request : q # r => rpc'[q] = rpc[q]
    BY DEF Goes, IInv, TypeOK
  <1>2. Generating' = Generating
    BY <1>1 DEF Generating
  <1>3. ChainHolder'
    BY <1>1 DEF ChainHolder, RequestsOK, IInv
  <1>4. FlagHolder'
    BY <1>1 DEF FlagHolder, RequestsOK, IInv, flagVars
  <1>5. FlagHeldByGenerator'
    BY <1>1, <1>2 DEF FlagHeldByGenerator, RequestsOK, IInv, flagVars
  <1> QED
    BY <1>3, <1>4, <1>5 DEF RequestsOK

(* A step from or to where a request holds the chain. *)
LEMMA QueryMoves ==
  ASSUME IInv, NEW r \in Request, NEW from, NEW to, Goes(r, from, to),
         UNCHANGED flagVars,
         \/ ChainFree /\ from = "/blockchain" /\ to = "respond" /\ chain_lock' = r
         \/ from = "respond" /\ to \in {"answered", "panicked"}
  PROVE  RequestsOK'
  <1>1. /\ rpc[r] = from /\ rpc'[r] = to
        /\ \A q \in Request : q # r => rpc'[q] = rpc[q]
    BY DEF Goes, IInv, TypeOK
  <1>2. Generating' = Generating
    BY <1>1 DEF Generating
  <1>3. ChainHolder'
    BY <1>1, ControlAssumption DEF ChainHolder, RequestsOK, IInv, ChainFree
  <1>4. FlagHolder'
    BY <1>1 DEF FlagHolder, RequestsOK, IInv, flagVars
  <1>5. FlagHeldByGenerator'
    BY <1>1, <1>2 DEF FlagHeldByGenerator, RequestsOK, IInv, flagVars
  <1> QED
    BY <1>3, <1>4, <1>5 DEF RequestsOK

(* A generator that dies leaves the mutex poisoned, and the flag set. *)
LEMMA GeneratorDiesKeeps ==
  ASSUME IInv, NEW r \in Request, NEW from \in {"generate", "broadcast"},
         GeneratorDies(r, from), UNCHANGED <<chain_lock, started_tx_gen>>
  PROVE  RequestsOK'
  <1>1. /\ rpc[r] = from /\ rpc'[r] = "panicked"
        /\ \A q \in Request : q # r => rpc'[q] = rpc[q]
    BY DEF GeneratorDies, Goes, IInv, TypeOK
  <1>2. flag_lock = r /\ started_tx_gen /\ flag_lock' = "poisoned"
    BY <1>1 DEF GeneratorDies, RequestsOK, IInv, FlagHeldByGenerator, Generating
  <1>3. ChainHolder'
    BY <1>1 DEF ChainHolder, RequestsOK, IInv
  <1>4. FlagHolder'
    BY <1>1, <1>2, ControlAssumption DEF FlagHolder, RequestsOK, IInv
  <1>5. Generating' = {}
    BY <1>1, <1>2 DEF Generating, FlagHeldByGenerator, RequestsOK, IInv
  <1>6. FlagHeldByGenerator'
    BY <1>1, <1>2, <1>5 DEF FlagHeldByGenerator, RequestsOK, IInv
  <1> QED
    BY <1>3, <1>4, <1>6 DEF RequestsOK

(* The steps of a request. *)
LEMMA RequestKeeps ==
  ASSUME IInv, NEW r \in Request, Accept(r) \/ RequestStep(r) \/ QueryRespond(r)
  PROVE  IInv'
  <1>0. UNCHANGED <<minerVars, queueVars, tip, pool_lock, server, sent>>
    BY DEF Accept, RequestStep, QueryRespond, Refuse, StartMiner, Ping, QueryLock, LockFlag,
           CheckFlag, GeneratorRead, GeneratorBroadcast, nodeVars
  <1>1. chain_lock' = chain_lock \/ ~ ChainPoisoned
    <2>1. CASE QueryRespond(r)
      <3>1. chain_lock = r
        BY <2>1 DEF QueryRespond, Goes, IInv, RequestsOK, ChainHolder
      <3> QED
        BY <3>1, ControlAssumption DEF ChainPoisoned
    <2>2. CASE Accept(r) \/ RequestStep(r)
      BY <2>2
      DEF Accept, RequestStep, Refuse, StartMiner, Ping, QueryLock, LockFlag, CheckFlag,
          GeneratorRead, GeneratorBroadcast, nodeVars, ChainFree, ChainPoisoned
    <2> QED
      BY <2>1, <2>2
  <1>2. flag_lock' = "poisoned" => flag_lock = "poisoned" \/ Broken
    BY ControlAssumption
    DEF Accept, RequestStep, QueryRespond, Refuse, StartMiner, Ping, QueryLock, LockFlag,
        CheckFlag, GeneratorRead, GeneratorBroadcast, GeneratorDies, flagVars, Broken
  <1>3. ThreadsOK'
    BY <1>0, <1>1, <1>2, RequestLeavesThreads
  <1> USE DEF TypeOK, minerVars, queueVars, nodeVars, flagVars, Endpoint
  <1>t. TypeOK
    BY DEF IInv
  <1> SUFFICES TypeOK' /\ RequestsOK'
    BY <1>3 DEF IInv
  <1>4. CASE Accept(r)
    <2>1. PICK e \in Endpoint : Goes(r, "none", e)
      BY <1>4 DEF Accept
    <2>2. RequestsOK'
      BY <1>4, <2>1, RequestMoves DEF Accept
    <2> QED
      BY <1>0, <1>t, <1>4, <2>1, <2>2 DEF Accept, Goes
  <1>5. CASE Refuse(r)
    <2>1. RequestsOK'
      BY <1>5, RequestMoves DEF Refuse
    <2> QED
      BY <1>0, <1>t, <1>5, <2>1 DEF Refuse, Goes
  <1>6. CASE StartMiner(r)
    <2>1. PICK to \in {"panicked", "answered"} : Goes(r, "/miner/start", to)
      BY <1>6 DEF StartMiner
    <2>2. RequestsOK'
      BY <1>6, <2>1, RequestMoves DEF StartMiner
    <2>3. control_chan' \in Seq(ControlSignal)
      BY <1>t, <1>6, Sent DEF StartMiner, ControlSignal
    <2> QED
      BY <1>0, <1>t, <1>6, <2>1, <2>2, <2>3 DEF StartMiner, Goes
  <1>7. CASE Ping(r)
    <2>1. PICK to \in {"panicked", "answered"} : Goes(r, "/network/ping", to)
      BY <1>7 DEF Ping
    <2>2. RequestsOK'
      BY <1>7, <2>1, RequestMoves DEF Ping
    <2> QED
      BY <1>0, <1>t, <1>7, <2>1, <2>2 DEF Ping, Goes
  <1>8. CASE QueryLock(r)
    <2>1. CASE ChainFree /\ Goes(r, "/blockchain", "respond") /\ chain_lock' = r
      <3>1. RequestsOK'
        BY <1>8, <2>1, QueryMoves DEF QueryLock
      <3> QED
        BY <1>0, <1>t, <1>8, <2>1, <3>1 DEF QueryLock, Goes
    <2>2. CASE Goes(r, "/blockchain", "panicked") /\ UNCHANGED chain_lock
      <3>1. RequestsOK'
        BY <1>8, <2>2, RequestMoves DEF QueryLock
      <3> QED
        BY <1>0, <1>t, <1>8, <2>2, <3>1 DEF QueryLock, Goes
    <2> QED
      BY <1>8, <2>1, <2>2 DEF QueryLock
  <1>9. CASE QueryRespond(r)
    <2>1. PICK to \in {"panicked", "answered"} : Goes(r, "respond", to)
      BY <1>9 DEF QueryRespond
    <2>2. RequestsOK'
      BY <1>9, <2>1, QueryMoves DEF QueryRespond
    <2> QED
      BY <1>0, <1>t, <1>9, <2>1, <2>2 DEF QueryRespond, Goes
  <1>10. CASE LockFlag(r)
    <2>1. CASE flag_lock = "free" /\ Goes(r, "/tx-generator/start", "flag") /\ flag_lock' = r
      <3>1. ~ started_tx_gen
        BY <2>1, ControlAssumption DEF IInv, RequestsOK, FlagHeldByGenerator, Generating
      <3>2. RequestsOK'
        BY <1>10, <2>1, <3>1, ControlAssumption
        DEF LockFlag, Goes, IInv, RequestsOK, ChainHolder, FlagHolder, FlagHeldByGenerator,
            Generating
      <3> QED
        BY <1>0, <1>t, <1>10, <2>1, <3>2 DEF LockFlag, Goes
    <2>2. CASE Goes(r, "/tx-generator/start", "panicked") /\ UNCHANGED flag_lock
      <3>1. RequestsOK'
        BY <1>10, <2>2, RequestMoves DEF LockFlag
      <3> QED
        BY <1>0, <1>t, <1>10, <2>2, <3>1 DEF LockFlag, Goes
    <2> QED
      BY <1>10, <2>1, <2>2 DEF LockFlag
  <1>11. CASE CheckFlag(r)
    <2>1. flag_lock = r
      BY <1>11 DEF CheckFlag, Goes, IInv, RequestsOK, FlagHolder
    <2>2. ~ started_tx_gen
      (* A generator would hold the mutex that r holds. *)
      BY <1>11, <2>1, ControlAssumption
      DEF CheckFlag, Goes, IInv, RequestsOK, FlagHeldByGenerator, Generating
    <2>3. Goes(r, "flag", "generate") /\ started_tx_gen' /\ flag_lock' = r
      BY <1>11, <2>2 DEF CheckFlag
    <2>4. RequestsOK'
      BY <1>11, <2>1, <2>2, <2>3, ControlAssumption
      DEF CheckFlag, Goes, IInv, RequestsOK, ChainHolder, FlagHolder, FlagHeldByGenerator,
          Generating
    <2> QED
      BY <1>0, <1>t, <1>11, <2>3, <2>4 DEF CheckFlag, Goes
  <1>12. CASE GeneratorRead(r)
    <2>1. CASE Goes(r, "generate", "broadcast") /\ UNCHANGED flag_lock
      <3>1. RequestsOK'
        BY <1>12, <2>1, RequestMoves DEF GeneratorRead
      <3> QED
        BY <1>0, <1>t, <1>12, <2>1, <3>1 DEF GeneratorRead, Goes
    <2>2. CASE GeneratorDies(r, "generate")
      <3>1. RequestsOK'
        BY <1>12, <2>2, GeneratorDiesKeeps DEF GeneratorRead
      <3> QED
        BY <1>0, <1>t, <1>12, <2>2, <3>1 DEF GeneratorRead, GeneratorDies, Goes
    <2> QED
      BY <1>12, <2>1, <2>2 DEF GeneratorRead
  <1>13. CASE GeneratorBroadcast(r)
    <2>1. CASE Goes(r, "broadcast", "generate") /\ UNCHANGED flag_lock
      <3>1. RequestsOK'
        BY <1>13, <2>1, RequestMoves DEF GeneratorBroadcast
      <3> QED
        BY <1>0, <1>t, <1>13, <2>1, <3>1 DEF GeneratorBroadcast, Goes
    <2>2. CASE GeneratorDies(r, "broadcast")
      <3>1. RequestsOK'
        BY <1>13, <2>2, GeneratorDiesKeeps DEF GeneratorBroadcast
      <3> QED
        BY <1>0, <1>t, <1>13, <2>2, <3>1 DEF GeneratorBroadcast, GeneratorDies, Goes
    <2> QED
      BY <1>13, <2>1, <2>2 DEF GeneratorBroadcast
  <1> QED
    BY <1>4, <1>5, <1>6, <1>7, <1>8, <1>9, <1>10, <1>11, <1>12, <1>13 DEF RequestStep

(* Every step keeps the invariant. *)
LEMMA NextIInv == IInv /\ [Next]_controlVars => IInv'
  <1>1. ASSUME IInv, UNCHANGED controlVars PROVE IInv'
    BY <1>1
    DEF controlVars, nodeVars, minerVars, queueVars, flagVars, IInv, TypeOK, ThreadsOK,
        TipsRead, ShutDownIsIdle, DeathsHaveCause, Broken, ChainPoisoned, RequestsOK,
        ChainHolder, FlagHolder, FlagHeldByGenerator, Generating
  <1> QED
    BY <1>1, MinerKeeps, InserterKeeps, OthersKeep, RequestKeeps DEF Next

(* The invariant holds in every reachable state. *)
THEOREM Invariance == Spec => []IInv
  BY InitIInv, NextIInv, PTL DEF Spec

-----------------------------------------------------------------------------
(* Every variable keeps its type: the miner, the inserting thread and the      *)
(* requests are at a place the code has, and the channel holds only signals.   *)
THEOREM Control_TypeCorrect == Spec => []TypeOK
  BY Invariance, PTL DEF IInv

(* miner/mod.rs:128,142,158: the miner mines only on a tip it read after the   *)
(* Start that woke it, and after the last Update it took.                      *)
THEOREM Fresh_AfterSignal == Spec => []FreshAfterSignal
  <1>1. IInv => FreshAfterSignal
    BY DEF IInv, ThreadsOK, TipsRead, FreshAfterSignal
  <1> QED
    BY <1>1, Invariance, PTL

(* miner/mod.rs:182,194,207, miner/worker.rs:46-52, api/mod.rs:131: a panic     *)
(* begins with a chain poisoned by its holder or with the end of the P2P       *)
(* server; the orderly end of one thread takes down no other, but for the      *)
(* inserting thread, after the last block of a miner that returned.            *)
THEOREM Deaths_HaveCause == Spec => []DeathsHaveCause
  BY Invariance, PTL DEF IInv, ThreadsOK

(* api/mod.rs:131-134: whatever requests come, the node has one generator in   *)
(* its life, which holds the flag's mutex until it dies, and then the mutex    *)
(* is poisoned.                                                                *)
THEOREM Flag_HeldByGenerator == Spec => []FlagHeldByGenerator
  BY Invariance, PTL DEF IInv, RequestsOK

(* miner/mod.rs:130,150,170: from the step that takes Exit on, no nonce is     *)
(* tried and no block sent.                                                    *)
THEOREM NothingMined_AfterExit == Spec => NothingMinedAfterExit
  <1>1. IInv /\ [Next]_controlVars =>
          [operating_state' = "ShutDown" => mpc' # "mine" /\ finished' <= finished]_controlVars
    <2> SUFFICES ASSUME IInv, Next, operating_state' = "ShutDown"
                 PROVE  mpc' # "mine" /\ finished' <= finished
      OBVIOUS
    <2>1. mpc' # "mine"
      BY NextIInv DEF IInv, ThreadsOK, ShutDownIsIdle
    <2>2. ~ MinerSend
      BY DEF MinerSend, IInv, ThreadsOK, ShutDownIsIdle
    <2>3. finished' = finished \/ finished' = finished - 1
      BY <2>2
      DEF Next, MinerStep, MinerReadTip, PausedTake, MinerReturn, RunTakeNothing,
          RunTakeStart, RunTakeUpdate, RunTakeExit, MinerMiss, MinerFind, MinerSendPanics,
          MinerWake, InserterStep, InsertMined, InserterPanics, InserterBroadcast,
          InserterEnds, WorkerInserts, WorkerPanics, WorkerTransactions, ServerStops,
          SendSignal, Accept, RequestStep, QueryRespond, Refuse, StartMiner, Ping,
          QueryLock, LockFlag, CheckFlag, GeneratorRead, GeneratorBroadcast, queueVars
    <2> QED
      BY <2>1, <2>3 DEF IInv, TypeOK
  <1> QED
    BY <1>1, Invariance, PTL DEF Spec, NothingMinedAfterExit
================================================================================
