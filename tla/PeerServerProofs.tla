--------------------------- MODULE PeerServerProofs -----------------------------
(***************************************************************************)
(* Theorems about PeerServer, for any connections, addresses, threads and  *)
(* any capacity of the control channel.  In this order: types, and one     *)
(* attempt of main's to connect at a time; the life of a connection, which *)
(* is registered once; the numbers of the broadcasts, so their order; the  *)
(* reports of dead peers; and that nobody else is removed.                 *)
(***************************************************************************)
EXTENDS PeerServer, TLAPS

Asks(i) == control_chan[i].kind = "ConnectNewPeer"
Places == 1 .. Len(control_chan)

(* main asks for one known peer at a time and waits until the dispatcher has *)
(* connected to it or failed.                                                *)
OneAttempt ==
    /\ connector = "wait" => known_peers # <<>>
    /\ \A i \in Places : Asks(i) => connector = "wait" /\ dispatcher = "recv"
    /\ \A i, j \in Places : Asks(i) /\ Asks(j) => i = j
    /\ dispatcher \in Conn => connector = "wait"

IInv == TypeOK /\ OneAttempt

-----------------------------------------------------------------------------
(* A fresh connection, and one with a field changed. *)
LEMMA NewConnType == ASSUME NEW a \in Addr PROVE NewConn(a) \in ConnType
  BY DEF NewConn, ConnType

LEMMA SetStream ==
  ASSUME NEW f \in [Conn -> ConnType], NEW c \in Conn, NEW v \in {"none", "open", "gone"}
  PROVE  [f EXCEPT ![c].stream = v] \in [Conn -> ConnType]
  <1>1. f[c] \in ConnType
    OBVIOUS
  <1>2. [f[c] EXCEPT !.stream = v] \in ConnType
    BY <1>1 DEF ConnType
  <1> QED
    BY <1>2

LEMMA SetReader ==
  ASSUME NEW f \in [Conn -> ConnType], NEW c \in Conn, NEW v \in {"none", "reading", "ended"}
  PROVE  [f EXCEPT ![c].reader = v] \in [Conn -> ConnType]
  <1>1. f[c] \in ConnType
    OBVIOUS
  <1>2. [f[c] EXCEPT !.reader = v] \in ConnType
    BY <1>1 DEF ConnType
  <1> QED
    BY <1>2

LEMMA SetWriter ==
  ASSUME NEW f \in [Conn -> ConnType], NEW c \in Conn,
         NEW v \in {"none", "idle", "writing", "failed", "ended"}
  PROVE  [f EXCEPT ![c].writer = v] \in [Conn -> ConnType]
  <1>1. f[c] \in ConnType
    OBVIOUS
  <1>2. [f[c] EXCEPT !.writer = v] \in ConnType
    BY <1>1 DEF ConnType
  <1> QED
    BY <1>2

LEMMA SetQueue ==
  ASSUME NEW f \in [Conn -> ConnType], NEW c \in Conn, NEW v \in Seq(Nat)
  PROVE  [f EXCEPT ![c].queue = v] \in [Conn -> ConnType]
  <1>1. f[c] \in ConnType
    OBVIOUS
  <1>2. [f[c] EXCEPT !.queue = v] \in ConnType
    BY <1>1 DEF ConnType
  <1> QED
    BY <1>2

LEMMA SetCounts ==
  ASSUME NEW f \in [Conn -> ConnType], NEW c \in Conn, NEW v \in Nat
  PROVE  /\ [f EXCEPT ![c].held = v] \in [Conn -> ConnType]
         /\ [f EXCEPT ![c].since = v] \in [Conn -> ConnType]
  <1>1. f[c] \in ConnType
    OBVIOUS
  <1>2. [f[c] EXCEPT !.held = v] \in ConnType /\ [f[c] EXCEPT !.since = v] \in ConnType
    BY <1>1 DEF ConnType
  <1> QED
    BY <1>2

(* The initial state satisfies the invariant. *)
LEMMA InitIInv == Init => IInv
  <1> SUFFICES ASSUME Init PROVE IInv
    OBVIOUS
  <1> USE DEF Init
  <1>1. PICK s \in Setup : /\ conns = [c \in Conn |-> NewConn(s.addr[c])]
                           /\ known_peers = s.known
    OBVIOUS
  <1>2. s.known \in Seq(Conn) /\ s.addr \in [Conn -> Addr]
    BY PeerServerAssumption
  <1>3. conns \in [Conn -> ConnType]
    BY <1>1, <1>2, NewConnType
  <1>4. control_chan \in Seq(Signals) /\ Len(control_chan) <= Capacity
    BY PeerServerAssumption
  <1>5. TypeOK
    BY <1>1, <1>2, <1>3, <1>4 DEF TypeOK
  <1>6. OneAttempt
    BY PeerServerAssumption DEF OneAttempt, Places
  <1> QED
    BY <1>5, <1>6 DEF IInv

-----------------------------------------------------------------------------
(* What a signal does to the channel. *)
LEMMA SendChan ==
  ASSUME TypeOK, NEW s \in Signals, Send(s)
  PROVE  /\ control_chan' \in Seq(Signals) /\ Len(control_chan') <= Capacity
         /\ Len(control_chan') = Len(control_chan) + 1
         /\ \A i \in Places : control_chan'[i] = control_chan[i]
         /\ control_chan'[Len(control_chan) + 1] = s
  BY PeerServerAssumption DEF TypeOK, Send, HasRoom, Places

LEMMA ReceiveChan ==
  ASSUME TypeOK, NEW kind, Receive(kind)
  PROVE  /\ control_chan' \in Seq(Signals) /\ Len(control_chan') <= Capacity
         /\ Len(control_chan') = Len(control_chan) - 1
         /\ \A i \in 1 .. Len(control_chan') : control_chan'[i] = control_chan[i + 1]
         /\ 1 \in Places /\ Signal = control_chan[1] /\ Signal \in Signals
         /\ Signal.kind = kind
  BY PeerServerAssumption DEF TypeOK, Receive, Places, Signal

(* The fields of the signals. *)
LEMMA SignalFields ==
  ASSUME NEW s \in Signals
  PROVE  /\ s.kind \in {"ConnectNewPeer", "GetNewPeer"} => s.conn \in Conn
         /\ s.kind = "DroppedPeer" => s.addr \in Addr
         /\ s.kind = "BroadcastMessage" => s.msg \in Nat \ {0}
  BY DEF Signals, Connect, NewPeer, Dropped, Broadcast

LEMMA DroppedSignal ==
  ASSUME NEW s \in Signals, s.kind = "DroppedPeer"
  PROVE  s = Dropped(s.addr)
  <1>1. PICK a \in Addr : s = Dropped(a)
    BY DEF Signals, Connect, NewPeer, Dropped, Broadcast
  <1> QED
    BY <1>1 DEF Dropped

(* Sending anything but a request to connect leaves the attempts alone. *)
LEMMA SendKeepsAttempt ==
  ASSUME IInv, NEW s \in Signals, s.kind # "ConnectNewPeer", Send(s),
         UNCHANGED <<connector, known_peers, dispatcher>>
  PROVE  OneAttempt'
  <1>1. \A i \in Places' : Asks(i)' => i \in Places /\ Asks(i)
    BY SendChan DEF IInv, Places, Asks, TypeOK
  <1> QED
    BY <1>1 DEF IInv, OneAttempt

(* Taking a signal off leaves the attempts alone as well. *)
LEMMA ReceiveKeepsAttempt ==
  ASSUME IInv, NEW kind, Receive(kind), UNCHANGED <<connector, known_peers, dispatcher>>
  PROVE  OneAttempt'
  <1>1. \A i \in Places' : Asks(i)' => i + 1 \in Places /\ Asks(i + 1)
    BY ReceiveChan DEF IInv, Places, Asks, TypeOK
  <1>2. \A i, j \in Places' : i + 1 = j + 1 => i = j
    BY DEF Places, IInv, TypeOK
  <1> QED
    BY <1>1, <1>2 DEF IInv, OneAttempt, Places

(* A change of connections or threads does not matter to the attempts. *)
LEMMA SameAttempt ==
  ASSUME OneAttempt, UNCHANGED <<connector, known_peers, control_chan>>,
         dispatcher' \in {dispatcher, "recv"}
  PROVE  OneAttempt'
  BY PeerServerAssumption DEF OneAttempt, Places, Asks

-----------------------------------------------------------------------------
(* The end of the thread: all connections are as new. *)
LEMMA PanicKeeps ==
  ASSUME IInv, NEW task \in {"dispatcher", "listener", "reader", "writer"}, Panic(task),
         \/ UNCHANGED control_chan
         \/ \E kind : Receive(kind)
  PROVE  IInv'
  <1> USE DEF nodeVars
  <1>1. conns' \in [Conn -> ConnType]
    BY NewConnType DEF Panic, IInv, TypeOK, ConnType
  <1>2. control_chan' \in Seq(Signals) /\ Len(control_chan') <= Capacity
    BY ReceiveChan DEF IInv, TypeOK
  <1>3. TypeOK'
    BY <1>1, <1>2 DEF Panic, IInv, TypeOK
  <1>4. CASE UNCHANGED control_chan
    BY <1>3, <1>4, SameAttempt DEF Panic, IInv
  <1>5. ASSUME NEW kind, Receive(kind) PROVE OneAttempt'
    BY <1>5, ReceiveKeepsAttempt DEF Panic, IInv, Receive
  <1> QED
    BY <1>3, <1>4, <1>5 DEF IInv

(* main's thread. *)
LEMMA ConnectorKeeps == ASSUME IInv, AskConnect \/ ConnectorPanics PROVE IInv'
  <1> USE DEF taskVars
  <1>1. CASE AskConnect
    <2> DEFINE s == Connect(Head(known_peers))
    <2>1. Head(known_peers) \in Conn
      BY <1>1 DEF AskConnect, IInv, TypeOK
    <2>2. s \in Signals /\ s.kind = "ConnectNewPeer"
      BY <2>1 DEF Signals, Connect
    <2>3. Send(s)
      BY <1>1 DEF AskConnect
    <2>4. /\ control_chan' \in Seq(Signals) /\ Len(control_chan') <= Capacity
          /\ Len(control_chan') = Len(control_chan) + 1
          /\ \A i \in Places : control_chan'[i] = control_chan[i]
      BY <2>2, <2>3, SendChan DEF IInv
    <2>5. TypeOK'
      BY <1>1, <2>4 DEF AskConnect, IInv, TypeOK
    <2>6. dispatcher \notin Conn /\ dispatcher = "recv" /\ \A i \in Places : ~Asks(i)
      BY <1>1 DEF AskConnect, IInv, OneAttempt, TypeOK
    <2>7. \A i \in Places' : Asks(i)' => i = Len(control_chan) + 1
      BY <2>4, <2>6 DEF Places, Asks, IInv, TypeOK
    <2>8. OneAttempt'
      BY <1>1, <2>6, <2>7, PeerServerAssumption DEF OneAttempt, AskConnect
    <2> QED
      BY <2>5, <2>8 DEF IInv
  <1>2. CASE ConnectorPanics
    <2>1. TypeOK'
      BY <1>2 DEF ConnectorPanics, IInv, TypeOK
    <2>2. OneAttempt'
      BY <1>2 DEF ConnectorPanics, IInv, OneAttempt, Places, Asks
    <2> QED
      BY <2>1, <2>2 DEF IInv
  <1> QED
    BY <1>1, <1>2

(* The listener. *)
LEMMA ListenerKeeps ==
  ASSUME IInv, ListenerHandsOver \/ ListenerFails \/ \E c \in Conn : ListenerAccept(c)
  PROVE  IInv'
  <1>1. CASE ListenerHandsOver
    <2>1. NewPeer(listener) \in Signals /\ NewPeer(listener).kind # "ConnectNewPeer"
      BY <1>1 DEF ListenerHandsOver, Signals, NewPeer
    <2>2. Send(NewPeer(listener))
      BY <1>1 DEF ListenerHandsOver, HandOver
    <2>3. TypeOK'
      BY <1>1, <2>1, <2>2, SendChan DEF ListenerHandsOver, IInv, TypeOK, nodeVars
    <2>4. OneAttempt'
      BY <1>1, <2>1, <2>2, SendKeepsAttempt DEF ListenerHandsOver, nodeVars
    <2> QED
      BY <2>3, <2>4 DEF IInv
  <1>2. CASE ListenerFails
    BY <1>2, PanicKeeps DEF ListenerFails
  <1>3. ASSUME NEW c \in Conn, ListenerAccept(c) PROVE IInv'
    <2>1. conns' \in [Conn -> ConnType]
      BY <1>3, SetStream DEF ListenerAccept, IInv, TypeOK
    <2>2. TypeOK'
      BY <1>3, <2>1 DEF ListenerAccept, IInv, TypeOK, nodeVars
    <2>3. OneAttempt'
      BY <1>3, SameAttempt DEF ListenerAccept, IInv, nodeVars
    <2> QED
      BY <2>2, <2>3 DEF IInv
  <1> QED
    BY <1>1, <1>2, <1>3

-----------------------------------------------------------------------------
(* Registering a connection, and putting a message on queues. *)
LEMMA RegisterType ==
  ASSUME TypeOK, NEW c \in Conn, Register(c)
  PROVE  conns' \in [Conn -> ConnType] /\ peers' \subseteq Conn
  <1> DEFINE stream == IF conns[c].stream = "none" THEN "open" ELSE conns[c].stream
             f1 == [conns EXCEPT ![c].stream = stream]
             f2 == [f1 EXCEPT ![c].reader = "reading"]
             f3 == [f2 EXCEPT ![c].writer = "idle"]
             f4 == [f3 EXCEPT ![c].since = dispatched]
  <1>1. stream \in {"none", "open", "gone"}
    BY DEF TypeOK, ConnType
  <1>2. f1 \in [Conn -> ConnType]
    BY <1>1, SetStream DEF TypeOK
  <1>3. f2 \in [Conn -> ConnType]
    BY <1>2, SetReader
  <1>4. f3 \in [Conn -> ConnType]
    BY <1>3, SetWriter
  <1>5. f4 \in [Conn -> ConnType]
    BY <1>4, SetCounts DEF TypeOK
  <1>6. conns' = f4
    BY DEF Register, TypeOK
  <1> QED
    BY <1>5, <1>6 DEF Register, TypeOK

LEMMA PushType ==
  ASSUME TypeOK, NEW to, NEW msg \in Nat
  PROVE  Push(to, msg) \in [Conn -> ConnType]
  <1>1. ASSUME NEW c \in Conn
        PROVE  [conns[c] EXCEPT !.queue = Append(@, msg)] \in ConnType
    <2>1. conns[c] \in ConnType /\ Append(conns[c].queue, msg) \in Seq(Nat)
      BY DEF TypeOK, ConnType
    <2> QED
      BY <2>1 DEF ConnType
  <1> QED
    BY <1>1 DEF Push, TypeOK

(* The dispatcher. *)
LEMMA DispatcherKeeps ==
  ASSUME IInv, ConnectSucceeds \/ ConnectFails \/ Dispatch
  PROVE  IInv'
  <1> USE DEF nodeVars
  <1>1. CASE ConnectSucceeds
    <2>1. dispatcher \in Conn /\ connector = "wait" /\ known_peers # <<>>
      BY <1>1 DEF ConnectSucceeds, IInv, OneAttempt
    <2>2. Tail(known_peers) \in Seq(Conn)
      BY <2>1 DEF IInv, TypeOK
    <2>3. conns' \in [Conn -> ConnType] /\ peers' \subseteq Conn
      BY <1>1, <2>1, RegisterType DEF ConnectSucceeds, IInv
    <2>4. TypeOK'
      BY <1>1, <2>2, <2>3 DEF ConnectSucceeds, IInv, TypeOK
    <2>5. \A i \in Places : ~Asks(i)
      BY <2>1, PeerServerAssumption DEF IInv, OneAttempt
    <2>6. OneAttempt'
      BY <1>1, <2>5, PeerServerAssumption DEF ConnectSucceeds, OneAttempt, Places, Asks
    <2> QED
      BY <2>4, <2>6 DEF IInv
  <1>2. CASE ConnectFails
    <2>1. TypeOK'
      BY <1>2 DEF ConnectFails, IInv, TypeOK
    <2>2. \A i \in Places : ~Asks(i)
      BY <1>2, PeerServerAssumption DEF ConnectFails, IInv, OneAttempt
    <2>3. OneAttempt'
      BY <1>2, <2>2, PeerServerAssumption DEF ConnectFails, OneAttempt, Places, Asks
    <2> QED
      BY <2>1, <2>3 DEF IInv
  <1>3. CASE DispatchConnect
    <2>1. Receive("ConnectNewPeer")
      BY <1>3 DEF DispatchConnect
    <2> HIDE DEF nodeVars
    <2>2. /\ control_chan' \in Seq(Signals) /\ Len(control_chan') <= Capacity
          /\ Len(control_chan') = Len(control_chan) - 1
          /\ \A i \in 1 .. Len(control_chan') : control_chan'[i] = control_chan[i + 1]
          /\ 1 \in Places /\ Asks(1) /\ Signal.conn \in Conn
      BY <2>1, ReceiveChan, SignalFields DEF IInv, Asks
    <2>3. TypeOK'
      BY <1>3, <2>2 DEF DispatchConnect, IInv, TypeOK, nodeVars
    <2>4. connector = "wait" /\ known_peers # <<>>
      BY <2>2 DEF IInv, OneAttempt
    <2>5. \A i \in Places' : i + 1 \in Places /\ i + 1 # 1 /\ (Asks(i)' => Asks(i + 1))
      BY <2>2 DEF Places, IInv, TypeOK, Asks
    <2>6. \A i \in Places' : ~Asks(i)'
      BY <2>2, <2>5 DEF IInv, OneAttempt
    <2>7. OneAttempt'
      BY <1>3, <2>4, <2>6 DEF DispatchConnect, OneAttempt, nodeVars
    <2> QED
      BY <2>3, <2>7 DEF IInv
  <1>4. CASE DispatchBroadcast
    <2>1. Receive("BroadcastMessage")
      BY <1>4 DEF DispatchBroadcast
    <2>2. Signal.msg \in Nat
      BY <2>1, ReceiveChan, SignalFields DEF IInv
    <2>3. conns' \in [Conn -> ConnType]
      BY <1>4, <2>2, PushType DEF DispatchBroadcast, IInv
    <2>4. TypeOK'
      BY <1>4, <2>1, <2>3, ReceiveChan DEF DispatchBroadcast, IInv, TypeOK
    <2>5. OneAttempt'
      BY <1>4, <2>1, ReceiveKeepsAttempt DEF DispatchBroadcast
    <2> QED
      BY <2>4, <2>5 DEF IInv
  <1>5. CASE DispatchNewPeer
    <2>1. Receive("GetNewPeer")
      BY <1>5 DEF DispatchNewPeer
    <2>2. Signal.conn \in Conn
      BY <2>1, ReceiveChan, SignalFields DEF IInv
    <2>3. conns' \in [Conn -> ConnType] /\ peers' \subseteq Conn
      BY <1>5, <2>2, RegisterType DEF DispatchNewPeer, IInv
    <2>4. TypeOK'
      BY <1>5, <2>1, <2>3, ReceiveChan DEF DispatchNewPeer, IInv, TypeOK
    <2>5. OneAttempt'
      BY <1>5, <2>1, ReceiveKeepsAttempt DEF DispatchNewPeer
    <2> QED
      BY <2>4, <2>5 DEF IInv
  <1>6. CASE DispatchNewPeerFails
    BY <1>6, PanicKeeps DEF DispatchNewPeerFails
  <1>7. CASE DispatchDropped
    <2>1. Receive("DroppedPeer")
      BY <1>7 DEF DispatchDropped
    <2>2. TypeOK'
      BY <1>7, <2>1, ReceiveChan DEF DispatchDropped, Without, IInv, TypeOK
    <2>3. OneAttempt'
      BY <1>7, <2>1, ReceiveKeepsAttempt DEF DispatchDropped
    <2> QED
      BY <2>2, <2>3 DEF IInv
  <1> QED
    BY <1>1, <1>2, <1>3, <1>4, <1>5, <1>6, <1>7 DEF Dispatch

-----------------------------------------------------------------------------
(* The tasks of a connection, its other end, and the worker it is read by. *)
TaskStep(c) ==
    \/ PeerCloses(c)
    \/ ReaderReads(c) \/ ReaderPanics(c) \/ ReaderEnds(c)
    \/ WriterTakes(c) \/ WriteEnds(c) \/ WriterReports(c) \/ WriterPanics(c)
    \/ WorkerHandles(c)

(* A step that changes the connections only. *)
LEMMA ConnsOnly ==
  ASSUME IInv, conns' \in [Conn -> ConnType],
         UNCHANGED <<taskVars, reactor, control_chan, nodeVars>>
  PROVE  IInv'
  <1>1. TypeOK'
    BY DEF IInv, TypeOK, taskVars, nodeVars
  <1>2. OneAttempt'
    BY SameAttempt DEF IInv, taskVars, nodeVars
  <1> QED
    BY <1>1, <1>2 DEF IInv

LEMMA TasksKeep == ASSUME IInv, NEW c \in Conn, TaskStep(c) PROVE IInv'
  <1>0. /\ conns \in [Conn -> ConnType]
        /\ conns[c] \in ConnType
    BY DEF IInv, TypeOK
  <1>1. CASE PeerCloses(c)
    <2>1. conns' \in [Conn -> ConnType]
      BY <1>0, <1>1 DEF PeerCloses, ConnType
    <2> QED
      BY <1>1, <2>1, ConnsOnly DEF PeerCloses
  <1>2. CASE ReaderReads(c)
    <2>1. conns' \in [Conn -> ConnType]
      BY <1>0, <1>2 DEF ReaderReads, ConnType
    <2> QED
      BY <1>2, <2>1, ConnsOnly DEF ReaderReads
  <1>3. CASE ReaderPanics(c)
    BY <1>3, PanicKeeps DEF ReaderPanics
  <1>4. CASE ReaderEnds(c)
    <2>1. conns' \in [Conn -> ConnType]
      BY <1>0, <1>4 DEF ReaderEnds, ConnType
    <2> QED
      BY <1>4, <2>1, ConnsOnly DEF ReaderEnds
  <1>5. CASE WriterTakes(c)
    <2> DEFINE msg == Head(conns[c].queue)
    <2>1. /\ msg \in Nat /\ Tail(conns[c].queue) \in Seq(Nat)
          /\ conns[c].written \in Seq(Nat \ {0})
      BY <1>0, <1>5 DEF WriterTakes, ConnType
    <2>2. (IF msg = 0 THEN conns[c].written ELSE Append(conns[c].written, msg))
              \in Seq(Nat \ {0})
      BY <2>1
    <2> HIDE DEF msg
    <2>3. conns' \in [Conn -> ConnType]
      BY <1>0, <1>5, <2>1, <2>2 DEF WriterTakes, ConnType, msg
    <2> QED
      BY <1>5, <2>3, ConnsOnly DEF WriterTakes
  <1>6. CASE WriteEnds(c)
    <2>1. conns' \in [Conn -> ConnType]
      <3>1. PICK w \in {"idle", "failed"} : conns' = [conns EXCEPT ![c].writer = w]
        BY <1>6 DEF WriteEnds
      <3> QED
        BY <1>0, <3>1, SetWriter
    <2> QED
      BY <1>6, <2>1, ConnsOnly DEF WriteEnds
  <1>7. CASE WriterReports(c)
    <2> DEFINE s == Dropped(conns[c].addr)
    <2>1. s \in Signals /\ s.kind # "ConnectNewPeer"
      BY <1>0 DEF Signals, Dropped, ConnType
    <2>2. Send(s)
      BY <1>7 DEF WriterReports, Report
    <2> HIDE DEF s
    <2>3. conns' \in [Conn -> ConnType]
      <3> DEFINE one == [conns EXCEPT ![c].writer = "ended"]
      <3>1. one \in [Conn -> ConnType]
        BY <1>0, SetWriter
      <3>2. conns' = [one EXCEPT ![c].queue = <<>>]
        BY <1>0, <1>7 DEF WriterReports
      <3>3. <<>> \in Seq(Nat)
        OBVIOUS
      <3> HIDE DEF one
      <3> QED
        BY <3>1, <3>2, <3>3, SetQueue
    <2>4. TypeOK'
      BY <1>7, <2>1, <2>2, <2>3, SendChan
      DEF WriterReports, IInv, TypeOK, taskVars, nodeVars
    <2>5. OneAttempt'
      BY <1>7, <2>1, <2>2, SendKeepsAttempt DEF WriterReports, taskVars, nodeVars
    <2> QED
      BY <2>4, <2>5 DEF IInv
  <1>8. CASE WriterPanics(c)
    BY <1>8, PanicKeeps DEF WriterPanics
  <1>9. CASE WorkerHandles(c)
    <2>1. PICK answered \in BOOLEAN :
            conns' = [(IF answered THEN Push({c}, 0) ELSE conns)
                        EXCEPT ![c].held = @ - 1]
      BY <1>9 DEF WorkerHandles
    <2> DEFINE old == IF answered THEN Push({c}, 0) ELSE conns
    <2>2. old \in [Conn -> ConnType]
      BY <1>0, PushType DEF IInv
    <2>3. old[c].held = conns[c].held
      BY <1>0 DEF Push, ConnType
    <2>4. conns[c].held \in Nat /\ conns[c].held > 0
      BY <1>0, <1>9 DEF WorkerHandles, ConnType
    <2>5. conns' = [old EXCEPT ![c].held = @ - 1]
      BY <2>1
    <2> HIDE DEF old
    <2>6. conns' \in [Conn -> ConnType]
      <3> DEFINE n == old[c].held - 1
      <3>1. n \in Nat
        BY <2>3, <2>4
      <3>2. conns' = [old EXCEPT ![c].held = n]
        BY <2>2, <2>5
      <3> HIDE DEF n
      <3> QED
        BY <2>2, <3>1, <3>2, SetCounts
    <2> QED
      BY <1>9, <2>6, ConnsOnly DEF WorkerHandles
  <1> QED
    BY <1>1, <1>2, <1>3, <1>4, <1>5, <1>6, <1>7, <1>8, <1>9 DEF TaskStep

(* The threads that broadcast. *)
LEMMA ThreadsKeep ==
  ASSUME IInv, NEW t \in Thread, BroadcastCall(t) \/ BroadcastSend(t) \/ BroadcastPanics(t)
  PROVE  IInv'
  <1> USE DEF taskVars
  <1>1. CASE BroadcastCall(t) \/ BroadcastPanics(t)
    <2>1. TypeOK'
      BY <1>1 DEF BroadcastCall, BroadcastPanics, IInv, TypeOK
    <2>2. OneAttempt'
      BY <1>1, SameAttempt DEF BroadcastCall, BroadcastPanics, IInv
    <2> QED
      BY <2>1, <2>2 DEF IInv
  <1>2. CASE BroadcastSend(t)
    <2> DEFINE s == Broadcast(made + 1)
    <2>1. s \in Signals /\ s.kind # "ConnectNewPeer"
      <3>1. made + 1 \in Nat \ {0}
        BY DEF IInv, TypeOK
      <3> QED
        BY <3>1 DEF Signals, Broadcast
    <2>2. Send(s)
      BY <1>2 DEF BroadcastSend
    <2> HIDE DEF s
    <2>3. TypeOK'
      BY <1>2, <2>1, <2>2, SendChan DEF BroadcastSend, IInv, TypeOK
    <2>4. OneAttempt'
      BY <1>2, <2>1, <2>2, SendKeepsAttempt DEF BroadcastSend
    <2> QED
      BY <2>3, <2>4 DEF IInv
  <1> QED
    BY <1>1, <1>2

(* Every step keeps the invariant. *)
LEMMA NextIInv == IInv /\ [Next]_serverVars => IInv'
  <1>1. ASSUME IInv, UNCHANGED serverVars PROVE IInv'
    BY <1>1, ConnsOnly DEF serverVars, IInv, TypeOK
  <1> QED
    BY <1>1, ConnectorKeeps, ListenerKeeps, DispatcherKeeps, TasksKeep, ThreadsKeep
    DEF Next, TaskStep

(* The invariant holds in every reachable state. *)
THEOREM Invariance == Spec => []IInv
  BY InitIInv, NextIInv, PTL DEF Spec

-----------------------------------------------------------------------------
(* Every variable keeps its type, and the control channel never holds more     *)
(* signals than its capacity (server.rs:20).                                   *)
THEOREM PeerServer_TypeCorrect == Spec => []TypeOK
  BY Invariance, PTL DEF IInv

(* main.rs:105-123: main asks for the next known peer only when the last one   *)
(* is connected or refused: no more than one request is in the channel, none   *)
(* while the dispatcher connects, and the peer it connects is still wanted.    *)
THEOREM One_Attempt == Spec => []OneAttempt
  BY Invariance, PTL DEF IInv

-----------------------------------------------------------------------------
(* The life of a connection.  One that is not registered yet has no tasks and *)
(* no messages; main connects to each of its peers once, the listener hands   *)
(* over each connection it accepts once, and the two never have the same; the *)
(* end of the thread leaves no connection.                                    *)
Accepted(i) == control_chan[i].kind = "GetNewPeer"

Fresh(k) == k.writer = "none" /\ k.queue = <<>> /\ k.written = <<>> /\ k.held = 0

Unregistered ==
    \A c \in Conn :
        /\ conns[c].reader = "none" => Fresh(conns[c])
        /\ conns[c].stream = "none" => conns[c].reader = "none"
        /\ ~Up => conns[c].reader = "none"

ToConnect ==
    /\ \A i, j \in 1 .. Len(known_peers) : known_peers[i] = known_peers[j] => i = j
    /\ \A i \in 1 .. Len(known_peers) : conns[known_peers[i]].stream = "none"
    /\ \A i \in Places : Asks(i) => control_chan[i].conn = Head(known_peers)
    /\ dispatcher \in Conn => dispatcher = Head(known_peers)

ToAccept ==
    /\ listener \in Conn => conns[listener].stream # "none" /\ conns[listener].reader = "none"
    /\ Up => \A i \in Places : Accepted(i) =>
                /\ conns[control_chan[i].conn].stream # "none"
                /\ conns[control_chan[i].conn].reader = "none"
                /\ control_chan[i].conn # listener
    /\ Up => \A i, j \in Places :
                Accepted(i) /\ Accepted(j) /\ control_chan[i].conn = control_chan[j].conn => i = j

Lives == Unregistered /\ ToConnect /\ ToAccept

LEMMA InitLives == Init => Lives
  <1> SUFFICES ASSUME Init PROVE Lives
    OBVIOUS
  <1>1. PICK s \in Setup : /\ conns = [c \in Conn |-> NewConn(s.addr[c])]
                           /\ known_peers = s.known
    BY DEF Init
  <1>2. \A c \in Conn : /\ conns[c].reader = "none" /\ conns[c].stream = "none"
                        /\ Fresh(conns[c])
    BY <1>1 DEF NewConn, Fresh
  <1>3. \A i, j \in 1 .. Len(known_peers) : known_peers[i] = known_peers[j] => i = j
    BY <1>1, PeerServerAssumption DEF IsInjective
  <1>4. \A i \in 1 .. Len(known_peers) : known_peers[i] \in Conn
    BY <1>1, PeerServerAssumption
  <1>5. Places = {} /\ listener \notin Conn /\ dispatcher \notin Conn
    BY PeerServerAssumption DEF Init, Places
  <1> QED
    BY <1>2, <1>3, <1>4, <1>5 DEF Lives, Unregistered, ToConnect, ToAccept

(* What registering a connection, and the end of the thread, do to connections. *)
LEMMA RegisterFields ==
  ASSUME TypeOK, NEW c \in Conn, Register(c)
  PROVE  /\ \A d \in Conn : d # c => conns'[d] = conns[d]
         /\ conns'[c].addr = conns[c].addr /\ conns'[c].stream # "none"
         /\ conns'[c].reader = "reading" /\ conns'[c].writer = "idle"
         /\ conns'[c].since = dispatched
         /\ conns'[c].queue = conns[c].queue /\ conns'[c].written = conns[c].written
         /\ peers' = (peers \ SameAddr(c)) \cup {c}
  BY DEF Register, TypeOK, ConnType

LEMMA PanicFields ==
  ASSUME TypeOK, NEW task, task # "up", Panic(task)
  PROVE  /\ ~Up' /\ peers' = {} /\ dispatcher' = "recv" /\ listener' = "accept"
         /\ dispatched' = 0 /\ UNCHANGED <<known_peers, connector, bpc, made>>
         /\ \A c \in Conn : /\ conns'[c].addr = conns[c].addr /\ conns'[c].since = 0
                            /\ conns'[c].stream = "none" /\ conns'[c].reader = "none"
                            /\ Fresh(conns'[c])
  BY DEF Panic, Up, NewConn, Fresh, nodeVars

(* Steps at which nothing is registered, connected or accepted. *)
LEMMA LivesFrame ==
  ASSUME IInv, Lives, UNCHANGED <<known_peers, dispatcher, listener, reactor>>,
         \A d \in Conn : /\ conns'[d].reader = "none" <=> conns[d].reader = "none"
                         /\ conns'[d].stream = "none" <=> conns[d].stream = "none"
                         /\ conns[d].reader = "none" => Fresh(conns'[d]),
         \/ UNCHANGED control_chan
         \/ \E s \in Signals : Send(s) /\ s.kind \notin {"ConnectNewPeer", "GetNewPeer"}
         \/ \E kind : Receive(kind)
  PROVE  Lives'
  <1>1. Unregistered'
    BY DEF Lives, Unregistered, Up
  <1>2. \E shift \in {0, 1} : \A i \in Places' : Asks(i)' \/ Accepted(i)' =>
            i + shift \in Places /\ control_chan'[i] = control_chan[i + shift]
    <2>1. CASE UNCHANGED control_chan
      BY <2>1 DEF Places, IInv, TypeOK
    <2>2. CASE \E s \in Signals : Send(s) /\ s.kind \notin {"ConnectNewPeer", "GetNewPeer"}
      <3>1. PICK s \in Signals : Send(s) /\ s.kind \notin {"ConnectNewPeer", "GetNewPeer"}
        BY <2>2
      <3>2. \A i \in Places' : \/ i \in Places /\ control_chan'[i] = control_chan[i]
                               \/ control_chan'[i] = s
        BY <3>1, SendChan DEF Places, IInv, TypeOK
      <3>3. \A i \in Places : i + 0 = i
        BY DEF Places
      <3> QED
        BY <3>1, <3>2, <3>3 DEF Asks, Accepted
    <2>3. CASE \E kind : Receive(kind)
      BY <2>3, ReceiveChan DEF Places, IInv, TypeOK
    <2> QED
      BY <2>1, <2>2, <2>3
  <1>3. PICK shift \in {0, 1} : \A i \in Places' : Asks(i)' \/ Accepted(i)' =>
            i + shift \in Places /\ control_chan'[i] = control_chan[i + shift]
    BY <1>2
  <1>4. \A i \in Places' : /\ Asks(i)' => Asks(i + shift)
                           /\ Accepted(i)' => Accepted(i + shift)
    BY <1>3 DEF Asks, Accepted
  <1>5. \A i \in 1 .. Len(known_peers) : known_peers[i] \in Conn
    BY DEF IInv, TypeOK
  <1>6. \A i \in Places : Accepted(i) => control_chan[i].conn \in Conn
    BY SignalFields DEF IInv, TypeOK, Places, Accepted
  <1>7. ToConnect'
    BY <1>3, <1>4, <1>5 DEF Lives, ToConnect
  <1>8. \A i, j \in Places' : i + shift = j + shift => i = j
    BY DEF Places, IInv, TypeOK
  <1>9. ToAccept'
    BY <1>3, <1>4, <1>6, <1>8 DEF Lives, ToAccept, Up
  <1> QED
    BY <1>1, <1>7, <1>9 DEF Lives

LEMMA LivesPanic ==
  ASSUME IInv, Lives, NEW task, task # "up", Panic(task),
         UNCHANGED control_chan \/ \E kind : Receive(kind)
  PROVE  Lives'
  <1>1. Unregistered'
    BY PanicFields DEF IInv, Unregistered
  <1>2. ToAccept'
    BY PanicFields, PeerServerAssumption DEF IInv, ToAccept
  <1>3. \A i \in Places' : Asks(i)' => \E j \in Places : control_chan'[i] = control_chan[j]
    <2>1. CASE UNCHANGED control_chan
      BY <2>1 DEF Places
    <2>2. ASSUME NEW kind, Receive(kind)
          PROVE  \A i \in Places' : i + 1 \in Places /\ control_chan'[i] = control_chan[i + 1]
      BY <2>2, ReceiveChan DEF Places, IInv, TypeOK
    <2> QED
      BY <2>1, <2>2
  <1>4. \A i \in 1 .. Len(known_peers) : known_peers[i] \in Conn
    BY DEF IInv, TypeOK
  <1>5. ToConnect'
    BY <1>3, <1>4, PanicFields, PeerServerAssumption DEF IInv, Lives, ToConnect, Asks
  <1> QED
    BY <1>1, <1>2, <1>5 DEF Lives

(* A connection that is registered is a new one. *)
LEMMA LivesRegister ==
  ASSUME IInv, Lives, Up, UNCHANGED reactor, NEW c \in Conn, Register(c), conns[c].reader = "none",
         \/ /\ conns[c].stream = "none" /\ known_peers # <<>> /\ c = Head(known_peers)
            /\ known_peers' = Tail(known_peers) /\ dispatcher' = "recv" /\ listener' = listener
            /\ UNCHANGED control_chan /\ \A i \in Places : ~Asks(i)
         \/ /\ Receive("GetNewPeer") /\ c = Signal.conn
            /\ UNCHANGED <<known_peers, dispatcher, listener>>
  PROVE  Lives'
  <1> USE RegisterFields
  <1>0. TypeOK
    BY DEF IInv
  <1>1. Unregistered'
    <2>1. /\ conns'[c].reader = "reading" /\ conns'[c].stream # "none"
          /\ \A d \in Conn : d # c => conns'[d] = conns[d]
      BY <1>0
    <2> QED
      BY <2>1 DEF Lives, Unregistered, Up
  <1>2. CASE /\ conns[c].stream = "none" /\ known_peers # <<>> /\ c = Head(known_peers)
             /\ known_peers' = Tail(known_peers) /\ dispatcher' = "recv" /\ listener' = listener
             /\ UNCHANGED control_chan /\ \A i \in Places : ~Asks(i)
    <2>1. /\ known_peers' \in Seq(Conn) /\ Len(known_peers') = Len(known_peers) - 1
          /\ \A i \in 1 .. Len(known_peers') : known_peers'[i] = known_peers[i + 1]
          /\ 1 \in 1 .. Len(known_peers) /\ c = known_peers[1]
          /\ \A i \in 1 .. Len(known_peers') : i + 1 \in 1 .. Len(known_peers) /\ i + 1 # 1
          /\ \A i, j \in 1 .. Len(known_peers') : i + 1 = j + 1 => i = j
      BY <1>2 DEF IInv, TypeOK
    <2>2. ToConnect'
      <3>1. \A i, j \in 1 .. Len(known_peers') : known_peers'[i] = known_peers'[j] => i = j
        BY <2>1 DEF Lives, ToConnect
      <3>2. \A i \in 1 .. Len(known_peers') : conns'[known_peers'[i]].stream = "none"
        <4> SUFFICES ASSUME NEW i \in 1 .. Len(known_peers')
                     PROVE  conns'[known_peers'[i]].stream = "none"
          OBVIOUS
        <4>1. known_peers[i + 1] # c /\ known_peers[i + 1] \in Conn
              /\ conns[known_peers[i + 1]].stream = "none"
          BY <2>1 DEF Lives, ToConnect, IInv, TypeOK
        <4> QED
          BY <1>0, <2>1, <4>1
      <3>3. \A i \in Places' : ~Asks(i)'
        BY <1>2 DEF Places, Asks
      <3> QED
        BY <1>2, <3>1, <3>2, <3>3, PeerServerAssumption DEF ToConnect
    <2>3. listener # c
      BY <1>2 DEF Lives, ToAccept
    <2>4. \A i \in Places : Accepted(i) => control_chan[i].conn # c
      BY <1>2 DEF Lives, ToAccept
    <2>5. \A i \in Places : Accepted(i) => control_chan[i].conn \in Conn
      BY SignalFields DEF IInv, TypeOK, Places, Accepted
    <2>6. ToAccept'
      BY <1>0, <1>2, <2>3, <2>4, <2>5 DEF Lives, ToAccept, Places, Accepted, Up
    <2> QED
      BY <1>1, <2>2, <2>6 DEF Lives
  <1>3. CASE /\ Receive("GetNewPeer") /\ c = Signal.conn
             /\ UNCHANGED <<known_peers, dispatcher, listener>>
    <2>1. /\ Len(control_chan') = Len(control_chan) - 1
          /\ \A i \in Places' : i + 1 \in Places /\ control_chan'[i] = control_chan[i + 1]
          /\ 1 \in Places /\ Accepted(1) /\ c = control_chan[1].conn
          /\ \A i \in Places' : i + 1 # 1
          /\ \A i, j \in Places' : i + 1 = j + 1 => i = j
      BY <1>0, <1>3, ReceiveChan DEF Places, TypeOK, Accepted
    <2>2. \A i \in Places' : Accepted(i)' => Accepted(i + 1) /\ control_chan[i + 1].conn # c
      BY <2>1 DEF Lives, ToAccept, Accepted
    <2>3. \A i \in Places : Accepted(i) => control_chan[i].conn \in Conn
      BY SignalFields DEF IInv, TypeOK, Places, Accepted
    <2>4. listener # c
      BY <2>1 DEF Lives, ToAccept
    <2>5. ToAccept'
      BY <1>0, <1>3, <2>1, <2>2, <2>3, <2>4 DEF Lives, ToAccept, Up
    <2>6. conns[c].stream # "none"
      BY <2>1 DEF Lives, ToAccept
    <2>7. \A i \in 1 .. Len(known_peers) : known_peers[i] \in Conn /\ known_peers[i] # c
      BY <2>6 DEF Lives, ToConnect, IInv, TypeOK
    <2>8. ToConnect'
      BY <1>0, <1>3, <2>1, <2>7 DEF Lives, ToConnect, Asks
    <2> QED
      BY <1>1, <2>5, <2>8 DEF Lives
  <1> QED
    BY <1>2, <1>3

(* The listener and main's thread. *)
LEMMA LivesConnector == ASSUME IInv, Lives, AskConnect \/ ConnectorPanics PROVE Lives'
  <1>1. CASE AskConnect
    <2> DEFINE s == Connect(Head(known_peers))
    <2>1. Head(known_peers) \in Conn /\ s \in Signals
      BY <1>1 DEF AskConnect, IInv, TypeOK, Signals
    <2>2. s.kind = "ConnectNewPeer" /\ s.conn = Head(known_peers)
      BY DEF Connect
    <2>3. Send(s) /\ UNCHANGED <<conns, known_peers, dispatcher, listener, reactor>>
      BY <1>1 DEF AskConnect, taskVars
    <2> HIDE DEF s
    <2>4. \A i \in Places' : \/ i \in Places /\ control_chan'[i] = control_chan[i]
                             \/ control_chan'[i] = s
      BY <2>1, <2>3, SendChan DEF Places, IInv, TypeOK
    <2>5. \A i \in Places' : Accepted(i)' => i \in Places /\ Accepted(i)
                                             /\ control_chan'[i] = control_chan[i]
      BY <2>2, <2>4 DEF Accepted
    <2>6. \A i \in Places' : Asks(i)' => control_chan'[i].conn = Head(known_peers)
      BY <2>2, <2>4 DEF Asks, Lives, ToConnect
    <2> QED
      BY <2>3, <2>5, <2>6 DEF Lives, Unregistered, ToConnect, ToAccept, Up
  <1>2. CASE ConnectorPanics
    BY <1>2, LivesFrame DEF ConnectorPanics, Lives, Unregistered, taskVars
  <1> QED
    BY <1>1, <1>2

LEMMA LivesListener ==
  ASSUME IInv, Lives, ListenerHandsOver \/ ListenerFails \/ \E c \in Conn : ListenerAccept(c)
  PROVE  Lives'
  <1>1. CASE ListenerHandsOver
    <2> DEFINE s == NewPeer(listener)
    <2>1. listener \in Conn /\ s \in Signals /\ Up
      BY <1>1 DEF ListenerHandsOver, Signals
    <2>2. s.kind = "GetNewPeer" /\ s.conn = listener
      BY DEF NewPeer
    <2>3. /\ Send(s) /\ listener' = "accept"
          /\ UNCHANGED <<conns, known_peers, dispatcher, reactor>>
      BY <1>1 DEF ListenerHandsOver, HandOver, nodeVars
    <2> HIDE DEF s
    <2>4. \A i \in Places' : \/ i \in Places /\ control_chan'[i] = control_chan[i]
                             \/ i = Len(control_chan) + 1 /\ control_chan'[i] = s
      BY <2>1, <2>3, SendChan DEF Places, IInv, TypeOK
    <2>5. ToConnect'
      BY <2>2, <2>3, <2>4 DEF Asks, Lives, ToConnect
    <2>6. \A i \in Places : Accepted(i) => control_chan[i].conn \in Conn
      BY SignalFields DEF IInv, TypeOK, Places, Accepted
    <2>7. ToAccept'
      BY <2>1, <2>2, <2>3, <2>4, <2>6, PeerServerAssumption
      DEF Accepted, Lives, ToAccept, Up
    <2> QED
      BY <2>3, <2>5, <2>7 DEF Lives, Unregistered, Up
  <1>2. CASE ListenerFails
    BY <1>2, LivesPanic DEF ListenerFails
  <1>3. ASSUME NEW c \in Conn, ListenerAccept(c) PROVE Lives'
    <2>1. /\ Up /\ listener = "accept" /\ conns[c].stream = "none" /\ listener' = c
          /\ ~Contains(known_peers, c)
          /\ UNCHANGED <<control_chan, known_peers, dispatcher, reactor>>
      BY <1>3 DEF ListenerAccept, nodeVars
    <2>2. /\ \A d \in Conn : d # c => conns'[d] = conns[d]
          /\ conns'[c].stream = "open" /\ conns'[c].reader = conns[c].reader
          /\ Fresh(conns[c]) => Fresh(conns'[c])
      BY <1>3 DEF ListenerAccept, IInv, TypeOK, ConnType, Fresh
    <2>3. conns[c].reader = "none" /\ Fresh(conns[c])
      BY <2>1 DEF Lives, Unregistered
    <2>4. Unregistered'
      BY <2>1, <2>2, <2>3 DEF Lives, Unregistered, Up
    <2>5. \A i \in 1 .. Len(known_peers) : known_peers[i] \in Conn /\ known_peers[i] # c
      BY <2>1 DEF Contains, IInv, TypeOK
    <2>6. ToConnect'
      BY <2>1, <2>2, <2>5 DEF Lives, ToConnect, Places, Asks
    <2>7. \A i \in Places : Accepted(i) => control_chan[i].conn \in Conn \ {c}
      BY <2>1, SignalFields DEF IInv, TypeOK, Places, Accepted, Lives, ToAccept
    <2>8. ToAccept'
      BY <2>1, <2>2, <2>3, <2>7 DEF Lives, ToAccept, Places, Accepted, Up
    <2> QED
      BY <2>4, <2>6, <2>8 DEF Lives
  <1> QED
    BY <1>1, <1>2, <1>3

(* Queueing a message for peers changes their queues only. *)
LEMMA PushFields ==
  ASSUME TypeOK, NEW to, NEW msg \in Nat
  PROVE  /\ Push(to, msg) \in [Conn -> ConnType]
         /\ \A d \in Conn :
              LET k == Push(to, msg)[d]
              IN  /\ k.addr = conns[d].addr /\ k.stream = conns[d].stream
                  /\ k.reader = conns[d].reader /\ k.writer = conns[d].writer
                  /\ k.held = conns[d].held /\ k.read = conns[d].read
                  /\ k.written = conns[d].written /\ k.since = conns[d].since
                  /\ k.queue = IF d \in to /\ conns[d].writer # "ended"
                               THEN Append(conns[d].queue, msg) ELSE conns[d].queue
  <1>1. Push(to, msg) \in [Conn -> ConnType]
    BY PushType
  <1>2. ASSUME NEW d \in Conn
        PROVE  LET k == Push(to, msg)[d]
               IN  /\ k.addr = conns[d].addr /\ k.stream = conns[d].stream
                   /\ k.reader = conns[d].reader /\ k.writer = conns[d].writer
                   /\ k.held = conns[d].held /\ k.read = conns[d].read
                   /\ k.written = conns[d].written /\ k.since = conns[d].since
                   /\ k.queue = IF d \in to /\ conns[d].writer # "ended"
                                THEN Append(conns[d].queue, msg) ELSE conns[d].queue
    <2>1. conns[d] \in ConnType
      BY DEF TypeOK
    <2>2. Push(to, msg)[d] = IF d \in to /\ conns[d].writer # "ended"
                             THEN [conns[d] EXCEPT !.queue = Append(@, msg)] ELSE conns[d]
      BY DEF Push
    <2> QED
      BY <2>1, <2>2 DEF ConnType
  <1> QED
    BY <1>1, <1>2

(* Only a registered connection is in peers. *)
PeersRegistered == \A c \in peers : conns[c].reader # "none"

LEMMA InitPeersRegistered == Init => PeersRegistered
  BY DEF Init, PeersRegistered

(* The dispatcher. *)
LEMMA LivesDispatcher ==
  ASSUME IInv, Lives, PeersRegistered, ConnectSucceeds \/ ConnectFails \/ Dispatch
  PROVE  Lives' /\ PeersRegistered'
  <1>0. TypeOK
    BY DEF IInv
  <1>1. ASSUME NEW c \in Conn, Register(c) PROVE PeersRegistered'
    <2>1. /\ conns'[c].reader = "reading" /\ \A d \in Conn : d # c => conns'[d] = conns[d]
          /\ peers' \subseteq peers \cup {c}
      BY <1>0, <1>1, RegisterFields
    <2> QED
      BY <1>0, <2>1 DEF PeersRegistered, TypeOK
  <1>2. CASE ConnectSucceeds
    <2>1. /\ dispatcher \in Conn /\ dispatcher = Head(known_peers) /\ known_peers # <<>>
          /\ conns[dispatcher].stream = "none" /\ conns[dispatcher].reader = "none"
          /\ \A i \in Places : ~Asks(i)
      <3>1. dispatcher \in Conn /\ known_peers # <<>> /\ dispatcher # "recv"
        BY <1>2, PeerServerAssumption DEF ConnectSucceeds, IInv, OneAttempt
      <3>2. Head(known_peers) = known_peers[1] /\ 1 \in 1 .. Len(known_peers)
        BY <3>1 DEF IInv, TypeOK
      <3> QED
        BY <3>1, <3>2 DEF IInv, OneAttempt, Lives, ToConnect, Unregistered
    <2>2. Register(dispatcher) /\ Up /\ UNCHANGED <<reactor, listener, control_chan>>
          /\ dispatcher' = "recv" /\ known_peers' = Tail(known_peers)
      BY <1>2 DEF ConnectSucceeds
    <2> QED
      BY <1>1, <2>1, <2>2, LivesRegister
  <1>3. CASE ConnectFails
    <2>1. \A i \in Places : ~Asks(i)
      BY <1>3, PeerServerAssumption DEF ConnectFails, IInv, OneAttempt
    <2>2. Lives'
      BY <1>3, <2>1, PeerServerAssumption
      DEF ConnectFails, Lives, Unregistered, ToConnect, ToAccept, Up, Places, Asks, Accepted
    <2> QED
      BY <1>3, <2>2 DEF ConnectFails, PeersRegistered
  <1>4. CASE DispatchConnect
    <2>1. /\ Receive("ConnectNewPeer") /\ dispatcher' = Signal.conn
          /\ UNCHANGED <<conns, peers, listener, reactor, known_peers>>
      BY <1>4 DEF DispatchConnect, nodeVars
    <2>2. /\ \A i \in Places' : i + 1 \in Places /\ control_chan'[i] = control_chan[i + 1]
          /\ 1 \in Places /\ Asks(1) /\ Signal = control_chan[1]
          /\ \A i, j \in Places' : i + 1 = j + 1 => i = j
      BY <1>0, <2>1, ReceiveChan DEF Places, Asks, TypeOK
    <2>3. ToConnect'
      BY <2>1, <2>2 DEF Lives, ToConnect, Asks
    <2>4. ToAccept'
      BY <2>1, <2>2 DEF Lives, ToAccept, Accepted, Up
    <2> QED
      BY <2>1, <2>3, <2>4 DEF Lives, Unregistered, PeersRegistered, Up
  <1>5. CASE DispatchBroadcast
    <2>1. Receive("BroadcastMessage") /\ conns' = Push(peers, Signal.msg) /\ Signal.msg \in Nat
          /\ UNCHANGED <<peers, dispatcher, listener, reactor, known_peers>>
      BY <1>0, <1>5, ReceiveChan, SignalFields DEF DispatchBroadcast, nodeVars
    <2>2. \A d \in Conn : /\ conns'[d].reader = conns[d].reader
                          /\ conns'[d].stream = conns[d].stream
                          /\ d \notin peers /\ Fresh(conns[d]) => Fresh(conns'[d])
      BY <1>0, <2>1, PushFields DEF Fresh
    <2>3. \A d \in Conn : conns[d].reader = "none" => d \notin peers /\ Fresh(conns[d])
      BY DEF Lives, Unregistered, PeersRegistered
    <2>4. Lives'
      BY <2>1, <2>2, <2>3, LivesFrame
    <2> QED
      BY <1>0, <2>1, <2>2, <2>4 DEF PeersRegistered, TypeOK
  <1>6. CASE DispatchNewPeer
    <2>1. /\ Receive("GetNewPeer") /\ Register(Signal.conn) /\ Up
          /\ UNCHANGED <<reactor, known_peers, dispatcher, listener>>
      BY <1>6 DEF DispatchNewPeer, Receive, nodeVars
    <2>2. Signal.conn \in Conn /\ conns[Signal.conn].reader = "none"
      BY <1>0, <2>1, ReceiveChan, SignalFields DEF Lives, ToAccept, Accepted
    <2> QED
      BY <1>1, <2>1, <2>2, LivesRegister
  <1>7. CASE DispatchNewPeerFails
    <2>1. Panic("dispatcher") /\ \E kind : Receive(kind)
      BY <1>7 DEF DispatchNewPeerFails
    <2> QED
      BY <1>0, <2>1, LivesPanic, PanicFields DEF PeersRegistered
  <1>8. CASE DispatchDropped
    <2>1. Receive("DroppedPeer") /\ UNCHANGED <<conns, dispatcher, listener, reactor, known_peers>>
          /\ peers' \subseteq peers
      BY <1>8 DEF DispatchDropped, Without, nodeVars
    <2>2. Lives'
      BY <2>1, LivesFrame DEF Lives, Unregistered
    <2> QED
      BY <2>1, <2>2 DEF PeersRegistered
  <1> QED
    BY <1>2, <1>3, <1>4, <1>5, <1>6, <1>7, <1>8 DEF Dispatch

(* The tasks of a connection, as long as none panics, and what each changes of *)
(* the connections.                                                            *)
Works(c) ==
    \/ PeerCloses(c) \/ ReaderReads(c) \/ ReaderEnds(c)
    \/ WriterTakes(c) \/ WriteEnds(c) \/ WriterReports(c) \/ WorkerHandles(c)

LEMMA TaskFields ==
  ASSUME TypeOK, NEW c \in Conn
  PROVE  /\ Works(c) =>
              /\ \A d \in Conn : d # c => conns'[d] = conns[d]
              /\ conns'[c].addr = conns[c].addr /\ conns'[c].since = conns[c].since
              /\ conns'[c].reader = "none" <=> conns[c].reader = "none"
              /\ conns'[c].stream = "none" <=> conns[c].stream = "none"
              /\ UNCHANGED <<taskVars, reactor, nodeVars>>
         /\ PeerCloses(c) \/ ReaderReads(c) \/ ReaderEnds(c) =>
              /\ conns'[c].writer = conns[c].writer /\ conns'[c].queue = conns[c].queue
              /\ conns'[c].written = conns[c].written
              /\ UNCHANGED control_chan
         /\ WriterTakes(c) =>
              /\ conns[c].writer = "idle" /\ conns'[c].writer = "writing"
              /\ conns[c].queue # <<>> /\ conns'[c].queue = Tail(conns[c].queue)
              /\ conns'[c].written = IF Head(conns[c].queue) = 0 THEN conns[c].written
                                     ELSE Append(conns[c].written, Head(conns[c].queue))
              /\ UNCHANGED control_chan
         /\ WriteEnds(c) =>
              /\ conns[c].writer = "writing" /\ conns'[c].writer \in {"idle", "failed"}
              /\ conns'[c].queue = conns[c].queue /\ conns'[c].written = conns[c].written
              /\ UNCHANGED control_chan
         /\ WriterReports(c) =>
              /\ conns[c].writer = "failed" /\ conns'[c].writer = "ended"
              /\ conns'[c].queue = <<>> /\ conns'[c].written = conns[c].written
              /\ Send(Dropped(conns[c].addr)) /\ Dropped(conns[c].addr) \in Signals
         /\ WorkerHandles(c) =>
              /\ conns[c].held > 0
              /\ conns'[c].writer = conns[c].writer /\ conns'[c].written = conns[c].written
              /\ conns'[c].queue \in {conns[c].queue, Append(conns[c].queue, 0)}
              /\ UNCHANGED control_chan
  <1>0. conns \in [Conn -> ConnType] /\ conns[c] \in ConnType
    BY DEF TypeOK
  <1> DEFINE Same(f) ==
               /\ \A d \in Conn : d # c => f[d] = conns[d]
               /\ f[c].addr = conns[c].addr /\ f[c].since = conns[c].since
               /\ f[c].reader = "none" <=> conns[c].reader = "none"
               /\ f[c].stream = "none" <=> conns[c].stream = "none"
  <1>1. PeerCloses(c) \/ ReaderReads(c) \/ ReaderEnds(c) =>
              /\ Same(conns')
              /\ conns'[c].writer = conns[c].writer /\ conns'[c].queue = conns[c].queue
              /\ conns'[c].written = conns[c].written
              /\ UNCHANGED <<control_chan, taskVars, reactor, nodeVars>>
    BY <1>0 DEF PeerCloses, ReaderReads, ReaderEnds, ConnType
  <1>2. WriterTakes(c) =>
              /\ Same(conns')
              /\ conns[c].writer = "idle" /\ conns'[c].writer = "writing"
              /\ conns[c].queue # <<>> /\ conns'[c].queue = Tail(conns[c].queue)
              /\ conns'[c].written = IF Head(conns[c].queue) = 0 THEN conns[c].written
                                     ELSE Append(conns[c].written, Head(conns[c].queue))
              /\ UNCHANGED <<control_chan, taskVars, reactor, nodeVars>>
    <2> DEFINE msg == Head(conns[c].queue)
               wrote == IF msg = 0 THEN conns[c].written ELSE Append(conns[c].written, msg)
    <2>1. WriterTakes(c) =>
            /\ conns' = [conns EXCEPT ![c].writer = "writing", ![c].queue = Tail(@),
                                      ![c].written = wrote]
            /\ conns[c].writer = "idle" /\ conns[c].queue # <<>>
            /\ UNCHANGED <<control_chan, taskVars, reactor, nodeVars>>
      BY <1>0 DEF WriterTakes, ConnType
    <2> HIDE DEF wrote
    <2>2. WriterTakes(c) =>
            /\ Same(conns') /\ conns'[c].writer = "writing"
            /\ conns'[c].queue = Tail(conns[c].queue) /\ conns'[c].written = wrote
      BY <1>0, <2>1 DEF ConnType
    <2> QED
      BY <2>1, <2>2 DEF wrote
  <1>3. WriteEnds(c) =>
              /\ Same(conns')
              /\ conns[c].writer = "writing" /\ conns'[c].writer \in {"idle", "failed"}
              /\ conns'[c].queue = conns[c].queue /\ conns'[c].written = conns[c].written
              /\ UNCHANGED <<control_chan, taskVars, reactor, nodeVars>>
    BY <1>0 DEF WriteEnds, ConnType
  <1>4. WriterReports(c) =>
              /\ Same(conns')
              /\ conns[c].writer = "failed" /\ conns'[c].writer = "ended"
              /\ conns'[c].queue = <<>> /\ conns'[c].written = conns[c].written
              /\ Send(Dropped(conns[c].addr)) /\ Dropped(conns[c].addr) \in Signals
              /\ UNCHANGED <<taskVars, reactor, nodeVars>>
    BY <1>0 DEF WriterReports, Report, ConnType, Signals
  <1>5. WorkerHandles(c) =>
              /\ Same(conns')
              /\ conns[c].held > 0
              /\ conns'[c].writer = conns[c].writer /\ conns'[c].written = conns[c].written
              /\ conns'[c].queue \in {conns[c].queue, Append(conns[c].queue, 0)}
              /\ UNCHANGED <<control_chan, taskVars, reactor, nodeVars>>
    <2> SUFFICES ASSUME WorkerHandles(c)
                 PROVE  /\ Same(conns')
                        /\ conns'[c].writer = conns[c].writer
                        /\ conns'[c].written = conns[c].written
                        /\ conns'[c].queue \in {conns[c].queue, Append(conns[c].queue, 0)}
      BY DEF WorkerHandles
    <2>1. PICK answered \in BOOLEAN :
            conns' = [(IF answered THEN Push({c}, 0) ELSE conns)
                        EXCEPT ![c].held = @ - 1]
      BY DEF WorkerHandles
    <2>2. CASE answered
      <3>1. conns' = [Push({c}, 0) EXCEPT ![c].held = @ - 1]
        BY <2>1, <2>2
      <3>2. /\ Push({c}, 0) \in [Conn -> ConnType]
            /\ \A d \in Conn : d # c => Push({c}, 0)[d] = conns[d]
        BY PushType DEF Push
      <3> DEFINE k == Push({c}, 0)[c]
      <3>3. /\ k.addr = conns[c].addr /\ k.stream = conns[c].stream
            /\ k.reader = conns[c].reader /\ k.writer = conns[c].writer
            /\ k.written = conns[c].written /\ k.since = conns[c].since
            /\ k.queue = IF c \in {c} /\ conns[c].writer # "ended"
                         THEN Append(conns[c].queue, 0) ELSE conns[c].queue
        <4>1. 0 \in Nat
          OBVIOUS
        <4> QED
          BY <4>1, PushFields
      <3>4. /\ \A d \in Conn : d # c => conns'[d] = Push({c}, 0)[d]
            /\ conns'[c] = [k EXCEPT !.held = @ - 1] /\ k \in ConnType
        BY <3>1, <3>2
      <3> HIDE DEF k
      <3>5. /\ conns'[c].addr = k.addr /\ conns'[c].stream = k.stream
            /\ conns'[c].reader = k.reader /\ conns'[c].writer = k.writer
            /\ conns'[c].written = k.written /\ conns'[c].since = k.since
            /\ conns'[c].queue = k.queue
        BY <3>4 DEF ConnType
      <3> QED
        BY <3>2, <3>3, <3>4, <3>5
    <2>3. CASE ~answered
      <3>1. conns' = [conns EXCEPT ![c].held = @ - 1]
        BY <2>1, <2>3
      <3> QED
        BY <1>0, <3>1 DEF ConnType
    <2> QED
      BY <2>2, <2>3
  <1> QED
    BY <1>1, <1>2, <1>3, <1>4, <1>5 DEF Works

LEMMA LivesTasks ==
  ASSUME IInv, Lives, PeersRegistered, NEW c \in Conn, TaskStep(c)
  PROVE  Lives' /\ PeersRegistered'
  <1>0. TypeOK
    BY DEF IInv
  <1>1. CASE ReaderPanics(c) \/ WriterPanics(c)
    <2>1. PICK task \in {"reader", "writer"} : Panic(task) /\ UNCHANGED control_chan
      BY <1>1 DEF ReaderPanics, WriterPanics
    <2> QED
      BY <1>0, <2>1, LivesPanic, PanicFields DEF PeersRegistered
  <1>2. CASE Works(c)
    <2>1. /\ \A d \in Conn : d # c => conns'[d] = conns[d]
          /\ conns'[c].reader = "none" <=> conns[c].reader = "none"
          /\ conns'[c].stream = "none" <=> conns[c].stream = "none"
          /\ UNCHANGED <<taskVars, reactor, nodeVars>>
      BY <1>0, <1>2, TaskFields
    <2>2. conns[c].reader = "none" => PeerCloses(c)
      <3> SUFFICES ASSUME conns[c].reader = "none" PROVE PeerCloses(c)
        OBVIOUS
      <3>1. Fresh(conns[c])
        BY DEF Lives, Unregistered
      <3> QED
        BY <1>2, <3>1 DEF Works, Fresh, ReaderReads, ReaderEnds, WriterTakes, WriteEnds,
                          WriterReports, WorkerHandles
    <2>3. PeerCloses(c) /\ Fresh(conns[c]) => Fresh(conns'[c])
      BY <1>0 DEF PeerCloses, Fresh, TypeOK, ConnType
    <2>4. \A d \in Conn : conns[d].reader = "none" => Fresh(conns'[d])
      BY <2>1, <2>2, <2>3 DEF Lives, Unregistered
    <2>5. \/ UNCHANGED control_chan
          \/ \E s \in Signals : Send(s) /\ s.kind \notin {"ConnectNewPeer", "GetNewPeer"}
      <3>1. Dropped(conns[c].addr).kind \notin {"ConnectNewPeer", "GetNewPeer"}
        BY DEF Dropped
      <3> QED
        BY <1>0, <1>2, <3>1, TaskFields DEF Works
    <2>6. Lives'
      BY <2>1, <2>4, <2>5, LivesFrame DEF taskVars, nodeVars
    <2>7. PeersRegistered'
      BY <1>0, <2>1 DEF PeersRegistered, taskVars, TypeOK
    <2> QED
      BY <2>6, <2>7
  <1> QED
    BY <1>1, <1>2 DEF TaskStep, Works

(* The threads that broadcast. *)
LEMMA LivesThreads ==
  ASSUME IInv, Lives, NEW t \in Thread,
         BroadcastCall(t) \/ BroadcastSend(t) \/ BroadcastPanics(t)
  PROVE  Lives'
  <1>1. \/ UNCHANGED control_chan
        \/ \E s \in Signals : Send(s) /\ s.kind \notin {"ConnectNewPeer", "GetNewPeer"}
    <2>1. made + 1 \in Nat \ {0}
      BY DEF IInv, TypeOK
    <2>2. /\ Broadcast(made + 1) \in Signals
          /\ Broadcast(made + 1).kind \notin {"ConnectNewPeer", "GetNewPeer"}
      BY <2>1 DEF Broadcast, Signals
    <2> QED
      BY <2>2 DEF BroadcastCall, BroadcastSend, BroadcastPanics
  <1>2. UNCHANGED <<conns, known_peers, dispatcher, listener, reactor>>
    BY DEF BroadcastCall, BroadcastSend, BroadcastPanics, taskVars
  <1> QED
    BY <1>1, <1>2, LivesFrame DEF Lives, Unregistered

LEMMA NextLives == IInv /\ Lives /\ PeersRegistered /\ [Next]_serverVars
                      => Lives' /\ PeersRegistered'
  <1> SUFFICES ASSUME IInv, Lives, PeersRegistered, [Next]_serverVars
               PROVE  Lives' /\ PeersRegistered'
    OBVIOUS
  <1>1. CASE UNCHANGED serverVars
    BY <1>1 DEF Lives, Unregistered, ToConnect, ToAccept, PeersRegistered, serverVars,
                taskVars, nodeVars, Up, Places, Asks, Accepted
  <1>2. CASE AskConnect \/ ConnectorPanics
    BY <1>2, LivesConnector DEF AskConnect, ConnectorPanics, PeersRegistered, taskVars
  <1>3. CASE ListenerHandsOver \/ ListenerFails \/ \E c \in Conn : ListenerAccept(c)
    <2>1. PeersRegistered'
      <3>1. CASE ListenerFails
        BY <3>1, PanicFields DEF ListenerFails, PeersRegistered, IInv
      <3>2. CASE ListenerHandsOver
        BY <3>2 DEF ListenerHandsOver, PeersRegistered
      <3>3. ASSUME NEW c \in Conn, ListenerAccept(c) PROVE PeersRegistered'
        BY <3>3 DEF ListenerAccept, PeersRegistered, IInv, TypeOK, ConnType
      <3> QED
        BY <1>3, <3>1, <3>2, <3>3
    <2> QED
      BY <1>3, <2>1, LivesListener
  <1>4. CASE ConnectSucceeds \/ ConnectFails \/ Dispatch
    BY <1>4, LivesDispatcher
  <1>5. ASSUME NEW c \in Conn, TaskStep(c) PROVE Lives' /\ PeersRegistered'
    BY <1>5, LivesTasks
  <1>6. ASSUME NEW t \in Thread, BroadcastCall(t) \/ BroadcastSend(t) \/ BroadcastPanics(t)
        PROVE  Lives' /\ PeersRegistered'
    BY <1>6, LivesThreads
    DEF BroadcastCall, BroadcastSend, BroadcastPanics, taskVars, PeersRegistered
  <1> QED
    BY <1>1, <1>2, <1>3, <1>4, <1>5, <1>6 DEF Next, TaskStep

(* server.rs:115-130,66-76: a connection is registered once, by the call of main *)
(* that made it or by the signal of the listener that accepted it; what is not   *)
(* registered has no task and no message.                                        *)
THEOREM Registered_Once == Spec => [](Lives /\ PeersRegistered)
  BY InitLives, InitPeersRegistered, Invariance, NextLives, PTL DEF Spec

-----------------------------------------------------------------------------
(* The broadcasts on their way are those that were made and not dispatched, in *)
(* the order of their numbers.                                                 *)
Casts(i) == control_chan[i].kind = "BroadcastMessage"

Numbers ==
    Up =>
      /\ dispatched <= made
      /\ \A i \in Places : Casts(i) => control_chan[i].msg \in (dispatched + 1) .. made
      /\ \A n \in (dispatched + 1) .. made :
            \E i \in Places : Casts(i) /\ control_chan[i].msg = n
      /\ \A i, j \in Places :
            Casts(i) /\ Casts(j) /\ i < j => control_chan[i].msg < control_chan[j].msg

LEMMA InitNumbers == Init => Numbers
  BY DEF Init, Numbers, Places

(* Other signals do not change what is on its way. *)
LEMMA NumbersFrame ==
  ASSUME IInv, Numbers, UNCHANGED <<reactor, dispatched, made>>,
         \/ UNCHANGED control_chan
         \/ \E s \in Signals : Send(s) /\ s.kind # "BroadcastMessage"
         \/ \E kind : Receive(kind) /\ kind # "BroadcastMessage"
  PROVE  Numbers'
  <1>0. TypeOK
    BY DEF IInv
  <1>1. CASE UNCHANGED control_chan
    BY <1>1 DEF Numbers, Places, Casts, Up
  <1>2. ASSUME NEW s \in Signals, Send(s), s.kind # "BroadcastMessage" PROVE Numbers'
    <2>1. /\ \A i \in Places : i \in Places' /\ control_chan'[i] = control_chan[i]
          /\ \A i \in Places' : i \in Places \/ control_chan'[i] = s
      BY <1>0, <1>2, SendChan DEF Places, TypeOK
    <2>2. \A i \in Places' : Casts(i)' => i \in Places /\ Casts(i)
                                          /\ control_chan'[i] = control_chan[i]
      BY <1>2, <2>1 DEF Casts
    <2> QED
      BY <2>1, <2>2 DEF Numbers, Casts, Up
  <1>3. ASSUME NEW kind, Receive(kind), kind # "BroadcastMessage" PROVE Numbers'
    <2>1. /\ \A i \in Places' : i + 1 \in Places /\ control_chan'[i] = control_chan[i + 1]
          /\ \A i \in Places : i # 1 => i - 1 \in Places' /\ (i - 1) + 1 = i
          /\ \A i, j \in Places' : i < j => i + 1 < j + 1
          /\ ~Casts(1)
      BY <1>0, <1>3, ReceiveChan DEF Places, TypeOK, Casts
    <2>2. \A i \in Places' : Casts(i)' => Casts(i + 1)
      BY <2>1 DEF Casts
    <2>3. \A i \in Places : Casts(i) => /\ i - 1 \in Places' /\ Casts(i - 1)'
                                        /\ control_chan'[i - 1] = control_chan[i]
      BY <2>1 DEF Casts
    <2> QED
      BY <2>1, <2>2, <2>3 DEF Numbers, Up
  <1> QED
    BY <1>1, <1>2, <1>3

(* A broadcast enters the channel with the next number ... *)
LEMMA NumbersSend ==
  ASSUME IInv, Numbers, NEW t \in Thread, BroadcastSend(t)
  PROVE  Numbers'
  <1>0. TypeOK /\ made \in Nat /\ dispatched \in Nat
    BY DEF IInv, TypeOK
  <1> DEFINE s == Broadcast(made + 1)
  <1>1. s \in Signals /\ s.kind = "BroadcastMessage" /\ s.msg = made + 1
    <2>1. made + 1 \in Nat \ {0}
      BY <1>0
    <2> QED
      BY <2>1 DEF Signals, Broadcast
  <1>2. Send(s) /\ made' = made + 1 /\ UNCHANGED <<reactor, dispatched>>
    BY DEF BroadcastSend, taskVars
  <1> HIDE DEF s
  <1> DEFINE last == Len(control_chan) + 1
  <1>3. /\ \A i \in Places : i \in Places' /\ control_chan'[i] = control_chan[i] /\ i < last
        /\ \A i \in Places' : i \in Places \/ i = last
        /\ last \in Places' /\ control_chan'[last] = s
        /\ Places' \subseteq Int
    BY <1>0, <1>1, <1>2, SendChan DEF Places, TypeOK
  <1> HIDE DEF last
  <1>4. SUFFICES ASSUME Up PROVE Numbers'
    BY <1>2 DEF Numbers, Up
  <1>5. \A i \in Places : Casts(i)' <=> Casts(i)
    BY <1>3 DEF Casts
  <1>6. \A i \in Places' : Casts(i)' => control_chan'[i].msg \in (dispatched' + 1) .. made'
    BY <1>0, <1>1, <1>2, <1>3, <1>4, <1>5 DEF Numbers
  <1>7. ASSUME NEW n \in (dispatched' + 1) .. made'
        PROVE  \E i \in Places' : Casts(i)' /\ control_chan'[i].msg = n
    <2>1. CASE n = made + 1
      BY <1>1, <1>3, <2>1 DEF Casts
    <2>2. CASE n # made + 1
      <3>1. n \in (dispatched + 1) .. made
        BY <1>0, <1>2, <2>2
      <3> QED
        BY <1>3, <1>4, <1>5, <3>1 DEF Numbers
    <2> QED
      BY <2>1, <2>2
  <1>8. ASSUME NEW i \in Places', NEW j \in Places', Casts(i)', Casts(j)', i < j
        PROVE  control_chan'[i].msg < control_chan'[j].msg
    <2>1. i \in Places
      BY <1>3, <1>8
    <2>2. CASE j \in Places
      BY <1>3, <1>4, <1>5, <1>8, <2>1, <2>2 DEF Numbers
    <2>3. CASE j = last
      <3>1. control_chan[i].msg \in (dispatched + 1) .. made
        BY <1>4, <1>5, <1>8, <2>1 DEF Numbers
      <3> QED
        BY <1>0, <1>1, <1>3, <2>1, <2>3, <3>1
    <2> QED
      BY <1>3, <2>2, <2>3
  <1>9. dispatched' <= made'
    BY <1>0, <1>2, <1>4 DEF Numbers
  <1> QED
    BY <1>6, <1>7, <1>8, <1>9 DEF Numbers

(* ... and the one that leaves it is the next to be dispatched. *)
LEMMA NumbersDispatch ==
  ASSUME IInv, Numbers, DispatchBroadcast
  PROVE  Numbers' /\ Signal.msg = dispatched + 1
  <1>0. TypeOK /\ made \in Nat /\ dispatched \in Nat
    BY DEF IInv, TypeOK
  <1>1. /\ Receive("BroadcastMessage") /\ Up /\ dispatched' = dispatched + 1
        /\ UNCHANGED <<reactor, made>>
    BY DEF DispatchBroadcast, Receive, nodeVars
  <1>2. /\ \A i \in Places' : i + 1 \in Places /\ control_chan'[i] = control_chan[i + 1]
        /\ \A i \in Places : i # 1 => i - 1 \in Places' /\ (i - 1) + 1 = i /\ 1 < i
        /\ \A i, j \in Places' : i < j => i + 1 < j + 1
        /\ \A i \in Places' : 1 < i + 1
        /\ 1 \in Places /\ Casts(1) /\ Signal = control_chan[1]
    BY <1>0, <1>1, ReceiveChan DEF Places, TypeOK, Casts
  <1>3. \A i \in Places : Casts(i) => control_chan[i].msg \in (dispatched + 1) .. made
    BY <1>1 DEF Numbers
  <1>4. Signal.msg = dispatched + 1
    <2>1. dispatched + 1 \in (dispatched + 1) .. made
      BY <1>0, <1>2, <1>3
    <2>2. PICK i \in Places : Casts(i) /\ control_chan[i].msg = dispatched + 1
      BY <1>1, <2>1 DEF Numbers
    <2>3. i # 1 => control_chan[1].msg < control_chan[i].msg
      BY <1>1, <1>2, <2>2 DEF Numbers
    <2> QED
      BY <1>0, <1>2, <1>3, <2>2, <2>3
  <1>5. \A i \in Places' : Casts(i)' => Casts(i + 1) /\ dispatched + 1 < control_chan[i + 1].msg
    BY <1>1, <1>2, <1>4 DEF Numbers, Casts
  <1>6. \A i \in Places : Casts(i) /\ i # 1 => /\ i - 1 \in Places' /\ Casts(i - 1)'
                                               /\ control_chan'[i - 1] = control_chan[i]
    BY <1>2 DEF Casts
  <1>7. \A i \in Places' : Casts(i)' => control_chan'[i].msg \in (dispatched' + 1) .. made'
    BY <1>0, <1>1, <1>2, <1>3, <1>5
  <1>8. ASSUME NEW n \in (dispatched' + 1) .. made'
        PROVE  \E i \in Places' : Casts(i)' /\ control_chan'[i].msg = n
    <2>1. n \in (dispatched + 1) .. made /\ n # dispatched + 1
      BY <1>0, <1>1
    <2>2. PICK i \in Places : Casts(i) /\ control_chan[i].msg = n
      BY <1>1, <2>1 DEF Numbers
    <2>3. i # 1
      BY <1>2, <1>4, <2>1, <2>2
    <2> QED
      BY <1>6, <2>2, <2>3
  <1>9. \A i, j \in Places' :
            Casts(i)' /\ Casts(j)' /\ i < j => control_chan'[i].msg < control_chan'[j].msg
    BY <1>1, <1>2, <1>5 DEF Numbers
  <1>10. dispatched' <= made'
    BY <1>0, <1>1, <1>2, <1>3
  <1> QED
    BY <1>4, <1>7, <1>8, <1>9, <1>10 DEF Numbers

-----------------------------------------------------------------------------
(* The queue of a connection: what appending to it and taking from it do. *)
LEMMA SetOfSeq ==
  ASSUME NEW S, NEW s \in Seq(S)
  PROVE  ToSet(s) = {s[i] : i \in 1 .. Len(s)}
  BY DEF ToSet

LEMMA AppendQueue ==
  ASSUME NEW q \in Seq(Nat), NEW m \in Nat
  PROVE  /\ Append(q, m) \in Seq(Nat)
         /\ ToSet(Append(q, m)) = ToSet(q) \cup {m}
         /\ Increasing(q) /\ (\A n \in ToSet(q) \ {0} : n < m \/ m = 0)
              => Increasing(Append(q, m))
  <1> DEFINE a == Append(q, m)
  <1>1. /\ a \in Seq(Nat) /\ Len(a) = Len(q) + 1 /\ a[Len(q) + 1] = m
        /\ \A i \in 1 .. Len(q) : a[i] = q[i] /\ i \in 1 .. Len(a) /\ i < Len(q) + 1
        /\ \A i \in 1 .. Len(a) : i \in 1 .. Len(q) \/ i = Len(q) + 1
        /\ Len(q) + 1 \in 1 .. Len(a)
    OBVIOUS
  <1>2. ToSet(a) = {a[i] : i \in 1 .. Len(a)} /\ ToSet(q) = {q[i] : i \in 1 .. Len(q)}
    BY <1>1, SetOfSeq
  <1> HIDE DEF a
  <1>3. ToSet(a) = ToSet(q) \cup {m}
    BY <1>1, <1>2
  <1>4. ASSUME Increasing(q), \A n \in ToSet(q) \ {0} : n < m \/ m = 0,
               NEW i \in 1 .. Len(a), NEW j \in 1 .. Len(a), i < j, a[i] # 0, a[j] # 0
        PROVE  a[i] < a[j]
    <2>1. i \in 1 .. Len(q)
      BY <1>1, <1>4
    <2>2. CASE j \in 1 .. Len(q)
      BY <1>1, <1>4, <2>1, <2>2 DEF Increasing
    <2>3. CASE j = Len(q) + 1
      BY <1>1, <1>2, <1>4, <2>1, <2>3
    <2> QED
      BY <1>1, <2>2, <2>3
  <1> QED
    BY <1>1, <1>3, <1>4 DEF a, Increasing

LEMMA TailQueue ==
  ASSUME NEW q \in Seq(Nat), q # <<>>, Increasing(q)
  PROVE  /\ Increasing(Tail(q)) /\ Head(q) \in ToSet(q)
         /\ Head(q) = 0 => ToSet(Tail(q)) \ {0} = ToSet(q) \ {0}
         /\ Head(q) # 0 => /\ ToSet(Tail(q)) \ {0} = (ToSet(q) \ {0}) \ {Head(q)}
                           /\ \A n \in ToSet(q) \ {0} : Head(q) <= n
  <1> DEFINE t == Tail(q)
  <1>1. /\ t \in Seq(Nat) /\ Len(t) = Len(q) - 1 /\ Head(q) = q[1] /\ 1 \in 1 .. Len(q)
        /\ \A i \in 1 .. Len(t) : t[i] = q[i + 1] /\ i + 1 \in 1 .. Len(q) /\ 1 < i + 1
        /\ \A i \in 1 .. Len(q) : i # 1 => i - 1 \in 1 .. Len(t) /\ (i - 1) + 1 = i /\ 1 < i
        /\ \A i, j \in 1 .. Len(t) : i < j => i + 1 < j + 1
        /\ \A i \in 1 .. Len(q) : q[i] \in Nat
    OBVIOUS
  <1> HIDE DEF t
  <1>2. ToSet(t) = {t[i] : i \in 1 .. Len(t)} /\ ToSet(q) = {q[i] : i \in 1 .. Len(q)}
    <2>1. t \in Seq(Nat)
      BY <1>1
    <2> QED
      BY <2>1, SetOfSeq
  <1>3. Increasing(t) /\ Head(q) \in ToSet(q)
    BY <1>1, <1>2 DEF Increasing
  <1>4. ToSet(q) = ToSet(t) \cup {Head(q)}
    <2>1. ASSUME NEW n \in ToSet(q) PROVE n \in ToSet(t) \cup {Head(q)}
      <3>1. PICK i \in 1 .. Len(q) : q[i] = n
        BY <1>2
      <3>2. i # 1 => t[i - 1] = q[i]
        BY <1>1
      <3> QED
        BY <1>1, <1>2, <3>1, <3>2
    <2>2. ToSet(t) \subseteq ToSet(q)
      BY <1>1, <1>2
    <2> QED
      BY <1>3, <2>1, <2>2
  <1>5. ASSUME Head(q) # 0, NEW n \in ToSet(t) \ {0} PROVE Head(q) < n
    <2>1. PICK i \in 1 .. Len(t) : t[i] = n
      BY <1>2
    <2> QED
      BY <1>1, <1>5, <2>1 DEF Increasing
  <1>6. Head(q) \in Nat
    BY <1>1
  <1>7. ASSUME Head(q) # 0
        PROVE  /\ ToSet(t) \ {0} = (ToSet(q) \ {0}) \ {Head(q)}
               /\ \A n \in ToSet(q) \ {0} : Head(q) <= n
    <2>1. ToSet(t) \subseteq Nat
      BY <1>1, <1>2
    <2>2. Head(q) \notin ToSet(t)
      BY <1>5, <1>6, <1>7
    <2>3. \A n \in ToSet(q) \ {0} : Head(q) <= n
      BY <1>4, <1>5, <1>6, <1>7, <2>1
    <2> QED
      BY <1>4, <2>2, <2>3
  <1> QED
    BY <1>3, <1>4, <1>7 DEF t

(* What a connection has got and has still to get, when a numbered message is *)
(* queued, when one without a number is, and when one is taken.                *)
LEMMA QueueNext ==
  ASSUME NEW since \in Nat, NEW w \in Seq(Nat \ {0}), NEW q \in Seq(Nat), NEW last \in Nat,
         Sequenced(since, w, q, last)
  PROVE  /\ Sequenced(since, w, Append(q, last + 1), last + 1)
         /\ Sequenced(since, w, Append(q, 0), last)
  <1> DEFINE got == since + Len(w)
             m == last + 1
  <1>1. got \in Nat /\ m \in Nat /\ m # 0 /\ got <= last
    BY DEF Sequenced
  <1>2. /\ ToSet(q) \ {0} = (got + 1) .. last /\ Increasing(q)
        /\ \A i \in 1 .. Len(w) : w[i] = since + i
    BY DEF Sequenced
  <1> HIDE DEF got
  <1>3. \A n \in ToSet(q) \ {0} : n < m
    BY <1>1, <1>2
  <1>4. /\ ToSet(Append(q, m)) = ToSet(q) \cup {m} /\ Increasing(Append(q, m))
        /\ ToSet(Append(q, 0)) = ToSet(q) \cup {0} /\ Increasing(Append(q, 0))
    BY <1>1, <1>2, <1>3, AppendQueue
  <1> HIDE DEF m
  <1>5. ToSet(Append(q, m)) \ {0} = (got + 1) .. m
    <2>1. (got + 1) .. m = ((got + 1) .. last) \cup {m}
      BY <1>1 DEF m
    <2> QED
      BY <1>1, <1>2, <1>4, <2>1
  <1>6. ToSet(Append(q, 0)) \ {0} = (got + 1) .. last
    BY <1>2, <1>4
  <1>7. got <= m
    BY <1>1 DEF m
  <1> QED
    BY <1>1, <1>2, <1>4, <1>5, <1>6, <1>7 DEF Sequenced, got, m

LEMMA QueueTaken ==
  ASSUME NEW since \in Nat, NEW w \in Seq(Nat \ {0}), NEW q \in Seq(Nat), NEW last \in Nat,
         Sequenced(since, w, q, last), q # <<>>
  PROVE  Sequenced(since, IF Head(q) = 0 THEN w ELSE Append(w, Head(q)), Tail(q), last)
  <1> DEFINE got == since + Len(w)
             m == Head(q)
  <1>1. got \in Nat /\ m \in Nat /\ got <= last
    BY DEF Sequenced
  <1>2. /\ ToSet(q) \ {0} = (got + 1) .. last /\ Increasing(q)
        /\ \A i \in 1 .. Len(w) : w[i] = since + i
    BY DEF Sequenced
  <1>3. /\ Increasing(Tail(q)) /\ m \in ToSet(q)
        /\ m = 0 => ToSet(Tail(q)) \ {0} = ToSet(q) \ {0}
        /\ m # 0 => /\ ToSet(Tail(q)) \ {0} = (ToSet(q) \ {0}) \ {m}
                    /\ \A n \in ToSet(q) \ {0} : m <= n
    BY <1>2, TailQueue
  <1>4. CASE m = 0
    BY <1>1, <1>2, <1>3, <1>4 DEF Sequenced
  <1>5. CASE m # 0
    <2> DEFINE v == Append(w, m)
    <2> HIDE DEF got, m
    <2>1. m \in (got + 1) .. last
      BY <1>2, <1>3, <1>5
    <2>2. got + 1 \in (got + 1) .. last
      BY <1>1, <2>1
    <2>3. m = got + 1
      <3>1. got + 1 \in ToSet(q) \ {0}
        BY <1>2, <2>2
      <3>2. m <= got + 1
        BY <1>3, <1>5, <3>1
      <3> QED
        BY <1>1, <2>1, <3>2
    <2>4. ToSet(Tail(q)) \ {0} = (got + 1 + 1) .. last /\ got + 1 <= last
      <3>1. ToSet(Tail(q)) \ {0} = ((got + 1) .. last) \ {got + 1}
        BY <1>2, <1>3, <1>5, <2>3
      <3> QED
        BY <1>1, <2>2, <3>1
    <2>5. /\ Len(v) = Len(w) + 1 /\ v[Len(w) + 1] = m
          /\ \A i \in 1 .. Len(w) : v[i] = w[i]
          /\ \A i \in 1 .. Len(v) : i \in 1 .. Len(w) \/ i = Len(w) + 1
      <3>1. m \in Nat \ {0}
        BY <1>1, <1>5
      <3> QED
        BY <3>1
    <2> HIDE DEF v
    <2>6. got + 1 = since + (Len(w) + 1)
      BY DEF got
    <2>7. \A i \in 1 .. Len(v) : v[i] = since + i
      BY <1>2, <2>3, <2>5, <2>6
    <2>8. since + Len(v) = got + 1
      BY <2>5, <2>6
    <2>9. Sequenced(since, v, Tail(q), last)
      BY <1>3, <2>4, <2>7, <2>8 DEF Sequenced
    <2> QED
      BY <1>5, <2>9 DEF v, m
  <1> QED
    BY <1>4, <1>5

(* A connection to which nothing happens that matters. *)
LEMMA SameOrder ==
  ASSUME NEW c \in Conn, GetsInOrder(c), UNCHANGED dispatched,
         conns'[c].since = conns[c].since, conns'[c].written = conns[c].written,
         conns'[c].queue = conns[c].queue,
         c \in peers' /\ conns'[c].writer # "ended" => c \in peers /\ conns[c].writer # "ended"
  PROVE  GetsInOrder(c)'
  BY DEF GetsInOrder, Sequenced, Increasing

(* One without messages, as it is new or was just registered. *)
LEMMA NothingQueued ==
  ASSUME NEW since \in Nat, NEW w \in Seq(Nat \ {0}),
         \A i \in 1 .. Len(w) : w[i] = since + i
  PROVE  Sequenced(since, w, <<>>, since + Len(w))
  <1>1. Len(<<>>) = 0 /\ ToSet(<<>>) = {} /\ 1 .. 0 = {}
    BY DEF ToSet
  <1> DEFINE got == since + Len(w)
  <1>2. got \in Nat
    OBVIOUS
  <1> HIDE DEF got
  <1>3. got <= got /\ (got + 1) .. got = {}
    BY <1>2
  <1> QED
    BY <1>1, <1>3 DEF Sequenced, Increasing, got

LEMMA EmptyOrder ==
  ASSUME NEW c \in Conn, conns'[c].written = <<>>, conns'[c].queue = <<>>,
         conns'[c].since = dispatched', dispatched' \in Nat
  PROVE  GetsInOrder(c)'
  <1>1. <<>> \in Seq(Nat \ {0}) /\ Len(<<>>) = 0 /\ 1 .. 0 = {}
    OBVIOUS
  <1>2. \A n \in Nat : Sequenced(n, <<>>, <<>>, n)
    <2> SUFFICES ASSUME NEW n \in Nat PROVE Sequenced(n, <<>>, <<>>, n)
      OBVIOUS
    <2>1. Sequenced(n, <<>>, <<>>, n + Len(<<>>))
      BY <1>1, NothingQueued
    <2>2. n + Len(<<>>) = n
      BY <1>1
    <2> QED
      BY <2>1, <2>2
  <1>3. dispatched' \in 0 .. dispatched'
    OBVIOUS
  <1>4. Sequenced(conns'[c].since, conns'[c].written, conns'[c].queue, dispatched')
    BY <1>2
  <1>5. Sequenced(conns[c].since, conns[c].written, conns[c].queue, dispatched)'
    BY <1>4 DEF Sequenced, Increasing
  <1> QED
    BY <1>3, <1>5 DEF GetsInOrder

(* The last message a connection has to get, and that it is kept. *)
LEMMA OrderStep ==
  ASSUME TypeOK', NEW c \in Conn, NEW last \in 0 .. dispatched',
         Sequenced(conns'[c].since, conns'[c].written, conns'[c].queue, last),
         c \in peers' /\ conns'[c].writer # "ended" => last = dispatched'
  PROVE  GetsInOrder(c)'
  <1>1. Sequenced(conns[c].since, conns[c].written, conns[c].queue, last)'
    BY DEF Sequenced, Increasing
  <1> QED
    BY <1>1 DEF GetsInOrder

LEMMA BroadcastOrder ==
  ASSUME IInv, IInv', InOrder, Numbers, DispatchBroadcast
  PROVE  InOrder'
  <1>0. TypeOK /\ dispatched \in Nat
    BY DEF IInv, TypeOK
  <1> DEFINE m == dispatched + 1
  <1>1. /\ Signal.msg = m /\ dispatched' = m /\ conns' = Push(peers, m) /\ UNCHANGED peers
    BY NumbersDispatch DEF DispatchBroadcast
  <1>2. m \in Nat
    BY <1>0
  <1> SUFFICES ASSUME NEW c \in Conn PROVE GetsInOrder(c)'
    BY DEF InOrder
  <1> DEFINE k == conns[c]
  <1>3. k.since \in Nat /\ k.written \in Seq(Nat \ {0}) /\ k.queue \in Seq(Nat)
    BY <1>0 DEF TypeOK, ConnType
  <1>4. /\ conns'[c].written = k.written /\ conns'[c].since = k.since
        /\ conns'[c].writer = k.writer
        /\ conns'[c].queue = IF c \in peers /\ k.writer # "ended"
                             THEN Append(k.queue, m) ELSE k.queue
    BY <1>0, <1>1, <1>2, PushFields
  <1>5. PICK last \in 0 .. dispatched :
            /\ Sequenced(k.since, k.written, k.queue, last)
            /\ c \in peers /\ k.writer # "ended" => last = dispatched
    BY DEF InOrder, GetsInOrder
  <1> HIDE DEF k
  <1>6. CASE c \in peers /\ k.writer # "ended"
    <2>1. Sequenced(k.since, k.written, Append(k.queue, m), m)
      BY <1>0, <1>3, <1>5, <1>6, QueueNext
    <2>2. m \in 0 .. dispatched'
      BY <1>1, <1>2
    <2> HIDE DEF m
    <2> QED
      BY <1>1, <1>4, <1>6, <2>1, <2>2, OrderStep DEF IInv
  <1>7. CASE ~(c \in peers /\ k.writer # "ended")
    <2>1. last \in 0 .. dispatched'
      BY <1>0, <1>1, <1>5
    <2> HIDE DEF m
    <2> QED
      BY <1>1, <1>4, <1>5, <1>7, <2>1, OrderStep DEF IInv
  <1> QED
    BY <1>6, <1>7

(* The tasks of a connection. *)
LEMMA TaskOrder ==
  ASSUME IInv, IInv', InOrder, NEW c \in Conn, Works(c)
  PROVE  InOrder'
  <1>0. TypeOK /\ TypeOK' /\ dispatched \in Nat
    BY DEF IInv, TypeOK
  <1>1. /\ \A d \in Conn : d # c => conns'[d] = conns[d]
        /\ conns'[c].since = conns[c].since /\ UNCHANGED <<peers, dispatched>>
    BY <1>0, TaskFields DEF taskVars
  <1>2. \A d \in Conn : d # c => GetsInOrder(d)'
    BY <1>1, SameOrder DEF InOrder
  <1>3. GetsInOrder(c)
    BY DEF InOrder
  <1> DEFINE k == conns[c]
  <1>4. k.since \in Nat /\ k.written \in Seq(Nat \ {0}) /\ k.queue \in Seq(Nat)
    BY <1>0 DEF TypeOK, ConnType
  <1>5. PICK last \in 0 .. dispatched :
            /\ Sequenced(k.since, k.written, k.queue, last)
            /\ c \in peers /\ k.writer # "ended" => last = dispatched
    BY <1>3 DEF GetsInOrder
  <1> HIDE DEF k
  <1>11. last \in Nat
    BY <1>0
  <1>6. CASE PeerCloses(c) \/ ReaderReads(c) \/ ReaderEnds(c)
    <2>1. GetsInOrder(c)'
      <3>1. /\ conns'[c].written = conns[c].written /\ conns'[c].queue = conns[c].queue
            /\ conns'[c].writer = "ended" <=> conns[c].writer = "ended"
        BY <1>0, <1>6, TaskFields
      <3> QED
        BY <1>1, <1>3, <3>1, SameOrder
    <2> QED
      BY <1>2, <2>1 DEF InOrder
  <1>7. CASE WriteEnds(c)
    <2>1. GetsInOrder(c)'
      <3>1. /\ conns'[c].written = conns[c].written /\ conns'[c].queue = conns[c].queue
            /\ conns'[c].writer = "ended" <=> conns[c].writer = "ended"
        BY <1>0, <1>7, TaskFields
      <3> QED
        BY <1>1, <1>3, <3>1, SameOrder
    <2> QED
      BY <1>2, <2>1 DEF InOrder
  <1>8. CASE WriterTakes(c)
    <2>1. /\ k.writer # "ended" /\ k.queue # <<>>
          /\ conns'[c].queue = Tail(k.queue)
          /\ conns'[c].written = IF Head(k.queue) = 0 THEN k.written
                                 ELSE Append(k.written, Head(k.queue))
      BY <1>0, <1>8, TaskFields DEF k
    <2>2. Sequenced(k.since, IF Head(k.queue) = 0 THEN k.written
                             ELSE Append(k.written, Head(k.queue)), Tail(k.queue), last)
      BY <1>4, <1>5, <1>11, <2>1, QueueTaken
    <2>3. conns'[c].since = k.since
      BY <1>1 DEF k
    <2>4. Sequenced(conns'[c].since, conns'[c].written, conns'[c].queue, last)
      BY <2>1, <2>2, <2>3
    <2> QED
      BY <1>0, <1>1, <1>2, <1>5, <2>1, <2>4, OrderStep DEF InOrder, k
  <1>9. CASE WriterReports(c)
    <2>1. conns'[c].writer = "ended" /\ conns'[c].queue = <<>>
          /\ conns'[c].written = k.written
      BY <1>0, <1>9, TaskFields DEF k
    <2> DEFINE got == k.since + Len(k.written)
    <2>2. Sequenced(k.since, k.written, <<>>, got)
      BY <1>4, <1>5, NothingQueued DEF Sequenced
    <2>3. got \in 0 .. dispatched'
      <3>1. got <= last /\ got \in Nat
        BY <1>4, <1>5 DEF Sequenced
      <3> QED
        BY <1>0, <1>1, <1>5, <3>1
    <2>4. Sequenced(conns'[c].since, conns'[c].written, conns'[c].queue, got)
      BY <1>1, <2>1, <2>2 DEF k
    <2> HIDE DEF got
    <2> QED
      BY <1>0, <1>1, <1>2, <2>1, <2>3, <2>4, OrderStep DEF InOrder
  <1>10. CASE WorkerHandles(c)
    <2>1. conns'[c].writer = k.writer /\ conns'[c].written = k.written
          /\ conns'[c].queue \in {k.queue, Append(k.queue, 0)}
      BY <1>0, <1>10, TaskFields DEF k
    <2>2. Sequenced(k.since, k.written, Append(k.queue, 0), last)
      BY <1>4, <1>5, <1>11, QueueNext
    <2>3. Sequenced(conns'[c].since, conns'[c].written, conns'[c].queue, last)
      BY <1>1, <1>5, <2>1, <2>2 DEF k
    <2> QED
      BY <1>0, <1>1, <1>2, <1>5, <2>1, <2>3, OrderStep DEF InOrder, k
  <1> QED
    BY <1>2, <1>6, <1>7, <1>8, <1>9, <1>10 DEF InOrder, Works

(* A registration. *)
LEMMA RegisterOrder ==
  ASSUME IInv, InOrder, Lives, NEW c \in Conn, Register(c), conns[c].reader = "none",
         UNCHANGED dispatched
  PROVE  InOrder'
  <1>0. TypeOK /\ dispatched \in Nat
    BY DEF IInv, TypeOK
  <1>1. /\ \A d \in Conn : d # c => conns'[d] = conns[d] /\ (d \in peers' => d \in peers)
        /\ conns'[c].since = dispatched
        /\ conns'[c].queue = conns[c].queue /\ conns'[c].written = conns[c].written
    BY <1>0, RegisterFields
  <1>2. conns[c].queue = <<>> /\ conns[c].written = <<>>
    BY DEF Lives, Unregistered, Fresh
  <1>3. \A d \in Conn : d # c => GetsInOrder(d)'
    BY <1>1, SameOrder DEF InOrder
  <1>4. GetsInOrder(c)'
    BY <1>0, <1>1, <1>2, EmptyOrder
  <1> QED
    BY <1>3, <1>4 DEF InOrder

(* The end of the thread. *)
LEMMA PanicOrder ==
  ASSUME IInv, NEW task, task # "up", Panic(task)
  PROVE  InOrder' /\ Numbers'
  <1>0. TypeOK
    BY DEF IInv
  <1>1. \A c \in Conn : GetsInOrder(c)'
    BY <1>0, PanicFields, EmptyOrder DEF Fresh
  <1> QED
    BY <1>0, <1>1, PanicFields DEF InOrder, Numbers

LEMMA InitInOrder == Init => InOrder
  <1> SUFFICES ASSUME Init, NEW c \in Conn PROVE GetsInOrder(c)
    BY DEF InOrder
  <1>1. conns[c].since = 0 /\ conns[c].written = <<>> /\ conns[c].queue = <<>> /\ dispatched = 0
    BY DEF Init, NewConn
  <1>2. Len(<<>>) = 0 /\ <<>> \in Seq(Nat \ {0}) /\ 1 .. 0 = {} /\ 0 \in 0 .. 0 /\ 0 + 0 = 0
    OBVIOUS
  <1>3. Sequenced(0, <<>>, <<>>, 0 + Len(<<>>))
    BY <1>2, NothingQueued
  <1> QED
    BY <1>1, <1>2, <1>3 DEF GetsInOrder

(* A step that leaves connections and dispatched alone and adds no peer. *)
LEMMA InOrderFrame ==
  ASSUME InOrder, UNCHANGED <<conns, dispatched>>, peers' \subseteq peers
  PROVE  InOrder'
  BY SameOrder DEF InOrder

LEMMA NextInOrder ==
  IInv /\ IInv' /\ Lives /\ Numbers /\ InOrder /\ [Next]_serverVars => Numbers' /\ InOrder'
  <1> SUFFICES ASSUME IInv, IInv', Lives, Numbers, InOrder, [Next]_serverVars
               PROVE  Numbers' /\ InOrder'
    OBVIOUS
  <1>0. TypeOK
    BY DEF IInv
  <1>1. CASE UNCHANGED serverVars
    BY <1>1, NumbersFrame, InOrderFrame DEF serverVars, taskVars, nodeVars
  <1>2. CASE AskConnect
    <2>1. \E s \in Signals : Send(s) /\ s.kind # "BroadcastMessage"
      <3>1. Head(known_peers) \in Conn
        BY <1>0, <1>2 DEF AskConnect, TypeOK
      <3>2. Connect(Head(known_peers)) \in Signals
            /\ Connect(Head(known_peers)).kind # "BroadcastMessage"
        BY <3>1 DEF Signals, Connect
      <3> QED
        BY <1>2, <3>2 DEF AskConnect
    <2> QED
      BY <1>2, <2>1, NumbersFrame, InOrderFrame DEF AskConnect, taskVars
  <1>3. CASE ConnectorPanics
    BY <1>3, NumbersFrame, InOrderFrame DEF ConnectorPanics, taskVars
  <1>4. CASE ListenerHandsOver
    <2>1. NewPeer(listener) \in Signals /\ NewPeer(listener).kind # "BroadcastMessage"
      BY <1>4 DEF ListenerHandsOver, Signals, NewPeer
    <2> QED
      BY <1>4, <2>1, NumbersFrame, InOrderFrame DEF ListenerHandsOver, HandOver, nodeVars
  <1>5. CASE ListenerFails
    BY <1>5, PanicOrder DEF ListenerFails
  <1>6. CASE ConnectSucceeds
    <2>1. /\ dispatcher \in Conn /\ dispatcher = Head(known_peers) /\ known_peers # <<>>
      BY <1>6, PeerServerAssumption DEF ConnectSucceeds, IInv, OneAttempt, Lives, ToConnect
    <2>2. known_peers[1] = dispatcher /\ 1 \in 1 .. Len(known_peers)
      BY <1>0, <2>1 DEF TypeOK
    <2>3. conns[dispatcher].reader = "none"
      BY <2>1, <2>2 DEF Lives, ToConnect, Unregistered
    <2>4. /\ Register(dispatcher)
          /\ UNCHANGED <<dispatched, made, reactor, control_chan>>
      BY <1>6 DEF ConnectSucceeds
    <2> QED
      BY <2>1, <2>3, <2>4, RegisterOrder, NumbersFrame
  <1>7. CASE ConnectFails
    BY <1>7, NumbersFrame, InOrderFrame DEF ConnectFails
  <1>8. CASE Dispatch
    <2>1. CASE DispatchConnect
      BY <2>1, NumbersFrame, InOrderFrame DEF DispatchConnect, nodeVars
    <2>2. CASE DispatchBroadcast
      BY <2>2, NumbersDispatch, BroadcastOrder
    <2>3. CASE DispatchDropped
      BY <2>3, NumbersFrame, InOrderFrame DEF DispatchDropped, Without, nodeVars
    <2>4. CASE DispatchNewPeer
      <3>1. Signal.conn \in Conn /\ conns[Signal.conn].reader = "none"
        BY <1>0, <2>4, ReceiveChan, SignalFields
        DEF DispatchNewPeer, Receive, Lives, ToAccept, Accepted
      <3> QED
        BY <2>4, <3>1, RegisterOrder, NumbersFrame DEF DispatchNewPeer, nodeVars
    <2>5. CASE DispatchNewPeerFails
      BY <2>5, PanicOrder DEF DispatchNewPeerFails
    <2> QED
      BY <1>8, <2>1, <2>2, <2>3, <2>4, <2>5 DEF Dispatch
  <1>9. ASSUME NEW c \in Conn, ListenerAccept(c) PROVE Numbers' /\ InOrder'
    <2>1. Numbers'
      BY <1>9, NumbersFrame DEF ListenerAccept, nodeVars
    <2>2. \A d \in Conn : /\ conns'[d].since = conns[d].since
                          /\ conns'[d].written = conns[d].written
                          /\ conns'[d].queue = conns[d].queue
                          /\ conns'[d].writer = conns[d].writer
      BY <1>0, <1>9 DEF ListenerAccept, TypeOK, ConnType
    <2>3. UNCHANGED <<peers, dispatched>>
      BY <1>9 DEF ListenerAccept
    <2> QED
      BY <2>1, <2>2, <2>3, SameOrder DEF InOrder
  <1>10. ASSUME NEW c \in Conn, ReaderPanics(c) \/ WriterPanics(c) PROVE Numbers' /\ InOrder'
    BY <1>10, PanicOrder DEF ReaderPanics, WriterPanics
  <1>11. ASSUME NEW c \in Conn, Works(c) PROVE Numbers' /\ InOrder'
    <2>1. \/ UNCHANGED control_chan
          \/ \E s \in Signals : Send(s) /\ s.kind # "BroadcastMessage"
      <3>1. Dropped(conns[c].addr).kind # "BroadcastMessage"
        BY DEF Dropped
      <3> QED
        BY <1>0, <1>11, <3>1, TaskFields DEF Works
    <2>2. UNCHANGED <<reactor, dispatched, made>>
      BY <1>0, <1>11, TaskFields DEF taskVars, nodeVars
    <2> QED
      BY <1>11, <2>1, <2>2, NumbersFrame, TaskOrder
  <1>12. ASSUME NEW t \in Thread, BroadcastCall(t) \/ BroadcastPanics(t) \/ BroadcastSend(t)
         PROVE  Numbers' /\ InOrder'
    <2>1. InOrder'
      BY <1>12, InOrderFrame DEF BroadcastCall, BroadcastPanics, BroadcastSend, taskVars
    <2>2. BroadcastCall(t) \/ BroadcastPanics(t) => Numbers'
      BY NumbersFrame DEF BroadcastCall, BroadcastPanics, taskVars
    <2> QED
      BY <1>12, <2>1, <2>2, NumbersSend
  <1> QED
    BY <1>1, <1>2, <1>3, <1>4, <1>5, <1>6, <1>7, <1>8, <1>9, <1>10, <1>11, <1>12
    DEF Next, Works

(* server.rs:20,84-100,182: a connection gets the broadcasts in the order of the *)
(* channel, with no gap and no repetition from its registration on, and up to    *)
(* the last one dispatched while it is in peers and its writer runs; those that  *)
(* are on their way are the ones that were made and not dispatched, in order.    *)
THEOREM Broadcasts_InOrder == Spec => [](InOrder /\ Numbers)
  <1>1. Init => InOrder /\ Numbers
    BY InitInOrder, InitNumbers
  <1> QED
    BY <1>1, Invariance, Registered_Once, NextInOrder, PTL DEF Spec

-----------------------------------------------------------------------------
(* A peer whose writer gave up has a signal on its way that removes it. *)
LEMMA ReportedFrame ==
  ASSUME DeadPeerReported, peers' \subseteq Conn,
         \A c \in peers' : c \in peers \/ conns'[c].writer # "ended",
         \A c \in peers' : conns'[c].writer = "ended" =>
              conns[c].writer = "ended" /\ conns'[c].addr = conns[c].addr,
         \A i \in Places : control_chan[i].kind = "DroppedPeer" =>
              (\E j \in Places' : control_chan'[j] = control_chan[i])
              \/ \A c \in peers' : control_chan[i] # Dropped(conns[c].addr)
  PROVE  DeadPeerReported'
  <1> SUFFICES ASSUME NEW c \in peers', conns'[c].writer = "ended"
               PROVE  Contains(control_chan, Dropped(conns[c].addr))'
    BY DEF DeadPeerReported
  <1>1. PICK i \in Places : control_chan[i] = Dropped(conns[c].addr)
    BY DEF DeadPeerReported, Contains, Places
  <1>2. PICK j \in Places' : control_chan'[j] = control_chan[i]
    BY <1>1 DEF Dropped
  <1>3. conns'[c].addr = conns[c].addr
    OBVIOUS
  <1> QED
    BY <1>1, <1>2, <1>3 DEF Contains, Places, Dropped

(* What a signal that is sent or taken off leaves in the channel. *)
LEMMA SendLeaves ==
  ASSUME TypeOK, NEW s \in Signals, Send(s)
  PROVE  \A i \in Places : \E j \in Places' : control_chan'[j] = control_chan[i]
  BY SendChan DEF Places, TypeOK

LEMMA ReceiveLeaves ==
  ASSUME TypeOK, NEW kind, Receive(kind)
  PROVE  /\ \A i \in Places : i # 1 => \E j \in Places' : control_chan'[j] = control_chan[i]
         /\ \A j \in Places' : \E i \in Places : control_chan'[j] = control_chan[i]
         /\ 1 \in Places /\ Signal = control_chan[1] /\ Signal.kind = kind
  <1>1. \A i \in Places : i # 1 => i - 1 \in Places' /\ control_chan'[i - 1] = control_chan[i]
    BY ReceiveChan DEF Places, TypeOK
  <1>2. \A j \in Places' : j + 1 \in Places /\ control_chan'[j] = control_chan[j + 1]
    BY ReceiveChan DEF Places, TypeOK
  <1> QED
    BY <1>1, <1>2, ReceiveChan

LEMMA NextReported == IInv /\ IInv' /\ DeadPeerReported /\ [Next]_serverVars => DeadPeerReported'
  <1> SUFFICES ASSUME IInv, IInv', DeadPeerReported, [Next]_serverVars
               PROVE  DeadPeerReported'
    OBVIOUS
  <1>0. TypeOK /\ peers \subseteq Conn /\ peers' \subseteq Conn
    BY DEF IInv, TypeOK
  <1> DEFINE Leaves == \A i \in Places : \E j \in Places' : control_chan'[j] = control_chan[i]
  <1>a. UNCHANGED control_chan => Leaves
    BY DEF Places
  <1>b. ASSUME NEW kind, Receive(kind), kind # "DroppedPeer"
        PROVE  \A i \in Places : control_chan[i].kind = "DroppedPeer" =>
                  \E j \in Places' : control_chan'[j] = control_chan[i]
    BY <1>0, <1>b, ReceiveLeaves
  <1>c. ASSUME NEW task, task # "up", Panic(task) PROVE DeadPeerReported'
    BY <1>0, <1>c, PanicFields DEF DeadPeerReported
  <1>1. CASE UNCHANGED serverVars
    BY <1>0, <1>1, <1>a, ReportedFrame DEF serverVars, taskVars
  <1>2. CASE AskConnect
    <2>1. Head(known_peers) \in Conn
      BY <1>0, <1>2 DEF AskConnect, TypeOK
    <2>2. Connect(Head(known_peers)) \in Signals
      BY <2>1 DEF Signals
    <2>3. Leaves
      BY <1>0, <1>2, <2>2, SendLeaves DEF AskConnect
    <2> QED
      BY <1>0, <1>2, <2>3, ReportedFrame DEF AskConnect, taskVars
  <1>3. CASE ConnectorPanics
    BY <1>0, <1>3, <1>a, ReportedFrame DEF ConnectorPanics, taskVars
  <1>4. CASE ListenerHandsOver
    <2>1. NewPeer(listener) \in Signals
      BY <1>4 DEF ListenerHandsOver, Signals
    <2>2. Leaves
      BY <1>0, <1>4, <2>1, SendLeaves DEF ListenerHandsOver, HandOver
    <2> QED
      BY <1>0, <1>4, <2>2, ReportedFrame DEF ListenerHandsOver
  <1>5. CASE ListenerFails
    BY <1>5, <1>c DEF ListenerFails
  <1>d. ASSUME NEW c \in Conn, Register(c),
               \A i \in Places : control_chan[i].kind = "DroppedPeer" =>
                  \E j \in Places' : control_chan'[j] = control_chan[i]
        PROVE  DeadPeerReported'
    <2>1. /\ \A d \in Conn : d # c => conns'[d] = conns[d] /\ (d \in peers' => d \in peers)
          /\ conns'[c].writer = "idle"
      BY <1>0, <1>d, RegisterFields
    <2> QED
      BY <1>0, <1>d, <2>1, ReportedFrame
  <1>6. CASE ConnectSucceeds
    <2>1. dispatcher \in Conn /\ Register(dispatcher) /\ UNCHANGED control_chan
      BY <1>6 DEF ConnectSucceeds
    <2> QED
      BY <1>a, <1>d, <2>1
  <1>7. CASE ConnectFails
    BY <1>0, <1>7, <1>a, ReportedFrame DEF ConnectFails
  <1>8. CASE Dispatch
    <2>1. CASE DispatchConnect
      BY <1>0, <1>b, <2>1, ReportedFrame DEF DispatchConnect
    <2>2. CASE DispatchBroadcast
      <3>1. Signal.msg \in Nat /\ Receive("BroadcastMessage") /\ UNCHANGED peers
            /\ conns' = Push(peers, Signal.msg)
        BY <1>0, <2>2, ReceiveChan, SignalFields DEF DispatchBroadcast
      <3>2. \A d \in Conn : conns'[d].writer = conns[d].writer /\ conns'[d].addr = conns[d].addr
        BY <1>0, <3>1, PushFields
      <3> QED
        BY <1>0, <1>b, <3>1, <3>2, ReportedFrame
    <2>3. CASE DispatchDropped
      <3>1. /\ Receive("DroppedPeer") /\ UNCHANGED conns
            /\ \A c \in peers' : c \in peers /\ conns[c].addr # Signal.addr
        BY <2>3 DEF DispatchDropped, Without
      <3>2. \A c \in peers' : control_chan[1] # Dropped(conns[c].addr)
        BY <1>0, <3>1, ReceiveLeaves DEF Dropped
      <3>3. \A i \in Places : i # 1 => \E j \in Places' : control_chan'[j] = control_chan[i]
        BY <1>0, <3>1, ReceiveLeaves
      <3> QED
        BY <1>0, <3>1, <3>2, <3>3, ReportedFrame
    <2>4. CASE DispatchNewPeer
      <3>1. Receive("GetNewPeer") /\ Register(Signal.conn) /\ Signal.conn \in Conn
        BY <1>0, <2>4, ReceiveChan, SignalFields DEF DispatchNewPeer
      <3> QED
        BY <1>b, <1>d, <3>1
    <2>5. CASE DispatchNewPeerFails
      BY <1>c, <2>5 DEF DispatchNewPeerFails
    <2> QED
      BY <1>8, <2>1, <2>2, <2>3, <2>4, <2>5 DEF Dispatch
  <1>9. ASSUME NEW c \in Conn, ListenerAccept(c) PROVE DeadPeerReported'
    <2>1. \A d \in Conn : conns'[d].writer = conns[d].writer /\ conns'[d].addr = conns[d].addr
      BY <1>0, <1>9 DEF ListenerAccept, TypeOK, ConnType
    <2> QED
      BY <1>0, <1>9, <1>a, <2>1, ReportedFrame DEF ListenerAccept
  <1>10. ASSUME NEW c \in Conn, ReaderPanics(c) \/ WriterPanics(c) PROVE DeadPeerReported'
    BY <1>10, <1>c DEF ReaderPanics, WriterPanics
  <1>11. ASSUME NEW c \in Conn, Works(c) PROVE DeadPeerReported'
    <2>1. /\ \A d \in Conn : d # c => conns'[d] = conns[d]
          /\ conns'[c].addr = conns[c].addr /\ UNCHANGED peers
      BY <1>0, <1>11, TaskFields DEF taskVars
    <2>2. CASE WriterReports(c)
      <3>1. Send(Dropped(conns[c].addr)) /\ Dropped(conns[c].addr) \in Signals
        BY <1>0, <2>2, TaskFields
      <3>2. Leaves /\ Contains(control_chan', Dropped(conns[c].addr))
        <4>1. Len(control_chan) + 1 \in 1 .. Len(control_chan')
              /\ control_chan'[Len(control_chan) + 1] = Dropped(conns[c].addr)
          BY <1>0, <3>1, SendChan DEF TypeOK
        <4> QED
          BY <1>0, <3>1, <4>1, SendLeaves DEF Contains
      <3>3. ASSUME NEW d \in peers', conns'[d].writer = "ended"
            PROVE  Contains(control_chan', Dropped(conns'[d].addr))
        <4>1. CASE d = c
          BY <2>1, <3>2, <4>1
        <4>2. CASE d # c
          <5>1. d \in peers /\ d \in Conn /\ conns'[d] = conns[d]
            BY <1>0, <2>1, <4>2
          <5>2. PICK i \in Places : control_chan[i] = Dropped(conns[d].addr)
            BY <3>3, <5>1 DEF DeadPeerReported, Contains, Places
          <5>3. PICK j \in Places' : control_chan'[j] = control_chan[i]
            BY <3>2
          <5> QED
            BY <5>1, <5>2, <5>3 DEF Contains, Places
        <4> QED
          BY <4>1, <4>2
      <3> QED
        BY <3>3 DEF DeadPeerReported, Contains, Dropped
    <2>3. CASE ~WriterReports(c)
      <3>1. UNCHANGED control_chan /\ (conns'[c].writer = "ended" => conns[c].writer = "ended")
        BY <1>0, <1>11, <2>3, TaskFields DEF Works
      <3> QED
        BY <1>0, <1>a, <2>1, <3>1, ReportedFrame
    <2> QED
      BY <2>2, <2>3
  <1>12. ASSUME NEW t \in Thread, BroadcastCall(t) \/ BroadcastPanics(t) \/ BroadcastSend(t)
         PROVE  DeadPeerReported'
    <2>1. Leaves
      <3>1. made + 1 \in Nat \ {0}
        BY <1>0 DEF TypeOK
      <3>2. Broadcast(made + 1) \in Signals
        BY <3>1 DEF Signals
      <3> QED
        BY <1>0, <1>12, <1>a, <3>2, SendLeaves
        DEF BroadcastCall, BroadcastPanics, BroadcastSend
    <2> QED
      BY <1>0, <1>12, <2>1, ReportedFrame
      DEF BroadcastCall, BroadcastPanics, BroadcastSend, taskVars
  <1> QED
    BY <1>1, <1>2, <1>3, <1>4, <1>5, <1>6, <1>7, <1>8, <1>9, <1>10, <1>11, <1>12
    DEF Next, Works

(* server.rs:218-222: a peer whose writer gave up does not stay in peers *)
(* unnoticed: the signal that removes it is in the channel, however full *)
(* the channel was when it was sent.                                     *)
THEOREM DeadPeer_Reported == Spec => []DeadPeerReported
  <1>1. Init => DeadPeerReported
    BY DEF Init, DeadPeerReported
  <1> QED
    BY <1>1, Invariance, NextReported, PTL DEF Spec

-----------------------------------------------------------------------------
(* While addresses are distinct, the only peers whose removal is asked for are *)
(* those whose writer has ended.                                               *)
DropsEnded ==
    DistinctAddresses /\ Up =>
        \A i \in Places, c \in Conn :
            control_chan[i] = Dropped(conns[c].addr) => conns[c].writer = "ended"

Running(w) == w \in {"idle", "writing", "failed"}

LEMMA InitServed == Init => DropsEnded /\ AllServed
  <1> SUFFICES ASSUME Init PROVE DropsEnded /\ AllServed
    OBVIOUS
  <1>1. Places = {} /\ reactor = "up" /\ \A c \in Conn : conns[c].writer = "none"
    BY DEF Init, NewConn, Places
  <1> QED
    BY <1>1 DEF DropsEnded, AllServed

(* Steps at which no writer starts, and no removal is asked for or done. *)
LEMMA ServedFrame ==
  ASSUME DropsEnded, AllServed, UNCHANGED reactor,
         \A c \in Conn : /\ conns'[c].addr = conns[c].addr
                         /\ Running(conns'[c].writer) => Running(conns[c].writer)
                         /\ conns[c].writer = "ended" => conns'[c].writer = "ended"
                         /\ c \in peers /\ Running(conns'[c].writer) => c \in peers',
         \A j \in Places' : control_chan'[j].kind = "DroppedPeer" =>
              \E i \in Places : control_chan'[j] = control_chan[i]
  PROVE  DropsEnded' /\ AllServed'
  <1>1. DistinctAddresses' => DistinctAddresses
    BY DEF DistinctAddresses
  <1>2. AllServed'
    BY <1>1 DEF AllServed, Running
  <1>3. ASSUME DistinctAddresses, Up, NEW j \in Places', NEW c \in Conn,
               control_chan'[j] = Dropped(conns'[c].addr)
        PROVE  conns'[c].writer = "ended"
    <2>1. PICK i \in Places : control_chan[i] = Dropped(conns[c].addr)
      BY <1>3 DEF Dropped
    <2> QED
      BY <1>3, <2>1 DEF DropsEnded
  <1>4. Up' => Up
    BY DEF Up
  <1> QED
    BY <1>1, <1>2, <1>3, <1>4 DEF DropsEnded, Dropped

(* A connection that is registered was not, so nobody asks for its removal. *)
LEMMA ServedRegister ==
  ASSUME IInv, Lives, DropsEnded, AllServed, UNCHANGED reactor, Up,
         NEW c \in Conn, Register(c), conns[c].reader = "none",
         \A j \in Places' : \E i \in Places : control_chan'[j] = control_chan[i]
  PROVE  DropsEnded' /\ AllServed'
  <1>0. TypeOK
    BY DEF IInv
  <1>1. /\ \A d \in Conn : d # c => conns'[d] = conns[d]
        /\ conns'[c].addr = conns[c].addr
        /\ peers' = (peers \ SameAddr(c)) \cup {c}
    BY <1>0, RegisterFields
  <1>2. conns[c].writer = "none"
    BY DEF Lives, Unregistered, Fresh
  <1>3. DistinctAddresses' => DistinctAddresses
    BY <1>1 DEF DistinctAddresses
  <1>4. DistinctAddresses => \A d \in Conn : d \in peers /\ d # c => d \in peers'
    BY <1>1 DEF DistinctAddresses, SameAddr
  <1>5. AllServed'
    BY <1>1, <1>3, <1>4 DEF AllServed
  <1>6. ASSUME DistinctAddresses, NEW j \in Places', NEW d \in Conn,
               control_chan'[j] = Dropped(conns'[d].addr)
        PROVE  conns'[d].writer = "ended"
    <2>1. conns[d].writer = "ended"
      <3>1. conns'[d].addr = conns[d].addr
        BY <1>1
      <3>2. PICK i \in Places : control_chan[i] = Dropped(conns[d].addr)
        BY <1>6, <3>1
      <3> QED
        BY <1>6, <3>2 DEF DropsEnded
    <2>2. d # c
      BY <1>2, <2>1
    <2> QED
      BY <1>1, <2>1, <2>2
  <1> QED
    BY <1>3, <1>5, <1>6 DEF DropsEnded, Dropped

LEMMA ServedPanic ==
  ASSUME IInv, NEW task \in {"dispatcher", "listener", "reader"}, Panic(task)
  PROVE  DropsEnded' /\ AllServed'
  <1>1. ~Up' /\ \A c \in Conn : conns'[c].writer = "none"
    BY PanicFields DEF IInv, Fresh
  <1>2. reactor' # "writer"
    BY DEF Panic
  <1> QED
    BY <1>1, <1>2 DEF DropsEnded, AllServed

LEMMA NextServed ==
  IInv /\ IInv' /\ Lives /\ DropsEnded /\ AllServed /\ [Next]_serverVars
      => DropsEnded' /\ AllServed'
  <1> SUFFICES ASSUME IInv, IInv', Lives, DropsEnded, AllServed, [Next]_serverVars
               PROVE  DropsEnded' /\ AllServed'
    OBVIOUS
  <1>0. TypeOK /\ peers \subseteq Conn
    BY DEF IInv, TypeOK
  <1> DEFINE Nothing == \A j \in Places' : control_chan'[j].kind = "DroppedPeer" =>
                            \E i \in Places : control_chan'[j] = control_chan[i]
  <1>a. UNCHANGED control_chan => Nothing
    BY DEF Places
  <1>b. ASSUME NEW kind, Receive(kind)
        PROVE  \A j \in Places' : \E i \in Places : control_chan'[j] = control_chan[i]
    BY <1>0, <1>b, ReceiveLeaves
  <1>c. ASSUME NEW s \in Signals, Send(s)
        PROVE  \A j \in Places' : control_chan'[j] = s
                                  \/ \E i \in Places : control_chan'[j] = control_chan[i]
    BY <1>0, <1>c, SendChan DEF Places, TypeOK
  <1>1. CASE UNCHANGED serverVars
    BY <1>1, <1>a, ServedFrame DEF serverVars, taskVars
  <1>2. CASE AskConnect
    <2>1. Head(known_peers) \in Conn
      BY <1>0, <1>2 DEF AskConnect, TypeOK
    <2>2. Connect(Head(known_peers)) \in Signals
          /\ Connect(Head(known_peers)).kind # "DroppedPeer"
      BY <2>1 DEF Signals, Connect
    <2>3. Nothing
      BY <1>2, <1>c, <2>2 DEF AskConnect
    <2> QED
      BY <1>2, <2>3, ServedFrame DEF AskConnect, taskVars
  <1>3. CASE ConnectorPanics
    BY <1>3, <1>a, ServedFrame DEF ConnectorPanics, taskVars
  <1>4. CASE ListenerHandsOver
    <2>1. NewPeer(listener) \in Signals /\ NewPeer(listener).kind # "DroppedPeer"
      BY <1>4 DEF ListenerHandsOver, Signals, NewPeer
    <2>2. Nothing
      BY <1>4, <1>c, <2>1 DEF ListenerHandsOver, HandOver
    <2> QED
      BY <1>4, <2>2, ServedFrame DEF ListenerHandsOver
  <1>5. CASE ListenerFails
    BY <1>5, ServedPanic DEF ListenerFails
  <1>6. CASE ConnectSucceeds
    <2>1. /\ dispatcher \in Conn /\ dispatcher = Head(known_peers) /\ known_peers # <<>>
      BY <1>6, PeerServerAssumption DEF ConnectSucceeds, IInv, OneAttempt, Lives, ToConnect
    <2>2. known_peers[1] = dispatcher /\ 1 \in 1 .. Len(known_peers)
      BY <1>0, <2>1 DEF TypeOK
    <2>3. conns[dispatcher].reader = "none"
      BY <2>1, <2>2 DEF Lives, ToConnect, Unregistered
    <2>4. Register(dispatcher) /\ Up /\ UNCHANGED <<reactor, control_chan>>
      BY <1>6 DEF ConnectSucceeds
    <2>5. \A j \in Places' : \E i \in Places : control_chan'[j] = control_chan[i]
      BY <2>4 DEF Places
    <2> QED
      BY <2>1, <2>3, <2>4, <2>5, ServedRegister
  <1>7. CASE ConnectFails
    BY <1>7, <1>a, ServedFrame DEF ConnectFails
  <1>8. CASE Dispatch
    <2>1. CASE DispatchConnect
      BY <1>b, <2>1, ServedFrame DEF DispatchConnect
    <2>2. CASE DispatchBroadcast
      <3>1. Signal.msg \in Nat /\ Receive("BroadcastMessage") /\ UNCHANGED <<peers, reactor>>
            /\ conns' = Push(peers, Signal.msg)
        BY <1>0, <2>2, ReceiveChan, SignalFields DEF DispatchBroadcast
      <3>2. \A d \in Conn : conns'[d].writer = conns[d].writer /\ conns'[d].addr = conns[d].addr
        BY <1>0, <3>1, PushFields
      <3> QED
        BY <1>b, <3>1, <3>2, ServedFrame
    <2>3. CASE DispatchDropped
      <3>1. /\ Receive("DroppedPeer") /\ Up /\ UNCHANGED <<conns, reactor>>
            /\ peers' = {c \in peers : conns[c].addr # Signal.addr}
        BY <2>3 DEF DispatchDropped, Without, Receive
      <3>2. 1 \in Places /\ control_chan[1] = Dropped(Signal.addr)
        BY <1>0, <3>1, ReceiveChan, DroppedSignal
      <3>3. \A j \in Places' : \E i \in Places : control_chan'[j] = control_chan[i]
        BY <1>b, <3>1
      <3>4. DistinctAddresses =>
                \A c \in Conn : conns[c].addr = Signal.addr => conns[c].writer = "ended"
        BY <3>1, <3>2 DEF DropsEnded
      <3>5. DistinctAddresses' <=> DistinctAddresses
        BY <3>1 DEF DistinctAddresses
      <3>6. AllServed'
        BY <3>1, <3>4, <3>5 DEF AllServed
      <3>7. DropsEnded'
        BY <3>1, <3>3, <3>5 DEF DropsEnded, Dropped
      <3> QED
        BY <3>6, <3>7
    <2>4. CASE DispatchNewPeer
      <3>1. Receive("GetNewPeer") /\ Register(Signal.conn) /\ Up /\ UNCHANGED reactor
        BY <2>4 DEF DispatchNewPeer, Receive
      <3>2. Signal.conn \in Conn /\ conns[Signal.conn].reader = "none"
        BY <1>0, <3>1, ReceiveChan, SignalFields DEF Lives, ToAccept, Accepted
      <3> QED
        BY <1>b, <3>1, <3>2, ServedRegister
    <2>5. CASE DispatchNewPeerFails
      BY <2>5, ServedPanic DEF DispatchNewPeerFails
    <2> QED
      BY <1>8, <2>1, <2>2, <2>3, <2>4, <2>5 DEF Dispatch
  <1>9. ASSUME NEW c \in Conn, ListenerAccept(c) PROVE DropsEnded' /\ AllServed'
    <2>1. \A d \in Conn : conns'[d].writer = conns[d].writer /\ conns'[d].addr = conns[d].addr
      BY <1>0, <1>9 DEF ListenerAccept, TypeOK, ConnType
    <2> QED
      BY <1>9, <1>a, <2>1, ServedFrame DEF ListenerAccept
  <1>10. ASSUME NEW c \in Conn, ReaderPanics(c) \/ WriterPanics(c)
         PROVE  DropsEnded' /\ AllServed'
    <2>1. CASE ReaderPanics(c)
      BY <2>1, ServedPanic DEF ReaderPanics
    <2>2. CASE WriterPanics(c)
      <3>1. conns[c].writer = "idle" /\ c \notin peers /\ Panic("writer")
        BY <2>2 DEF WriterPanics, HandleLeft
      <3>2. ~DistinctAddresses
        BY <3>1 DEF AllServed
      <3>3. /\ ~Up' /\ \A d \in Conn : conns'[d].addr = conns[d].addr
        BY <1>0, <3>1, PanicFields
      <3>4. ~DistinctAddresses'
        BY <3>2, <3>3 DEF DistinctAddresses
      <3> QED
        BY <3>4 DEF DropsEnded, AllServed
    <2> QED
      BY <1>10, <2>1, <2>2
  <1>11. ASSUME NEW c \in Conn, Works(c) PROVE DropsEnded' /\ AllServed'
    <2>1. /\ \A d \in Conn : d # c => conns'[d] = conns[d]
          /\ conns'[c].addr = conns[c].addr /\ UNCHANGED <<peers, reactor>>
      BY <1>0, <1>11, TaskFields DEF taskVars
    <2>2. CASE WriterReports(c)
      <3>1. /\ Send(Dropped(conns[c].addr)) /\ Dropped(conns[c].addr) \in Signals
            /\ conns[c].writer = "failed" /\ conns'[c].writer = "ended"
        BY <1>0, <2>2, TaskFields
      <3>2. \A j \in Places' : control_chan'[j] = Dropped(conns[c].addr)
                               \/ \E i \in Places : control_chan'[j] = control_chan[i]
        BY <1>c, <3>1
      <3>3. DistinctAddresses' <=> DistinctAddresses
        BY <2>1 DEF DistinctAddresses
      <3>4. AllServed'
        BY <2>1, <3>1, <3>3 DEF AllServed
      <3>5. ASSUME DistinctAddresses, Up, NEW j \in Places', NEW d \in Conn, d # c,
                   control_chan'[j] = Dropped(conns'[d].addr)
            PROVE  conns'[d].writer = "ended"
        <4>1. conns'[d] = conns[d] /\ conns[d].addr # conns[c].addr
          BY <2>1, <3>5 DEF DistinctAddresses
        <4>2. Dropped(conns[d].addr) # Dropped(conns[c].addr)
          BY <4>1 DEF Dropped
        <4>3. PICK i \in Places : control_chan[i] = Dropped(conns[d].addr)
          BY <3>2, <3>5, <4>1, <4>2
        <4> QED
          BY <3>5, <4>1, <4>3 DEF DropsEnded
      <3>6. Up' => Up
        BY <2>1 DEF Up
      <3>7. DropsEnded'
        BY <3>1, <3>3, <3>5, <3>6 DEF DropsEnded, Dropped
      <3> QED
        BY <3>4, <3>7
    <2>3. CASE ~WriterReports(c)
      <3>1. /\ UNCHANGED control_chan
            /\ Running(conns'[c].writer) => Running(conns[c].writer)
            /\ conns[c].writer = "ended" => conns'[c].writer = "ended"
        BY <1>0, <1>11, <2>3, TaskFields DEF Works, Running
      <3> QED
        BY <1>a, <2>1, <3>1, ServedFrame
    <2> QED
      BY <2>2, <2>3
  <1>12. ASSUME NEW t \in Thread, BroadcastCall(t) \/ BroadcastPanics(t) \/ BroadcastSend(t)
         PROVE  DropsEnded' /\ AllServed'
    <2>1. Nothing
      <3>1. made + 1 \in Nat \ {0}
        BY <1>0 DEF TypeOK
      <3>2. Broadcast(made + 1) \in Signals /\ Broadcast(made + 1).kind # "DroppedPeer"
        BY <3>1 DEF Signals, Broadcast
      <3> QED
        BY <1>12, <1>a, <1>c, <3>2 DEF BroadcastCall, BroadcastPanics, BroadcastSend
    <2> QED
      BY <1>12, <2>1, ServedFrame DEF BroadcastCall, BroadcastPanics, BroadcastSend, taskVars
  <1> QED
    BY <1>1, <1>2, <1>3, <1>4, <1>5, <1>6, <1>7, <1>8, <1>9, <1>10, <1>11, <1>12
    DEF Next, Works

(* server.rs:192,226: while no two connections share an address, a peer whose    *)
(* writer runs is in peers, so that its writer does not run out of handles and   *)
(* take the server down; only removals of peers whose writer ended are asked for. *)
THEOREM All_Served == Spec => [](DropsEnded /\ AllServed)
  BY InitServed, Invariance, Registered_Once, NextServed, PTL DEF Spec
================================================================================
