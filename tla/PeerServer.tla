------------------------------ MODULE PeerServer -------------------------------
(***************************************************************************)
(* The P2P server of one node: src/network/server.rs, peer.rs, and the     *)
(* thread of src/main.rs that connects to the known peers.                 *)
(*                                                                         *)
(* One thread, the reactor, runs all the tasks: the dispatcher of control  *)
(* signals, the listener, and for each peer a reader and a writer.  It     *)
(* catches no panic, so a task that panics takes the others with it.  The  *)
(* threads of the node talk to it through the bounded control_chan and the *)
(* unbounded queues of the peers' handles.                                 *)
(*                                                                         *)
(* A connection has a name here; the server knows the address at its other *)
(* end only, and two connections may share that.  Broadcasts are numbered  *)
(* in the order they enter control_chan; 0 is an answer to one peer.       *)
(***************************************************************************)
EXTENDS Integers, Sequences, SequencesExt, FiniteSets

CONSTANTS
    Conn,           (* connections, each made once at most                 *)
    Addr,           (* addresses of peers                                  *)
    Setup,          (* the known peers and the addresses to consider       *)
    Thread,         (* threads that broadcast: workers, miner, requests    *)
    Capacity,       (* of control_chan; 10000 in the code                  *)
    MaxBroadcast,   (* bound: broadcasts                                   *)
    MaxRead         (* bound: messages a peer sends us                     *)

ASSUME PeerServerAssumption ==
    /\ Conn \cap {"accept", "recv"} = {}
    /\ Setup \subseteq [known : Seq(Conn), addr : [Conn -> Addr]]
    /\ \A s \in Setup : IsInjective(s.known)
    /\ Capacity \in Nat \ {0}
    /\ MaxBroadcast \in Nat /\ MaxRead \in Nat

VARIABLES
    conns,          (* for each connection: addr; stream (none, open, or   *)
                    (* gone: the other end closed it); its reader and      *)
                    (* writer tasks; its write_queue; how many messages    *)
                    (* were read, and how many of them, each with a        *)
                    (* handle, are held by the workers; written, the       *)
                    (* broadcasts its writer took; since, how many were    *)
                    (* before it was registered                            *)
    peers,          (* the connections with a handle in Context.peers      *)
    dispatcher,     (* "recv", or the connection it is establishing        *)
    dispatched,     (* how many broadcasts it has handed to the peers      *)
    listener,       (* "accept", or the connection it has to hand over     *)
    reactor,        (* "up", or the task that took it down                 *)
    control_chan,
    known_peers,    (* what main has still to connect to                   *)
    connector,      (* main's thread: connect, wait or panicked            *)
    bpc,            (* the broadcasting threads: idle, sending or panicked *)
    made            (* how many broadcasts entered control_chan            *)

taskVars == <<peers, dispatcher, dispatched, listener>>
nodeVars == <<known_peers, connector, bpc, made>>
serverVars == <<conns, taskVars, reactor, control_chan, nodeVars>>

Connect(c) == [kind |-> "ConnectNewPeer", conn |-> c]
NewPeer(c) == [kind |-> "GetNewPeer", conn |-> c]
Dropped(a) == [kind |-> "DroppedPeer", addr |-> a]
Broadcast(n) == [kind |-> "BroadcastMessage", msg |-> n]

NewConn(a) ==
    [addr |-> a, stream |-> "none", reader |-> "none", writer |-> "none",
     queue |-> <<>>, read |-> 0, held |-> 0, written |-> <<>>, since |-> 0]

Init ==
    /\ \E s \in Setup :
        /\ conns = [c \in Conn |-> NewConn(s.addr[c])]
        /\ known_peers = s.known
    /\ peers = {} /\ dispatcher = "recv" /\ dispatched = 0 /\ listener = "accept"
    /\ reactor = "up" /\ control_chan = <<>>
    /\ connector = "connect"
    /\ bpc = [t \in Thread |-> "idle"] /\ made = 0

Up == reactor = "up"

(* The receiver of control_chan ends with the dispatcher's task, and is kept *)
(* when another task takes the thread down.                                  *)
Closed == reactor = "dispatcher"
HasRoom == Len(control_chan) < Capacity

Send(signal) ==
    /\ HasRoom /\ ~Closed
    /\ control_chan' = Append(control_chan, signal)

(* The task at fault ends the thread.  No task runs after that and nothing looks *)
(* at what they had, so the model forgets it; the senders' end of control_chan   *)
(* lives on.                                                                     *)
Panic(task) ==
    /\ reactor' = task
    /\ conns' = [c \in Conn |-> NewConn(conns[c].addr)]
    /\ peers' = {} /\ dispatcher' = "recv" /\ dispatched' = 0 /\ listener' = "accept"
    /\ UNCHANGED nodeVars

-----------------------------------------------------------------------------
(* main's thread: one known peer after the other, each until it is connected. *)
AskConnect ==
    /\ connector = "connect" /\ known_peers # <<>>
    /\ Send(Connect(Head(known_peers)))
    /\ connector' = "wait"
    /\ UNCHANGED <<conns, taskVars, reactor, known_peers, bpc, made>>

(* The unwrap of the send, once control_chan is closed. *)
ConnectorPanics ==
    /\ connector = "connect" /\ known_peers # <<>> /\ Closed
    /\ connector' = "panicked"
    /\ UNCHANGED <<conns, taskVars, reactor, control_chan, known_peers, bpc, made>>

(* listener_loop: a connection that main does not make may come in. *)
ListenerAccept(c) ==
    /\ Up /\ listener = "accept"
    /\ conns[c].stream = "none" /\ ~Contains(known_peers, c)
    /\ conns' = [conns EXCEPT ![c].stream = "open"]
    /\ listener' = c
    /\ UNCHANGED <<peers, dispatcher, dispatched, reactor, control_chan, nodeVars>>

(* A mutant: a peer that finds the channel full is let go. *)
HandOverIfRoom(c) == IF HasRoom THEN Send(NewPeer(c)) ELSE UNCHANGED control_chan
HandOver(c) == Send(NewPeer(c))

ListenerHandsOver ==
    /\ Up /\ listener \in Conn
    /\ HandOver(listener)
    /\ listener' = "accept"
    /\ UNCHANGED <<conns, peers, dispatcher, dispatched, reactor, nodeVars>>

ListenerFails == Up /\ listener = "accept" /\ Panic("listener") /\ UNCHANGED control_chan

-----------------------------------------------------------------------------
(* dispatch_control, one action for each signal. *)
Receive(kind) ==
    /\ Up /\ dispatcher = "recv"
    /\ control_chan # <<>> /\ Head(control_chan).kind = kind
    /\ control_chan' = Tail(control_chan)

Signal == Head(control_chan)

(* peers.insert replaces the handle of the same address. *)
SameAddr(c) == {d \in Conn : conns[d].addr = conns[c].addr}

Register(c) ==
    /\ peers' = (peers \ SameAddr(c)) \cup {c}
    /\ conns' = [conns EXCEPT ![c].stream = IF @ = "none" THEN "open" ELSE @,
                              ![c].reader = "reading", ![c].writer = "idle",
                              ![c].since = dispatched]

(* Until the connection is made or refused no other signal is looked at. *)
DispatchConnect ==
    /\ Receive("ConnectNewPeer")
    /\ dispatcher' = Signal.conn
    /\ UNCHANGED <<conns, peers, dispatched, listener, reactor, nodeVars>>

ConnectSucceeds ==
    /\ Up /\ dispatcher \in Conn
    /\ Register(dispatcher)
    /\ dispatcher' = "recv"
    /\ known_peers' = Tail(known_peers) /\ connector' = "connect"
    /\ UNCHANGED <<dispatched, listener, reactor, control_chan, bpc, made>>

(* main sleeps for a second and asks again. *)
ConnectFails ==
    /\ Up /\ dispatcher \in Conn
    /\ dispatcher' = "recv" /\ connector' = "connect"
    /\ UNCHANGED <<conns, peers, dispatched, listener, reactor, control_chan,
                   known_peers, bpc, made>>

(* Handle::write to each; the queue of a writer that ended is gone.  A mutant: *)
(* to those that are not behind.                                               *)
PushIfEmpty(to, msg) ==
    [c \in Conn |-> IF c \in to /\ conns[c].writer # "ended" /\ conns[c].queue = <<>>
                    THEN [conns[c] EXCEPT !.queue = Append(@, msg)] ELSE conns[c]]

Push(to, msg) ==
    [c \in Conn |-> IF c \in to /\ conns[c].writer # "ended"
                    THEN [conns[c] EXCEPT !.queue = Append(@, msg)] ELSE conns[c]]

(* A mutant: the dispatcher waits for the writes that are under way. *)
DispatchBroadcastWaiting ==
    /\ Receive("BroadcastMessage")
    /\ \A c \in peers : conns[c].queue = <<>> /\ conns[c].writer # "writing"
    /\ conns' = Push(peers, Signal.msg)
    /\ dispatched' = dispatched + 1
    /\ UNCHANGED <<peers, dispatcher, listener, reactor, nodeVars>>

DispatchBroadcast ==
    /\ Receive("BroadcastMessage")
    /\ conns' = Push(peers, Signal.msg)
    /\ dispatched' = dispatched + 1
    /\ UNCHANGED <<peers, dispatcher, listener, reactor, nodeVars>>

DispatchNewPeer ==
    /\ Receive("GetNewPeer")
    /\ Register(Signal.conn)
    /\ UNCHANGED <<dispatcher, dispatched, listener, reactor, nodeVars>>

(* A stream that was reset has no peer_addr; the error ends the dispatcher. *)
DispatchNewPeerFails ==
    /\ Receive("GetNewPeer")
    /\ conns[Signal.conn].stream = "gone"
    /\ Panic("dispatcher")

(* Whatever connection has the address now is removed.  A mutant: only one *)
(* whose reader has ended.                                                 *)
WithoutEnded(a) == {c \in peers : conns[c].addr # a \/ conns[c].reader # "ended"}
Without(a) == {c \in peers : conns[c].addr # a}

DispatchDropped ==
    /\ Receive("DroppedPeer")
    /\ peers' = Without(Signal.addr)
    /\ UNCHANGED <<conns, dispatcher, dispatched, listener, reactor, nodeVars>>

Dispatch ==
    \/ DispatchConnect \/ DispatchBroadcast \/ DispatchDropped
    \/ DispatchNewPeer \/ DispatchNewPeerFails

-----------------------------------------------------------------------------
(* The reader and the writer of a connection. *)
ReaderReads(c) ==
    /\ Up /\ conns[c].reader = "reading"
    /\ conns[c].read < MaxRead
    /\ conns' = [conns EXCEPT ![c].read = @ + 1, ![c].held = @ + 1]
    /\ UNCHANGED <<taskVars, reactor, control_chan, nodeVars>>

(* The unwrap of the send to the workers, when the last of them has panicked *)
(* (Node has how they do).                                                  *)
ReaderPanics(c) ==
    /\ Up /\ conns[c].reader = "reading"
    /\ Panic("reader") /\ UNCHANGED control_chan

(* Nobody is told.  A mutant: the peer is reported here too. *)
ReaderEndsReporting(c) ==
    /\ Up /\ conns[c].reader = "reading" /\ conns[c].stream = "gone"
    /\ conns' = [conns EXCEPT ![c].reader = "ended"]
    /\ Send(Dropped(conns[c].addr))
    /\ UNCHANGED <<taskVars, reactor, nodeVars>>

ReaderEnds(c) ==
    /\ Up /\ conns[c].reader = "reading" /\ conns[c].stream = "gone"
    /\ conns' = [conns EXCEPT ![c].reader = "ended"]
    /\ UNCHANGED <<taskVars, reactor, control_chan, nodeVars>>

WriterTakes(c) ==
    /\ Up /\ conns[c].writer = "idle" /\ conns[c].queue # <<>>
    /\ LET msg == Head(conns[c].queue)
       IN  conns' = [conns EXCEPT ![c].writer = "writing", ![c].queue = Tail(@),
                                  ![c].written = IF msg = 0 THEN @ ELSE Append(@, msg)]
    /\ UNCHANGED <<taskVars, reactor, control_chan, nodeVars>>

(* A write to a stream that is gone may fail, or be lost without a sign. *)
WriteEnds(c) ==
    /\ Up /\ conns[c].writer = "writing"
    /\ \/ conns' = [conns EXCEPT ![c].writer = "idle"]
       \/ conns[c].stream = "gone" /\ conns' = [conns EXCEPT ![c].writer = "failed"]
    /\ UNCHANGED <<taskVars, reactor, control_chan, nodeVars>>

(* The task waits until there is room; its queue is dropped with it.  A *)
(* mutant: it does not wait.                                            *)
ReportIfRoom(a) == IF HasRoom THEN Send(Dropped(a)) ELSE UNCHANGED control_chan
Report(a) == Send(Dropped(a))

WriterReports(c) ==
    /\ Up /\ conns[c].writer = "failed"
    /\ Report(conns[c].addr)
    /\ conns' = [conns EXCEPT ![c].writer = "ended", ![c].queue = <<>>]
    /\ UNCHANGED <<taskVars, reactor, nodeVars>>

(* next() gives None once no handle is left, and unwrap panics. *)
HandleLeft(c) == c \in peers \/ conns[c].reader = "reading" \/ conns[c].held > 0

WriterPanics(c) ==
    /\ Up /\ conns[c].writer = "idle" /\ conns[c].queue = <<>> /\ ~HandleLeft(c)
    /\ Panic("writer") /\ UNCHANGED control_chan

-----------------------------------------------------------------------------
(* The workers and the other ends. *)

(* A worker is done with a message, and perhaps answered it. *)
WorkerHandles(c) ==
    /\ Up /\ conns[c].held > 0
    /\ \E answered \in BOOLEAN :
        conns' = [(IF answered THEN Push({c}, 0) ELSE conns) EXCEPT ![c].held = @ - 1]
    /\ UNCHANGED <<taskVars, reactor, control_chan, nodeVars>>

PeerCloses(c) ==
    /\ Up /\ conns[c].stream = "open"
    /\ conns' = [conns EXCEPT ![c].stream = "gone"]
    /\ UNCHANGED <<taskVars, reactor, control_chan, nodeVars>>

(* Handle::broadcast: the call, and the send, which may have to wait. *)
InBroadcast == {t \in Thread : bpc[t] = "sending"}

BroadcastCall(t) ==
    /\ bpc[t] = "idle"
    /\ made + Cardinality(InBroadcast) < MaxBroadcast
    /\ bpc' = [bpc EXCEPT ![t] = "sending"]
    /\ UNCHANGED <<conns, taskVars, reactor, control_chan, known_peers, connector, made>>

BroadcastSend(t) ==
    /\ bpc[t] = "sending"
    /\ Send(Broadcast(made + 1))
    /\ made' = made + 1
    /\ bpc' = [bpc EXCEPT ![t] = "idle"]
    /\ UNCHANGED <<conns, taskVars, reactor, known_peers, connector>>

BroadcastPanics(t) ==
    /\ bpc[t] = "sending" /\ Closed
    /\ bpc' = [bpc EXCEPT ![t] = "panicked"]
    /\ UNCHANGED <<conns, taskVars, reactor, control_chan, known_peers, connector, made>>

Next ==
    \/ AskConnect \/ ConnectorPanics
    \/ ListenerHandsOver \/ ListenerFails
    \/ ConnectSucceeds \/ ConnectFails \/ Dispatch
    \/ \E c \in Conn :
        \/ ListenerAccept(c) \/ PeerCloses(c)
        \/ ReaderReads(c) \/ ReaderPanics(c) \/ ReaderEnds(c)
        \/ WriterTakes(c) \/ WriteEnds(c) \/ WriterReports(c) \/ WriterPanics(c)
        \/ WorkerHandles(c)
    \/ \E t \in Thread : BroadcastCall(t) \/ BroadcastSend(t) \/ BroadcastPanics(t)

Spec == Init /\ [][Next]_serverVars

(* The executor runs every task that is ready, and a thread that waits for room *)
(* in the channel is woken in its turn.  Nothing is assumed of the network, the *)
(* peers, the workers or main.                                                  *)
FairSpec ==
    /\ Spec
    /\ WF_serverVars(Dispatch) /\ SF_serverVars(ListenerHandsOver)
    /\ \A c \in Conn : WF_serverVars(WriterTakes(c)) /\ SF_serverVars(WriterReports(c))
    /\ \A t \in Thread : SF_serverVars(BroadcastSend(t))

-----------------------------------------------------------------------------
Signals ==
    {Connect(c) : c \in Conn} \cup {NewPeer(c) : c \in Conn}
        \cup {Dropped(a) : a \in Addr} \cup {Broadcast(n) : n \in Nat \ {0}}

ConnType ==
    [addr : Addr, stream : {"none", "open", "gone"},
     reader : {"none", "reading", "ended"},
     writer : {"none", "idle", "writing", "failed", "ended"},
     queue : Seq(Nat), read : Nat, held : Nat, written : Seq(Nat \ {0}), since : Nat]

TypeOK ==
    /\ conns \in [Conn -> ConnType]
    /\ peers \subseteq Conn
    /\ dispatcher \in Conn \cup {"recv"} /\ listener \in Conn \cup {"accept"}
    /\ reactor \in {"up", "dispatcher", "listener", "reader", "writer"}
    /\ control_chan \in Seq(Signals) /\ Len(control_chan) <= Capacity
    /\ known_peers \in Seq(Conn) /\ connector \in {"connect", "wait", "panicked"}
    /\ bpc \in [Thread -> {"idle", "sending", "panicked"}]
    /\ made \in Nat /\ dispatched \in Nat

(* server.rs:90: a connection gets the broadcasts in one order, that of the  *)
(* channel, without a gap or a repetition from its registration on, and up   *)
(* to the last one for as long as it is in peers and its writer runs.        *)
Increasing(q) ==
    \A i, j \in 1 .. Len(q) : i < j /\ q[i] # 0 /\ q[j] # 0 => q[i] < q[j]

Sequenced(since, written, queue, last) ==
    /\ \A i \in 1 .. Len(written) : written[i] = since + i
    /\ since + Len(written) <= last
    /\ ToSet(queue) \ {0} = (since + Len(written) + 1) .. last
    /\ Increasing(queue)

GetsInOrder(c) ==
    LET k == conns[c]
    IN  \E last \in 0 .. dispatched :
            /\ Sequenced(k.since, k.written, k.queue, last)
            /\ c \in peers /\ k.writer # "ended" => last = dispatched

InOrder == \A c \in Conn : GetsInOrder(c)

(* server.rs:218: a peer whose writer gave up does not stay in peers unnoticed: *)
(* the signal that removes it is on its way, however full the channel was.      *)
DeadPeerReported ==
    \A c \in peers :
        conns[c].writer = "ended" => Contains(control_chan, Dropped(conns[c].addr))

(* server.rs:192,226: while no two connections share an address, one whose     *)
(* writer runs is in peers, so it gets every broadcast and its writer does not *)
(* run out of handles, which would take the whole server down.                 *)
DistinctAddresses == \A c, d \in Conn : conns[c].addr = conns[d].addr => c = d

AllServed ==
    DistinctAddresses =>
        /\ \A c \in Conn : conns[c].writer \in {"idle", "writing", "failed"} => c \in peers
        /\ reactor # "writer"

-----------------------------------------------------------------------------
(* Attempts to connect are answered or time out. *)
ConnectsEnd == []<>(dispatcher = "recv")
WritesEnd(c) == []<>(conns[c].writer # "writing")

(* server.rs:263: a thread that broadcasts, the chain locked, is not kept for  *)
(* ever by a full channel or by a peer that does not read, while the server    *)
(* runs.                                                                       *)
BroadcastReturns ==
    ConnectsEnd => \A t \in Thread : bpc[t] = "sending" ~> (bpc[t] # "sending" \/ ~Up)

(* server.rs:190,218: a broadcast queued for a peer is written, or the write   *)
(* to the peer fails and the peer is removed, while the server runs.           *)
BroadcastsWritten ==
    ConnectsEnd =>
        \A c \in Conn : WritesEnd(c) =>
            \A n \in 1 .. MaxBroadcast :
                Contains(conns[c].queue, n) ~>
                    \/ Contains(conns[c].written, n)
                    \/ conns[c].writer = "ended" /\ c \notin peers
                    \/ ~Up

(* server.rs:71,85: a peer that was accepted is registered, although the       *)
(* dispatcher may be busy connecting to others, while the server runs.         *)
PeersAdmitted ==
    ConnectsEnd =>
        \A c \in Conn : conns[c].stream = "open" ~> (conns[c].reader # "none" \/ ~Up)
================================================================================
