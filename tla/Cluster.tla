-------------------------------- MODULE Cluster --------------------------------
(***************************************************************************)
(* Several nodes that gossip their blocks: the block messages of           *)
(* src/network/worker.rs and what src/miner/worker.rs broadcasts.  Each    *)
(* message is handled with the chain locked, so a handler is a step here;  *)
(* Node has the steps inside, and PeerServer the connections.              *)
(*                                                                         *)
(* All nodes are honest, so every block passes its check.  A block is the  *)
(* node whose genesis it is, or a number, in the order they are mined.     *)
(* Every message is about one block: a mined block is sent by itself, and  *)
(* the others ask for, send and announce as many as the message before.    *)
(***************************************************************************)
EXTENDS Integers, Sequences, SequencesExt, FiniteSets, FiniteSetsExt

CONSTANTS
    Node,
    Setup,       (* the clusters to consider: the number of workers of a    *)
                 (* node; the edges, sets of two nodes that get connected;  *)
                 (* those up from the start, and those that may break; the  *)
                 (* nodes that mine; and a bound on the blocks they mine    *)
    MaxBlock     (* bound: mined blocks in any cluster                      *)

ASSUME ClusterAssumption ==
    /\ \A s \in Setup :
        /\ s.workers \in Nat \ {0}
        /\ s.edges \subseteq {{m, n} : m, n \in Node}
        /\ s.up \subseteq s.edges /\ s.lossy \subseteq s.edges
        /\ s.miners \subseteq Node /\ s.bound \in 0 .. MaxBlock
    /\ MaxBlock \in Nat /\ Node \cap 1 .. MaxBlock = {}

VARIABLES
    setup,       (* the cluster this is                                     *)
    parents,     (* the parents of the mined blocks                         *)
    miners,      (* and who mined them                                      *)
    blocks,      (* the blocks of each node's chain                         *)
    orphans,     (* its orphan buffer                                       *)
    parent_block, (* the tip each miner read last                           *)
    lost,        (* history: the orphans it removed without inserting them  *)
    dead,        (* the nodes whose chain is poisoned                       *)
    links,       (* the connections there are                               *)
    broken,      (* those that broke                                        *)
    network      (* the messages of each queue, in order                    *)

worldVars == <<parents, miners>>
nodeVars == <<blocks, orphans, parent_block, lost, dead>>
linkVars == <<links, broken>>
clusterVars == <<setup, worldVars, nodeVars, linkVars, network>>

(* A broadcast goes through control_chan and an answer straight to the peer's *)
(* queue, so neither keeps its place among the others.                        *)
Way == {"broadcast", "answer"}

(* What one node has sent to another on one of the ways. *)
Queue == [from : Node, to : Node, way : Way]

Mined == 1 .. Len(parents)
Block == Node \cup Mined

Init ==
    /\ setup \in Setup
    /\ parents = <<>> /\ miners = <<>>
    /\ blocks = [n \in Node |-> {n}]
    /\ orphans = [n \in Node |-> <<>>]
    /\ parent_block = [n \in Node |-> n]
    /\ lost = [n \in Node |-> {}]
    /\ dead = {}
    /\ links = setup.up /\ broken = {}
    /\ network = [q \in Queue |-> <<>>]

Linked(m, n) == m # n /\ {m, n} \in links

(* Messages of m put on the way to its peers among some nodes. *)
Post(net, m, to, way, msgs) ==
    [q \in Queue |->
        IF /\ q.from = m /\ q.to \in to \ dead /\ q.way = way
           /\ Linked(q.from, q.to)
        THEN net[q] \o msgs ELSE net[q]]

Message(kind, b) == [kind |-> kind, block |-> b]

-----------------------------------------------------------------------------
(* The miner and its inserting thread: the tip is read now and then, and a     *)
(* block on it inserted and broadcast; one on the genesis of the node goes     *)
(* after the genesis.                                                          *)
Height[b \in Block] == IF b \in Node THEN 1 ELSE Height[parents[b]] + 1

TipsOf(n) == {b \in blocks[n] : \A c \in blocks[n] : Height[c] <= Height[b]}

(* A mutant: without the genesis. *)
SentBlockOnly(n, tip, b) == <<Message("Blocks", b)>>

Sent(n, tip, b) ==
    (IF tip = n THEN <<Message("Blocks", n)>> ELSE <<>>) \o <<Message("Blocks", b)>>

Mining(n) == n \in setup.miners \ dead /\ Len(parents) < setup.bound

ReadTip(n) ==
    /\ Mining(n)
    /\ \E tip \in TipsOf(n) : parent_block' = [parent_block EXCEPT ![n] = tip]
    /\ UNCHANGED <<setup, worldVars, blocks, orphans, lost, dead, linkVars, network>>

Mine(n) ==
    /\ Mining(n)
    /\ LET b == Len(parents) + 1
            tip == parent_block[n]
       IN  /\ parents' = Append(parents, tip)
           /\ miners' = Append(miners, n)
           /\ blocks' = [blocks EXCEPT ![n] = @ \cup {b}]
           /\ network' = Post(network, n, Node, "broadcast", Sent(n, tip, b))
    /\ UNCHANGED <<setup, orphans, parent_block, lost, dead, linkVars>>

-----------------------------------------------------------------------------
(* The messages.  A worker takes the next one and then waits for the chain, so *)
(* as many messages as there are workers may be overtaken by each other.       *)
Take(q, i, kind) ==
    /\ q.to \notin dead
    /\ i <= Len(network[q])
    /\ network[q][i].kind = kind

Taken(q, i) == [network EXCEPT ![q] = RemoveAt(@, i)]
BlockOf(q, i) == network[q][i].block

(* NewBlockHashes: a block that is not in the chain is asked for.  A mutant: a *)
(* known one is announced in return.                                           *)
HandleNewBlockHashesEchoing(q, i) ==
    LET b == BlockOf(q, i)
    IN  /\ Take(q, i, "NewBlockHashes")
        /\ network' = Post(Taken(q, i), q.to, {q.from}, "answer",
                            <<Message(IF b \in blocks[q.to] THEN "NewBlockHashes"
                                      ELSE "GetBlocks", b)>>)
        /\ UNCHANGED <<setup, worldVars, nodeVars, linkVars>>

HandleNewBlockHashes(q, i) ==
    LET b == BlockOf(q, i)
    IN  /\ Take(q, i, "NewBlockHashes")
        /\ network' = IF b \in blocks[q.to] THEN Taken(q, i)
                      ELSE Post(Taken(q, i), q.to, {q.from}, "answer",
                                <<Message("GetBlocks", b)>>)
        /\ UNCHANGED <<setup, worldVars, nodeVars, linkVars>>

(* GetBlocks: a block of the chain is sent; others are not, orphans included. *)
HandleGetBlocks(q, i) ==
    LET b == BlockOf(q, i)
    IN  /\ Take(q, i, "GetBlocks")
        /\ network' = IF b \notin blocks[q.to] THEN Taken(q, i)
                      ELSE Post(Taken(q, i), q.to, {q.from}, "answer",
                                <<Message("Blocks", b)>>)
        /\ UNCHANGED <<setup, worldVars, nodeVars, linkVars>>

(* Blocks: the hash is announced to every peer, after what the handler of the *)
(* block asks for, if the block was not in the chain.                         *)
Announced(b) == <<Message("NewBlockHashes", b)>>

HandleKnown(q, i) ==
    /\ Take(q, i, "Blocks")
    /\ BlockOf(q, i) \in blocks[q.to]
    /\ network' = Taken(q, i)
    /\ UNCHANGED <<setup, worldVars, nodeVars, linkVars>>

(* A block of length 1 is inserted, and no orphan is looked for. *)
HandleGenesis(q, i) ==
    LET b == BlockOf(q, i)
    IN  /\ Take(q, i, "Blocks")
        /\ b \notin blocks[q.to] /\ b \in Node
        /\ blocks' = [blocks EXCEPT ![q.to] = @ \cup {b}]
        /\ network' = Post(Taken(q, i), q.to, Node, "broadcast", Announced(b))
        /\ UNCHANGED <<setup, worldVars, orphans, parent_block, lost, dead, linkVars>>

(* Mutants: one orphan is kept; the missing parent is not asked for. *)
BufferedLast(buffer, b) == <<b>>
Buffered(buffer, b) == Append(buffer, b)

AskedNothing(b) == Announced(b)
AskedFor(b) == <<Message("GetBlocks", parents[b])>> \o Announced(b)

HandleOrphan(q, i) ==
    LET b == BlockOf(q, i)
    IN  /\ Take(q, i, "Blocks")
        /\ b \in Mined \ blocks[q.to] /\ parents[b] \notin blocks[q.to]
        /\ orphans' = [orphans EXCEPT ![q.to] = Buffered(@, b)]
        /\ network' = Post(Taken(q, i), q.to, Node, "broadcast", AskedFor(b))
        /\ UNCHANGED <<setup, worldVars, blocks, parent_block, lost, dead, linkVars>>

(* The orphans that follow b: a turn of the loop finds the first child, in the *)
(* buffer, of the block inserted last, and notes its position; the later turns *)
(* go on from there.  There are no more turns than orphans.                    *)
Children(buffer, c) == {k \in 1 .. Len(buffer) : parents[buffer[k]] = c}

Turn(buffer, later) ==
    [c \in Block |->
        IF Children(buffer, c) = {} THEN <<>>
        ELSE LET k == Min(Children(buffer, c)) IN <<k>> \o later[buffer[k]]]

Adopted(buffer, b) ==
    LET follow[turns \in 0 .. Len(buffer)] ==
            IF turns = 0 THEN [c \in Block |-> <<>>]
            ELSE Turn(buffer, follow[turns - 1])
    IN  follow[Len(buffer)][b]

(* remove, one position after the other; one past the end panics. *)
CanRemove(len, positions) ==
    \A k \in 1 .. Len(positions) : positions[k] <= len - (k - 1)

RemoveAll(buffer, positions) ==
    LET rest[k \in 0 .. Len(positions)] ==
            IF k = 0 THEN buffer ELSE RemoveAt(rest[k - 1], positions[k])
    IN  rest[Len(positions)]

HandleChild(q, i) ==
    LET b == BlockOf(q, i)
        n == q.to
        adopted == Adopted(orphans[n], b)
    IN  /\ Take(q, i, "Blocks")
        /\ b \in Mined \ blocks[n] /\ parents[b] \in blocks[n]
        /\ blocks' = [blocks EXCEPT ![n] =
                        @ \cup {b} \cup {orphans[n][k] : k \in ToSet(adopted)}]
        /\ IF CanRemove(Len(orphans[n]), adopted)
           THEN /\ orphans' = [orphans EXCEPT ![n] = RemoveAll(@, adopted)]
                /\ lost' = [lost EXCEPT ![n] =
                        @ \cup (ToSet(orphans[n]) \ (ToSet(orphans'[n]) \cup blocks'[n]))]
                /\ network' = Post(Taken(q, i), n, Node, "broadcast", Announced(b))
                /\ UNCHANGED dead
           ELSE /\ dead' = dead \cup {n}
                /\ network' = [r \in Queue |-> IF r.to = n THEN <<>> ELSE network[r]]
                /\ UNCHANGED <<orphans, lost>>
        /\ UNCHANGED <<setup, worldVars, parent_block, linkVars>>

Handle(q, i) ==
    \/ HandleNewBlockHashes(q, i) \/ HandleGetBlocks(q, i)
    \/ HandleKnown(q, i) \/ HandleGenesis(q, i)
    \/ HandleOrphan(q, i) \/ HandleChild(q, i)

-----------------------------------------------------------------------------
(* A connection is made once; what was broadcast before is not sent again, and *)
(* what is on the way when it breaks is lost.                                  *)
ConnectPeers(e) ==
    /\ e \in setup.edges \ (links \cup broken)
    /\ links' = links \cup {e}
    /\ UNCHANGED <<setup, worldVars, nodeVars, broken, network>>

BreakLink(e) ==
    /\ e \in links \cap setup.lossy
    /\ links' = links \ {e} /\ broken' = broken \cup {e}
    /\ network' = [q \in Queue |-> IF {q.from, q.to} = e THEN <<>> ELSE network[q]]
    /\ UNCHANGED <<setup, worldVars, nodeVars>>

HandleSome == \E q \in Queue, i \in 1 .. setup.workers : Handle(q, i)

Next ==
    \/ \E n \in Node : ReadTip(n) \/ Mine(n)
    \/ HandleSome
    \/ \E e \in setup.edges : ConnectPeers(e) \/ BreakLink(e)

Spec == Init /\ [][Next]_clusterVars

(* The workers run; miners and connections do as they like. *)
FairSpec == Spec /\ WF_clusterVars(HandleSome)

-----------------------------------------------------------------------------
TypeOK ==
    /\ setup \in Setup
    /\ parents \in Seq(Node \cup 1 .. MaxBlock) /\ miners \in Seq(setup.miners)
    /\ Len(miners) = Len(parents)
    /\ blocks \in [Node -> SUBSET Block] /\ orphans \in [Node -> Seq(Mined)]
    /\ parent_block \in [Node -> Block]
    /\ lost \in [Node -> SUBSET Mined] /\ dead \subseteq Node
    /\ links \subseteq setup.edges /\ broken \subseteq setup.edges /\ links \cap broken = {}
    /\ network \in [Queue -> Seq([kind : {"NewBlockHashes", "GetBlocks", "Blocks"},
                                  block : Block])]

Quiet == \A q \in Queue : network[q] = <<>>

Holds(n, b) == b \in blocks[n] \/ b \in ToSet(orphans[n])

(* No connection of n broke, and none of the nodes at their ends died. *)
WellConnected(n) ==
    /\ n \notin dead
    /\ \A e \in setup.edges : n \in e => e \notin broken /\ e \cap dead = {}

(* worker.rs:90: after all the messages were handled, a node that has a block, *)
(* in its chain or as an orphan, has its parent as well, although it was not   *)
(* sent the parent or got it out of order, unless a connection of it broke or  *)
(* the clean-up (worker.rs:139) removed the parent in the place of another.    *)
AncestorsArrive ==
    Quiet => \A n \in Node : WellConnected(n) =>
        \A b \in Mined : Holds(n, b) => Holds(n, parents[b]) \/ parents[b] \in lost[n]

(* miner/worker.rs:52: and it has the blocks that a node it was connected to   *)
(* from the start has mined, but for those.                                    *)
NeighbourBlocksArrive ==
    Quiet => \A m, n \in Node : (WellConnected(n) /\ {m, n} \in setup.up) =>
        \A b \in Mined : miners[b] = m => Holds(n, b) \/ b \in lost[n]

(* MidtermProject4/README.md:36: connected nodes have the same block tree.      *)
Consensus ==
    (Quiet /\ setup.edges = setup.up /\ broken = {} /\ dead = {}) =>
        \A m, n \in Node : Linked(m, n) => blocks[m] \cap Mined = blocks[n] \cap Mined

(* worker.rs:202-217: they do if only one node mines and all nodes handle the  *)
(* messages one at a time: the blocks are passed on in the order of the chain. *)
OrderedConsensus ==
    (setup.workers = 1 /\ \E g \in Node : setup.miners = {g}) => Consensus

(* worker.rs:206-216: the gossip about finitely many blocks comes to an end:   *)
(* nobody keeps asking, answering or announcing, orphans or not.               *)
GossipEnds == <>[]Quiet
================================================================================
