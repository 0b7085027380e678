------------------------------- MODULE BlockTree -------------------------------
(***************************************************************************)
(* What a node promises about its view of the chain, whatever its threads  *)
(* do: a forest of blocks, each genesis with the ICO state, grown by one   *)
(* valid block at a time, with the state its transactions lead to.         *)
(*                                                                         *)
(* This is the abstract specification that module Node implements; it is   *)
(* the contract of struct Blockchain (src/blockchain/mod.rs), as its users *)
(* in src/network/worker.rs and src/miner/ keep it.                        *)
(***************************************************************************)
EXTENDS Blockchain

VARIABLES
    tree,    (* hash -> block       *)
    ledger   (* hash -> its state   *)

vars == <<tree, ledger>>

Init == \E h \in Hash, d \in Difficulty :
            /\ tree = Only(h, Genesis(h, d))
            /\ ledger = Only(h, Ico)

(* A second genesis: every node makes its own and learns those of others. *)
AddGenesis(h, d) ==
    /\ h \notin DOMAIN tree
    /\ tree' = Put(tree, h, Genesis(h, d))
    /\ ledger' = Put(ledger, h, Ico)

(* Mutants: a child is executed on the ICO state; a known block is replaced. *)
ExtendFromIco(h, p, data) ==
    /\ h \notin DOMAIN tree
    /\ p \in DOMAIN tree
    /\ tree' = Insert(tree, Child(h, tree[p], data))
    /\ ledger' = Put(ledger, h, Execute(Ico, data).state)

ExtendKnown(h, p, data) ==
    /\ p \in DOMAIN tree /\ h # p
    /\ h \in DOMAIN tree => tree[h].parent = p
    /\ tree' = Insert(tree, Child(h, tree[p], data))
    /\ ledger' = Put(ledger, h, Execute(ledger[p], data).state)

Extend(h, p, data) ==
    /\ h \notin DOMAIN tree
    /\ p \in DOMAIN tree
    /\ tree' = Insert(tree, Child(h, tree[p], data))
    /\ ledger' = Put(ledger, h, Execute(ledger[p], data).state)

Next ==
    \E h \in Hash :
        \/ \E d \in Difficulty : AddGenesis(h, d)
        \/ \E p \in Hash, data \in TxList : Extend(h, p, data)

Spec == Init /\ [][Next]_vars

-----------------------------------------------------------------------------
(* Both maps of struct Blockchain (mod.rs:10-11) speak of the same blocks.   *)
TypeOK ==
    /\ DOMAIN tree \subseteq Hash
    /\ tree \in [DOMAIN tree -> Block]
    /\ ledger \in [DOMAIN tree -> LedgerState]

(* mod.rs:41-52, network/worker.rs:292-298: the blocks form a forest: a      *)
(* block of length 1 is a root, every other block has its parent in the map, *)
(* one shorter, mined at the same difficulty, and met it.                    *)
WellFormed ==
    \A h \in DOMAIN tree :
        LET b == tree[h]
        IN  /\ b.hash = h
            /\ b.length = 1 <=> b.parent = NoHash
            /\ b.length > 1 =>
                 /\ b.parent \in DOMAIN tree
                 /\ b.length = tree[b.parent].length + 1
                 /\ CheckBlockValidity(b, tree[b.parent])

(* network/worker.rs:97-99: the state kept for a block is the ICO state run  *)
(* through the transactions of the blocks from its genesis to it.            *)
LedgerReplays ==
    \A h \in DOMAIN tree :
        ledger[h] = IF tree[h].length = 1 THEN Ico
                    ELSE Execute(ledger[tree[h].parent], tree[h].data).state

(* api/mod.rs:196-212: on every chain that may be the longest, block=k finds *)
(* the block of height k, for each k below the length the API compares with, *)
(* and its state.                                                            *)
StateQueryFindsHeight ==
    \A tip \in Tips(tree) :
        LET chain == AllBlocksInLongestChain(tree, tip)
        IN  /\ Len(chain) = tree[tip].length
            /\ \A k \in 0 .. Len(chain) - 1 :
                  /\ tree[StateQuery(chain, k)].length = k + 1
                  /\ StateQuery(chain, k) \in DOMAIN ledger

(* mod.rs:41-67: history is never rewritten: blocks and their states stay as *)
(* they were inserted, and the longest chain does not get shorter.           *)
Immutable ==
    [][/\ \A h \in DOMAIN tree :
            /\ h \in DOMAIN tree'
            /\ tree'[h] = tree[h]
            /\ ledger'[h] = ledger[h]
       /\ \A old \in Tips(tree), new \in Tips(tree') :
            tree[old].length <= tree'[new].length]_vars
================================================================================
