-------------------------------- MODULE Merkle ---------------------------------
(***************************************************************************)
(* The Merkle tree of src/types/merkle.rs: gen_helper builds the tree from *)
(* the bottom up, proof_helper walks it, and verify recomputes the root    *)
(* from a datum, a proof and the directions that order_proof works out     *)
(* from an index and a number of leaves alone, without the tree.           *)
(*                                                                         *)
(* SHA-256 is a free constructor: the hash of a datum is a tuple of one,   *)
(* the hash of two hashes the tuple of both, and no two are equal.  Indices *)
(* count from 0 as in the code.  A node owns its children; since the levels *)
(* are finished one after the other, they are named here by their places in *)
(* the level below, and 0 is None.                                          *)
(***************************************************************************)
EXTENDS Integers, Sequences, SequencesExt

CONSTANTS
    Datum,      (* the data of the leaves                                  *)
    MaxLeaves   (* bound: the length of the data                           *)

ASSUME MerkleAssumption == MaxLeaves \in Nat

VARIABLES
    data,           (* the slice the tree is made from                     *)
    levels,         (* the levels below, owned by the nodes above them     *)
    tree_nodes,     (* the level that is being paired up                   *)
    tree,           (* the finished tree                                   *)
    proof,          (* the result of tree.proof(index)                     *)
    index,          (* its argument                                        *)
    query,          (* the datum, index and leaf_size of verify            *)
    order,          (* the directions that are left                        *)
    sibs,           (* the siblings that are left                          *)
    currhash,
    stage           (* what runs, or how the call ended                    *)

buildVars == <<levels, tree_nodes, tree>>
proofVars == <<proof, index>>
verifyVars == <<query, order, sibs, currhash>>
merkleVars == <<data, buildVars, proofVars, verifyVars, stage>>

HashOf(d) == <<d>>
ConcatAndHash(left, right) == <<left, right>>

Leaf(d, i) == [hash |-> HashOf(d), index |-> i, left |-> 0, right |-> 0]
Duplicated(node) == [hash |-> node.hash, index |-> -1, left |-> 0, right |-> 0]
Inner(level, left, right) ==
    [hash |-> ConcatAndHash(level[left].hash, level[right].hash), index |-> -1,
     left |-> left, right |-> right]

Init ==
    /\ data \in UNION {[1 .. n -> Datum] : n \in 0 .. MaxLeaves}
    /\ tree_nodes = [i \in 1 .. Len(data) |-> Leaf(data[i], i - 1)]
    /\ levels = <<>> /\ tree = <<>>
    /\ proof = <<>> /\ index = 0
    /\ query = <<>> /\ order = <<>> /\ sibs = <<>> /\ currhash = <<>>
    /\ stage = "build"

-----------------------------------------------------------------------------
(* gen_helper. *)
Odd(n) == n % 2 # 0

(* Mutants: a copy of the first node, and the last one with its index and kids. *)
CopyOfFirst == Duplicated(Head(tree_nodes))
LastItself == Last(tree_nodes)
CopyOfLast == Duplicated(Last(tree_nodes))

DuplicateLast ==
    /\ stage = "build" /\ Len(tree_nodes) > 1 /\ Odd(Len(tree_nodes))
    /\ tree_nodes' = Append(tree_nodes, CopyOfLast)
    /\ UNCHANGED <<data, levels, tree, proofVars, verifyVars, stage>>

PairUp ==
    /\ stage = "build" /\ Len(tree_nodes) > 1 /\ ~Odd(Len(tree_nodes))
    /\ tree_nodes' = [k \in 1 .. Len(tree_nodes) \div 2 |->
                        Inner(tree_nodes, 2 * k - 1, 2 * k)]
    /\ levels' = Append(levels, tree_nodes)
    /\ UNCHANGED <<data, tree, proofVars, verifyVars, stage>>

(* pop().unwrap() panics when there was no datum. *)
Built ==
    /\ stage = "build" /\ Len(tree_nodes) <= 1
    /\ IF tree_nodes = <<>>
       THEN stage' = "new panicked" /\ UNCHANGED tree
       ELSE stage' = "built" /\ tree' = Head(tree_nodes)
    /\ tree_nodes' = <<>>
    /\ UNCHANGED <<data, levels, proofVars, verifyVars>>

-----------------------------------------------------------------------------
(* proof_helper: the siblings on the way up from the leaf with index i.  Both *)
(* kids are searched, and a duplicated node has no index to be found by.      *)
ProofHelper(level, i) ==
    LET helper[h \in 1 .. Len(level)] ==
            [k \in 1 .. Len(level[h]) |->
                LET curr == level[h][k]
                    left == helper[h - 1][curr.left]
                    right == helper[h - 1][curr.right]
                    siblings == left.accum \o right.accum
                IN  IF curr.left = 0 /\ curr.right = 0
                    THEN [found |-> curr.index = i, accum |-> <<>>]
                    ELSE [found |-> left.found \/ right.found,
                          accum |-> IF left.found
                                    THEN Append(siblings, level[h - 1][curr.right].hash)
                                    ELSE IF right.found
                                    THEN Append(siblings, level[h - 1][curr.left].hash)
                                    ELSE siblings]]
    IN  helper[Len(level)][1]

Prove(i) ==
    /\ stage = "built"
    /\ proof' = ProofHelper(Append(levels, <<tree>>), i).accum
    /\ index' = i
    /\ stage' = "proved"
    /\ UNCHANGED <<data, buildVars, verifyVars>>

(* order_proof: a binary search for the index, 0 to the left and 1 to the right. *)
(* Each loop is over before leaf_size turns; then nothing changes any more.      *)
RoundUp(leaf_size) ==
    LET high[turn \in 0 .. leaf_size] ==
            IF turn = 0 THEN 1
            ELSE LET h == high[turn - 1] IN IF h < leaf_size THEN 2 * h ELSE h
    IN  high[leaf_size]

Narrowed(search, i) ==
    LET middle == (search.high + search.low) \div 2
    IN  IF search.low = search.high THEN search
        ELSE IF i <= middle
        THEN [search EXCEPT !.high = middle, !.order = Append(@, 0)]
        ELSE [search EXCEPT !.low = middle + 1, !.order = Append(@, 1)]

OrderProof(i, leaf_size) ==
    LET search[turn \in 0 .. leaf_size] ==
            IF turn = 0
            THEN [low |-> 0, high |-> RoundUp(leaf_size) - 1, order |-> <<>>]
            ELSE Narrowed(search[turn - 1], i)
    IN  search[leaf_size].order

(* verify, called with the proof that was made and any datum, index and size. *)
StartVerify(d, i, leaf_size) ==
    /\ stage = "proved"
    /\ query' = [datum |-> d, index |-> i, leaf_size |-> leaf_size]
    /\ order' = OrderProof(i, leaf_size)
    /\ sibs' = proof
    /\ currhash' = HashOf(d)
    /\ stage' = "verify"
    /\ UNCHANGED <<data, buildVars, proofVars>>

(* One turn of verify_helper's loop.  Mutants: the directions are taken from   *)
(* the front, or ignored.                                                     *)
NextSibling == Head(sibs)

TopDirection == Head(order)
Direction == Last(order)

AlwaysLeft(direction, sib) == ConcatAndHash(currhash, sib)
Directed(direction, sib) ==
    IF direction = 0 THEN ConcatAndHash(currhash, sib) ELSE ConcatAndHash(sib, currhash)

VerifyStep ==
    /\ stage = "verify" /\ sibs # <<>> /\ order # <<>>
    /\ currhash' = Directed(Direction, NextSibling)
    /\ order' = Front(order)
    /\ sibs' = Tail(sibs)
    /\ UNCHANGED <<data, buildVars, proofVars, query, stage>>

(* direction.unwrap() panics when the proof is longer than the order. *)
VerifyPanic ==
    /\ stage = "verify" /\ sibs # <<>> /\ order = <<>>
    /\ stage' = "verify panicked"
    /\ UNCHANGED <<data, buildVars, proofVars, verifyVars>>

VerifyDone ==
    /\ stage = "verify" /\ sibs = <<>>
    /\ stage' = IF currhash = tree.hash THEN "accepted" ELSE "refused"
    /\ UNCHANGED <<data, buildVars, proofVars, verifyVars>>

Index == 0 .. MaxLeaves

Next ==
    \/ DuplicateLast \/ PairUp \/ Built
    \/ \E i \in Index : Prove(i)
    \/ \E d \in Datum, i \in Index, n \in Index : StartVerify(d, i, n)
    \/ VerifyStep \/ VerifyPanic \/ VerifyDone

Spec == Init /\ [][Next]_merkleVars

-----------------------------------------------------------------------------
(* The reference: the tree as a table.  The parent of node k of a level is node *)
(* k div 2 of the next, the last node of a level is above the last leaf, the      *)
(* root is alone on its level, and a node past the last is the last once more.    *)
Level == 0 .. MaxLeaves

Ancestors(k) ==
    LET above[l \in Level] == IF l = 0 THEN k ELSE above[l - 1] \div 2
    IN  above

LastNode(n) == Ancestors(n - 1)

Depth(n) ==
    CHOOSE l \in Level : LastNode(n)[l] = 0 /\ \A h \in 0 .. l - 1 : LastNode(n)[h] > 0

Clamped(k, last) == IF k <= last THEN k ELSE last

Hashes(d) ==
    LET hash[l \in Level] ==
            [k \in Nat |->
                LET at == Clamped(k, LastNode(Len(d))[l])
                IN  IF l = 0 THEN HashOf(d[at + 1])
                    ELSE ConcatAndHash(hash[l - 1][2 * at], hash[l - 1][2 * at + 1])]
    IN  hash

Sibling(k) == IF Odd(k) THEN k - 1 ELSE k + 1

Siblings(d, i) ==
    [l \in 1 .. Depth(Len(d)) |-> Hashes(d)[l - 1][Sibling(Ancestors(i)[l - 1])]]

IsTree == tree # <<>>

(* merkle.rs:58-73: whatever the number of leaves, and however many levels have *)
(* an odd number of nodes, the root is that of the tree with the last node of   *)
(* each odd level repeated.                                                     *)
RootIsReference == IsTree => tree.hash = Hashes(data)[Depth(Len(data))][0]

(* merkle.rs:78-101: the proof of a leaf is the sibling at each level, from the *)
(* bottom up, a repeated node included; past the last leaf it is empty.         *)
ProofIsSiblings ==
    stage = "proved" =>
        proof = IF index < Len(data) THEN Siblings(data, index) ELSE <<>>

(* merkle.rs:103,140: the directions worked out from the index alone lead back  *)
(* to the root: the proof of a leaf is accepted for that leaf.  A proof never    *)
(* runs out of directions but under a number of leaves that is too small.        *)
ProofAccepted ==
    /\ stage = "refused" =>
         ~ /\ index < Len(data)
           /\ query = [datum |-> data[index + 1], index |-> index,
                       leaf_size |-> Len(data)]
    /\ stage = "verify panicked" => query.leaf_size < Len(data)

(* merkle.rs:153: what is accepted under an index of a leaf is the datum there, *)
(* even if the proof is another leaf's.                                         *)
AcceptedIsThere ==
    (stage = "accepted" /\ query.leaf_size = Len(data) /\ query.index < Len(data)) =>
        query.datum = data[query.index + 1]
================================================================================
