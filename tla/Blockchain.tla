------------------------------ MODULE Blockchain ------------------------------
(***************************************************************************)
(* The operations of struct Blockchain (src/blockchain/mod.rs) on its map  *)
(* `blocks`, and the check a block must pass (src/network/worker.rs).      *)
(*                                                                         *)
(* A block is the record of what the operations read: its hash, the parent *)
(* hash, length and difficulty, the outcome of the comparison hash <=      *)
(* difficulty as `work`, and its transactions.  The hash covers the header *)
(* only, so neither length nor data is part of it.                         *)
(***************************************************************************)
EXTENDS Naturals, Sequences, FiniteSets, SequencesExt

CONSTANTS
    Hash,        (* block hashes                                            *)
    NoHash,      (* the random parent hash of a genesis block: no block's   *)
    Difficulty,  (* the values of the difficulty field                      *)
    TxList,      (* the lists of transactions a block carries               *)
    LedgerState,    (* account states                                       *)
    Ico,            (* the state of a genesis block                         *)
    Execute(_, _)   (* execute_tx: state and list to [state, valid]         *)

ASSUME BlockchainAssumption == NoHash \notin Hash /\ <<>> \in TxList

(* What the users of execute_tx rely on, and what it does: LedgerProofs     *)
(* proves it of ExecuteTx (Execution_MeetsAssumption).                      *)
ASSUME ExecuteAssumption ==
    /\ Ico \in LedgerState
    /\ \A s \in LedgerState, txs \in TxList :
          /\ Execute(s, txs).state \in LedgerState
          /\ Execute(s, txs).valid \in TxList
          /\ Execute(s, Execute(s, txs).valid).state = Execute(s, txs).state

Block == [hash : Hash, parent : Hash \cup {NoHash}, length : Nat \ {0},
          difficulty : Difficulty, work : BOOLEAN, data : TxList]

(* do_generate_random_block as Blockchain::new uses it: no nonce is sought, *)
(* and no check ever looks at the work of a genesis block.                  *)
Genesis(h, d) ==
    [hash |-> h, parent |-> NoHash, length |-> 1,
     difficulty |-> d, work |-> FALSE, data |-> <<>>]

(* A block mined on p: get_block_template, then the nonce and the data. *)
Child(h, p, data) ==
    [hash |-> h, parent |-> p.hash, length |-> p.length + 1,
     difficulty |-> p.difficulty, work |-> TRUE, data |-> data]

(* HashMap::insert, and the map with one entry. *)
Put(map, key, value) ==
    [k \in DOMAIN map \cup {key} |-> IF k = key THEN value ELSE map[k]]

Only(key, value) == [k \in {key} |-> value]

-----------------------------------------------------------------------------
(* Mutants of the definitions below. *)
InsertOffByOne(blocks, b) ==
    Put(blocks, b.hash,
        IF b.length > 1 THEN [b EXCEPT !.length = blocks[b.parent].length] ELSE b)
CheckWorkOnly(b, parent) == b.work
QueryFromTip(chain, k) == chain[k + 1]

(* insert; the index self.blocks[&parent_hash] panics on a missing parent. *)
Insertable(blocks, b) == b.length > 1 => b.parent \in DOMAIN blocks

Insert(blocks, b) ==
    Put(blocks, b.hash,
        IF b.length > 1
        THEN [b EXCEPT !.length = blocks[b.parent].length + 1]
        ELSE b)

(* tip: any block of greatest length, whichever the HashMap yields last. *)
Tips(blocks) ==
    {h \in DOMAIN blocks :
        \A g \in DOMAIN blocks : blocks[g].length <= blocks[h].length}

(* all_blocks_in_longest_chain: curr[i] is the hash after i rounds of the   *)
(* loop, which stops at the first one that is not in the map.               *)
ParentOf(blocks, h) == IF h \in DOMAIN blocks THEN blocks[h].parent ELSE NoHash

AllBlocksInLongestChain(blocks, tip) ==
    LET n == Cardinality(DOMAIN blocks)
        curr[i \in 0 .. n] == IF i = 0 THEN tip ELSE ParentOf(blocks, curr[i - 1])
        rounds == CHOOSE i \in 0 .. n :
                     /\ curr[i] \notin DOMAIN blocks
                     /\ \A j \in 0 .. i - 1 : curr[j] \in DOMAIN blocks
    IN  [i \in 1 .. rounds |-> curr[i - 1]]

(* The block /blockchain/state?block=k picks, k < Len(chain) (api/mod.rs). *)
StateQuery(chain, k) == chain[Len(chain) - k]

(* check_block_validity (network/worker.rs). *)
CheckBlockValidity(b, parent) == b.work /\ b.difficulty = parent.difficulty
================================================================================
