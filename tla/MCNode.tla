-------------------------------- MODULE MCNode --------------------------------
(***************************************************************************)
(* Instances of Node for TLC: up to five blocks and two workers, with      *)
(* execute_tx of module Transaction on two accounts.  Word = 2 closes the  *)
(* set of account states; `pay` carries a good signature, `back` does not. *)
(***************************************************************************)
EXTENDS Node, TLC

CONSTANTS h1, h2, h3, h4, h5, a1, a2, w1, w2

pay == [sender |-> a1, receiver |-> a2, account_nonce |-> 1, value |-> 1]
back == [sender |-> a2, receiver |-> a1, account_nonce |-> 1, value |-> 1]

MCTx == {pay, back}
MCSigned == {pay}
MCTxListOne == {<<>>, <<pay>>}

MCTxNone == {}
MCTxListNone == {<<>>}

MCLedgerState ==
    UNION {[A -> [nonce : 0 .. 1, balance : 0 .. 1]] : A \in SUBSET Account}

(* Hashes are all alike, and so are difficulties: nothing is lost if blocks    *)
(* take hashes in this order, the own genesis has difficulty 1, and so have    *)
(* blocks without work, which are refused under any.  Used where properties    *)
(* are temporal, which rules symmetry out.                                     *)
InOrder ==
    /\ DOMAIN world \in {{h1}, {h1, h2}, {h1, h2, h3}, {h1, h2, h3, h4}}
    /\ world[h1].difficulty = 1
    /\ \A h \in DOMAIN world : LET b == world[h]
                               IN  b.length = 1 \/ b.work \/ b.difficulty = 1

Symmetry == Permutations(Hash) \cup Permutations(Worker)
================================================================================
