------------------------------ MODULE MCBlockTree ------------------------------
(***************************************************************************)
(* BlockTree for TLC, with execute_tx of module Transaction on two         *)
(* accounts.  Word = 2 closes the set of account states: nonces and        *)
(* balances are 0 or 1.                                                    *)
(***************************************************************************)
EXTENDS BlockTree, Transaction, TLC

CONSTANTS h1, h2, h3, h4, a1, a2

pay == [sender |-> a1, receiver |-> a2, account_nonce |-> 1, value |-> 1]
back == [sender |-> a2, receiver |-> a1, account_nonce |-> 1, value |-> 1]

MCTxList == {<<>>, <<pay>>, <<back>>, <<pay, back>>}
MCLedgerState ==
    UNION {[A -> [nonce : 0 .. 1, balance : 0 .. 1]] : A \in SUBSET Account}

Symmetry == Permutations(Hash)
================================================================================
