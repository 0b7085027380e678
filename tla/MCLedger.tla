------------------------------- MODULE MCLedger -------------------------------
(***************************************************************************)
(* Instances of Ledger for TLC.  MCTx moves two coins between any of three *)
(* accounts, or one from a1 to a2; MCTxTwo moves no coin or one.           *)
(***************************************************************************)
EXTENDS Ledger

CONSTANTS a1, a2, a3

MCTx ==
    {tx \in [sender : Account, receiver : Account,
             account_nonce : 1 .. MaxHeight, value : 1 .. MaxValue] :
        tx.value = 1 => tx.sender = a1 /\ tx.receiver = a2}

MCTxTwo ==
    [sender : Account, receiver : Account,
     account_nonce : 1 .. MaxHeight, value : 0 .. MaxValue]
================================================================================
