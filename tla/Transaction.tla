------------------------------ MODULE Transaction ------------------------------
(***************************************************************************)
(* The account state and execute_tx (src/types/transaction.rs).            *)
(*                                                                         *)
(* A State maps the accounts that exist to their nonce and balance; an     *)
(* account absent from the HashMap is absent from the DOMAIN.  A signed    *)
(* transaction is a record of the four fields execute_tx reads; signature  *)
(* and public key are not read by it.                                      *)
(*                                                                         *)
(* u32 additions wrap at Word = 2^32, as in the release build.             *)
(***************************************************************************)
EXTENDS Naturals, Sequences, SequencesExt

CONSTANTS
    Account,     (* the addresses in use                             *)
    IcoAccount,  (* the address every genesis state gives coins to   *)
    IcoBalance,  (* the coins it gets: 100 in the code               *)
    Word         (* 2^32                                             *)

ASSUME TransactionAssumption ==
    /\ IcoAccount \in Account
    /\ Word \in Nat \ {0}
    /\ IcoBalance \in 0 .. (Word - 1)

Entry == [nonce : Nat, balance : Nat]
IsState(s) == DOMAIN s \subseteq Account /\ s \in [DOMAIN s -> Entry]
TxRecord == [sender : Account, receiver : Account,
             account_nonce : Nat, value : Nat]

(* The state of a genesis block: the initial coin offering. *)
IcoState == [a \in {IcoAccount} |-> [nonce |-> 0, balance |-> IcoBalance]]

(* The match on parent_state.get: an unknown account reads as (0, 0). *)
Lookup(parent, a) ==
    IF a \in DOMAIN parent THEN parent[a] ELSE [nonce |-> 0, balance |-> 0]

-----------------------------------------------------------------------------
(* A mutant of ReceiverEntry. *)
ReceiverEntryNoNonce(parent, tx) ==
    [nonce |-> 0, balance |-> (Lookup(parent, tx.receiver).balance + tx.value) % Word]

(* The three checks of the loop body, all made against the parent state. *)
TxValid(parent, tx) ==
    /\ tx.sender \in DOMAIN parent
    /\ parent[tx.sender].balance >= tx.value
    /\ tx.account_nonce = (parent[tx.sender].nonce + 1) % Word

(* What a valid transaction writes for its sender and for its receiver.    *)
(* A transfer to oneself takes the nonce and leaves the balance.           *)
SenderEntry(parent, tx) ==
    [nonce   |-> tx.account_nonce,
     balance |-> IF tx.sender = tx.receiver
                 THEN parent[tx.sender].balance
                 ELSE parent[tx.sender].balance - tx.value]

ReceiverEntry(parent, tx) ==
    [nonce   |-> Lookup(parent, tx.receiver).nonce,
     balance |-> (Lookup(parent, tx.receiver).balance + tx.value) % Word]

Touches(tx, a) == a \in {tx.sender, tx.receiver}

Effect(parent, tx, a) ==
    IF a = tx.sender THEN SenderEntry(parent, tx) ELSE ReceiverEntry(parent, tx)

(* Mutants: the transfer reads the entries already updated in this block,    *)
(* those of both accounts or only the receiver's.                            *)
TransferRunning(parent, new, tx) ==
    [a \in DOMAIN new \cup {tx.sender, tx.receiver} |->
        IF Touches(tx, a) THEN Effect(new, tx, a) ELSE new[a]]

TransferCreditRunning(parent, new, tx) ==
    [a \in DOMAIN new \cup {tx.sender, tx.receiver} |->
        CASE a = tx.sender -> SenderEntry(parent, tx)
          [] a = tx.receiver /\ a # tx.sender -> ReceiverEntry(new, tx)
          [] OTHER -> new[a]]

(* The inserts into new_state. *)
Transfer(parent, new, tx) ==
    [a \in DOMAIN new \cup {tx.sender, tx.receiver} |->
        IF Touches(tx, a) THEN Effect(parent, tx, a) ELSE new[a]]

(* One round of the loop: a transaction that fails is skipped. *)
ExecuteStep(parent, result, tx) ==
    IF TxValid(parent, tx)
    THEN [state |-> Transfer(parent, result.state, tx),
          valid |-> Append(result.valid, tx)]
    ELSE result

(* execute_tx: the new state and the transactions that passed. *)
ExecuteTx(parent, txs) ==
    LET round[k \in 0 .. Len(txs)] ==
            IF k = 0 THEN [state |-> parent, valid |-> <<>>]
            ELSE ExecuteStep(parent, round[k - 1], txs[k])
    IN  round[Len(txs)]

(* delete_tx_from_mempool: retain what is not in the list. *)
DeleteTx(mempool, txs) == mempool \ ToSet(txs)
================================================================================
