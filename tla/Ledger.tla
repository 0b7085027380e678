-------------------------------- MODULE Ledger --------------------------------
(***************************************************************************)
(* The ledger along one chain: execute_tx taken one transaction at a time, *)
(* and the state of a block that becomes the parent state of the next.     *)
(*                                                                         *)
(* ExecuteNext is one iteration of the for loop of execute_tx, over a list *)
(* that may hold any transactions, repeated ones too: receivers run it on  *)
(* the data of a block as it arrived.  SealBlock is the end of a block:    *)
(* its state is stored in block_states and is the parent state of the      *)
(* block built on it.  chain_tx remembers the data of the earlier blocks.  *)
(***************************************************************************)
EXTENDS Transaction, FiniteSets

CONSTANTS
    Tx,         (* the signed transactions in circulation                  *)
    MaxValue,   (* no transaction moves more: rng.gen_range(0..100)        *)
    MaxTx,      (* bound: valid transactions in a block (300 in the code)  *)
    MaxHeight   (* bound: blocks on the chain                              *)

ASSUME LedgerAssumption ==
    /\ Tx \subseteq TxRecord
    /\ MaxValue \in Nat
    /\ \A tx \in Tx : tx.value <= MaxValue
    /\ MaxTx \in Nat
    /\ MaxHeight \in 0 .. (Word - 1)

VARIABLES
    parent_state,  (* parent_state of execute_tx                      *)
    new_state,     (* its new_state, the clone that is updated        *)
    valid_tx,      (* its valid_tx                                    *)
    chain_tx,      (* the transactions of the sealed blocks           *)
    height         (* how many blocks were sealed                     *)

vars == <<parent_state, new_state, valid_tx, chain_tx, height>>

Init ==
    /\ parent_state = IcoState
    /\ new_state = IcoState
    /\ valid_tx = <<>>
    /\ chain_tx = {}
    /\ height = 0

(* A mutant: the validity of the transaction is not consulted for valid_tx. *)
ExecuteNextUnchecked(tx) ==
    /\ height < MaxHeight /\ Len(valid_tx) < MaxTx
    /\ valid_tx' = Append(valid_tx, tx)
    /\ new_state' = IF TxValid(parent_state, tx)
                    THEN Transfer(parent_state, new_state, tx)
                    ELSE new_state
    /\ UNCHANGED <<parent_state, chain_tx, height>>

(* One valid transaction of the list; an invalid one is a `continue`, which *)
(* changes nothing.                                                         *)
ExecuteNext(tx) ==
    /\ height < MaxHeight /\ Len(valid_tx) < MaxTx
    /\ TxValid(parent_state, tx)
    /\ valid_tx' = Append(valid_tx, tx)
    /\ new_state' = Transfer(parent_state, new_state, tx)
    /\ UNCHANGED <<parent_state, chain_tx, height>>

SealBlock ==
    /\ height < MaxHeight
    /\ height' = height + 1
    /\ parent_state' = new_state
    /\ chain_tx' = chain_tx \cup ToSet(valid_tx)
    /\ valid_tx' = <<>>
    /\ UNCHANGED new_state

Next == (\E tx \in Tx : ExecuteNext(tx)) \/ SealBlock

Spec == Init /\ [][Next]_vars

-----------------------------------------------------------------------------
(* States are partial maps to (nonce, balance) pairs, the rest counts and   *)
(* lists transactions (State, transaction.rs:30).                           *)
TypeOK ==
    /\ IsState(parent_state)
    /\ IsState(new_state)
    /\ valid_tx \in Seq(Tx)
    /\ chain_tx \subseteq Tx
    /\ height \in 0 .. MaxHeight

(* A balance that u32 still holds after this block. *)
InRange == IcoBalance + (height + 1) * MaxValue < Word

(* The last transaction of the block, so far, that touches the account. *)
LastWriter(a, i) ==
    /\ Touches(valid_tx[i], a)
    /\ \A j \in 1 .. Len(valid_tx) : Touches(valid_tx[j], a) => j <= i

(* The entry that one transaction leaves, as it follows from the parent's.  *)
Written(tx, a) ==
    LET old == Lookup(parent_state, a)
    IN  IF tx.sender = a
        THEN /\ new_state[a].nonce = old.nonce + 1
             /\ new_state[a].balance
                   = old.balance - (IF tx.receiver = a THEN 0 ELSE tx.value)
        ELSE /\ new_state[a].nonce = old.nonce
             /\ InRange => new_state[a].balance = old.balance + tx.value

Explained(a) ==
    \/ /\ \A i \in 1 .. Len(valid_tx) : ~ Touches(valid_tx[i], a)
       /\ a \in DOMAIN new_state <=> a \in DOMAIN parent_state
       /\ a \in DOMAIN parent_state => new_state[a] = parent_state[a]
    \/ /\ a \in DOMAIN new_state
       /\ \E i \in 1 .. Len(valid_tx) :
             LastWriter(a, i) /\ Written(valid_tx[i], a)

(* transaction.rs:117-170: execute_tx applies every transaction to the      *)
(* parent's state, so the entry of an account is decided by one transaction *)
(* alone, the last valid one that touches it, and by the parent's entry if  *)
(* there is none; the sums in it are exact as long as balances are in range.*)
LastWriterWins == \A a \in Account : Explained(a)

(* transaction.rs:143-168 and the genesis states of mod.rs:31 and           *)
(* network/worker.rs:82: coins created by executing a block's transactions  *)
(* against the parent state are bounded: one block raises no balance by     *)
(* more than one transfer, however many transfers it holds.                 *)
BalanceBounded ==
    /\ \A a \in DOMAIN parent_state :
          parent_state[a].balance <= IcoBalance + height * MaxValue
    /\ \A a \in DOMAIN new_state :
          new_state[a].balance <= IcoBalance + (height + 1) * MaxValue

(* transaction.rs:155-168: from a block to the next no account disappears   *)
(* and its nonce stays or grows by one, whatever number of transactions of  *)
(* that account the block holds, and in whatever order they credit it.      *)
NonceStep ==
    [][height' > height =>
         \A a \in DOMAIN parent_state :
            /\ a \in DOMAIN parent_state'
            /\ parent_state'[a].nonce - parent_state[a].nonce \in {0, 1}]_vars

(* miner/mod.rs:197-200 against network/worker.rs:97-99: the miner keeps    *)
(* the state it got from all the transactions it picked and sends only the  *)
(* valid ones; a node that receives the block executes those on the same    *)
(* parent state and gets the same state, and drops none of them.            *)
ReexecutionAgrees ==
    ExecuteTx(parent_state, valid_tx) = [state |-> new_state, valid |-> valid_tx]

-----------------------------------------------------------------------------
(* MidtermProject5/README.md:98: "No duplicate transactions: there should be *)
(* no duplicate transactions in the blockchain": what a block executes was   *)
(* not executed by an earlier one.                                           *)
NoDuplicateTx == ToSet(valid_tx) \cap chain_tx = {}
================================================================================
