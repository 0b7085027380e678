----------------------------- MODULE LedgerProofs -----------------------------
(***************************************************************************)
(* Ledger's invariants for any accounts, transactions, values and heights. *)
(* The inductive invariant adds one fact to the checked ones: no nonce of  *)
(* the parent state exceeds the height, so none wraps.  The second part is *)
(* about execute_tx on lists of any length.                                *)
(***************************************************************************)
EXTENDS Ledger, Induction

LEMMA LookupType ==
    ASSUME NEW parent, IsState(parent), NEW a
    PROVE  Lookup(parent, a) \in Entry
  BY DEF Lookup, IsState, Entry

LEMMA EffectType ==
    ASSUME NEW parent, IsState(parent), NEW tx \in TxRecord,
           TxValid(parent, tx), NEW a
    PROVE  Effect(parent, tx, a) \in Entry
  <1> USE TransactionAssumption
  <1>1. parent[tx.sender] \in Entry
    BY DEF IsState, TxValid
  <1>2. tx.value \in Nat /\ tx.account_nonce \in Nat
    BY DEF TxRecord
  <1>3. SenderEntry(parent, tx) \in Entry
    BY <1>1, <1>2 DEF SenderEntry, TxValid, Entry
  <1>4. ReceiverEntry(parent, tx) \in Entry
    <2>1. Lookup(parent, tx.receiver) \in Entry
      BY LookupType
    <2>2. (Lookup(parent, tx.receiver).balance + tx.value) % Word \in Nat
      BY <2>1, <1>2 DEF Entry
    <2> QED
      BY <2>1, <2>2 DEF ReceiverEntry, Entry
  <1> QED
    BY <1>3, <1>4 DEF Effect

LEMMA TransferIsState ==
    ASSUME NEW parent, IsState(parent), NEW new, IsState(new),
           NEW tx \in TxRecord, TxValid(parent, tx)
    PROVE  IsState(Transfer(parent, new, tx))
  <1>1. tx.sender \in Account /\ tx.receiver \in Account
    BY DEF TxRecord
  <1>2. \A a : Effect(parent, tx, a) \in Entry
    BY EffectType
  <1> QED
    BY <1>1, <1>2 DEF Transfer, Touches, IsState

LEMMA TypeStep == TypeOK /\ [Next]_vars => TypeOK'
  <1> SUFFICES ASSUME TypeOK, [Next]_vars PROVE TypeOK'
    OBVIOUS
  <1> USE TransactionAssumption, LedgerAssumption
  <1>1. ASSUME NEW tx \in Tx, ExecuteNext(tx) PROVE TypeOK'
    <2>1. IsState(Transfer(parent_state, new_state, tx))
      BY <1>1, TransferIsState DEF TypeOK, ExecuteNext
    <2> QED
      BY <1>1, <2>1 DEF TypeOK, ExecuteNext
  <1>2. CASE SealBlock
    <2>1. ToSet(valid_tx) \subseteq Tx
      BY DEF TypeOK, ToSet
    <2> QED
      BY <1>2, <2>1 DEF TypeOK, SealBlock
  <1>3. CASE UNCHANGED vars
    BY <1>3 DEF TypeOK, vars
  <1> QED
    BY <1>1, <1>2, <1>3 DEF Next

-----------------------------------------------------------------------------
NonceBounded == \A a \in DOMAIN parent_state : parent_state[a].nonce <= height

IInv == TypeOK /\ NonceBounded /\ BalanceBounded /\ LastWriterWins

(* A valid transaction adds at most its value to a balance. *)
LEMMA EffectBounded ==
    ASSUME NEW parent, IsState(parent), NEW tx \in TxRecord,
           TxValid(parent, tx), NEW a,
           NEW bound \in Nat, tx.value <= MaxValue,
           \A b \in DOMAIN parent : parent[b].balance <= bound
    PROVE  Effect(parent, tx, a).balance <= bound + MaxValue
  <1> USE TransactionAssumption, LedgerAssumption
  <1>1. parent[tx.sender] \in Entry /\ parent[tx.sender].balance <= bound
    BY DEF IsState, TxValid
  <1>2. tx.value \in Nat
    BY DEF TxRecord
  <1>3. SenderEntry(parent, tx).balance <= bound
    BY <1>1, <1>2 DEF SenderEntry, TxValid, Entry
  <1>4. ReceiverEntry(parent, tx).balance <= bound + MaxValue
    <2> DEFINE sum == Lookup(parent, tx.receiver).balance + tx.value
    <2>1. Lookup(parent, tx.receiver).balance \in 0 .. bound
      BY DEF Lookup, IsState, Entry
    <2>2. sum \in Nat /\ sum <= bound + MaxValue
      BY <2>1, <1>2
    <2>3. sum % Word <= sum
      BY <2>2
    <2>4. ReceiverEntry(parent, tx).balance = sum % Word
      BY DEF ReceiverEntry
    <2> HIDE DEF sum
    <2> QED
      BY <2>2, <2>3, <2>4
  <1> QED
    BY <1>3, <1>4, EffectType DEF Effect, Entry

(* What a valid transaction writes, without the wrap-around. *)
LEMMA EffectExact ==
    ASSUME TypeOK, NonceBounded, BalanceBounded, height < MaxHeight,
           NEW tx \in Tx, TxValid(parent_state, tx),
           NEW a, Touches(tx, a)
    PROVE  LET old == Lookup(parent_state, a)
               new == Effect(parent_state, tx, a)
           IN  IF tx.sender = a
               THEN /\ new.nonce = old.nonce + 1
                    /\ new.balance
                          = old.balance - (IF tx.receiver = a THEN 0 ELSE tx.value)
               ELSE /\ new.nonce = old.nonce
                    /\ InRange => new.balance = old.balance + tx.value
  <1> USE TransactionAssumption, LedgerAssumption
  <1>1. tx.value \in Nat /\ tx.value <= MaxValue
    BY DEF TxRecord
  <1>2. CASE tx.sender = a
    <2>1. Lookup(parent_state, a) = parent_state[a] /\ parent_state[a] \in Entry
      BY <1>2 DEF Lookup, TxValid, TypeOK, IsState
    <2>2. parent_state[a].nonce \in 0 .. height
      BY <1>2, <2>1 DEF NonceBounded, TxValid, Entry
    <2>3. (parent_state[a].nonce + 1) % Word = parent_state[a].nonce + 1
      <3> DEFINE n == parent_state[a].nonce + 1
      <3>1. n \in Nat /\ n < Word
        BY <2>2 DEF TypeOK
      <3> HIDE DEF n
      <3>2. n % Word = n
        BY <3>1
      <3> QED
        BY <3>2 DEF n
    <2>4. tx.account_nonce = parent_state[a].nonce + 1
      BY <1>2, <2>3 DEF TxValid
    <2> QED
      BY <1>1, <1>2, <2>1, <2>4 DEF Effect, SenderEntry, Entry
  <1>3. CASE tx.sender # a
    <2> DEFINE old == Lookup(parent_state, a)
    <2>1. tx.receiver = a
      BY <1>3 DEF Touches
    <2>2. old \in Entry
      BY LookupType DEF TypeOK
    <2>3. InRange => (old.balance + tx.value) % Word = old.balance + tx.value
      <3> SUFFICES ASSUME InRange PROVE old.balance + tx.value < Word
        BY <1>1, <2>2 DEF Entry
      <3> DEFINE coins == height * MaxValue
      <3>1. coins \in Nat /\ (height + 1) * MaxValue = coins + MaxValue
        BY DEF TypeOK
      <3>2. old.balance <= IcoBalance + coins
        BY <3>1 DEF BalanceBounded, Lookup
      <3>3. IcoBalance + (coins + MaxValue) < Word
        BY <3>1 DEF InRange
      <3> HIDE DEF coins
      <3> QED
        BY <1>1, <2>2, <3>1, <3>2, <3>3 DEF Entry
    <2> QED
      BY <1>3, <2>1, <2>2, <2>3 DEF Effect, ReceiverEntry
  <1> QED
    BY <1>2, <1>3

LEMMA InitIInv == Init => IInv
  <1> USE TransactionAssumption, LedgerAssumption
  <1> SUFFICES ASSUME Init PROVE IInv
    OBVIOUS
  <1>1. TypeOK
    BY DEF Init, TypeOK, IcoState, IsState, Entry
  <1>2. NonceBounded
    BY DEF Init, NonceBounded, IcoState
  <1>3. BalanceBounded
    BY DEF Init, BalanceBounded, IcoState
  <1>4. LastWriterWins
    BY DEF Init, LastWriterWins, Explained
  <1> QED
    BY <1>1, <1>2, <1>3, <1>4 DEF IInv

(* The entry of every account after one more valid transaction. *)
LEMMA ExecuteExplained ==
    ASSUME IInv, NEW tx \in Tx, ExecuteNext(tx), NEW a \in Account
    PROVE  Explained(a)'
  <1> USE TransactionAssumption, LedgerAssumption
  <1>1. /\ valid_tx \in Seq(Tx)
        /\ valid_tx' = Append(valid_tx, tx)
        /\ Len(valid_tx') = Len(valid_tx) + 1
        /\ valid_tx'[Len(valid_tx) + 1] = tx
        /\ \A i \in 1 .. Len(valid_tx) : valid_tx'[i] = valid_tx[i]
    BY DEF IInv, TypeOK, ExecuteNext
  <1>2. /\ new_state' = Transfer(parent_state, new_state, tx)
        /\ parent_state' = parent_state /\ height' = height
        /\ TxValid(parent_state, tx) /\ height < MaxHeight
    BY DEF ExecuteNext
  <1>3. CASE Touches(tx, a)
    <2>1. a \in DOMAIN new_state' /\ new_state'[a] = Effect(parent_state, tx, a)
      BY <1>2, <1>3 DEF Transfer, Touches
    <2>2. Written(tx, a)'
      BY <1>2, <1>3, <2>1, EffectExact DEF IInv, Written, InRange
    <2>3. PICK n : n = Len(valid_tx) + 1
      OBVIOUS
    <2>4. n \in 1 .. Len(valid_tx') /\ valid_tx'[n] = tx
      BY <1>1, <2>3
    <2>5. LastWriter(a, n)'
      BY <1>1, <1>3, <2>3, <2>4 DEF LastWriter, Touches
    <2> QED
      BY <2>1, <2>2, <2>4, <2>5 DEF Explained, Written
  <1>4. CASE ~ Touches(tx, a)
    <2>1. /\ a \in DOMAIN new_state' <=> a \in DOMAIN new_state
          /\ a \in DOMAIN new_state => new_state'[a] = new_state[a]
      BY <1>2, <1>4 DEF Transfer, Touches
    <2>2. Explained(a)
      BY DEF IInv, LastWriterWins
    <2>3. CASE \A i \in 1 .. Len(valid_tx) : ~ Touches(valid_tx[i], a)
      <3>1. /\ a \in DOMAIN new_state <=> a \in DOMAIN parent_state
            /\ a \in DOMAIN parent_state => new_state[a] = parent_state[a]
        BY <2>2, <2>3 DEF Explained, LastWriter
      <3>2. \A i \in 1 .. Len(valid_tx') : ~ Touches(valid_tx'[i], a)
        BY <1>1, <1>4, <2>3
      <3> QED
        BY <1>2, <2>1, <3>1, <3>2 DEF Explained, Touches
    <2>4. ASSUME NEW i \in 1 .. Len(valid_tx), a \in DOMAIN new_state,
                 LastWriter(a, i), Written(valid_tx[i], a)
          PROVE  Explained(a)'
      <3>1. LastWriter(a, i)'
        BY <1>1, <1>4, <2>4 DEF LastWriter, Touches
      <3>2. PICK t : t = valid_tx[i]
        OBVIOUS
      <3>3. valid_tx'[i] = t /\ i \in 1 .. Len(valid_tx')
        BY <1>1, <3>2
      <3>4. Written(t, a)'
        BY <1>2, <2>1, <2>4, <3>2 DEF Written, InRange
      <3> QED
        BY <2>1, <2>4, <3>1, <3>3, <3>4 DEF Explained, Written
    <2> QED
      BY <2>2, <2>3, <2>4 DEF Explained
  <1> QED
    BY <1>3, <1>4

LEMMA NextIInv == IInv /\ [Next]_vars => IInv'
  <1> USE TransactionAssumption, LedgerAssumption
  <1> SUFFICES ASSUME IInv, [Next]_vars PROVE IInv'
    OBVIOUS
  <1>1. TypeOK'
    BY TypeStep DEF IInv
  <1>2. height * MaxValue \in Nat
          /\ (height + 1) * MaxValue = height * MaxValue + MaxValue
    BY DEF IInv, TypeOK
  <1>3. ASSUME NEW tx \in Tx, ExecuteNext(tx) PROVE IInv'
    <2>1. NonceBounded'
      BY <1>3 DEF IInv, NonceBounded, ExecuteNext
    <2>2. BalanceBounded'
      <3> DEFINE bound == IcoBalance + height * MaxValue
      <3>1. bound \in Nat
        BY <1>2
      <3>2. \A b \in DOMAIN parent_state : parent_state[b].balance <= bound
        BY DEF IInv, BalanceBounded
      <3>3. tx \in TxRecord /\ tx.value <= MaxValue
        OBVIOUS
      <3>4. TxValid(parent_state, tx) /\ IsState(parent_state)
        BY <1>3 DEF ExecuteNext, IInv, TypeOK
      <3>5. \A b : Effect(parent_state, tx, b).balance <= bound + MaxValue
        <4> HIDE DEF bound
        <4> QED
          BY <3>1, <3>2, <3>3, <3>4, EffectBounded
      <3>6. bound + MaxValue = IcoBalance + (height + 1) * MaxValue
        BY <1>2
      <3>7. \A b \in DOMAIN new_state : new_state[b].balance <= bound + MaxValue
        BY <3>6 DEF IInv, BalanceBounded
      <3> HIDE DEF bound
      <3>8. \A b \in DOMAIN new_state' : new_state'[b].balance <= bound + MaxValue
        BY <1>3, <3>5, <3>7 DEF ExecuteNext, Transfer, Touches
      <3> QED
        BY <1>3, <3>6, <3>8 DEF IInv, BalanceBounded, ExecuteNext
    <2> QED
      BY <1>1, <1>3, <2>1, <2>2, ExecuteExplained DEF IInv, LastWriterWins
  <1>4. CASE SealBlock
    <2>1. NonceBounded'
      <3> SUFFICES ASSUME NEW a \in DOMAIN new_state
                   PROVE  new_state[a].nonce <= height + 1
        BY <1>4 DEF NonceBounded, SealBlock
      <3>1. a \in Account /\ Explained(a)
        BY DEF IInv, TypeOK, IsState, LastWriterWins
      <3>2. Lookup(parent_state, a).nonce \in 0 .. height
        BY DEF Lookup, IInv, NonceBounded, TypeOK, IsState, Entry
      <3>3. new_state[a].nonce
              \in {Lookup(parent_state, a).nonce, Lookup(parent_state, a).nonce + 1}
        BY <3>1 DEF Explained, Written, Lookup
      <3> QED
        BY <3>2, <3>3 DEF IInv, TypeOK
    <2>2. BalanceBounded'
      <3>1. ((height + 1) + 1) * MaxValue = (height + 1) * MaxValue + MaxValue
        BY DEF IInv, TypeOK
      <3>2. \A a \in DOMAIN new_state :
              new_state[a].balance \in Nat
        BY DEF IInv, TypeOK, IsState, Entry
      <3> DEFINE coins == (height + 1) * MaxValue
      <3>3. coins \in Nat
        BY DEF IInv, TypeOK
      <3>4. \A a \in DOMAIN new_state : new_state[a].balance <= IcoBalance + coins
        BY DEF IInv, BalanceBounded
      <3> HIDE DEF coins
      <3>5. \A a \in DOMAIN new_state :
              new_state[a].balance <= IcoBalance + (coins + MaxValue)
        BY <3>2, <3>3, <3>4
      <3> QED
        BY <1>4, <3>1, <3>4, <3>5 DEF BalanceBounded, SealBlock, coins
    <2>3. LastWriterWins'
      BY <1>4 DEF LastWriterWins, Explained, SealBlock
    <2> QED
      BY <1>1, <2>1, <2>2, <2>3 DEF IInv
  <1>5. CASE UNCHANGED vars
    BY <1>1, <1>5 DEF IInv, NonceBounded, BalanceBounded, LastWriterWins,
                      Explained, LastWriter, Written, InRange, vars
  <1> QED
    BY <1>3, <1>4, <1>5 DEF Next

LEMMA Invariance == Spec => []IInv
  BY InitIInv, NextIInv, PTL DEF Spec

(* States are well formed whatever is executed (transaction.rs:30): no        *)
(* balance goes below zero, whatever the list of transactions.               *)
THEOREM TypeCorrect == Spec => []TypeOK
  BY Invariance, PTL DEF IInv

(* execute_tx reads the parent's state only, so the last valid transaction   *)
(* that touches an account decides its entry (transaction.rs:117-170).       *)
THEOREM LastWriter_Decides == Spec => []LastWriterWins
  BY Invariance, PTL DEF IInv

(* No balance exceeds the ICO and one largest transfer per block, whatever   *)
(* the double spending; so balances stay within u32 on every chain shorter   *)
(* than (Word - IcoBalance) / MaxValue blocks (transaction.rs:161-168).      *)
THEOREM Balance_Bounded == Spec => []BalanceBounded
  BY Invariance, PTL DEF IInv

(* Nonces stay or grow by one from a block to the next, and accounts stay    *)
(* (transaction.rs:155-168).                                                 *)
THEOREM Nonce_Steps == Spec => NonceStep
  <1>1. IInv /\ [Next]_vars =>
          [height' > height =>
             \A a \in DOMAIN parent_state :
                /\ a \in DOMAIN parent_state'
                /\ parent_state'[a].nonce - parent_state[a].nonce \in {0, 1}]_vars
    <2> SUFFICES ASSUME IInv, SealBlock, NEW a \in DOMAIN parent_state
                 PROVE  /\ a \in DOMAIN new_state
                        /\ new_state[a].nonce - parent_state[a].nonce \in {0, 1}
      BY DEF Next, ExecuteNext, SealBlock, IInv, TypeOK
    <2>1. a \in Account /\ parent_state[a].nonce \in Nat
      BY DEF IInv, TypeOK, IsState, Entry
    <2>2. Explained(a)
      BY <2>1 DEF IInv, LastWriterWins
    <2> QED
      BY <2>1, <2>2 DEF Explained, Written, Lookup
  <1> QED
    BY <1>1, Invariance, PTL DEF Spec, NonceStep
-----------------------------------------------------------------------------
(* execute_tx on whole lists.  The states, and what a run of the loop holds. *)
AccountState == UNION {[A -> Entry] : A \in SUBSET Account}
Result == [state : AccountState, valid : Seq(TxRecord)]
Start(parent) == [state |-> parent, valid |-> <<>>]

LEMMA AccountStates ==
    ASSUME NEW s
    PROVE  IsState(s) <=> s \in AccountState
  <1>1. ASSUME s \in AccountState PROVE IsState(s)
    <2>1. PICK A \in SUBSET Account : s \in [A -> Entry]
      BY <1>1 DEF AccountState
    <2> QED
      BY <2>1 DEF IsState
  <1>2. ASSUME IsState(s) PROVE s \in AccountState
    BY <1>2 DEF AccountState, IsState
  <1> QED
    BY <1>1, <1>2

LEMMA ExecuteStepType ==
    ASSUME NEW parent \in AccountState, NEW r \in Result, NEW tx \in TxRecord
    PROVE  ExecuteStep(parent, r, tx) \in Result
  <1>1. CASE ~ TxValid(parent, tx)
    BY <1>1 DEF ExecuteStep
  <1>2. CASE TxValid(parent, tx)
    <2>1. IsState(parent) /\ IsState(r.state) /\ r.valid \in Seq(TxRecord)
      BY AccountStates DEF Result
    <2>2. Transfer(parent, r.state, tx) \in AccountState
      BY <1>2, <2>1, TransferIsState, AccountStates
    <2>3. Append(r.valid, tx) \in Seq(TxRecord)
      BY <2>1
    <2> QED
      BY <1>2, <2>2, <2>3 DEF ExecuteStep, Result
  <1> QED
    BY <1>1, <1>2

(* The results after each round, which execute_tx ends with the last of. *)
AreRounds(parent, txs, round) ==
    round = [k \in 0 .. Len(txs) |->
                IF k = 0 THEN Start(parent)
                ELSE ExecuteStep(parent, round[k - 1], txs[k])]

LEMMA RoundsExist ==
    ASSUME NEW parent \in AccountState, NEW txs \in Seq(TxRecord)
    PROVE  \E round : AreRounds(parent, txs, round)
  <1> DEFINE n == Len(txs)
             allowed == [k \in 0 .. n |-> Result]
             step == [k \in 1 .. n |-> [r \in Result |-> ExecuteStep(parent, r, txs[k])]]
  <1>1. n \in Nat /\ \A k \in 1 .. n : txs[k] \in TxRecord
    OBVIOUS
  <1>2. Start(parent) \in allowed[0] /\ allowed \in [0 .. n -> SUBSET Result]
    BY <1>1 DEF Start, Result
  <1>3. StepsAllowed(n, allowed, step)
    <2> SUFFICES ASSUME NEW k \in 1 .. n, NEW r \in allowed[k - 1]
                 PROVE  step[k][r] \in allowed[k]
      BY DEF StepsAllowed
    <2>1. k - 1 \in 0 .. n /\ k \in 0 .. n
      BY <1>1
    <2>2. r \in Result /\ allowed[k] = Result /\ step[k][r] = ExecuteStep(parent, r, txs[k])
      BY <2>1
    <2> QED
      BY <1>1, <2>2, ExecuteStepType
  <1> HIDE DEF allowed, step, n
  <1>4. PICK f \in [0 .. n -> Result] : IsIteration(f, n, Start(parent), allowed, step)
    BY <1>1, <1>2, <1>3, IterationExists
  <1>5. ASSUME NEW k \in 0 .. n, k # 0 PROVE f[k] = ExecuteStep(parent, f[k - 1], txs[k])
    <2>1. k \in 1 .. n /\ k - 1 \in 0 .. n
      BY <1>1, <1>5
    <2>2. f[k - 1] \in Result
      BY <1>4, <2>1
    <2> QED
      BY <1>4, <2>1, <2>2 DEF step, IsIteration
  <1>6. \A k \in 0 .. n : f[k] = IF k = 0 THEN Start(parent)
                                 ELSE ExecuteStep(parent, f[k - 1], txs[k])
    BY <1>4, <1>5 DEF IsIteration
  <1>7. f = [k \in 0 .. n |-> f[k]]
    BY <1>4
  <1> QED
    BY <1>6, <1>7 DEF AreRounds, n

LEMMA RoundsTyped ==
    ASSUME NEW parent \in AccountState, NEW txs \in Seq(TxRecord),
           NEW round, AreRounds(parent, txs, round)
    PROVE  \A k \in 0 .. Len(txs) : round[k] \in Result
  <1> DEFINE n == Len(txs)
             Good == {k \in 0 .. n : round[k] \in Result}
  <1>1. n \in Nat /\ \A k \in 1 .. n : txs[k] \in TxRecord
    OBVIOUS
  <1>2. \A k \in 0 .. n : round[k] = IF k = 0 THEN Start(parent)
                                     ELSE ExecuteStep(parent, round[k - 1], txs[k])
    BY DEF AreRounds
  <1> HIDE DEF n
  <1>3. 0 \in Good
    <2>1. Start(parent) \in Result
      BY DEF Start, Result
    <2>2. 0 \in 0 .. n /\ round[0] = Start(parent)
      BY <1>1, <1>2
    <2> QED
      BY <2>1, <2>2
  <1>4. ASSUME NEW k \in 0 .. n - 1, k \in Good PROVE k + 1 \in Good
    <2>1. k + 1 \in 1 .. n /\ k + 1 \in 0 .. n /\ k + 1 # 0 /\ k + 1 - 1 = k
      BY <1>1
    <2>2. round[k] \in Result
      BY <1>4
    <2>3. round[k + 1] = ExecuteStep(parent, round[k], txs[k + 1])
      BY <1>2, <2>1
    <2>4. ExecuteStep(parent, round[k], txs[k + 1]) \in Result
      BY <1>1, <2>1, <2>2, ExecuteStepType
    <2> QED
      BY <2>1, <2>3, <2>4
  <1>5. 0 .. n \subseteq Good
    <2> HIDE DEF Good
    <2> QED
      BY <1>1, <1>3, <1>4, IntervalInduction
  <1> QED
    BY <1>5 DEF n

(* The rounds that ExecuteTx chooses are such rounds. *)
LEMMA ExecuteRounds ==
    ASSUME NEW parent \in AccountState, NEW txs \in Seq(TxRecord)
    PROVE  \E round : AreRounds(parent, txs, round)
                      /\ ExecuteTx(parent, txs) = round[Len(txs)]
  <1> DEFINE round == CHOOSE round : AreRounds(parent, txs, round)
  <1>1. AreRounds(parent, txs, round)
    BY RoundsExist
  <1>2. ExecuteTx(parent, txs) = round[Len(txs)]
    BY DEF ExecuteTx, AreRounds, Start
  <1> HIDE DEF round
  <1> QED
    BY <1>1, <1>2

(* The rounds of a list start with the rounds of each shorter list. *)
LEMMA RoundsAgree ==
    ASSUME NEW parent \in AccountState,
           NEW txs \in Seq(TxRecord), NEW more \in Seq(TxRecord),
           Len(txs) <= Len(more), \A k \in 1 .. Len(txs) : txs[k] = more[k],
           NEW round, AreRounds(parent, txs, round),
           NEW longer, AreRounds(parent, more, longer)
    PROVE  \A k \in 0 .. Len(txs) : round[k] = longer[k]
  <1> DEFINE n == Len(txs)
             Good == {k \in 0 .. n : round[k] = longer[k]}
  <1>1. n \in Nat /\ \A k \in 1 .. n : txs[k] = more[k]
    OBVIOUS
  <1>2. \A k \in 0 .. n : round[k] = IF k = 0 THEN Start(parent)
                                     ELSE ExecuteStep(parent, round[k - 1], txs[k])
    BY DEF AreRounds
  <1>3. \A k \in 0 .. n : longer[k] = IF k = 0 THEN Start(parent)
                                      ELSE ExecuteStep(parent, longer[k - 1], more[k])
    <2>1. \A k \in 0 .. n : k \in 0 .. Len(more)
      OBVIOUS
    <2> QED
      BY <2>1 DEF AreRounds
  <1> HIDE DEF n
  <1>4. 0 \in Good
    BY <1>1, <1>2, <1>3
  <1>5. ASSUME NEW k \in 0 .. n - 1, k \in Good PROVE k + 1 \in Good
    <2>1. k + 1 \in 1 .. n /\ k + 1 \in 0 .. n /\ k + 1 # 0 /\ k + 1 - 1 = k
      BY <1>1
    <2>2. round[k] = longer[k]
      BY <1>5
    <2> QED
      BY <1>1, <1>2, <1>3, <2>1, <2>2
  <1>6. 0 .. n \subseteq Good
    <2> HIDE DEF Good
    <2> QED
      BY <1>1, <1>4, <1>5, IntervalInduction
  <1> QED
    BY <1>6 DEF n

LEMMA ExecuteType ==
    ASSUME NEW parent \in AccountState, NEW txs \in Seq(TxRecord)
    PROVE  ExecuteTx(parent, txs) \in Result
  <1>1. PICK round : AreRounds(parent, txs, round)
                     /\ ExecuteTx(parent, txs) = round[Len(txs)]
    BY ExecuteRounds
  <1>2. Len(txs) \in 0 .. Len(txs)
    OBVIOUS
  <1> QED
    BY <1>1, <1>2, RoundsTyped

LEMMA ExecuteEmpty ==
    ASSUME NEW parent \in AccountState
    PROVE  ExecuteTx(parent, <<>>) = Start(parent)
  <1>1. <<>> \in Seq(TxRecord) /\ Len(<<>>) = 0 /\ 0 \in 0 .. 0
    OBVIOUS
  <1>2. PICK round : AreRounds(parent, <<>>, round)
                     /\ ExecuteTx(parent, <<>>) = round[Len(<<>>)]
    BY <1>1, ExecuteRounds
  <1>3. round[0] = Start(parent)
    BY <1>1, <1>2 DEF AreRounds
  <1> QED
    BY <1>1, <1>2, <1>3

LEMMA ExecuteAppend ==
    ASSUME NEW parent \in AccountState, NEW txs \in Seq(TxRecord), NEW tx \in TxRecord
    PROVE  ExecuteTx(parent, Append(txs, tx))
             = ExecuteStep(parent, ExecuteTx(parent, txs), tx)
  <1> DEFINE n == Len(txs)
             more == Append(txs, tx)
  <1>1. /\ more \in Seq(TxRecord) /\ Len(more) = n + 1 /\ more[n + 1] = tx
        /\ \A k \in 1 .. n : txs[k] = more[k]
        /\ n \in Nat /\ n \in 0 .. n /\ n + 1 \in 0 .. n + 1 /\ n + 1 # 0
        /\ n + 1 - 1 = n /\ n <= n + 1
    OBVIOUS
  <1>2. PICK round : AreRounds(parent, txs, round) /\ ExecuteTx(parent, txs) = round[n]
    BY ExecuteRounds
  <1> HIDE DEF more
  <1>3. PICK longer : AreRounds(parent, more, longer)
                      /\ ExecuteTx(parent, more) = longer[n + 1]
    BY <1>1, ExecuteRounds
  <1>4. round[n] = longer[n]
    <2>1. \A k \in 0 .. n : round[k] = longer[k]
      BY <1>1, <1>2, <1>3, RoundsAgree
    <2> QED
      BY <1>1, <2>1
  <1>5. longer[n + 1] = ExecuteStep(parent, longer[n], tx)
    <2> HIDE DEF n
    <2> QED
      BY <1>1, <1>3 DEF AreRounds
  <1> QED
    BY <1>2, <1>3, <1>4, <1>5 DEF more

(* What execute_tx lets through, executed again on the same state, gives the *)
(* same state and passes whole: after the first k transactions, for every k.  *)
LEMMA ExecuteReplays ==
    ASSUME NEW parent \in AccountState, NEW txs \in Seq(TxRecord)
    PROVE  ExecuteTx(parent, ExecuteTx(parent, txs).valid) = ExecuteTx(parent, txs)
  <1>1. PICK round : AreRounds(parent, txs, round)
                     /\ ExecuteTx(parent, txs) = round[Len(txs)]
    BY ExecuteRounds
  <1> DEFINE n == Len(txs)
             Good == {k \in 0 .. n : ExecuteTx(parent, round[k].valid) = round[k]}
  <1>2. \A k \in 0 .. n : round[k] \in Result
    BY <1>1, RoundsTyped
  <1>3. n \in Nat /\ \A k \in 1 .. n : txs[k] \in TxRecord
    OBVIOUS
  <1>4. \A k \in 0 .. n : round[k] = IF k = 0 THEN Start(parent)
                                     ELSE ExecuteStep(parent, round[k - 1], txs[k])
    BY <1>1 DEF AreRounds
  <1> HIDE DEF n
  <1>5. 0 \in Good
    <2>1. round[0] = Start(parent) /\ 0 \in 0 .. n
      BY <1>3, <1>4
    <2>2. Start(parent).valid = <<>>
      BY DEF Start
    <2> QED
      BY <2>1, <2>2, ExecuteEmpty
  <1>6. ASSUME NEW k \in 0 .. n - 1, k \in Good PROVE k + 1 \in Good
    <2>1. /\ k + 1 \in 1 .. n /\ k + 1 \in 0 .. n /\ k + 1 # 0 /\ k + 1 - 1 = k
          /\ k \in 0 .. n
      BY <1>3
    <2>2. PICK r \in Result : r = round[k]
      BY <1>2, <2>1
    <2>3. PICK tx \in TxRecord : tx = txs[k + 1]
      BY <1>3, <2>1
    <2>4. round[k + 1] = ExecuteStep(parent, r, tx)
      BY <1>4, <2>1, <2>2, <2>3
    <2>5. ExecuteTx(parent, r.valid) = r
      BY <1>6, <2>2
    <2>6. CASE ~ TxValid(parent, tx)
      BY <2>1, <2>2, <2>4, <2>5, <2>6 DEF ExecuteStep
    <2>7. CASE TxValid(parent, tx)
      <3>1. r.valid \in Seq(TxRecord)
        BY DEF Result
      <3>2. ExecuteTx(parent, Append(r.valid, tx)) = ExecuteStep(parent, r, tx)
        BY <2>5, <3>1, ExecuteAppend
      <3>3. ExecuteStep(parent, r, tx).valid = Append(r.valid, tx)
        BY <2>7 DEF ExecuteStep
      <3> QED
        BY <2>1, <2>4, <3>2, <3>3
    <2> QED
      BY <2>6, <2>7
  <1>7. 0 .. n \subseteq Good
    <2> HIDE DEF Good
    <2> QED
      BY <1>3, <1>5, <1>6, IntervalInduction
  <1>8. n \in Good
    <2> HIDE DEF Good
    <2> QED
      BY <1>3, <1>7
  <1> QED
    BY <1>1, <1>8 DEF n

(* execute_tx is what the blockchain takes it for (ExecuteAssumption of      *)
(* module Blockchain): it maps states to states and lists to lists, and a    *)
(* block's valid transactions lead from the parent's state to the state that *)
(* all the miner's transactions led to (transaction.rs:115-174).             *)
THEOREM Execution_MeetsAssumption ==
    /\ IcoState \in AccountState
    /\ \A s \in AccountState, txs \in Seq(TxRecord) :
          /\ ExecuteTx(s, txs).state \in AccountState
          /\ ExecuteTx(s, txs).valid \in Seq(TxRecord)
          /\ ExecuteTx(s, ExecuteTx(s, txs).valid).state = ExecuteTx(s, txs).state
  <1>1. IcoState \in AccountState
    <2>1. IsState(IcoState)
      BY TransactionAssumption DEF IcoState, IsState, Entry
    <2> QED
      BY <2>1, AccountStates
  <1>2. ASSUME NEW s \in AccountState, NEW txs \in Seq(TxRecord)
        PROVE  /\ ExecuteTx(s, txs).state \in AccountState
               /\ ExecuteTx(s, txs).valid \in Seq(TxRecord)
               /\ ExecuteTx(s, ExecuteTx(s, txs).valid).state = ExecuteTx(s, txs).state
    <2>1. ExecuteTx(s, txs) \in Result
      BY ExecuteType
    <2>2. ExecuteTx(s, ExecuteTx(s, txs).valid) = ExecuteTx(s, txs)
      BY ExecuteReplays
    <2> QED
      BY <2>1, <2>2 DEF Result
  <1> QED
    BY <1>1, <1>2

LEMMA NextReexecution ==
    TypeOK /\ ReexecutionAgrees /\ [Next]_vars => ReexecutionAgrees'
  <1> SUFFICES ASSUME TypeOK, ReexecutionAgrees, [Next]_vars PROVE ReexecutionAgrees'
    OBVIOUS
  <1>1. ASSUME NEW tx \in Tx, ExecuteNext(tx) PROVE ReexecutionAgrees'
    <2>1. parent_state \in AccountState /\ valid_tx \in Seq(TxRecord) /\ tx \in TxRecord
      BY AccountStates, LedgerAssumption DEF TypeOK
    <2>2. ExecuteTx(parent_state, Append(valid_tx, tx))
            = ExecuteStep(parent_state, ExecuteTx(parent_state, valid_tx), tx)
      BY <2>1, ExecuteAppend
    <2>3. ExecuteTx(parent_state, Append(valid_tx, tx))
            = [state |-> Transfer(parent_state, new_state, tx), valid |-> Append(valid_tx, tx)]
      BY <1>1, <2>2 DEF ReexecutionAgrees, ExecuteStep, ExecuteNext
    <2> QED
      BY <1>1, <2>3 DEF ReexecutionAgrees, ExecuteNext
  <1>2. CASE SealBlock
    <2>1. new_state \in AccountState
      BY AccountStates DEF TypeOK
    <2>2. ExecuteTx(new_state, <<>>) = [state |-> new_state, valid |-> <<>>]
      BY <2>1, ExecuteEmpty DEF Start
    <2> QED
      BY <1>2, <2>2 DEF ReexecutionAgrees, SealBlock
  <1>3. CASE UNCHANGED vars
    BY <1>3 DEF ReexecutionAgrees, vars
  <1> QED
    BY <1>1, <1>2, <1>3 DEF Next

(* The miner stores the state it got from all the transactions it picked and *)
(* sends the valid ones; a node that executes those on the same parent state *)
(* stores the same state and drops none of them (miner/mod.rs:197-200,       *)
(* network/worker.rs:97-99).                                                 *)
THEOREM Reexecution_Agrees == Spec => []ReexecutionAgrees
  <1>1. Init => ReexecutionAgrees
    <2>1. IsState(IcoState)
      BY TransactionAssumption DEF IcoState, IsState, Entry
    <2>2. ExecuteTx(IcoState, <<>>) = Start(IcoState)
      BY <2>1, AccountStates, ExecuteEmpty
    <2> QED
      BY <2>2 DEF Init, ReexecutionAgrees, Start
  <1> QED
    BY <1>1, NextReexecution, TypeCorrect, PTL DEF Spec
================================================================================
