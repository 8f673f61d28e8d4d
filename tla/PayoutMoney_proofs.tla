------------------------- MODULE PayoutMoney_proofs -------------------------
(***************************************************************************)
(* Theorems about the money of the payout queue: the books of the tenant's *)
(* wallet, summed over the batches.                                        *)
(***************************************************************************)
EXTENDS PayoutQueue_proofs, SumLemmas

-----------------------------------------------------------------------------
(* The books *)

\* What the wallet has lost to and regained from each batch.
Net == [b \in Batches |-> NetOf(b)]

LEMMA NetType ==
    ASSUME TypeOK
    PROVE  /\ Net \in [Batches -> Int]
           /\ \A b \in Batches : bridge[b].reserved \in Nat /\ bridge[b].refunded \in Nat
BY DEF TypeOK, BridgeRow, Net, NetOf

LEMMA BooksAreSum == WalletMovesAddUp <=> balance = InitialBalance + SumFunctionOnSet(Net, Batches)
<1>1. DOMAIN Net = Batches
  BY DEF Net
<1>2. SumFunction([b \in Batches |-> NetOf(b)]) = SumFunctionOnSet(Net, Batches)
  BY <1>1 DEF Net, SumFunction
<1> QED
  BY <1>2 DEF WalletMovesAddUp

\* A commit books what it takes from the wallet and gives back, for one batch.
LEMMA CommitBooks ==
    ASSUME Inductive, NEW w \in Workers, CommitStep(w)
    PROVE  \/ UNCHANGED <<balance, bridge>>
           \/ \E b \in Batches :
                 /\ \A c \in Batches \ {b} : Net'[c] = Net[c]
                 /\ balance' = balance + (Net'[b] - Net[b])
<1> USE DEF Inductive
<1>1. /\ txn \in [Workers -> Txn] /\ txn[w] \in Txn /\ balance \in Nat
      /\ bridge \in [Batches -> BridgeRow]
  BY DEF TypeOK, WalletNeverStale
<1>2. \A b \in Batches : bridge[b].reserved \in Nat /\ bridge[b].refunded \in Nat
  BY NetType
<1>3. CASE ProcessCommit(w)
  <2> DEFINE b == txn[w].batch
             total == TotalAmount(b, ItemsSeenBy(w))
             due == RefundDue(b, FinalStatus(txn[w].ok, txn[w].bad), total, ItemsSeenBy(w))
  <2>0. PICK refund \in Refunds(due) :
           /\ balance' = (IF HoldsWallet(w) THEN txn[w].purse ELSE balance) + refund
           /\ bridge' = [bridge EXCEPT ![b] = [reserved |-> @.reserved + txn[w].reserve,
                                               refunded |-> @.refunded + refund]]
    BY <1>3 DEF ProcessCommit
  <2>1. /\ txn[w].at = "send"
        /\ balance' = (IF HoldsWallet(w) THEN txn[w].purse ELSE balance) + refund
        /\ bridge' = [bridge EXCEPT ![b] = [reserved |-> @.reserved + txn[w].reserve,
                                            refunded |-> @.refunded + refund]]
    BY <1>3, <2>0 DEF ProcessCommit
  <2>2. b \in Batches
    BY <2>1 DEF TxnShape
  <2>3. refund \in Nat
    BY AmountsType DEF Refunds
  <2> HIDE DEF b, due
  <2>4. \A c \in Batches \ {b} : Net'[c] = Net[c]
    BY <1>1, <2>1, <2>2 DEF Net, NetOf
  <2>5. /\ bridge'[b].reserved = bridge[b].reserved + txn[w].reserve
        /\ bridge'[b].refunded = bridge[b].refunded + refund
    BY <1>1, <2>1, <2>2
  <2>6. txn[w].reserve \in Nat
    BY <1>1 DEF Txn
  <2>7. Net'[b] - Net[b] = refund - txn[w].reserve
    BY <1>2, <2>2, <2>3, <2>5, <2>6 DEF Net, NetOf
  <2>8. balance' = balance - txn[w].reserve + refund
    <3>1. CASE HoldsWallet(w)
      BY <1>1, <2>1, <2>3, <2>6, <3>1 DEF WalletNeverStale
    <3>2. CASE ~HoldsWallet(w)
      BY <1>1, <2>1, <2>3, <2>6, <3>2 DEF HoldsWallet
    <3> QED
      BY <3>1, <3>2
  <2> QED
    BY <1>1, <2>2, <2>3, <2>4, <2>6, <2>7, <2>8
<1>4. CASE ItemsCommit(w) \/ RefreshWrite(w) \/ UpdateSave(w)
  BY <1>4 DEF ItemsCommit, RefreshWrite, UpdateSave
<1>5. CASE CancelCommit(w)
  <2> DEFINE b == txn[w].batch
  <2>0. PICK r \in Refunds(CancelRefund(txn[w].row, b)) :
           balance' = balance + r /\ bridge' = [bridge EXCEPT ![b].refunded = @ + r]
    BY <1>5 DEF CancelCommit
  <2>1. /\ txn[w].at = "refund"
        /\ balance' = balance + r
        /\ bridge' = [bridge EXCEPT ![b].refunded = @ + r]
    BY <1>5, <2>0 DEF CancelCommit
  <2>2. b \in Batches
    BY <2>1 DEF TxnShape
  <2>3. r \in Nat
    BY <1>1 DEF CancelRefund, Refunds, Txn, BatchRow
  <2> HIDE DEF b
  <2>4. \A c \in Batches \ {b} : Net'[c] = Net[c]
    BY <1>1, <2>1, <2>2 DEF Net, NetOf
  <2>5. /\ bridge'[b].reserved = bridge[b].reserved
        /\ bridge'[b].refunded = bridge[b].refunded + r
    BY <1>1, <2>1, <2>2 DEF BridgeRow
  <2>6. Net'[b] - Net[b] = r
    BY <1>2, <2>2, <2>3, <2>5 DEF Net, NetOf
  <2> QED
    BY <2>1, <2>2, <2>4, <2>6
<1> QED
  BY <1>3, <1>4, <1>5 DEF CommitStep

\* The books balance through every step.
LEMMA BooksStep ==
    ASSUME Inductive, Inductive', WalletMovesAddUp, [Next]_vars
    PROVE  WalletMovesAddUp'
<1> DEFINE Sum(f) == SumFunctionOnSet(f, Batches)
<1>0. TypeOK /\ TypeOK' /\ Prepared /\ TxnShape
  BY DEF Inductive
<1>1. /\ balance = InitialBalance + Sum(Net) /\ balance \in Int /\ InitialBalance \in Nat
      /\ Net \in [Batches -> Int] /\ Net' \in [Batches -> Int]
      /\ WalletMovesAddUp' <=> balance' = InitialBalance + Sum(Net')
  <2>1. Net' \in [Batches -> Int]
    BY <1>0 DEF TypeOK, BridgeRow, Net, NetOf
  <2>2. WalletMovesAddUp' <=> balance' = InitialBalance + Sum(Net')
    <3>1. DOMAIN Net' = Batches
      BY DEF Net
    <3>2. SumFunction([b \in Batches |-> NetOf(b)]') = Sum(Net')
      BY <3>1 DEF Net, SumFunction
    <3> QED
      BY <3>2 DEF WalletMovesAddUp
  <2> QED
    BY <1>0, <2>1, <2>2, NetType, BooksAreSum, ConstantsAssumption DEF TypeOK
<1>2. Sum(Net) \in Int
  BY <1>1, FiniteAssumption, SumType
<1> HIDE DEF Sum
<1>3. CASE UNCHANGED <<balance, bridge>>
  BY <1>1, <1>3 DEF Net, NetOf
<1>4. ASSUME NEW b \in Batches, \A c \in Batches \ {b} : Net'[c] = Net[c],
             balance' = balance + (Net'[b] - Net[b])
      PROVE  WalletMovesAddUp'
  <2>1. Sum(Net') = Sum(Net) + (Net'[b] - Net[b])
    BY <1>1, <1>4, FiniteAssumption, SumChange DEF Sum
  <2>2. Net'[b] \in Int /\ Net[b] \in Int
    BY <1>1
  <2> QED
    BY <1>1, <1>2, <1>4, <2>1, <2>2
<1>5. ASSUME NEW w \in Workers, CommitStep(w)
      PROVE  WalletMovesAddUp'
  BY <1>3, <1>4, <1>5, CommitBooks
<1>6. ASSUME NEW w \in Workers,
             BeginStep(w) \/ ProcessDeduct(w) \/ ProcessSelect(w) \/ AdvanceStep(w)
      PROVE  UNCHANGED <<balance, bridge>>
  BY <1>0, <1>6, BeginEffect, DeductEffect, SelectEffect, AdvanceEffect
<1>7. ASSUME NEW w \in Workers, RecordStep(w) \/ RollbackStep(w)
      PROVE  UNCHANGED <<balance, bridge>>
  BY <1>7 DEF RecordStep, RollbackStep, Committed
<1>8. UNCHANGED vars \/ BatchStep \/ (\E i \in Items : LatePay(i)) => UNCHANGED <<balance, bridge>>
  BY <1>0, BatchEffect DEF vars, LatePay
<1> QED
  BY <1>0, <1>3, <1>5, <1>6, <1>7, <1>8, StepKinds

\* The balance of the tenant's wallet is the initial one, minus what the bridge
\* took, plus what it gave back, over any number of batches: no such movement is
\* lost or made twice, whoever overlaps or dies.  A refund that the bridge gives up
\* on is no movement: its amount stays away.
THEOREM BooksBalance == Spec => []WalletMovesAddUp
<1>1. Init => WalletMovesAddUp
  <2> SUFFICES ASSUME Init PROVE WalletMovesAddUp
    OBVIOUS
  <2>1. \A b \in Batches : Net[b] = 0
    BY DEF Init, Net, NetOf
  <2>2. SumFunctionOnSet(Net, Batches) = 0
    BY <2>1, FiniteAssumption, SumOfZeros
  <2> QED
    BY <2>2, BooksAreSum, ConstantsAssumption DEF Init
<1>2. Inductive /\ Inductive' /\ WalletMovesAddUp /\ [Next]_vars => WalletMovesAddUp'
  BY BooksStep
<1> QED
  BY InductiveInvariance, <1>1, <1>2, PTL DEF Spec

-----------------------------------------------------------------------------
(* Refunds.  RefundWithinReserve is violated; this is by what. *)

\* A step that opens no FAILED batch again, no refresh of which writes anything
\* but the total that is there, and no PUT or PATCH of which saves an older row.
Undisturbed ==
    /\ \A b \in Batches : batch[b].status = "FAILED" => batch'[b].status = "FAILED"
    /\ \A w \in Workers : RefreshWrite(w) \/ UpdateSave(w) => batch' = batch

\* The states of a batch before a run, and the one it is cancelled in.
Unstarted == {"ABSENT", "PENDING", "ON_HOLD", "CANCELLED"}

\* total_amount is the sum of the items; a reservation, where there is a wallet,
\* is the total.
TotalsCurrent ==
    /\ \A b \in Batches : batch[b].total = TotalAmount(b, item)
    /\ \A w \in Workers :
          /\ txn[w].at \in {"deduct", "select", "send", "refund"}
                => txn[w].row.total = batch[txn[w].batch].total
          /\ txn[w].at \in {"select", "send"} /\ UsesWallet(txn[w].batch)
                => txn[w].reserve = txn[w].row.total

\* Nothing was moved for a batch that no run has closed.
UnstartedUnfunded ==
    \A b \in Batches : batch[b].status \in Unstarted =>
        ~batch[b].started /\ bridge[b].reserved = 0 /\ bridge[b].refunded = 0

Covered == TotalsCurrent /\ UnstartedUnfunded /\ RefundWithinReserve

\* An item row stays inserted, and its batch keeps its items, under a commit.
LEMMA CommitSameItems ==
    ASSUME Inductive, NEW w \in Workers, CommitStep(w), NEW b
    PROVE  ItemsOf(b, ItemsSeenBy(w)) = ItemsOf(b, item) /\ ItemsOf(b, item') = ItemsOf(b, item)
<1> USE DEF Inductive
<1>1. item' = ItemsSeenBy(w) /\ txn[w].todo = {} /\ txn[w].held \subseteq Items
  BY CommitEffect DEF TypeOK, Txn
<1>2. ASSUME NEW i \in txn[w].held
      PROVE  item[i].status # "ABSENT" /\ txn[w].rows[i].status # "ABSENT"
  <2>1. item[i].status # "ABSENT"
    BY <1>2 DEF LockedRowsKept
  <2>2. CASE txn[w].at \in Sends
    BY <1>1, <1>2, <2>1, <2>2 DEF Prepared
  <2>3. CASE txn[w].at = "edit"
    BY <1>2, <2>1, <2>3 DEF Prepared
  <2> QED
    BY <1>2, <2>1, <2>2, <2>3 DEF TxnShape
<1>3. \A i \in Items : ItemsSeenBy(w)[i].status = "ABSENT" <=> item[i].status = "ABSENT"
  BY <1>1, <1>2 DEF ItemsSeenBy
<1> QED
  BY <1>1, <1>3 DEF ItemsOf

\* What an opening transaction reads is the total of the row it locks.
LEMMA BeginTotals ==
    ASSUME TypeOK, NEW w \in Workers, BeginStep(w),
           txn'[w].at \in {"deduct", "select", "send", "refund"}
    PROVE  txn'[w].row.total = batch[txn'[w].batch].total
<1>0. txn \in [Workers -> Txn] /\ batch \in [Batches -> BatchRow]
  BY DEF TypeOK
<1>1. ASSUME NEW b \in Batches, CancelBegin(w, b)
      PROVE  txn'[w].row.total = batch[txn'[w].batch].total
  <2>1. txn'[w].batch = b /\ txn'[w].row = TransitionTo(batch[b], "CANCELLED")
    BY <1>0, <1>1 DEF CancelBegin, Idle
  <2> QED
    BY <1>0, <2>1, TransitionToType DEF BatchStatus
<1>2. ASSUME NEW b \in Batches, ProcessBegin(w, b)
      PROVE  txn'[w].row.total = batch[txn'[w].batch].total
  <2>1. txn'[w].batch = b /\ txn'[w].row = TransitionTo(AcquireLock(batch[b]), "PROCESSING")
    BY <1>0, <1>2 DEF ProcessBegin, Idle
  <2>2. AcquireLock(batch[b]) \in BatchRow /\ AcquireLock(batch[b]).total = batch[b].total
    BY <1>0 DEF AcquireLock, BatchRow
  <2> QED
    BY <2>1, <2>2, TransitionToType DEF BatchStatus
<1>3. ASSUME NEW b \in Batches, RefreshRead(w, b)
      PROVE  txn'[w].at = "refresh"
  BY <1>0, <1>3 DEF RefreshRead, Idle
<1>3a. ASSUME NEW b \in Batches, UpdateLoad(w, b)
       PROVE  txn'[w].at = "update"
  BY <1>0, <1>3a DEF UpdateLoad, Idle
<1>4. ASSUME NEW i \in Items, NEW s, EditBegin(w, i, s)
      PROVE  txn'[w].at = "edit"
  BY <1>0, <1>4 DEF EditBegin, Idle
<1>5. ASSUME NEW S, RetryBegin(w, S)
      PROVE  txn'[w].at = "retry"
  BY <1>0, <1>5 DEF RetryBegin, Idle
<1> QED
  BY <1>1, <1>2, <1>3, <1>3a, <1>4, <1>5 DEF BeginStep

\* An administrative step that changes the items of a batch changes its total
\* with them, and does so to no batch that somebody holds.
LEMMA BatchTotals ==
    ASSUME TypeOK, BatchStep
    PROVE  \A b \in Batches :
              \/ batch'[b].total = batch[b].total /\ ItemsOf(b, item') = ItemsOf(b, item)
              \/ /\ batch'[b].total = TotalAmount(b, item')
                 /\ BatchFree(b) /\ batch[b].status = "PENDING"
<1> PICK b \in Batches : \/ CreateBatch(b) \/ Hold(b) \/ Resume(b) \/ ReleaseLock(b)
                         \/ \E S \in SUBSET Items : AddItems(b, S)
  BY DEF BatchStep
<1>0. batch \in [Batches -> BatchRow] /\ item \in [Items -> ItemRow]
  BY DEF TypeOK
<1>1. CASE CreateBatch(b) \/ ReleaseLock(b)
  BY <1>0, <1>1 DEF CreateBatch, ReleaseLock, BatchRow
<1>2. CASE Hold(b) \/ Resume(b)
  <2>1. PICK s \in {"ON_HOLD", "PENDING"} : DoTransition(b, s)
    BY <1>2 DEF Hold, Resume
  <2>2. TransitionTo(batch[b], s).total = batch[b].total
    BY <1>0, TransitionToType DEF BatchStatus
  <2> QED
    BY <1>0, <2>1, <2>2 DEF DoTransition
<1>3. ASSUME NEW S \in SUBSET Items, AddItems(b, S)
      PROVE  \A c \in Batches :
                \/ batch'[c].total = batch[c].total /\ ItemsOf(c, item') = ItemsOf(c, item)
                \/ /\ batch'[c].total = TotalAmount(c, item')
                   /\ BatchFree(c) /\ batch[c].status = "PENDING"
  <2>1. /\ batch' = [batch EXCEPT ![b].total = TotalAmount(b, item')]
        /\ BatchFree(b) /\ batch[b].status = "PENDING"
        /\ \A i \in Items : i \notin S => item'[i] = item[i]
        /\ \A i \in S : BatchOf[i] = b
    BY <1>3 DEF AddItems
  <2>2. batch'[b].total = TotalAmount(b, item') /\ \A c \in Batches \ {b} : batch'[c] = batch[c]
    BY <1>0, <2>1 DEF BatchRow
  <2>3. \A c \in Batches \ {b} : ItemsOf(c, item') = ItemsOf(c, item)
    BY <2>1 DEF ItemsOf
  <2> QED
    BY <2>1, <2>2, <2>3
<1> QED
  BY <1>1, <1>2, <1>3

\* No run and no retry refunds a single item: none of them is FAILED.
LEMMA NothingForFailedItems ==
    ASSUME Inductive, NEW w \in Workers, txn[w].at = "send", txn[w].todo = {},
           NEW b, NEW status \in Finished, NEW total \in Nat
    PROVE  RefundDue(b, status, total, ItemsSeenBy(w)) =
              IF UsesWallet(b) /\ status = "FAILED" THEN total ELSE 0
<1> USE DEF Inductive
<1>1. ASSUME NEW i \in Items PROVE ItemsSeenBy(w)[i].status # "FAILED"
  BY DEF ItemsSeenBy, Prepared, Sends, FailedIsNeverRecorded
<1>2. {i \in ItemsOf(b, ItemsSeenBy(w)) : ItemsSeenBy(w)[i].status = "FAILED"} = {}
  BY <1>1 DEF ItemsOf
<1>3. CASE ~UsesWallet(b)
  BY <1>3 DEF RefundDue
<1>4. CASE UsesWallet(b) /\ status = "FAILED"
  BY <1>4 DEF RefundDue
<1>5. CASE UsesWallet(b) /\ status = "PARTIALLY_COMPLETED"
  BY <1>2, <1>5, GrossSumAssumption DEF RefundDue
<1>6. CASE UsesWallet(b) /\ status = "COMPLETED"
  BY <1>6 DEF RefundDue
<1> QED
  BY <1>3, <1>4, <1>5, <1>6 DEF Finished

\* A commit moves money for the batch it holds only: what a run reserved and, if
\* the run FAILED, at most the same amount back; nothing for a cancellation.
LEMMA CommitMoney ==
    ASSUME Inductive, Charged, TotalsCurrent, UnstartedUnfunded, Undisturbed,
           NEW w \in Workers, CommitStep(w), NEW b \in Batches
    PROVE  /\ ~HoldsBatch(w, b) => batch'[b] = batch[b] /\ bridge'[b] = bridge[b]
           /\ HoldsBatch(w, b) /\ txn[w].at = "refund" =>
                 /\ bridge'[b] = bridge[b]
                 /\ batch'[b] = txn[w].row /\ ~txn[w].row.started
           /\ HoldsBatch(w, b) /\ txn[w].at # "refund" =>
                 /\ txn[w].at = "send"
                 /\ batch'[b].status = FinalStatus(txn[w].ok, txn[w].bad)
                 /\ batch'[b].total = batch[b].total
                 /\ bridge'[b].reserved = txn[w].reserve
                 /\ bridge'[b].refunded \in
                       Refunds(IF UsesWallet(b) /\ batch'[b].status = "FAILED"
                               THEN batch[b].total ELSE 0)
<1> USE DEF Inductive
<1>1. /\ txn \in [Workers -> Txn] /\ txn[w] \in Txn /\ batch \in [Batches -> BatchRow]
      /\ bridge \in [Batches -> BridgeRow] /\ \A c \in Batches : bridge[c].reserved \in Nat
      /\ \A c \in Batches : bridge[c].refunded \in Nat
  BY DEF TypeOK, BridgeRow
<1>2. CASE ProcessCommit(w)
  <2> DEFINE c == txn[w].batch
             total == TotalAmount(c, ItemsSeenBy(w))
             status == FinalStatus(txn[w].ok, txn[w].bad)
             row == TransitionTo(txn[w].row, status)
             due == RefundDue(c, status, total, ItemsSeenBy(w))
  <2>0. PICK refund \in Refunds(due) :
           bridge' = [bridge EXCEPT ![c] = [reserved |-> @.reserved + txn[w].reserve,
                                            refunded |-> @.refunded + refund]]
    BY <1>2 DEF ProcessCommit
  <2>1. /\ txn[w].at = "send" /\ txn[w].todo = {}
        /\ batch'  = [batch EXCEPT ![c] = [row EXCEPT !.total = total]]
        /\ bridge' = [bridge EXCEPT ![c] = [reserved |-> @.reserved + txn[w].reserve,
                                            refunded |-> @.refunded + refund]]
    BY <1>2, <2>0 DEF ProcessCommit
  <2>2. c \in Batches /\ \A d \in Batches : HoldsBatch(w, d) <=> d = c
    BY <2>1 DEF TxnShape, HoldsBatch
  <2>3. total = batch[c].total /\ total \in Nat
    BY <1>1, <2>2, CommitSameItems DEF TotalsCurrent, TotalAmount, BatchRow
  <2>4. status \in Finished
    BY <1>1, FinalStatusType DEF Txn
  <2>5. row \in BatchRow /\ row.status = status
    BY <1>1, <2>4, TransitionToType DEF Txn, Finished, BatchStatus
  <2>6. due = IF UsesWallet(c) /\ status = "FAILED" THEN total ELSE 0
    BY <2>1, <2>3, <2>4, NothingForFailedItems
  <2>7. bridge[c].reserved = 0 /\ bridge[c].refunded = 0
    BY <2>1, <2>2 DEF LockedRowsKept, UnstartedUnfunded, Unstarted
  <2>8. txn[w].reserve \in Nat
    BY <1>1 DEF Txn
  <2> HIDE DEF c, total, status, row, due
  <2>9. /\ batch'[c].status = status /\ batch'[c].total = total
        /\ bridge'[c].reserved = txn[w].reserve /\ bridge'[c].refunded = refund
    <3>1. batch'[c] = [row EXCEPT !.total = total]
      BY <1>1, <2>1, <2>2
    <3>2. [row EXCEPT !.total = total].status = status /\ [row EXCEPT !.total = total].total = total
      BY <2>5 DEF BatchRow
    <3>3. bridge'[c] = [reserved |-> bridge[c].reserved + txn[w].reserve,
                        refunded |-> bridge[c].refunded + refund]
      BY <1>1, <2>1, <2>2
    <3>4. refund \in Nat
      BY <2>3, <2>6 DEF Refunds
    <3> QED
      BY <2>7, <2>8, <3>1, <3>2, <3>3, <3>4
  <2>10. \A d \in Batches \ {c} : batch'[d] = batch[d] /\ bridge'[d] = bridge[d]
    BY <1>1, <2>1, <2>2
  <2>11. CASE b = c
    BY <2>1, <2>2, <2>3, <2>6, <2>9, <2>11 DEF status
  <2>12. CASE b # c
    BY <2>2, <2>10, <2>12
  <2> QED
    BY <2>11, <2>12
<1>3. CASE ItemsCommit(w)
  BY <1>3 DEF ItemsCommit, HoldsBatch
<1>4. CASE CancelCommit(w)
  <2> DEFINE c == txn[w].batch
  <2>0. PICK r \in Refunds(CancelRefund(txn[w].row, c)) :
           bridge' = [bridge EXCEPT ![c].refunded = @ + r]
    BY <1>4 DEF CancelCommit
  <2>1. /\ txn[w].at = "refund"
        /\ batch'  = [batch EXCEPT ![c] = txn[w].row]
        /\ bridge' = [bridge EXCEPT ![c].refunded = @ + r]
    BY <1>4, <2>0 DEF CancelCommit
  <2>2. c \in Batches /\ \A d \in Batches : HoldsBatch(w, d) <=> d = c
    BY <2>1 DEF TxnShape, HoldsBatch
  <2>3. ~txn[w].row.started
    BY <2>1, <2>2 DEF LockedRowsKept, UnstartedUnfunded, Unstarted, Charged
  <2>4. r = 0
    BY <2>3 DEF CancelRefund, Refunds
  <2> HIDE DEF c
  <2>5. bridge' = bridge
    BY <1>1, <2>1, <2>2, <2>4 DEF BridgeRow
  <2>6. batch'[c] = txn[w].row /\ \A d \in Batches \ {c} : batch'[d] = batch[d]
    BY <1>1, <2>1, <2>2
  <2> QED
    BY <2>1, <2>2, <2>3, <2>5, <2>6
<1>5. CASE RefreshWrite(w) \/ UpdateSave(w)
  BY <1>5 DEF RefreshWrite, UpdateSave, HoldsBatch, Undisturbed
<1> QED
  BY <1>2, <1>3, <1>4, <1>5 DEF CommitStep

\* The totals stay current.
LEMMA TotalsStep ==
    ASSUME Inductive, Charged, TotalsCurrent, UnstartedUnfunded, [Next]_vars,
           Undisturbed \/ UNCHANGED vars
    PROVE  TotalsCurrent'
<1> USE DEF Inductive
<1> DEFINE Known(t, rows) ==
              /\ t.at \in {"deduct", "select", "send", "refund"}
                    => t.row.total = rows[t.batch].total
              /\ t.at \in {"select", "send"} /\ UsesWallet(t.batch)
                    => t.reserve = t.row.total
<1>0. txn \in [Workers -> Txn]
  BY DEF TypeOK
<1>1. CASE UNCHANGED vars \/ \E i \in Items : LatePay(i)
  <2>1. UNCHANGED <<batch, txn, item>>
    BY <1>1 DEF vars, LatePay
  <2> QED
    BY <2>1 DEF TotalsCurrent, TotalAmount, ItemsOf
<1>2. CASE BatchStep
  <2>1. txn' = txn
    BY <1>2, BatchEffect
  <2>2. \A b \in Batches : batch'[b].total = TotalAmount(b, item)'
    BY <1>2, BatchTotals DEF TotalsCurrent, TotalAmount
  <2>3. ASSUME NEW w \in Workers, txn[w].at \in {"deduct", "select", "send", "refund"}
        PROVE  batch'[txn[w].batch].total = batch[txn[w].batch].total
    <3>1. txn[w].batch \in Batches /\ ~BatchFree(txn[w].batch)
      BY <2>3 DEF TxnShape, BatchFree, HoldsBatch
    <3> QED
      BY <1>2, <3>1, BatchTotals
  <2> QED
    BY <2>1, <2>2, <2>3 DEF TotalsCurrent
<1>3. ASSUME NEW w \in Workers,
             \/ BeginStep(w) \/ ProcessDeduct(w) \/ ProcessSelect(w)
             \/ RecordStep(w) \/ RollbackStep(w) \/ AdvanceStep(w)
      PROVE  TotalsCurrent'
  <2>1. ASSUME UNCHANGED <<batch, item>>, OthersKeep(w), Known(txn'[w], batch)
        PROVE  TotalsCurrent'
    BY <2>1 DEF OthersKeep, TotalsCurrent, TotalAmount, ItemsOf
  <2>2. CASE BeginStep(w)
    <3>1. UNCHANGED <<batch, item>> /\ OthersKeep(w)
      BY <2>2, BeginEffect
    <3>2. txn'[w].at \in {"select", "send"} => txn'[w].batch \notin Tenanted
      BY <2>2, BeginEffect
    <3>3. Known(txn'[w], batch)
      BY <2>2, <3>2, BeginTotals DEF UsesWallet
    <3> QED
      BY <2>1, <3>1, <3>3
  <2>3. CASE ProcessDeduct(w)
    <3>1. UNCHANGED <<batch, item>> /\ OthersKeep(w)
      BY <2>3, DeductEffect
    <3>2. Known(txn'[w], batch)
      BY <2>3, DeductEffect DEF TotalsCurrent, SameClaim
    <3> QED
      BY <2>1, <3>1, <3>2
  <2>4. CASE ProcessSelect(w)
    <3>1. UNCHANGED <<batch, item>> /\ OthersKeep(w)
      BY <2>4, SelectEffect
    <3>2. Known(txn'[w], batch)
      BY <2>4, SelectEffect DEF TotalsCurrent
    <3> QED
      BY <2>1, <3>1, <3>2
  <2>5. CASE RecordStep(w)
    <3>1. UNCHANGED <<batch, item>> /\ OthersKeep(w)
      BY <2>5, RecordEffect DEF Committed
    <3>2. Known(txn'[w], batch)
      BY <2>5, RecordEffect DEF TotalsCurrent
    <3> QED
      BY <2>1, <3>1, <3>2
  <2>6. CASE RollbackStep(w)
    <3>1. UNCHANGED <<batch, item>> /\ OthersKeep(w) /\ txn'[w].at = "idle"
      BY <1>0, <2>6, IdleHoldsNothing DEF RollbackStep, OthersKeep, Committed
    <3> QED
      BY <2>1, <3>1
  <2>7. CASE AdvanceStep(w)
    <3>1. UNCHANGED <<batch, item>> /\ OthersKeep(w)
      BY <2>7, AdvanceEffect
    <3>2. Known(txn'[w], batch)
      BY <2>7, AdvanceEffect DEF TotalsCurrent, SameClaim, UsesWallet
    <3> QED
      BY <2>1, <3>1, <3>2
  <2> QED
    BY <1>3, <2>2, <2>3, <2>4, <2>5, <2>6, <2>7
<1>4. ASSUME NEW w \in Workers, CommitStep(w), Undisturbed
      PROVE  TotalsCurrent'
  <2>1. txn'[w].at = "idle" /\ OthersKeep(w)
    BY <1>0, <1>4, CommitEffect, IdleHoldsNothing DEF OthersKeep
  <2>2. ASSUME NEW b \in Batches
        PROVE  batch'[b].total = batch[b].total
    <3>1. CASE HoldsBatch(w, b) /\ txn[w].at = "refund"
      <4>1. batch'[b] = txn[w].row
        BY <1>4, <3>1, CommitMoney
      <4>2. txn[w].row.total = batch[b].total
        BY <3>1 DEF TotalsCurrent, HoldsBatch
      <4> QED
        BY <4>1, <4>2
    <3>2. CASE ~(HoldsBatch(w, b) /\ txn[w].at = "refund")
      BY <1>4, <3>2, CommitMoney
    <3> QED
      BY <3>1, <3>2
  <2>3. \A b \in Batches : TotalAmount(b, item)' = TotalAmount(b, item)
    BY <1>4, CommitSameItems DEF TotalAmount
  <2>4. \A b \in Batches : batch'[b].total = TotalAmount(b, item)'
    BY <2>2, <2>3 DEF TotalsCurrent
  <2>5. \A v \in Workers \ {w} :
           txn[v].at \in {"deduct", "select", "send", "refund"} => txn[v].batch \in Batches
    BY DEF TxnShape
  <2> QED
    BY <2>1, <2>2, <2>4, <2>5 DEF TotalsCurrent, OthersKeep
<1> QED
  BY <1>1, <1>2, <1>3, <1>4, StepKinds

\* No batch comes back to the states before its run.
LEMMA StatusForward ==
    ASSUME Inductive, BatchStep, Undisturbed, NEW b \in Batches
    PROVE  /\ batch'[b].status \in Unstarted =>
                 batch[b].status \in Unstarted /\ (batch'[b].started <=> batch[b].started)
           /\ batch'[b].status \in Finished => batch'[b].status = batch[b].status
<1>1. TypeOK /\ batch[b].status # "PROCESSING"
  BY DEF Inductive, NeverVisiblyProcessing
<1>2. /\ batch'[b].started <=> batch[b].started
      /\ batch'[b].status # batch[b].status =>
            /\ batch'[b].status \in {"PENDING", "ON_HOLD"}
            /\ batch[b].status \in {"ABSENT", "ON_HOLD", "PENDING", "PROCESSING", "FAILED"}
  BY <1>1, BatchEffect
<1>3. batch[b].status = "FAILED" => batch'[b].status = "FAILED"
  BY DEF Undisturbed
<1> QED
  BY <1>1, <1>2, <1>3 DEF Unstarted, Finished

\* Nothing is moved for a batch before its run, and no more back than taken.
LEMMA FundsStep ==
    ASSUME Inductive, Charged, Covered, [Next]_vars, Undisturbed \/ UNCHANGED vars
    PROVE  UnstartedUnfunded' /\ RefundWithinReserve'
<1> USE DEF Inductive, Covered
<1>0. /\ batch \in [Batches -> BatchRow]
      /\ \A b \in Batches : bridge[b].reserved \in Nat /\ batch[b].total \in Nat
  BY DEF TypeOK, BridgeRow, BatchRow
<1>1. ASSUME UNCHANGED <<batch, bridge>>
      PROVE  UnstartedUnfunded' /\ RefundWithinReserve'
  BY <1>1 DEF UnstartedUnfunded, RefundWithinReserve
<1>2. UNCHANGED vars \/ (\E i \in Items : LatePay(i)) => UNCHANGED <<batch, bridge>>
  BY DEF vars, LatePay
<1>3. ASSUME NEW w \in Workers,
             \/ BeginStep(w) \/ ProcessDeduct(w) \/ ProcessSelect(w)
             \/ RecordStep(w) \/ RollbackStep(w) \/ AdvanceStep(w)
      PROVE  UNCHANGED <<batch, bridge>>
  BY <1>3, BeginEffect, DeductEffect, SelectEffect
     DEF RecordStep, RollbackStep, AdvanceStep, Committed
<1>4. ASSUME BatchStep, Undisturbed
      PROVE  UnstartedUnfunded' /\ RefundWithinReserve'
  <2>1. bridge' = bridge
    BY <1>4, BatchEffect
  <2>2. \A b \in Batches : batch'[b].status \in Unstarted =>
           batch[b].status \in Unstarted /\ (batch'[b].started <=> batch[b].started)
    BY <1>4, StatusForward
  <2> QED
    BY <2>1, <2>2 DEF UnstartedUnfunded, RefundWithinReserve
<1>5. ASSUME NEW w \in Workers, CommitStep(w), Undisturbed
      PROVE  UnstartedUnfunded' /\ RefundWithinReserve'
  <2>1. ASSUME NEW b \in Batches
        PROVE  /\ batch'[b].status \in Unstarted =>
                     ~batch'[b].started /\ bridge'[b].reserved = 0 /\ bridge'[b].refunded = 0
               /\ bridge'[b].refunded <= bridge'[b].reserved
    <3>1. CASE ~HoldsBatch(w, b)
      BY <1>5, <3>1, CommitMoney DEF UnstartedUnfunded, RefundWithinReserve
    <3>2. CASE HoldsBatch(w, b) /\ txn[w].at = "refund"
      <4>1. bridge'[b] = bridge[b] /\ batch'[b] = txn[w].row /\ ~txn[w].row.started
        BY <1>5, <3>2, CommitMoney
      <4>2. batch[b].status \in Unstarted
        BY <3>2 DEF LockedRowsKept, HoldsBatch, Unstarted
      <4> QED
        BY <4>1, <4>2 DEF UnstartedUnfunded, RefundWithinReserve
    <3>3. CASE HoldsBatch(w, b) /\ txn[w].at # "refund"
      <4>1. /\ txn[w].at = "send" /\ txn[w].batch = b
            /\ batch'[b].status = FinalStatus(txn[w].ok, txn[w].bad)
            /\ bridge'[b].reserved = txn[w].reserve
            /\ bridge'[b].refunded \in
                  Refunds(IF UsesWallet(b) /\ batch'[b].status = "FAILED"
                          THEN batch[b].total ELSE 0)
        BY <1>5, <3>3, CommitMoney DEF HoldsBatch
      <4>2. batch'[b].status \in Finished
        BY <4>1, FinalStatusType DEF TypeOK, Txn
      <4>3. UsesWallet(b) => txn[w].reserve = batch[b].total
        BY <4>1 DEF TotalsCurrent
      <4>4. txn[w].reserve \in Nat
        BY DEF TypeOK, Txn
      <4> QED
        BY <1>0, <4>1, <4>2, <4>3, <4>4 DEF Finished, Unstarted, Refunds
    <3> QED
      BY <3>1, <3>2, <3>3
  <2> QED
    BY <2>1 DEF UnstartedUnfunded, RefundWithinReserve
<1> QED
  BY <1>1, <1>2, <1>3, <1>4, <1>5, StepKinds

LEMMA InitCovered == Init => Charged /\ Covered
<1> SUFFICES ASSUME Init PROVE Charged /\ Covered
  OBVIOUS
<1>1. \A b \in Batches : TotalAmount(b, item) = 0
  <2>1. \A b : ItemsOf(b, item) = {}
    BY DEF Init, ItemsOf, NoItem
  <2> QED
    BY <2>1, GrossSumAssumption DEF TotalAmount
<1>2. TotalsCurrent
  BY <1>1, IdleHoldsNothing DEF Init, TotalsCurrent, NoRow
<1>3. UnstartedUnfunded /\ RefundWithinReserve
  BY DEF Init, UnstartedUnfunded, RefundWithinReserve, NoRow
<1>4. Charged
  BY IdleHoldsNothing DEF Init, Charged
<1> QED
  BY <1>2, <1>3, <1>4 DEF Covered

\* A batch is refunded more than was reserved for it only after a FAILED batch
\* was opened again, refresh_batch_totals overwrote a total with an older sum, or
\* a PUT or PATCH saved an older row: without these three, no interleaving, crash
\* or retry breaks it.
THEOREM RefundsCovered == Spec /\ [][Undisturbed]_vars => []RefundWithinReserve
<1> DEFINE Kept == Charged /\ Covered
<1>1. Init => Kept
  BY InitCovered
<1>2. Inductive /\ Kept /\ [Next]_vars /\ [Undisturbed]_vars => Kept'
  BY ChargedStep, TotalsStep, FundsStep DEF Covered
<1>3. Kept => RefundWithinReserve
  BY DEF Covered
<1> HIDE DEF Kept
<1> QED
  BY InductiveInvariance, <1>1, <1>2, <1>3, PTL DEF Spec

-----------------------------------------------------------------------------
(* Payments.  DisbursedWithinReserve is violated; this is by what. *)

\* More items are not worth less.
LEMMA GrossGrows ==
    ASSUME NEW T \in SUBSET Items, NEW S \in SUBSET T
    PROVE  GrossSum[S] <= GrossSum[T]
<1> DEFINE P == {s \in SUBSET T : \A r \in SUBSET s : GrossSum[r] <= GrossSum[s]}
<1>1. \A s \in SUBSET Items : GrossSum[s] \in Nat
  BY GrossSumAssumption
<1>2. ASSUME NEW s \in SUBSET T, \A t \in SUBSET s : t # s => t \in P
      PROVE  s \in P
  <2>1. ASSUME NEW r \in SUBSET s, r # s
        PROVE  GrossSum[r] <= GrossSum[s]
    <3>1. PICK x \in s : x \notin r
      BY <2>1
    <3>2. s \ {x} \in P /\ r \in SUBSET (s \ {x})
      BY <1>2, <3>1
    <3>3. GrossSum[r] <= GrossSum[s \ {x}]
      BY <3>2
    <3>4. GrossSum[s] = GrossSum[s \ {x}] + GrossSum[{x}]
      <4>1. (s \ {x}) \cup {x} = s /\ x \in Items \ (s \ {x}) /\ s \ {x} \in SUBSET Items
        BY <3>1
      <4> QED
        BY <4>1, GrossSumAssumption
    <3> QED
      BY <1>1, <3>1, <3>3, <3>4
  <2> QED
    BY <1>1, <2>1
<1>3. IsFiniteSet(T)
  BY FiniteAssumption, FS_Subset
<1>4. P = SUBSET T
  <2>1. P \subseteq SUBSET T
    OBVIOUS
  <2> HIDE DEF P
  <2> QED
    BY <1>2, <1>3, <2>1, SubsetInduction
<1> QED
  BY <1>4

\* A step that pays no item of a FAILED batch.
FailedItemsNotPaid ==
    \A i \in Items : batch[BatchOf[i]].status = "FAILED" /\ item'[i].status = "SUCCESS"
                        => item[i].status = "SUCCESS"

\* Items are paid by runs, and a run that paid one is not FAILED.
ItemsMatchBatch ==
    /\ \A i \in Items :
          /\ batch[BatchOf[i]].status \in Unstarted => item[i].status \notin {"SUCCESS", "RETRYING"}
          /\ batch[BatchOf[i]].status = "FAILED" => item[i].status # "SUCCESS"
    /\ \A w \in Workers : txn[w].at = "send" =>
          \A i \in txn[w].held : /\ BatchOf[i] = txn[w].batch
                                 /\ txn[w].rows[i].status = "SUCCESS" => txn[w].ok > 0

\* What a run that did not fail reserved stays reserved, for all its items.
ReservationKept ==
    WalletInstalled => \A b \in Tenanted : batch[b].status \in {"COMPLETED", "PARTIALLY_COMPLETED"} =>
        bridge[b].reserved - bridge[b].refunded = TotalAmount(b, item)

\* What a commit makes of the items that were paid.
LEMMA MatchCommit ==
    ASSUME Inductive, Charged, Covered, ItemsMatchBatch, ReservationKept, Undisturbed,
           FailedItemsNotPaid, NEW w \in Workers, CommitStep(w)
    PROVE  /\ \A i \in Items :
                 /\ batch'[BatchOf[i]].status \in Unstarted => item'[i].status \notin {"SUCCESS", "RETRYING"}
                 /\ batch'[BatchOf[i]].status = "FAILED" => item'[i].status # "SUCCESS"
           /\ ReservationKept'
<1> USE DEF Inductive, Covered
<1>0. /\ txn[w] \in Txn /\ txn[w].ok \in Nat /\ txn[w].bad \in Nat
      /\ txn[w].held \subseteq Items /\ txn[w].reserve \in Nat
      /\ \A b \in Batches : bridge[b].reserved \in Nat /\ batch[b].total \in Nat
  BY DEF TypeOK, Txn, BridgeRow, BatchRow
<1>1. /\ txn[w].todo = {}
      /\ \A i \in Items : item'[i] = IF i \in txn[w].held THEN txn[w].rows[i] ELSE item[i]
  BY CommitEffect DEF ItemsSeenBy
<1>2. FinalStatus(txn[w].ok, txn[w].bad) \in Finished
  BY <1>0, FinalStatusType
<1>3. FinalStatus(txn[w].ok, txn[w].bad) = "FAILED" => txn[w].ok = 0
  <2>1. CASE txn[w].bad = 0
    BY <2>1 DEF FinalStatus
  <2>2. CASE txn[w].bad > 0 /\ txn[w].ok > 0
    BY <2>2 DEF FinalStatus
  <2> QED
    BY <1>0, <2>1, <2>2
<1>4. ASSUME NEW i \in Items
      PROVE  /\ batch'[BatchOf[i]].status \in Unstarted => item'[i].status \notin {"SUCCESS", "RETRYING"}
             /\ batch'[BatchOf[i]].status = "FAILED" => item'[i].status # "SUCCESS"
  <2> DEFINE b == BatchOf[i]
  <2>0. b \in Batches
    BY ConstantsAssumption
  <2> HIDE DEF b
  <2>1. CASE ~HoldsBatch(w, b)
    <3>1. batch'[b] = batch[b]
      BY <2>0, <2>1, CommitMoney
    <3>2. batch[b].status = "FAILED" => item'[i].status # "SUCCESS"
      BY DEF FailedItemsNotPaid, ItemsMatchBatch, b
    <3>3. ASSUME batch[b].status \in Unstarted, i \in txn[w].held
          PROVE  item'[i].status \notin {"SUCCESS", "RETRYING"}
      <4>1. txn[w].at # "send"
        BY <2>1, <3>3 DEF ItemsMatchBatch, HoldsBatch, b
      <4>2. txn[w].at # "retry"
        BY <3>3 DEF ItemsMatchBatch, LockedRowsKept, Sends, b
      <4>3. txn[w].at = "edit"
        BY <3>3, <4>1, <4>2 DEF TxnShape, Sends
      <4> QED
        BY <1>1, <3>3, <4>3 DEF Prepared
    <3>4. batch[b].status \in Unstarted /\ i \notin txn[w].held
             => item'[i].status \notin {"SUCCESS", "RETRYING"}
      BY <1>1 DEF ItemsMatchBatch, b
    <3> QED
      BY <3>1, <3>2, <3>3, <3>4 DEF b
  <2>2. CASE HoldsBatch(w, b) /\ txn[w].at = "refund"
    <3>1. batch'[b].status = "CANCELLED"
      BY <2>0, <2>2, CommitMoney DEF Prepared
    <3>2. item'[i] = item[i]
      BY <1>1, <2>2 DEF TxnShape, Sends
    <3>3. batch[b].status \in Unstarted
      BY <2>2 DEF LockedRowsKept, HoldsBatch, Unstarted
    <3> QED
      BY <3>1, <3>2, <3>3 DEF ItemsMatchBatch, b
  <2>3. CASE HoldsBatch(w, b) /\ txn[w].at # "refund"
    <3>1. /\ txn[w].at = "send" /\ txn[w].batch = b
          /\ batch'[b].status = FinalStatus(txn[w].ok, txn[w].bad)
      BY <2>0, <2>3, CommitMoney DEF HoldsBatch
    <3>2. batch'[b].status \notin Unstarted
      BY <1>2, <3>1 DEF Finished, Unstarted
    <3>3. batch[b].status \in Unstarted
      BY <3>1 DEF LockedRowsKept, Unstarted
    <3>4. item[i].status # "SUCCESS"
      BY <3>3 DEF ItemsMatchBatch, b
    <3>5. batch'[b].status = "FAILED" /\ i \in txn[w].held => txn[w].rows[i].status # "SUCCESS"
      BY <1>0, <1>3, <3>1 DEF ItemsMatchBatch
    <3> QED
      BY <1>1, <3>2, <3>4, <3>5 DEF b
  <2> QED
    BY <2>1, <2>2, <2>3
<1>5. ASSUME WalletInstalled,
             NEW b \in Tenanted, batch'[b].status \in {"COMPLETED", "PARTIALLY_COMPLETED"}
      PROVE  bridge'[b].reserved - bridge'[b].refunded = TotalAmount(b, item')
  <2>0. b \in Batches
    BY ConstantsAssumption
  <2>1. TotalAmount(b, item') = TotalAmount(b, item)
    BY CommitSameItems DEF TotalAmount
  <2>2. CASE ~HoldsBatch(w, b)
    BY <1>5, <2>0, <2>1, <2>2, CommitMoney DEF ReservationKept
  <2>3. CASE HoldsBatch(w, b) /\ txn[w].at = "refund"
    <3>1. batch'[b].status = "CANCELLED"
      BY <2>0, <2>3, CommitMoney DEF Prepared
    <3> QED
      BY <1>5, <3>1
  <2>4. CASE HoldsBatch(w, b) /\ txn[w].at # "refund"
    <3>1. /\ txn[w].at = "send" /\ txn[w].batch = b
          /\ bridge'[b].reserved = txn[w].reserve
          /\ bridge'[b].refunded = 0
      BY <1>5, <2>0, <2>4, CommitMoney DEF HoldsBatch, Refunds
    <3>2. txn[w].reserve = TotalAmount(b, item)
      BY <1>5, <2>0, <3>1 DEF TotalsCurrent, UsesWallet
    <3> QED
      BY <1>0, <2>1, <3>1, <3>2
  <2> QED
    BY <2>2, <2>3, <2>4
<1> QED
  BY <1>4, <1>5 DEF ReservationKept, TotalAmount, ItemsOf

LEMMA MatchStep ==
    ASSUME Inductive, Charged, Covered, ItemsMatchBatch, ReservationKept, [Next]_vars,
           (Undisturbed /\ FailedItemsNotPaid) \/ UNCHANGED vars
    PROVE  ItemsMatchBatch' /\ ReservationKept'
<1> USE DEF Inductive
<1>0. txn \in [Workers -> Txn]
  BY DEF TypeOK
<1>1. CASE UNCHANGED vars \/ \E i \in Items : LatePay(i)
  <2>1. UNCHANGED <<batch, item, bridge, txn>>
    BY <1>1 DEF vars, LatePay
  <2> QED
    BY <2>1 DEF ItemsMatchBatch, ReservationKept, TotalAmount, ItemsOf
<1>2. ASSUME BatchStep, Undisturbed
      PROVE  ItemsMatchBatch' /\ ReservationKept'
  <2>1. /\ UNCHANGED <<bridge, txn>>
        /\ \A i \in Items : item'[i] = item[i] \/ item'[i].status = "QUEUED"
    BY <1>2, BatchEffect
  <2>2. ASSUME NEW i \in Items
        PROVE  /\ batch'[BatchOf[i]].status \in Unstarted => item'[i].status \notin {"SUCCESS", "RETRYING"}
               /\ batch'[BatchOf[i]].status = "FAILED" => item'[i].status # "SUCCESS"
    <3>1. BatchOf[i] \in Batches
      BY ConstantsAssumption
    <3> QED
      BY <1>2, <2>1, <3>1, StatusForward DEF ItemsMatchBatch, Finished
  <2>3. ASSUME WalletInstalled,
               NEW b \in Tenanted, batch'[b].status \in {"COMPLETED", "PARTIALLY_COMPLETED"}
        PROVE  bridge'[b].reserved - bridge'[b].refunded = TotalAmount(b, item')
    <3>1. b \in Batches
      BY ConstantsAssumption
    <3>2. batch[b].status = batch'[b].status
      BY <1>2, <2>3, <3>1, StatusForward DEF Finished
    <3>3. ItemsOf(b, item') = ItemsOf(b, item)
      BY <1>2, <2>3, <3>1, <3>2, BatchTotals
    <3> QED
      BY <2>1, <2>3, <3>2, <3>3 DEF ReservationKept, TotalAmount
  <2>4. ItemsMatchBatch'
    BY <2>1, <2>2 DEF ItemsMatchBatch
  <2> QED
    BY <2>3, <2>4 DEF ReservationKept, TotalAmount, ItemsOf
<1>3. ASSUME NEW w \in Workers,
             \/ BeginStep(w) \/ ProcessDeduct(w) \/ ProcessSelect(w)
             \/ RecordStep(w) \/ RollbackStep(w) \/ AdvanceStep(w)
      PROVE  ItemsMatchBatch' /\ ReservationKept'
  <2> DEFINE Counted(t) == t.at = "send" =>
                \A i \in t.held : BatchOf[i] = t.batch /\ (t.rows[i].status = "SUCCESS" => t.ok > 0)
  <2>1. ASSUME UNCHANGED <<batch, item, bridge>>, OthersKeep(w), Counted(txn'[w])
        PROVE  ItemsMatchBatch' /\ ReservationKept'
    <3>1. \A b \in Batches : TotalAmount(b, item)' = TotalAmount(b, item)
      BY <2>1 DEF TotalAmount, ItemsOf
    <3>2. ReservationKept'
      BY <2>1, <3>1, ConstantsAssumption DEF ReservationKept
    <3>3. \A v \in Workers : Counted(txn'[v])
      BY <2>1 DEF OthersKeep, ItemsMatchBatch
    <3>4. ItemsMatchBatch'
      BY <2>1, <3>3 DEF ItemsMatchBatch
    <3> QED
      BY <3>2, <3>4
  <2>2. CASE BeginStep(w)
    <3>1. UNCHANGED <<batch, item, bridge>> /\ OthersKeep(w) /\ txn'[w].at # "send"
      BY <2>2, BeginEffect
    <3> QED
      BY <2>1, <3>1
  <2>3. CASE ProcessDeduct(w)
    <3>1. UNCHANGED <<batch, item, bridge>> /\ OthersKeep(w) /\ txn'[w].at # "send"
      BY <2>3, DeductEffect
    <3> QED
      BY <2>1, <3>1
  <2>4. CASE ProcessSelect(w)
    <3>1. UNCHANGED <<batch, item, bridge>> /\ OthersKeep(w)
      BY <2>4, SelectEffect
    <3>2. /\ txn'[w].batch = txn[w].batch /\ txn'[w].held \in SUBSET Items
          /\ txn'[w].rows = Claim(txn'[w].held, "PROCESSING")
          /\ \A i \in txn'[w].held : BatchOf[i] = txn[w].batch
      BY <2>4, SelectEffect
    <3>3. \A i \in txn'[w].held : txn'[w].rows[i].status = "PROCESSING"
      BY <3>2, ClaimType DEF ItemStatus
    <3> QED
      BY <2>1, <3>1, <3>2, <3>3
  <2>5. CASE RecordStep(w)
    <3>1. UNCHANGED <<batch, item, bridge>> /\ OthersKeep(w)
      BY <2>5, RecordEffect DEF Committed
    <3>2. Counted(txn'[w])
      <4> SUFFICES ASSUME txn'[w].at = "send", NEW j \in txn'[w].held
                   PROVE  /\ BatchOf[j] = txn'[w].batch
                          /\ txn'[w].rows[j].status = "SUCCESS" => txn'[w].ok > 0
        OBVIOUS
      <4>1. /\ txn[w].at = "send" /\ txn'[w].batch = txn[w].batch /\ j \in txn[w].held
            /\ txn[w].held \subseteq Items
        BY <2>5, RecordEffect DEF TypeOK, Txn
      <4>2. PICK i \in Items :
               /\ \A k \in Items \ {i} : txn'[w].rows[k] = txn[w].rows[k]
               /\ txn'[w].rows[i].status = "SUCCESS" \/ txn[w].ok > 0 => txn'[w].ok > 0
        BY <2>5, RecordEffect
      <4> QED
        BY <4>1, <4>2 DEF ItemsMatchBatch
    <3> QED
      BY <2>1, <3>1, <3>2
  <2>6. CASE RollbackStep(w)
    <3>1. UNCHANGED <<batch, item, bridge>> /\ OthersKeep(w) /\ txn'[w].at = "idle"
      BY <1>0, <2>6, IdleHoldsNothing DEF RollbackStep, OthersKeep, Committed
    <3> QED
      BY <2>1, <3>1
  <2>7. CASE AdvanceStep(w)
    <3>1. UNCHANGED <<batch, item, bridge>> /\ OthersKeep(w) /\ txn'[w].at # "send"
      BY <2>7, AdvanceEffect
    <3> QED
      BY <2>1, <3>1
  <2> QED
    BY <1>3, <2>2, <2>3, <2>4, <2>5, <2>6, <2>7
<1>4. ASSUME NEW w \in Workers, CommitStep(w), Undisturbed, FailedItemsNotPaid
      PROVE  ItemsMatchBatch' /\ ReservationKept'
  <2>1. txn'[w].at = "idle" /\ OthersKeep(w)
    BY <1>0, <1>4, CommitEffect, IdleHoldsNothing DEF OthersKeep
  <2>2. ItemsMatchBatch'
    BY <1>4, <2>1, MatchCommit DEF ItemsMatchBatch, OthersKeep
  <2> QED
    BY <1>4, <2>2, MatchCommit
<1> QED
  BY <1>1, <1>2, <1>3, <1>4, StepKinds

\* What was paid is covered, batch by batch.
LEMMA PaymentsCovered ==
    ASSUME Inductive, RefundWithinReserve, ItemsMatchBatch, ReservationKept, WalletInstalled
    PROVE  DisbursedWithinReserve
<1> SUFFICES ASSUME NEW b \in Tenanted
             PROVE  GrossSum[{i \in ItemsOf(b, item) : item[i].status = "SUCCESS"}]
                       <= bridge[b].reserved - bridge[b].refunded
  BY DEF DisbursedWithinReserve
<1> DEFINE S == {i \in ItemsOf(b, item) : item[i].status = "SUCCESS"}
<1>1. /\ b \in Batches /\ batch[b] \in BatchRow /\ batch[b].status # "PROCESSING"
      /\ bridge[b].reserved \in Nat /\ bridge[b].refunded \in Nat
      /\ bridge[b].refunded <= bridge[b].reserved
  BY ConstantsAssumption
     DEF Inductive, TypeOK, BridgeRow, NeverVisiblyProcessing, RefundWithinReserve
<1>2. S \subseteq ItemsOf(b, item) /\ ItemsOf(b, item) \subseteq Items
  BY DEF ItemsOf
<1>3. CASE batch[b].status \in {"COMPLETED", "PARTIALLY_COMPLETED"}
  <2>1. GrossSum[S] <= TotalAmount(b, item)
    BY <1>2, GrossGrows DEF TotalAmount
  <2> QED
    BY <1>3, <2>1 DEF ReservationKept
<1>4. CASE batch[b].status \in Unstarted \cup {"FAILED"}
  <2>1. S = {}
    BY <1>4 DEF ItemsMatchBatch, ItemsOf
  <2>2. GrossSum[S] = 0
    BY <2>1, GrossSumAssumption
  <2> QED
    BY <1>1, <2>2
<1> QED
  BY <1>1, <1>3, <1>4 DEF BatchRow, BatchStatus, Unstarted

\* Where the wallet's models are installed, a batch pays more than its reservation
\* covers only after one of four things: a FAILED batch is opened again, a refresh
\* overwrites a total with an older sum, a PUT or PATCH saves an older row, or
\* retry_failed_items pays an item of a FAILED batch, which was refunded.
\* Crashes, lost answers, failed refunds and all other interleavings are harmless.
THEOREM PaymentsWithinReserve ==
    Spec /\ [][Undisturbed]_vars /\ [][FailedItemsNotPaid]_vars
    => [](WalletInstalled => DisbursedWithinReserve)
<1> DEFINE Kept == Charged /\ Covered /\ ItemsMatchBatch /\ ReservationKept
<1>1. Init => Kept
  <2> SUFFICES ASSUME Init PROVE ItemsMatchBatch /\ ReservationKept
    BY InitCovered
  <2> QED
    BY IdleHoldsNothing, ConstantsAssumption DEF Init, ItemsMatchBatch, ReservationKept, NoItem, NoRow
<1>2. Inductive /\ Kept /\ [Next]_vars /\ [Undisturbed]_vars /\ [FailedItemsNotPaid]_vars => Kept'
  BY ChargedStep, TotalsStep, FundsStep, MatchStep DEF Covered
<1>3. Inductive /\ Kept => (WalletInstalled => DisbursedWithinReserve)
  BY PaymentsCovered DEF Covered
<1> HIDE DEF Kept
<1> QED
  BY InductiveInvariance, <1>1, <1>2, <1>3, PTL DEF Spec

=============================================================================
