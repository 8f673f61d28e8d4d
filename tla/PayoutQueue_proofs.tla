------------------------- MODULE PayoutQueue_proofs -------------------------
(***************************************************************************)
(* Theorems about PayoutQueue, for every number of batches, items and      *)
(* sessions, every wallet balance and every set of gateway answers.        *)
(*                                                                         *)
(* Inductive is the invariant that a step preserves.  It joins the safety  *)
(* properties with what they need to be inductive: the shape of an open    *)
(* transaction (TxnShape), what it is about to write (Prepared), and what  *)
(* its row locks keep true of the committed rows (LockedRowsKept).         *)
(***************************************************************************)
EXTENDS PayoutQueue, TLAPS

Sends == {"send", "retry"}

\* Only a transaction at the right statement has items, and a batch if needed.
TxnShape ==
    \A w \in Workers :
        /\ txn[w].todo \subseteq txn[w].held
        /\ txn[w].at \notin Sends => txn[w].todo = {}
        /\ txn[w].at \notin Sends \cup {"edit"} => txn[w].held = {}
        /\ txn[w].at = "edit" => \E i \in Items : txn[w].held = {i}
        /\ txn[w].at \in {"deduct", "select", "send", "refund", "refresh", "update", "save"}
              => txn[w].batch \in Batches
        /\ txn[w].at \notin {"select", "send"} => txn[w].reserve = 0

\* What a transaction is about to commit.
Prepared ==
    \A w \in Workers :
        /\ txn[w].at = "refund" => txn[w].row.status = "CANCELLED" /\ ~txn[w].row.locked
        /\ txn[w].at \in {"update", "save"} =>
              txn[w].row.status # "PROCESSING" /\ ~txn[w].row.locked
        /\ \A i \in Items : txn[w].rows[i].retry <= MaxRetryAttempts
        /\ txn[w].at \in Sends => \A i \in txn[w].held \ txn[w].todo :
              txn[w].rows[i].status \in {"SUCCESS", "RETRYING"}
        /\ txn[w].at = "edit" => \A i \in txn[w].held :
              txn[w].rows[i].status \in {"CANCELLED", "SKIPPED"}

\* What nobody else can change while a transaction holds its rows.
LockedRowsKept ==
    \A w \in Workers :
        /\ txn[w].at \in {"deduct", "select", "send"}
              => batch[txn[w].batch].status = "PENDING"
        /\ txn[w].at = "refund" => batch[txn[w].batch].status \in {"PENDING", "ON_HOLD"}
        /\ \A i \in txn[w].held : item[i].status \notin {"ABSENT", "SUCCESS"}
        /\ txn[w].at \in Sends => \A i \in txn[w].held :
              item[i].status = IF txn[w].at = "send" THEN "QUEUED" ELSE "RETRYING"

\* Only a request that was sent can be paid late.
LateWasAsked == \A i \in Items : gateway[i].late > 0 => gateway[i].sends > 0

Inductive ==
    /\ TypeOK
    /\ TxnShape
    /\ Prepared
    /\ LockedRowsKept
    /\ RowLocksExclusive
    /\ NeverVisiblyProcessing
    /\ FailedIsNeverRecorded
    /\ SuccessImpliesPaid
    /\ WalletNeverStale
    /\ LateWasAsked

-----------------------------------------------------------------------------
(* Operators *)

\* A new status keeps a batch row a batch row.
LEMMA TransitionToType ==
    ASSUME NEW row \in BatchRow, NEW s \in BatchStatus
    PROVE  /\ TransitionTo(row, s) \in BatchRow
           /\ TransitionTo(row, s).status = s
           /\ TransitionTo(row, s).total = row.total
           /\ TransitionTo(row, s).locked => row.locked
           /\ s \in Finished => ~TransitionTo(row, s).locked
           /\ TransitionTo(row, s).started <=> (row.started \/ s = "PROCESSING")
BY DEF TransitionTo, BatchRow, BatchStatus, Finished

\* A run that ends gives its batch an outcome, whatever it counted.
LEMMA FinalStatusType ==
    ASSUME NEW ok \in Nat, NEW bad \in Nat
    PROVE  FinalStatus(ok, bad) \in Finished
<1>1. CASE bad = 0
  BY <1>1 DEF FinalStatus, Finished
<1>2. CASE bad > 0 /\ ok = 0
  BY <1>2 DEF FinalStatus, Finished
<1>3. CASE bad > 0 /\ ok > 0
  BY <1>3 DEF FinalStatus, Finished
<1> QED
  BY <1>1, <1>2, <1>3

\* Only these transitions lead to the states that a session asks for.
LEMMA TransitionSources ==
    ASSUME NEW s
    PROVE  /\ CanTransition(s, "PROCESSING") => s = "PENDING"
           /\ CanTransition(s, "CANCELLED") => s \in {"PENDING", "ON_HOLD"}
           /\ CanTransition(s, "ON_HOLD") => s \in {"PENDING", "PROCESSING"}
           /\ CanTransition(s, "PENDING") => s \in {"ON_HOLD", "FAILED"}
BY DEF CanTransition, ValidTransitions, BatchStatus

\* The total of a batch, and what is due to its wallet, are amounts.
LEMMA AmountsType ==
    ASSUME NEW b, NEW rows, NEW status, NEW total \in Nat
    PROVE  /\ TotalAmount(b, rows) \in Nat
           /\ RefundDue(b, status, total, rows) \in Nat
BY GrossSumAssumption DEF TotalAmount, RefundDue, ItemsOf

\* What a session sees of the items are item rows.
LEMMA ItemsSeenType ==
    ASSUME TypeOK, NEW w \in Workers
    PROVE  ItemsSeenBy(w) \in [Items -> ItemRow]
BY DEF TypeOK, ItemsSeenBy, Txn

\* Claimed items are item rows, with the retry count they had.
LEMMA ClaimType ==
    ASSUME TypeOK, NEW S \in SUBSET Items, NEW s \in ItemStatus
    PROVE  /\ Claim(S, s) \in [Items -> ItemRow]
           /\ \A i \in Items : Claim(S, s)[i].retry <= MaxRetryAttempts
           /\ \A i \in S : Claim(S, s)[i].status = s
BY ConstantsAssumption DEF TypeOK, Claim, ItemRow, NoItem, ItemStatus

\* A closed transaction is a transaction.
LEMMA IdleType == Idle \in Txn
<1>1. NoRow \in BatchRow
  BY DEF NoRow, BatchRow
<1>2. [i \in Items |-> NoItem] \in [Items -> ItemRow]
  BY DEF NoItem, ItemRow
<1> QED
  BY <1>1, <1>2 DEF Idle, Txn, Points

-----------------------------------------------------------------------------
(* Steps: the gateway call of an open transaction has three effects *)

\* The gateway was asked once more to pay i, and paid it once more or did not.
Asked(i) ==
    \E g \in GatewayRow :
        /\ g.sends > 0 /\ g.sends = gateway[i].sends + 1
        /\ g.paid >= gateway[i].paid /\ g.paid <= gateway[i].paid + 1
        /\ gateway' = [gateway EXCEPT ![i] = g]

\* w recorded the outcome of its call for i: a payment if it is a SUCCESS, one
\* more attempt if it is not.
Outcome(w, i, row, ok, bad) ==
    /\ txn[w].at \in Sends
    /\ i \in txn[w].todo
    /\ row.retry <= MaxRetryAttempts
    /\ row.status \in {"SUCCESS", "RETRYING"}
    /\ row.status = "SUCCESS" => row.ref /\ gateway'[i].paid > 0
    /\ row.status = "SUCCESS" => row.retry = txn[w].rows[i].retry
    /\ row.status = "RETRYING" => row.retry > 0 /\ row.retry = txn[w].rows[i].retry + 1
    /\ row.status = "SUCCESS" \/ txn[w].ok > 0 => ok > 0
    /\ txn' = [txn EXCEPT ![w].todo    = @ \ {i},
                          ![w].rows[i] = row,
                          ![w].ok      = ok,
                          ![w].bad     = bad]

Recorded(w, i) ==
    \E row \in ItemRow, ok \in Nat, bad \in Nat : Outcome(w, i, row, ok, bad)

Committed == <<batch, item, balance, bridge, overwritten>>

\* What Disburse makes of a gateway row.
LEMMA DisburseType ==
    ASSUME NEW g \in GatewayRow
    PROVE  /\ Disburse(g) \in GatewayRow
           /\ Disburse(g).sends = g.sends
           /\ Disburse(g).late = g.late
           /\ Disburse(g).paid >= g.paid /\ Disburse(g).paid <= g.paid + 1
           /\ Disburse(g).paid > 0
BY DEF Disburse, GatewayRow

\* What one more request makes of a gateway row.
LEMMA SentType ==
    ASSUME TypeOK, NEW i \in Items
    PROVE  /\ Sent(i) \in GatewayRow
           /\ Sent(i).sends > 0 /\ Sent(i).sends = gateway[i].sends + 1
           /\ Sent(i).paid = gateway[i].paid /\ gateway[i].paid \in Nat
BY DEF TypeOK, Sent, GatewayRow

\* A failed attempt leaves an item RETRYING, or cannot be stored.
LEMMA MarkFailedType ==
    ASSUME NEW row \in ItemRow
    PROVE  /\ MarkFailed(row) \in ItemRow
           /\ Storable(MarkFailed(row)) => MarkFailed(row).status = "RETRYING"
           /\ MarkFailed(row).retry > 0 /\ MarkFailed(row).retry = row.retry + 1
<1> DEFINE s == IF row.retry + 1 <= MaxRetryAttempts THEN "RETRYING" ELSE "FAILED"
           n == row.retry + 1
<1>1. MarkFailed(row) = [row EXCEPT !.status = s, !.retry = n]
  BY DEF MarkFailed
<1>2. s \in {"RETRYING", "FAILED"} /\ n \in Nat /\ n > 0
  BY DEF ItemRow
<1> HIDE DEF s, n
<1> QED
  <2>1. MarkFailed(row) \in ItemRow
    BY <1>1, <1>2 DEF ItemRow, ItemStatus
  <2>2. MarkFailed(row).status = s /\ MarkFailed(row).retry = n
    BY <1>1 DEF ItemRow
  <2> QED
    BY <1>2, <2>1, <2>2 DEF Storable, s, n

\* A refused or unanswered call is recorded, or rolls everything back.
LEMMA FailureEffect ==
    ASSUME TypeOK, NEW w \in Workers, NEW i \in Items, txn[w].at \in Sends,
           i \in txn[w].todo, RecordFailure(w, i)
    PROVE  /\ UNCHANGED Committed
           /\ \/ \E row \in ItemRow, ok \in Nat, bad \in Nat :
                    Outcome(w, i, row, ok, bad) /\ row.status = "RETRYING"
              \/ txn' = [txn EXCEPT ![w] = Idle]
<1> DEFINE row == MarkFailed(txn[w].rows[i])
<1>1. txn[w] \in Txn /\ txn[w].rows[i] \in ItemRow /\ txn[w].bad \in Nat /\ txn[w].ok \in Nat
  BY DEF TypeOK, Txn
<1>2. /\ row \in ItemRow /\ (Storable(row) => row.status = "RETRYING") /\ row.retry > 0
      /\ row.retry = txn[w].rows[i].retry + 1
  BY <1>1, MarkFailedType
<1>3. CASE Storable(row)
  <2>1. /\ UNCHANGED Committed
        /\ txn' = [txn EXCEPT ![w].todo    = @ \ {i},
                              ![w].rows[i] = row,
                              ![w].bad     = @ + 1]
    BY <1>3 DEF RecordFailure, Committed
  <2>2. txn' = [txn EXCEPT ![w].todo    = @ \ {i},
                           ![w].rows[i] = row,
                           ![w].ok      = txn[w].ok,
                           ![w].bad     = txn[w].bad + 1]
    BY <2>1, <1>1 DEF TypeOK, Txn
  <2>3. row.retry <= MaxRetryAttempts /\ row.status = "RETRYING"
    BY <1>2, <1>3 DEF Storable
  <2> HIDE DEF row
  <2>4. txn[w].bad + 1 \in Nat
    BY <1>1
  <2>5. Outcome(w, i, row, txn[w].ok, txn[w].bad + 1)
    BY <1>2, <2>2, <2>3 DEF Outcome
  <2> QED
    BY <1>1, <1>2, <2>1, <2>3, <2>4, <2>5
<1>4. CASE ~Storable(row)
  BY <1>4 DEF RecordFailure, Rollback, Committed
<1> QED
  BY <1>3, <1>4

\* Every answer, and no answer, has one of three effects on its session.
LEMMA SendEffect ==
    ASSUME TypeOK, Prepared, TxnShape, NEW w \in Workers, NEW i \in Items, Send(w, i)
    PROVE  /\ UNCHANGED Committed
           /\ Asked(i)
           /\ i \in txn[w].todo
           /\ Recorded(w, i) \/ txn' = [txn EXCEPT ![w] = Idle]
<1>0. gateway \in [Items -> GatewayRow] /\ txn \in [Workers -> Txn]
  BY DEF TypeOK
<1>1. /\ Disburse(Sent(i)) \in GatewayRow
      /\ Disburse(Sent(i)).sends > 0 /\ Disburse(Sent(i)).sends = gateway[i].sends + 1
      /\ Disburse(Sent(i)).paid > 0
      /\ Disburse(Sent(i)).paid >= gateway[i].paid /\ Disburse(Sent(i)).paid <= gateway[i].paid + 1
  <2> DEFINE s == Sent(i)  d == Disburse(s)
  <2>1. /\ s \in GatewayRow /\ s.sends > 0 /\ s.paid = gateway[i].paid
        /\ s.sends = gateway[i].sends + 1
    BY SentType
  <2>2. d \in GatewayRow /\ d.sends = s.sends /\ d.paid >= s.paid /\ d.paid <= s.paid + 1 /\ d.paid > 0
    BY <2>1, DisburseType
  <2> HIDE DEF s, d
  <2> QED
    BY <2>1, <2>2 DEF s, d
<1>0a. gateway' = [gateway EXCEPT ![i] = Sent(i)] => Asked(i)
  <2>1. /\ Sent(i) \in GatewayRow /\ Sent(i).sends > 0 /\ Sent(i).sends = gateway[i].sends + 1
        /\ Sent(i).paid >= gateway[i].paid /\ Sent(i).paid <= gateway[i].paid + 1
    BY SentType
  <2> QED
    BY <2>1 DEF Asked
<1>2. ASSUME SendSuccess(w, i)
      PROVE  UNCHANGED Committed /\ Asked(i) /\ i \in txn[w].todo /\ Recorded(w, i)
  <2> DEFINE row == MarkSuccess(txn[w].rows[i])
  <2>1. txn[w] \in Txn /\ txn[w].rows[i] \in ItemRow /\ txn[w].bad \in Nat /\ txn[w].ok \in Nat
    BY <1>0 DEF Txn
  <2>2. /\ row \in ItemRow /\ row.status = "SUCCESS" /\ row.ref
        /\ row.retry = txn[w].rows[i].retry
    BY <2>1 DEF MarkSuccess, ItemRow, ItemStatus
  <2>3. /\ gateway' = [gateway EXCEPT ![i] = Disburse(Sent(i))]
        /\ txn' = [txn EXCEPT ![w].todo    = @ \ {i},
                              ![w].rows[i] = row,
                              ![w].ok      = @ + 1]
        /\ txn[w].at \in Sends /\ i \in txn[w].todo
        /\ UNCHANGED Committed
    BY <1>2 DEF SendSuccess, Sending, Committed, Sends
  <2>4. txn' = [txn EXCEPT ![w].todo    = @ \ {i},
                           ![w].rows[i] = row,
                           ![w].ok      = txn[w].ok + 1,
                           ![w].bad     = txn[w].bad]
    BY <2>1, <2>3, <1>0 DEF Txn
  <2>5. Asked(i) /\ gateway'[i].paid > 0
    BY <2>3, <1>0, <1>1 DEF Asked
  <2>6. row.retry <= MaxRetryAttempts
    BY <2>2 DEF Prepared
  <2> HIDE DEF row
  <2>7. txn[w].ok + 1 \in Nat /\ txn[w].ok + 1 > 0
    BY <2>1
  <2> QED
    <3>1. Outcome(w, i, row, txn[w].ok + 1, txn[w].bad)
      BY <2>2, <2>3, <2>4, <2>5, <2>6, <2>7 DEF Outcome
    <3> QED
      BY <2>1, <2>2, <2>3, <2>5, <2>7, <3>1 DEF Recorded
<1>3. ASSUME SendNoReference(w, i)
      PROVE  Asked(i) /\ Sending(w, i, "noref") /\ RecordFailure(w, i)
  BY <1>3, <1>1 DEF SendNoReference, Asked
<1>4. ASSUME SendError(w, i)
      PROVE  Asked(i) /\ Sending(w, i, "error") /\ RecordFailure(w, i)
  BY <1>0a, <1>4 DEF SendError
<1>5. ASSUME SendTimeout(w, i)
      PROVE  Asked(i) /\ Sending(w, i, "timeout") /\ RecordFailure(w, i)
  <2> DEFINE g == [Sent(i) EXCEPT !.late = @ + 1]
  <2>1. /\ g \in GatewayRow /\ g.sends > 0 /\ g.sends = gateway[i].sends + 1
        /\ g.paid >= gateway[i].paid /\ g.paid <= gateway[i].paid + 1
    BY SentType DEF GatewayRow
  <2>2. gateway' = [gateway EXCEPT ![i] = g]
    BY <1>5 DEF SendTimeout
  <2> QED
    BY <1>5, <2>1, <2>2 DEF SendTimeout, Asked
<1>6. ASSUME SendInsufficient(w, i)
      PROVE  /\ Asked(i) /\ Sending(w, i, "insufficient")
             /\ Rollback(w) \/ RecordFailure(w, i)
  BY <1>0a, <1>6 DEF SendInsufficient
<1>7. Rollback(w) => UNCHANGED Committed /\ txn' = [txn EXCEPT ![w] = Idle]
  BY DEF Rollback, Committed
<1>8. \A r : Sending(w, i, r) => txn[w].at \in Sends /\ i \in txn[w].todo
  BY DEF Sending, Sends
<1>9. ASSUME RecordFailure(w, i), txn[w].at \in Sends, i \in txn[w].todo
      PROVE  UNCHANGED Committed /\ (Recorded(w, i) \/ txn' = [txn EXCEPT ![w] = Idle])
  BY <1>9, FailureEffect DEF Recorded
<1> QED
  BY <1>2, <1>3, <1>4, <1>5, <1>6, <1>7, <1>8, <1>9 DEF Send

-----------------------------------------------------------------------------
(* The kinds of steps *)

\* A request that changes committed batch rows at once.
BatchStep ==
    \E b \in Batches :
        \/ CreateBatch(b) \/ Hold(b) \/ Resume(b) \/ ReleaseLock(b)
        \/ \E S \in SUBSET Items : AddItems(b, S)

\* A session opens a transaction.
BeginStep(w) ==
    \/ \E b \in Batches :
          CancelBegin(w, b) \/ RefreshRead(w, b) \/ UpdateLoad(w, b) \/ ProcessBegin(w, b)
    \/ \E i \in Items, s \in {"CANCELLED", "SKIPPED"} : EditBegin(w, i, s)
    \/ \E S \in SUBSET Items : RetryBegin(w, S)

CommitStep(w) ==
    \/ ProcessCommit(w) \/ ItemsCommit(w) \/ CancelCommit(w) \/ RefreshWrite(w) \/ UpdateSave(w)

\* A transaction goes on to its next statement, and nothing else happens.
AdvanceStep(w) ==
    /\ UNCHANGED <<Committed, gateway>>
    /\ \/ /\ txn[w].at = "deduct" /\ ~WalletInstalled
          /\ txn' = [txn EXCEPT ![w].at = "select"]
       \/ /\ txn[w].at = "update"
          /\ txn' = [txn EXCEPT ![w].at = "save"]

RecordStep(w) == UNCHANGED Committed /\ \E i \in Items : Asked(i) /\ Recorded(w, i)

\* A transaction ends with nothing written, though the gateway may have paid.
RollbackStep(w) ==
    /\ UNCHANGED Committed
    /\ txn' = [txn EXCEPT ![w] = Idle]
    /\ UNCHANGED gateway \/ \E i \in Items : i \in txn[w].todo /\ Asked(i)

\* A batch is processed unreserved, or clean() has looked at the copy of a row.
LEMMA AdvanceOrRollback ==
    ASSUME TypeOK, NEW w \in Workers, ProcessUnreserved(w) \/ UpdateClean(w)
    PROVE  AdvanceStep(w) \/ RollbackStep(w)
<1>1. ProcessUnreserved(w) => AdvanceStep(w)
  BY DEF ProcessUnreserved, AdvanceStep, Committed
<1>2. ASSUME UpdateClean(w)
      PROVE  AdvanceStep(w) \/ RollbackStep(w)
  <2>1. /\ txn[w].at = "update" /\ UNCHANGED <<Committed, gateway>>
        /\ \/ txn' = [txn EXCEPT ![w] = Idle]
           \/ txn' = [txn EXCEPT ![w] = [txn[w] EXCEPT !.at = "save"]]
    BY <1>2 DEF UpdateClean, Committed, TypeOK
  <2>2. [txn EXCEPT ![w] = [txn[w] EXCEPT !.at = "save"]] = [txn EXCEPT ![w].at = "save"]
    BY DEF TypeOK
  <2> QED
    BY <2>1, <2>2 DEF AdvanceStep, RollbackStep
<1> QED
  BY <1>1, <1>2

\* Every step is of one of these kinds.
LEMMA StepKinds ==
    ASSUME TypeOK, Prepared, TxnShape, [Next]_vars
    PROVE  \/ UNCHANGED vars
           \/ BatchStep
           \/ \E i \in Items : LatePay(i)
           \/ \E w \in Workers :
                 \/ BeginStep(w) \/ ProcessDeduct(w) \/ ProcessSelect(w)
                 \/ CommitStep(w) \/ RecordStep(w) \/ RollbackStep(w) \/ AdvanceStep(w)
<1>1. ASSUME Admin
      PROVE  BatchStep \/ \E w \in Workers : BeginStep(w)
  BY <1>1 DEF Admin, BatchStep, BeginStep
<1>2. ASSUME NEW w \in Workers, Step(w)
      PROVE  \/ ProcessDeduct(w) \/ ProcessSelect(w)
             \/ CommitStep(w) \/ RecordStep(w) \/ RollbackStep(w) \/ AdvanceStep(w)
  <2>1. ProcessDeductFails(w) => RollbackStep(w)
    BY DEF ProcessDeductFails, Rollback, RollbackStep, Committed
  <2>2. ASSUME NEW i \in Items, Send(w, i)
        PROVE  RecordStep(w) \/ RollbackStep(w)
    BY <2>2, SendEffect DEF RecordStep, RollbackStep
  <2> QED
    BY <1>2, <2>1, <2>2, AdvanceOrRollback DEF Step, CommitStep
<1>3. ASSUME NEW w \in Workers, Abort(w)
      PROVE  RollbackStep(w)
  BY <1>3 DEF Abort, Rollback, RollbackStep, Committed
<1>4. ASSUME NEW w \in Workers,
             (\E b \in Batches : ProcessBegin(w, b)) \/ (\E S \in SUBSET Items : RetryBegin(w, S))
      PROVE  BeginStep(w)
  BY <1>4 DEF BeginStep
<1> QED
  BY <1>1, <1>2, <1>3, <1>4 DEF Next

-----------------------------------------------------------------------------
(* Types *)

\* A step keeps every row, overlay and gateway entry of its type.
LEMMA TypeStep ==
    ASSUME TypeOK, Prepared, TxnShape, [Next]_vars
    PROVE  TypeOK'
<1> USE ConstantsAssumption
<1>1. CASE UNCHANGED vars
  BY <1>1 DEF TypeOK, vars
<1>2. CASE BatchStep
  <2> PICK b \in Batches : \/ CreateBatch(b) \/ Hold(b) \/ Resume(b) \/ ReleaseLock(b)
                           \/ \E S \in SUBSET Items : AddItems(b, S)
    BY <1>2 DEF BatchStep
  <2>1. CASE CreateBatch(b) \/ ReleaseLock(b)
    <3>1. PICK row \in {[batch[b] EXCEPT !.status = "PENDING"], [batch[b] EXCEPT !.locked = FALSE]} :
            batch' = [batch EXCEPT ![b] = row]
      BY <2>1 DEF CreateBatch, ReleaseLock, TypeOK
    <3>2. row \in BatchRow
      BY DEF TypeOK, BatchRow, BatchStatus
    <3> QED
      BY <2>1, <3>1, <3>2 DEF TypeOK, CreateBatch, ReleaseLock
  <2>2. CASE Hold(b) \/ Resume(b)
    <3>1. PICK s \in {"ON_HOLD", "PENDING"} : DoTransition(b, s)
      BY <2>2 DEF Hold, Resume
    <3>2. TransitionTo(batch[b], s) \in BatchRow
      BY TransitionToType DEF TypeOK, BatchStatus
    <3> QED
      BY <3>1, <3>2 DEF TypeOK, DoTransition
  <2>3. ASSUME NEW S \in SUBSET Items, AddItems(b, S)
        PROVE  TypeOK'
    <3>1. item' \in [Items -> ItemRow] /\ \A i \in Items : item'[i].retry <= MaxRetryAttempts
      <4> DEFINE new == [NoItem EXCEPT !.status = "QUEUED"]
      <4>1. new \in ItemRow /\ new.retry = 0
        BY DEF NoItem, ItemRow, ItemStatus
      <4>2. item' = [i \in Items |-> IF i \in S THEN new ELSE item[i]]
        BY <2>3 DEF AddItems
      <4> HIDE DEF new
      <4> QED
        BY <4>1, <4>2 DEF TypeOK
    <3>2. TotalAmount(b, item') \in Nat
      BY AmountsType
    <3>3. batch' \in [Batches -> BatchRow]
      <4>1. [batch[b] EXCEPT !.total = TotalAmount(b, item')] \in BatchRow
        BY <3>2 DEF TypeOK, BatchRow
      <4> QED
        BY <2>3, <4>1 DEF TypeOK, AddItems
    <3> QED
      BY <2>3, <3>1, <3>3 DEF TypeOK, AddItems
  <2> QED
    BY <2>1, <2>2, <2>3
<1>3. ASSUME NEW i \in Items, LatePay(i)
      PROVE  TypeOK'
  <2>1. Answered(i) \in GatewayRow
    BY <1>3 DEF TypeOK, LatePay, Answered, GatewayRow
  <2>2. gateway' = [gateway EXCEPT ![i] = Disburse(Answered(i))]
    BY <1>3 DEF LatePay
  <2>3. gateway' \in [Items -> GatewayRow]
    BY <2>1, <2>2, DisburseType DEF TypeOK
  <2> QED
    BY <1>3, <2>3 DEF TypeOK, LatePay
<1>4. ASSUME NEW w \in Workers, BeginStep(w)
      PROVE  TypeOK'
  <2>1. UNCHANGED <<batch, item, balance, bridge, overwritten, gateway>>
    BY <1>4 DEF BeginStep, CancelBegin, RefreshRead, UpdateLoad, ProcessBegin, EditBegin, RetryBegin
  <2>2. ASSUME NEW t \in Txn, txn' = [txn EXCEPT ![w] = t]
        PROVE  TypeOK'
    BY <2>1, <2>2 DEF TypeOK
  <2>3. ASSUME NEW b \in Batches, CancelBegin(w, b)
        PROVE  TypeOK'
    <3>1. TransitionTo(batch[b], "CANCELLED") \in BatchRow
      BY TransitionToType DEF TypeOK, BatchStatus, BatchRow
    <3> QED
      BY <2>2, <2>3, <3>1, IdleType DEF CancelBegin, Txn, Points
  <2>4. ASSUME NEW b \in Batches, RefreshRead(w, b)
        PROVE  TypeOK'
    <3>1. TotalAmount(b, item) \in Nat
      BY AmountsType
    <3> QED
      BY <2>2, <2>4, <3>1, IdleType DEF RefreshRead, Txn, Points, BatchRow
  <2>4a. ASSUME NEW b \in Batches, UpdateLoad(w, b)
         PROVE  TypeOK'
    <3>1. batch[b] \in BatchRow
      BY DEF TypeOK
    <3> QED
      BY <2>2, <2>4a, <3>1, IdleType DEF UpdateLoad, Txn, Points
  <2>5. ASSUME NEW b \in Batches, ProcessBegin(w, b)
        PROVE  TypeOK'
    <3>1. AcquireLock(batch[b]) \in BatchRow
      BY DEF TypeOK, AcquireLock, BatchRow
    <3>2. TransitionTo(AcquireLock(batch[b]), "PROCESSING") \in BatchRow
      BY <3>1, TransitionToType DEF BatchStatus
    <3> QED
      BY <2>2, <2>5, <3>2, IdleType DEF ProcessBegin, Txn, Points
  <2>6. ASSUME NEW i \in Items, NEW s \in {"CANCELLED", "SKIPPED"}, EditBegin(w, i, s)
        PROVE  TypeOK'
    <3>1. Claim({i}, s) \in [Items -> ItemRow]
      BY ClaimType DEF ItemStatus
    <3> QED
      BY <2>2, <2>6, <3>1, IdleType DEF EditBegin, Txn, Points
  <2>7. ASSUME NEW S \in SUBSET Items, RetryBegin(w, S)
        PROVE  TypeOK'
    <3>1. Claim(S, "PROCESSING") \in [Items -> ItemRow]
      BY ClaimType DEF ItemStatus
    <3> QED
      BY <2>2, <2>7, <3>1, IdleType DEF RetryBegin, Txn, Points
  <2> QED
    BY <1>4, <2>3, <2>4, <2>4a, <2>5, <2>6, <2>7 DEF BeginStep
<1>5. ASSUME NEW w \in Workers, ProcessDeduct(w)
      PROVE  TypeOK'
  <2> DEFINE t == [txn[w] EXCEPT !.at      = "select",
                                 !.reserve = txn[w].row.total,
                                 !.purse   = balance - txn[w].row.total]
  <2>1. txn[w].row.total \in Nat /\ balance - txn[w].row.total \in Int
    BY DEF TypeOK, Txn, BatchRow
  <2>2. t \in Txn
    <3> DEFINE total == txn[w].row.total
               purse == balance - total
    <3>1. txn[w] \in Txn /\ total \in Nat /\ purse \in Int
      BY <2>1 DEF TypeOK
    <3> HIDE DEF total, purse
    <3>2. [txn[w] EXCEPT !.at = "select", !.reserve = total, !.purse = purse] \in Txn
      BY <3>1 DEF Txn, Points
    <3> QED
      BY <3>2 DEF total, purse
  <2>3. txn' = [txn EXCEPT ![w] = t]
    BY <1>5 DEF ProcessDeduct, TypeOK
  <2> HIDE DEF t
  <2>4. txn' \in [Workers -> Txn]
    BY <2>2, <2>3 DEF TypeOK
  <2> QED
    BY <1>5, <2>4 DEF TypeOK, ProcessDeduct
<1>6. ASSUME NEW w \in Workers, ProcessSelect(w)
      PROVE  TypeOK'
  <2> DEFINE S == {i \in Available("QUEUED") : BatchOf[i] = txn[w].batch}
  <2>1. S \in SUBSET Items
    BY DEF Available
  <2>2. Claim(S, "PROCESSING") \in [Items -> ItemRow]
    BY <2>1, ClaimType DEF ItemStatus
  <2> DEFINE rows == Claim(S, "PROCESSING")
             t == [txn[w] EXCEPT !.at   = "send", !.todo = S, !.held = S,
                                 !.rows = rows]
  <2>3. t \in Txn
    <3>1. txn[w] \in Txn
      BY DEF TypeOK
    <3>2. rows \in [Items -> ItemRow]
      BY <2>2
    <3> HIDE DEF S, rows
    <3> QED
      BY <2>1, <3>1, <3>2 DEF Txn, Points
  <2>4. txn' = [txn EXCEPT ![w] = t]
    BY <1>6 DEF ProcessSelect, TypeOK
  <2> HIDE DEF t
  <2>5. txn' \in [Workers -> Txn]
    BY <2>3, <2>4 DEF TypeOK
  <2> QED
    BY <1>6, <2>5 DEF TypeOK, ProcessSelect
<1>7. ASSUME NEW w \in Workers, CommitStep(w)
      PROVE  TypeOK'
  <2>1. txn[w] \in Txn
    BY DEF TypeOK
  <2>2. \A i \in Items : ItemsSeenBy(w)[i].retry <= MaxRetryAttempts
    BY DEF TypeOK, Prepared, ItemsSeenBy
  <2>3. ItemsSeenBy(w) \in [Items -> ItemRow]
    BY ItemsSeenType
  <2>4. CASE ProcessCommit(w)
    <3> DEFINE b == txn[w].batch
               total == TotalAmount(b, ItemsSeenBy(w))
               status == FinalStatus(txn[w].ok, txn[w].bad)
    <3>1. b \in Batches
      BY <2>4 DEF ProcessCommit, TxnShape
    <3>0. PICK refund \in Refunds(RefundDue(b, status, total, ItemsSeenBy(w))) :
             /\ balance' = (IF HoldsWallet(w) THEN txn[w].purse ELSE balance) + refund
             /\ bridge'  = [bridge EXCEPT ![b] = [reserved |-> @.reserved + txn[w].reserve,
                                                  refunded |-> @.refunded + refund]]
      BY <2>4 DEF ProcessCommit
    <3>2. total \in Nat /\ refund \in Nat
      BY AmountsType DEF Refunds
    <3>3. status \in BatchStatus
      BY <2>1, FinalStatusType DEF Txn, Finished, BatchStatus
    <3>4. TransitionTo(txn[w].row, status) \in BatchRow
      BY <2>1, <3>3, TransitionToType DEF Txn
    <3>5. bridge[b].reserved + txn[w].reserve \in Nat /\ bridge[b].refunded + refund \in Nat
      BY <2>1, <3>1, <3>2 DEF TypeOK, Txn, BridgeRow
    <3>6. /\ batch'   = [batch EXCEPT ![b] = [TransitionTo(txn[w].row, status) EXCEPT !.total = total]]
          /\ item'    = ItemsSeenBy(w)
          /\ balance' = (IF HoldsWallet(w) THEN txn[w].purse ELSE balance) + refund
          /\ bridge'  = [bridge EXCEPT ![b] = [reserved |-> bridge[b].reserved + txn[w].reserve,
                                               refunded |-> bridge[b].refunded + refund]]
          /\ txn'     = [txn EXCEPT ![w] = Idle]
          /\ gateway' = gateway
      BY <2>4, <3>0, <3>1 DEF ProcessCommit, TypeOK
    <3>6a. overwritten' = overwritten
      BY <2>4 DEF ProcessCommit
    <3> HIDE DEF b, total, status
    <3>7. batch' \in [Batches -> BatchRow]
      BY <3>2, <3>4, <3>6 DEF TypeOK, BatchRow
    <3>8. bridge' \in [Batches -> BridgeRow]
      BY <3>5, <3>6 DEF TypeOK, BridgeRow
    <3>9. balance' \in Int
      BY <2>1, <3>2, <3>6 DEF TypeOK, Txn
    <3> QED
      BY <2>2, <2>3, <3>6, <3>6a, <3>7, <3>8, <3>9, IdleType DEF TypeOK
  <2>5. CASE ItemsCommit(w)
    BY <2>2, <2>3, <2>5, IdleType DEF TypeOK, ItemsCommit
  <2>6. CASE CancelCommit(w)
    <3>1. txn[w].batch \in Batches
      BY <2>6 DEF CancelCommit, TxnShape
    <3>2. CancelRefund(txn[w].row, txn[w].batch) \in Nat
      BY <2>1 DEF CancelRefund, Txn, BatchRow
    <3>3. PICK r \in Nat : /\ balance' = balance + r
                           /\ bridge' = [bridge EXCEPT ![txn[w].batch].refunded = @ + r]
      BY <2>6, <3>2 DEF CancelCommit, Refunds
    <3>4. balance' \in Int /\ bridge' \in [Batches -> BridgeRow]
      BY <3>1, <3>3 DEF TypeOK, BridgeRow
    <3>5. batch' \in [Batches -> BatchRow] /\ txn' \in [Workers -> Txn]
      BY <2>1, <2>6, IdleType DEF TypeOK, CancelCommit, Txn
    <3> QED
      BY <2>6, <3>4, <3>5 DEF TypeOK, CancelCommit
  <2>7. CASE RefreshWrite(w)
    <3>1. txn[w].row.total \in Nat
      BY <2>1 DEF Txn, BatchRow
    <3>2. batch' = [batch EXCEPT ![txn[w].batch].total = txn[w].row.total]
      BY <2>7 DEF RefreshWrite
    <3>3. \A b \in Batches : [batch[b] EXCEPT !.total = txn[w].row.total] \in BatchRow
      BY <3>1 DEF TypeOK, BatchRow
    <3>4. batch' \in [Batches -> BatchRow]
      BY <3>2, <3>3 DEF TypeOK
    <3> QED
      BY <2>7, <3>4, IdleType DEF TypeOK, RefreshWrite
  <2>8. CASE UpdateSave(w)
    <3>1. txn[w].batch \in Batches /\ overwritten[txn[w].batch] \in Nat
      BY <2>8 DEF UpdateSave, TxnShape, TypeOK
    <3>2. overwritten' \in [Batches -> Nat]
      BY <2>8, <3>1 DEF UpdateSave, TypeOK
    <3>3. batch' \in [Batches -> BatchRow] /\ txn' \in [Workers -> Txn]
      BY <2>1, <2>8, IdleType DEF TypeOK, UpdateSave, Txn
    <3> QED
      BY <2>8, <3>2, <3>3 DEF TypeOK, UpdateSave
  <2> QED
    BY <1>7, <2>4, <2>5, <2>6, <2>7, <2>8 DEF CommitStep
<1>8. ASSUME NEW w \in Workers, RecordStep(w)
      PROVE  TypeOK'
  <2>1. PICK i \in Items : Asked(i) /\ Recorded(w, i)
    BY <1>8 DEF RecordStep
  <2>2. gateway' \in [Items -> GatewayRow]
    BY <2>1 DEF TypeOK, Asked
  <2>3. PICK row \in ItemRow, ok \in Nat, bad \in Nat : Outcome(w, i, row, ok, bad)
    BY <2>1 DEF Recorded
  <2>4. txn' \in [Workers -> Txn]
    <3> DEFINE rows == [txn[w].rows EXCEPT ![i] = row]
               t == [txn[w] EXCEPT !.todo = txn[w].todo \ {i}, !.rows = rows,
                                   !.ok = ok, !.bad = bad]
    <3>1. rows \in [Items -> ItemRow]
      BY DEF TypeOK, Txn
    <3> HIDE DEF rows
    <3>2. t \in Txn
      <4>1. txn[w] \in Txn
        BY DEF TypeOK
      <4> QED
        BY <3>1, <4>1 DEF Txn
    <3>3. txn \in [Workers -> Txn]
      BY DEF TypeOK
    <3>4. \A v \in Workers : v # w => txn'[v] = txn[v]
      BY <2>3, <3>3 DEF Outcome
    <3>5. txn'[w] = t
      BY <2>3, <3>3 DEF Outcome, rows, Txn
    <3>6. txn' = [v \in Workers |-> txn'[v]]
      BY <2>3, <3>3 DEF Outcome
    <3> HIDE DEF t
    <3> QED
      BY <3>2, <3>3, <3>4, <3>5, <3>6
  <2> QED
    BY <1>8, <2>2, <2>4 DEF TypeOK, RecordStep, Committed
<1>9. ASSUME NEW w \in Workers, RollbackStep(w)
      PROVE  TypeOK'
  BY <1>9, IdleType DEF TypeOK, RollbackStep, Committed, Asked
<1>10. ASSUME NEW w \in Workers, AdvanceStep(w)
       PROVE  TypeOK'
  <2>1. ASSUME NEW p \in Points
        PROVE  [txn EXCEPT ![w].at = p] \in [Workers -> Txn]
    <3>1. [txn[w] EXCEPT !.at = p] \in Txn
      BY DEF TypeOK, Txn
    <3> QED
      BY <3>1 DEF TypeOK
  <2>2. txn' \in [Workers -> Txn]
    BY <1>10, <2>1 DEF AdvanceStep, Points
  <2> QED
    BY <1>10, <2>2 DEF TypeOK, AdvanceStep, Committed
<1> QED
  BY <1>1, <1>2, <1>3, <1>4, <1>5, <1>6, <1>7, <1>8, <1>9, <1>10, StepKinds

-----------------------------------------------------------------------------
(* What each kind of step does, field by field *)

OthersKeep(w) == \A v \in Workers \ {w} : txn'[v] = txn[v]

\* An administrative step leaves the sessions alone, and the status of every
\* batch that somebody holds, and of every item that exists.
LEMMA BatchEffect ==
    ASSUME TypeOK, BatchStep
    PROVE  /\ UNCHANGED <<balance, bridge, overwritten, gateway, txn>>
           /\ \A b \in Batches :
                 /\ ~BatchFree(b) => \/ batch'[b].status = batch[b].status
                                     \/ batch[b].status = "ABSENT"
                 /\ batch'[b].locked => batch[b].locked
                 /\ batch'[b].started <=> batch[b].started
                 /\ batch'[b].total # batch[b].total => batch[b].status = "PENDING"
                 /\ batch'[b].status # batch[b].status =>
                       /\ batch'[b].status \in {"PENDING", "ON_HOLD"}
                       /\ batch[b].status \in {"ABSENT", "ON_HOLD", "PENDING", "PROCESSING", "FAILED"}
           /\ \A i \in Items : \/ item'[i] = item[i]
                               \/ /\ item[i].status = "ABSENT"
                                  /\ item'[i].status = "QUEUED" /\ item'[i].retry = 0
<1> PICK b \in Batches : \/ CreateBatch(b) \/ Hold(b) \/ Resume(b) \/ ReleaseLock(b)
                         \/ \E S \in SUBSET Items : AddItems(b, S)
  BY DEF BatchStep
<1>0. batch \in [Batches -> BatchRow] /\ item \in [Items -> ItemRow]
  BY DEF TypeOK
<1>1. CASE CreateBatch(b)
  BY <1>0, <1>1 DEF CreateBatch, BatchRow
<1>2. CASE Hold(b) \/ Resume(b)
  <2>1. PICK s \in {"ON_HOLD", "PENDING"} : DoTransition(b, s)
    BY <1>2 DEF Hold, Resume
  <2>2. batch[b].status \in {"ON_HOLD", "PENDING", "PROCESSING", "FAILED"}
    BY <2>1, TransitionSources DEF DoTransition
  <2>3. /\ TransitionTo(batch[b], s).status = s
        /\ TransitionTo(batch[b], s).locked => batch[b].locked
        /\ TransitionTo(batch[b], s).started <=> batch[b].started
        /\ TransitionTo(batch[b], s).total = batch[b].total
    BY <1>0, TransitionToType DEF BatchStatus, BatchRow
  <2> QED
    BY <1>0, <2>1, <2>2, <2>3 DEF DoTransition
<1>3. CASE ReleaseLock(b)
  BY <1>0, <1>3 DEF ReleaseLock, BatchRow
<1>4. ASSUME NEW S \in SUBSET Items, AddItems(b, S)
      PROVE  /\ UNCHANGED <<balance, bridge, overwritten, gateway, txn>>
             /\ \A c \in Batches : /\ batch'[c].status = batch[c].status
                                   /\ batch'[c].locked = batch[c].locked
                                   /\ batch'[c].started <=> batch[c].started
                                   /\ batch'[c].total # batch[c].total => batch[c].status = "PENDING"
             /\ \A i \in Items : \/ item'[i] = item[i]
                                 \/ /\ item[i].status = "ABSENT"
                                    /\ item'[i].status = "QUEUED" /\ item'[i].retry = 0
  BY <1>0, <1>4 DEF AddItems, BatchRow, NoItem
<1> QED
  BY <1>1, <1>2, <1>3, <1>4

\* A transaction opens with nothing reserved, on rows nobody holds.
LEMMA BeginEffect ==
    ASSUME TypeOK, NEW w \in Workers, BeginStep(w)
    PROVE  /\ UNCHANGED <<batch, item, balance, bridge, overwritten, gateway>>
           /\ OthersKeep(w)
           /\ txn[w].at = "idle"
           /\ txn'[w].reserve = 0
           /\ txn'[w].held \in SUBSET Items
           /\ \A i \in txn'[w].held : ItemFree(i)
           /\ \E s \in {"PROCESSING", "CANCELLED", "SKIPPED"} :
                 /\ txn'[w].rows = Claim(txn'[w].held, s)
                 /\ txn'[w].at = "edit" => s # "PROCESSING"
           /\ \/ /\ txn'[w].at \in {"refund", "deduct", "select"}
                 /\ txn'[w].todo = {} /\ txn'[w].held = {}
                 /\ txn'[w].batch \in Batches
                 /\ BatchFree(txn'[w].batch)
                 /\ txn'[w].at # "refund" =>
                       /\ batch[txn'[w].batch].status = "PENDING"
                       /\ txn'[w].row.started
                       /\ txn'[w].at = "deduct" <=> txn'[w].batch \in Tenanted
                 /\ txn'[w].at = "refund" =>
                       /\ batch[txn'[w].batch].status \in {"PENDING", "ON_HOLD"}
                       /\ txn'[w].row.status = "CANCELLED"
                       /\ txn'[w].row.started <=> batch[txn'[w].batch].started
                       /\ txn'[w].row.locked => batch[txn'[w].batch].locked
              \/ /\ txn'[w].at = "refresh"
                 /\ txn'[w].todo = {} /\ txn'[w].held = {}
                 /\ txn'[w].batch \in Batches
              \/ /\ txn'[w].at = "update"
                 /\ txn'[w].todo = {} /\ txn'[w].held = {}
                 /\ txn'[w].batch \in Batches
                 /\ txn'[w].row = batch[txn'[w].batch]
                 /\ batch[txn'[w].batch].status # "ABSENT"
                 /\ overwritten[txn'[w].batch] < MaxOverwrites
              \/ /\ txn'[w].at = "edit"
                 /\ txn'[w].todo = {} /\ \E i \in Items : txn'[w].held = {i}
                 /\ \A i \in txn'[w].held : item[i].status \notin {"ABSENT", "SUCCESS"}
              \/ /\ txn'[w].at = "retry"
                 /\ txn'[w].todo = txn'[w].held
                 /\ \A i \in txn'[w].held : item[i].status = "RETRYING"
<1>0. txn \in [Workers -> Txn] /\ batch \in [Batches -> BatchRow]
  BY DEF TypeOK
<1>1. Claim({}, "PROCESSING") = [i \in Items |-> NoItem]
  BY DEF Claim
<1>2. ASSUME NEW b \in Batches, CancelBegin(w, b)
      PROVE  /\ UNCHANGED <<batch, item, balance, bridge, overwritten, gateway>> /\ OthersKeep(w)
             /\ txn'[w].at = "refund" /\ txn'[w].batch = b
             /\ txn'[w].reserve = 0 /\ txn'[w].todo = {} /\ txn'[w].held = {}
             /\ txn'[w].rows = [i \in Items |-> NoItem]
             /\ BatchFree(b) /\ batch[b].status \in {"PENDING", "ON_HOLD"}
             /\ txn'[w].row.status = "CANCELLED"
             /\ txn'[w].row.locked => batch[b].locked
             /\ txn'[w].row.started <=> batch[b].started
  <2>1. /\ TransitionTo(batch[b], "CANCELLED").status = "CANCELLED"
        /\ TransitionTo(batch[b], "CANCELLED").locked => batch[b].locked
        /\ TransitionTo(batch[b], "CANCELLED").started <=> batch[b].started
    BY <1>0, TransitionToType DEF BatchStatus, BatchRow
  <2>2. batch[b].status \in {"PENDING", "ON_HOLD"}
    BY <1>2, TransitionSources DEF CancelBegin
  <2> QED
    BY <1>0, <1>2, <2>1, <2>2 DEF CancelBegin, OthersKeep, Idle
<1>3. ASSUME NEW b \in Batches, RefreshRead(w, b)
      PROVE  /\ UNCHANGED <<batch, item, balance, bridge, overwritten, gateway>> /\ OthersKeep(w)
             /\ txn'[w].at = "refresh" /\ txn'[w].batch = b
             /\ txn'[w].reserve = 0 /\ txn'[w].todo = {} /\ txn'[w].held = {}
             /\ txn'[w].rows = [i \in Items |-> NoItem]
  BY <1>0, <1>3 DEF RefreshRead, OthersKeep, Idle
<1>3a. ASSUME NEW b \in Batches, UpdateLoad(w, b)
       PROVE  /\ UNCHANGED <<batch, item, balance, bridge, overwritten, gateway>> /\ OthersKeep(w)
              /\ txn'[w].at = "update" /\ txn'[w].batch = b /\ txn'[w].row = batch[b]
              /\ txn'[w].reserve = 0 /\ txn'[w].todo = {} /\ txn'[w].held = {}
              /\ txn'[w].rows = [i \in Items |-> NoItem]
              /\ batch[b].status # "ABSENT" /\ overwritten[b] < MaxOverwrites
  BY <1>0, <1>3a DEF UpdateLoad, OthersKeep, Idle
<1>4. ASSUME NEW b \in Batches, ProcessBegin(w, b)
      PROVE  /\ UNCHANGED <<batch, item, balance, bridge, overwritten, gateway>> /\ OthersKeep(w)
             /\ txn'[w].at \in {"deduct", "select"} /\ txn'[w].batch = b
             /\ txn'[w].reserve = 0 /\ txn'[w].todo = {} /\ txn'[w].held = {}
             /\ txn'[w].rows = [i \in Items |-> NoItem]
             /\ BatchFree(b) /\ batch[b].status = "PENDING"
             /\ txn'[w].row.started
             /\ txn'[w].at = "deduct" <=> b \in Tenanted
  <2>1. batch[b].status = "PENDING"
    BY <1>4, TransitionSources DEF ProcessBegin
  <2>2. TransitionTo(AcquireLock(batch[b]), "PROCESSING").started
    <3>1. AcquireLock(batch[b]) \in BatchRow
      BY <1>0 DEF AcquireLock, BatchRow
    <3> QED
      BY <3>1, TransitionToType DEF BatchStatus
  <2> QED
    BY <1>0, <1>4, <2>1, <2>2 DEF ProcessBegin, OthersKeep, Idle
<1>5. ASSUME NEW i \in Items, NEW s \in {"CANCELLED", "SKIPPED"}, EditBegin(w, i, s)
      PROVE  /\ UNCHANGED <<batch, item, balance, bridge, overwritten, gateway>> /\ OthersKeep(w)
             /\ txn'[w].at = "edit"
             /\ txn'[w].reserve = 0 /\ txn'[w].todo = {} /\ txn'[w].held = {i}
             /\ txn'[w].rows = Claim({i}, s)
             /\ ItemFree(i) /\ item[i].status \notin {"ABSENT", "SUCCESS"}
  BY <1>0, <1>5 DEF EditBegin, Editable, OthersKeep, Idle
<1>6. ASSUME NEW S \in SUBSET Items, RetryBegin(w, S)
      PROVE  /\ UNCHANGED <<batch, item, balance, bridge, overwritten, gateway>> /\ OthersKeep(w)
             /\ txn'[w].at = "retry"
             /\ txn'[w].reserve = 0 /\ txn'[w].todo = S /\ txn'[w].held = S
             /\ txn'[w].rows = Claim(S, "PROCESSING")
             /\ \A i \in S : ItemFree(i) /\ item[i].status = "RETRYING"
  BY <1>0, <1>6 DEF RetryBegin, Available, OthersKeep, Idle
<1>0a. txn[w].at = "idle"
  BY DEF BeginStep, CancelBegin, RefreshRead, UpdateLoad, ProcessBegin, EditBegin, RetryBegin
<1>7. CASE \E b \in Batches : CancelBegin(w, b) \/ RefreshRead(w, b) \/ ProcessBegin(w, b)
  BY <1>0a, <1>1, <1>2, <1>3, <1>4, <1>7
<1>7a. CASE \E b \in Batches : UpdateLoad(w, b)
  BY <1>0a, <1>1, <1>3a, <1>7a
<1>8. CASE \E i \in Items, s \in {"CANCELLED", "SKIPPED"} : EditBegin(w, i, s)
  BY <1>0a, <1>5, <1>8
<1>9. CASE \E S \in SUBSET Items : RetryBegin(w, S)
  BY <1>0a, <1>6, <1>9
<1> QED
  BY <1>7, <1>7a, <1>8, <1>9 DEF BeginStep

\* The fields of a transaction that a reservation leaves alone.
SameClaim(w) ==
    /\ txn'[w].held = txn[w].held
    /\ txn'[w].rows = txn[w].rows
    /\ txn'[w].batch = txn[w].batch
    /\ txn'[w].row = txn[w].row

\* The reservation is taken from the balance of now, under the wallet's lock.
LEMMA DeductEffect ==
    ASSUME TypeOK, NEW w \in Workers, ProcessDeduct(w)
    PROVE  /\ UNCHANGED <<batch, item, balance, bridge, overwritten, gateway>>
           /\ OthersKeep(w) /\ SameClaim(w)
           /\ txn[w].at = "deduct" /\ txn'[w].at = "select"
           /\ txn'[w].todo = txn[w].todo
           /\ WalletFreeFor(w)
           /\ txn'[w].purse = balance - txn'[w].reserve /\ txn'[w].purse >= 0
           /\ txn'[w].reserve > 0 /\ txn'[w].reserve = txn[w].row.total
           /\ WalletInstalled
<1>1. txn \in [Workers -> Txn] /\ txn[w].row.total \in Nat /\ balance \in Int
  BY DEF TypeOK, Txn, BatchRow
<1>2. balance - txn[w].row.total >= 0 /\ txn[w].row.total > 0
  BY <1>1 DEF ProcessDeduct, Affordable
<1>3. /\ OthersKeep(w) /\ SameClaim(w)
      /\ txn'[w].at = "select"
      /\ txn'[w].todo = txn[w].todo
      /\ txn'[w].reserve = txn[w].row.total
      /\ txn'[w].purse = balance - txn[w].row.total
  BY <1>1 DEF ProcessDeduct, OthersKeep, SameClaim, Txn
<1> QED
  BY <1>2, <1>3 DEF ProcessDeduct

\* A step to the next statement changes nothing but that.
LEMMA AdvanceEffect ==
    ASSUME TypeOK, NEW w \in Workers, AdvanceStep(w)
    PROVE  /\ UNCHANGED <<batch, item, balance, bridge, overwritten, gateway>>
           /\ OthersKeep(w) /\ SameClaim(w)
           /\ \/ txn[w].at = "deduct" /\ ~WalletInstalled /\ txn'[w].at = "select"
              \/ txn[w].at = "update" /\ txn'[w].at = "save"
           /\ txn'[w].todo = txn[w].todo
           /\ txn'[w].reserve = txn[w].reserve /\ txn'[w].purse = txn[w].purse
<1>1. txn \in [Workers -> Txn]
  BY DEF TypeOK
<1>2. PICK p \in {"select", "save"} :
         /\ txn' = [txn EXCEPT ![w].at = p]
         /\ \/ txn[w].at = "deduct" /\ ~WalletInstalled /\ p = "select"
            \/ txn[w].at = "update" /\ p = "save"
  BY DEF AdvanceStep
<1>3. OthersKeep(w) /\ SameClaim(w)
  BY <1>1, <1>2 DEF OthersKeep, SameClaim, Txn
<1>4. /\ txn'[w].at = p /\ txn'[w].todo = txn[w].todo
      /\ txn'[w].reserve = txn[w].reserve /\ txn'[w].purse = txn[w].purse
  BY <1>1, <1>2 DEF Txn
<1> QED
  BY <1>2, <1>3, <1>4 DEF AdvanceStep, Committed

\* The items selected are QUEUED, and nobody holds them.
LEMMA SelectEffect ==
    ASSUME TypeOK, NEW w \in Workers, ProcessSelect(w)
    PROVE  /\ UNCHANGED <<batch, item, balance, bridge, overwritten, gateway>>
           /\ OthersKeep(w)
           /\ txn[w].at = "select" /\ txn'[w].at = "send"
           /\ txn'[w].batch = txn[w].batch /\ txn'[w].row = txn[w].row
           /\ txn'[w].reserve = txn[w].reserve /\ txn'[w].purse = txn[w].purse
           /\ txn'[w].held \in SUBSET Items /\ txn'[w].todo = txn'[w].held
           /\ txn'[w].rows = Claim(txn'[w].held, "PROCESSING")
           /\ \A i \in txn'[w].held :
                 ItemFree(i) /\ item[i].status = "QUEUED" /\ BatchOf[i] = txn[w].batch
<1> DEFINE S == {i \in Available("QUEUED") : BatchOf[i] = txn[w].batch}
<1>1. /\ S \in SUBSET Items
      /\ \A i \in S : ItemFree(i) /\ item[i].status = "QUEUED" /\ BatchOf[i] = txn[w].batch
  BY DEF Available
<1>2. /\ UNCHANGED <<batch, item, balance, bridge, overwritten, gateway>>
      /\ txn[w].at = "select"
      /\ txn' = [txn EXCEPT ![w].at   = "send",
                            ![w].todo = S,
                            ![w].held = S,
                            ![w].rows = Claim(S, "PROCESSING")]
  BY DEF ProcessSelect
<1> HIDE DEF S
<1>3. txn \in [Workers -> Txn]
  BY DEF TypeOK
<1>4. OthersKeep(w)
  BY <1>2, <1>3 DEF OthersKeep
<1>5. /\ txn'[w].at = "send"
      /\ txn'[w].batch = txn[w].batch /\ txn'[w].row = txn[w].row
      /\ txn'[w].reserve = txn[w].reserve /\ txn'[w].purse = txn[w].purse
      /\ txn'[w].todo = S /\ txn'[w].held = S
      /\ txn'[w].rows = Claim(S, "PROCESSING")
  BY <1>2, <1>3 DEF Txn
<1> QED
  BY <1>1, <1>2, <1>4, <1>5

\* An outcome is recorded for one item, in the session's own rows.
LEMMA RecordEffect ==
    ASSUME TypeOK, NEW w \in Workers, RecordStep(w)
    PROVE  /\ UNCHANGED Committed
           /\ OthersKeep(w)
           /\ txn'[w].at = txn[w].at /\ txn[w].at \in Sends
           /\ txn'[w].batch = txn[w].batch /\ txn'[w].row = txn[w].row
           /\ txn'[w].reserve = txn[w].reserve /\ txn'[w].purse = txn[w].purse
           /\ txn'[w].held = txn[w].held
           /\ \E i \in Items :
                 /\ Asked(i)
                 /\ i \in txn[w].todo /\ txn'[w].todo = txn[w].todo \ {i}
                 /\ \A j \in Items \ {i} : txn'[w].rows[j] = txn[w].rows[j]
                 /\ txn'[w].rows[i].retry <= MaxRetryAttempts
                 /\ txn'[w].rows[i].status \in {"SUCCESS", "RETRYING"}
                 /\ txn'[w].rows[i].status = "SUCCESS" =>
                       txn'[w].rows[i].ref /\ gateway'[i].paid > 0
                 /\ txn'[w].rows[i].retry =
                       txn[w].rows[i].retry + (IF txn'[w].rows[i].status = "SUCCESS" THEN 0 ELSE 1)
                 /\ txn'[w].rows[i].status = "SUCCESS" \/ txn[w].ok > 0 => txn'[w].ok > 0
<1>1. PICK i \in Items : Asked(i) /\ Recorded(w, i)
  BY DEF RecordStep
<1>2. PICK row \in ItemRow, ok \in Nat, bad \in Nat : Outcome(w, i, row, ok, bad)
  BY <1>1 DEF Recorded
<1>3. txn \in [Workers -> Txn] /\ txn[w].rows \in [Items -> ItemRow]
  BY DEF TypeOK, Txn
<1>4. OthersKeep(w)
  BY <1>2, <1>3 DEF Outcome, OthersKeep
<1>5. /\ txn'[w].at = txn[w].at
      /\ txn'[w].batch = txn[w].batch /\ txn'[w].row = txn[w].row
      /\ txn'[w].reserve = txn[w].reserve /\ txn'[w].purse = txn[w].purse
      /\ txn'[w].held = txn[w].held
      /\ txn'[w].todo = txn[w].todo \ {i}
      /\ txn'[w].rows = [txn[w].rows EXCEPT ![i] = row]
      /\ txn'[w].ok = ok
  BY <1>2, <1>3 DEF Outcome, Txn
<1>6. txn'[w].rows[i] = row /\ \A j \in Items \ {i} : txn'[w].rows[j] = txn[w].rows[j]
  BY <1>3, <1>5
<1>7. UNCHANGED Committed
  BY DEF RecordStep
<1>8. row.retry = txn[w].rows[i].retry + (IF row.status = "SUCCESS" THEN 0 ELSE 1)
  <2>1. txn[w].rows[i].retry \in Nat
    BY <1>3 DEF ItemRow
  <2> QED
    BY <1>2, <2>1 DEF Outcome
<1>9. /\ txn[w].at \in Sends /\ i \in txn[w].todo
      /\ row.retry <= MaxRetryAttempts /\ row.status \in {"SUCCESS", "RETRYING"}
      /\ row.status = "SUCCESS" => row.ref /\ gateway'[i].paid > 0
      /\ row.status = "SUCCESS" \/ txn[w].ok > 0 => ok > 0
  BY <1>2 DEF Outcome
<1> QED
  BY <1>1, <1>4, <1>5, <1>6, <1>7, <1>8, <1>9

\* The row that w loaded is what it saves of b.
Saves(w, b) == txn[w].at = "save" /\ txn[w].batch = b

\* A commit writes the rows held; the outcome of a batch it holds is not
\* PROCESSING and not locked; one that it saves is held by nobody; the wallet
\* changes under its lock only.
LEMMA CommitEffect ==
    ASSUME TypeOK, TxnShape, Prepared, RowLocksExclusive, WalletNeverStale,
           NEW w \in Workers, CommitStep(w)
    PROVE  /\ gateway' = gateway
           /\ txn' = [txn EXCEPT ![w] = Idle]
           /\ txn[w].todo = {}
           /\ item' = ItemsSeenBy(w)
           /\ \A b \in Batches :
                 /\ HoldsBatch(w, b) =>
                       batch'[b].status \in Finished \cup {"CANCELLED"} /\ ~batch'[b].locked
                 /\ Saves(w, b) => BatchFree(b) /\ batch'[b] = txn[w].row
                 /\ ~HoldsBatch(w, b) /\ ~Saves(w, b) =>
                       batch'[b].status = batch[b].status /\ batch'[b].locked = batch[b].locked
           /\ balance' >= 0
           /\ balance' = balance \/ \A v \in Workers \ {w} : ~HoldsWallet(v)
<1>1. /\ txn \in [Workers -> Txn] /\ txn[w] \in Txn /\ batch \in [Batches -> BatchRow]
      /\ item \in [Items -> ItemRow] /\ balance \in Nat
  BY DEF TypeOK, WalletNeverStale
<1>2. txn[w].held = {} => ItemsSeenBy(w) = item
  BY <1>1 DEF ItemsSeenBy
<1>3. CASE ProcessCommit(w)
  <2> DEFINE b == txn[w].batch
             total == TotalAmount(b, ItemsSeenBy(w))
             status == FinalStatus(txn[w].ok, txn[w].bad)
             row == TransitionTo(txn[w].row, status)
  <2>0. PICK refund \in Refunds(RefundDue(b, status, total, ItemsSeenBy(w))) :
           /\ refund > 0 => WalletFreeFor(w)
           /\ balance' = (IF HoldsWallet(w) THEN txn[w].purse ELSE balance) + refund
    BY <1>3 DEF ProcessCommit
  <2>1. /\ txn[w].at = "send" /\ txn[w].todo = {}
        /\ refund > 0 => WalletFreeFor(w)
        /\ batch'   = [batch EXCEPT ![b] = [row EXCEPT !.total = total]]
        /\ item'    = ItemsSeenBy(w)
        /\ balance' = (IF HoldsWallet(w) THEN txn[w].purse ELSE balance) + refund
        /\ txn'     = [txn EXCEPT ![w] = Idle]
        /\ gateway' = gateway
    BY <1>3, <2>0 DEF ProcessCommit
  <2>2. b \in Batches
    BY <2>1 DEF TxnShape
  <2>3. total \in Nat /\ refund \in Nat
    BY AmountsType DEF Refunds
  <2>4. status \in Finished
    BY <1>1, FinalStatusType DEF Txn
  <2>5. row \in BatchRow /\ row.status = status /\ ~row.locked
    BY <1>1, <2>4, TransitionToType DEF Txn, Finished, BatchStatus
  <2> HIDE DEF b, total, status, row
  <2>6. /\ batch'[b].status \in Finished /\ ~batch'[b].locked
        /\ \A c \in Batches \ {b} : batch'[c] = batch[c]
    BY <1>1, <2>1, <2>2, <2>4, <2>5 DEF BatchRow
  <2>7. \A c \in Batches : (HoldsBatch(w, c) <=> c = b) /\ ~Saves(w, c)
    BY <2>1, <2>2 DEF HoldsBatch, Saves, b
  <2>8. balance' >= 0
    BY <1>1, <2>1, <2>3 DEF WalletNeverStale, Txn
  <2>9. balance' = balance \/ \A v \in Workers \ {w} : ~HoldsWallet(v)
    BY <1>1, <2>1, <2>3 DEF RowLocksExclusive, WalletFreeFor
  <2> QED
    BY <2>1, <2>6, <2>7, <2>8, <2>9
<1>4. CASE ItemsCommit(w)
  BY <1>1, <1>4 DEF ItemsCommit, HoldsBatch, Saves
<1>5. CASE CancelCommit(w)
  <2>0. PICK r \in Refunds(CancelRefund(txn[w].row, txn[w].batch)) :
           (r > 0 => WalletFreeFor(w)) /\ balance' = balance + r
    BY <1>5 DEF CancelCommit
  <2>1. /\ txn[w].at = "refund"
        /\ r > 0 => WalletFreeFor(w)
        /\ batch'   = [batch EXCEPT ![txn[w].batch] = txn[w].row]
        /\ balance' = balance + r
        /\ txn'     = [txn EXCEPT ![w] = Idle]
        /\ UNCHANGED <<item, gateway>>
    BY <1>5, <2>0 DEF CancelCommit
  <2>2. r \in Nat
    BY <1>1 DEF CancelRefund, Refunds, Txn, BatchRow
  <2>3. balance' >= 0
    BY <1>1, <2>1, <2>2
  <2>4. balance' = balance \/ \A v \in Workers \ {w} : ~HoldsWallet(v)
    BY <1>1, <2>1, <2>2 DEF WalletFreeFor
  <2>5. txn[w].batch \in Batches /\ txn[w].held = {} /\ txn[w].todo = {}
    BY <2>1 DEF TxnShape, Sends
  <2>6. txn[w].row.status = "CANCELLED" /\ ~txn[w].row.locked
    BY <2>1 DEF Prepared
  <2>7. \A c \in Batches : (HoldsBatch(w, c) <=> c = txn[w].batch) /\ ~Saves(w, c)
    BY <2>1, <2>5 DEF HoldsBatch, Saves
  <2> QED
    BY <1>1, <1>2, <2>1, <2>3, <2>4, <2>5, <2>6, <2>7
<1>6. CASE RefreshWrite(w)
  <2>1. txn[w].at = "refresh" /\ txn[w].held = {} /\ txn[w].todo = {}
    BY <1>6 DEF RefreshWrite, TxnShape, Sends
  <2>2. \A c \in Batches : /\ batch'[c].status = batch[c].status
                           /\ batch'[c].locked = batch[c].locked
    BY <1>1, <1>6 DEF RefreshWrite, BatchRow
  <2> QED
    BY <1>1, <1>2, <1>6, <2>1, <2>2 DEF RefreshWrite, HoldsBatch, Saves
<1>7. CASE UpdateSave(w)
  <2>1. txn[w].at = "save" /\ txn[w].held = {} /\ txn[w].todo = {} /\ txn[w].batch \in Batches
    BY <1>7 DEF UpdateSave, TxnShape, Sends
  <2>2. \A c \in Batches : /\ ~HoldsBatch(w, c)
                           /\ Saves(w, c) => c = txn[w].batch
                           /\ ~Saves(w, c) => c # txn[w].batch
    BY <2>1 DEF HoldsBatch, Saves
  <2>3. /\ batch' = [batch EXCEPT ![txn[w].batch] = txn[w].row] /\ BatchFree(txn[w].batch)
        /\ txn' = [txn EXCEPT ![w] = Idle]
        /\ UNCHANGED <<item, balance, gateway>>
    BY <1>7 DEF UpdateSave
  <2> QED
    BY <1>1, <1>2, <2>1, <2>2, <2>3
<1> QED
  BY <1>3, <1>4, <1>5, <1>6, <1>7 DEF CommitStep

\* Only a transaction that holds a batch commits its started_at and reserves for
\* it; only such a one or a refresh commits its total, or a save, which counts as
\* an overwriting where it changes the row.
LEMMA CommitTotals ==
    ASSUME Inductive, NEW w \in Workers, CommitStep(w)
    PROVE  \A b \in Batches :
              /\ ~HoldsBatch(w, b) => bridge'[b].reserved = bridge[b].reserved
              /\ ~HoldsBatch(w, b) /\ ~Saves(w, b) =>
                    (batch'[b].started <=> batch[b].started)
              /\ ~Saves(w, b) => overwritten'[b] = overwritten[b]
              /\ Saves(w, b) => \/ batch'[b] = batch[b] /\ overwritten'[b] = overwritten[b]
                                \/ overwritten'[b] > 0
              /\ HoldsBatch(w, b) => /\ txn[w].at \in {"send", "refund"}
                                     /\ batch'[b].started <=> txn[w].row.started
              /\ HoldsBatch(w, b) /\ txn[w].at = "send" =>
                    bridge'[b].reserved = bridge[b].reserved + txn[w].reserve
              /\ HoldsBatch(w, b) /\ txn[w].at = "refund" =>
                    bridge'[b].reserved = bridge[b].reserved
              /\ ~HoldsBatch(w, b) /\ ~Saves(w, b) /\ batch'[b].total # batch[b].total =>
                    txn[w].at = "refresh" /\ txn[w].batch = b
<1> USE DEF Inductive
<1>1. /\ txn \in [Workers -> Txn] /\ txn[w] \in Txn /\ batch \in [Batches -> BatchRow]
      /\ bridge \in [Batches -> BridgeRow] /\ \A b \in Batches : bridge[b].reserved \in Nat
  BY DEF TypeOK, BridgeRow
<1>2. CASE ProcessCommit(w)
  <2> DEFINE b == txn[w].batch
             total == TotalAmount(b, ItemsSeenBy(w))
             status == FinalStatus(txn[w].ok, txn[w].bad)
             row == TransitionTo(txn[w].row, status)
  <2>0. PICK refund \in Refunds(RefundDue(b, status, total, ItemsSeenBy(w))) :
           bridge' = [bridge EXCEPT ![b] = [reserved |-> @.reserved + txn[w].reserve,
                                            refunded |-> @.refunded + refund]]
    BY <1>2 DEF ProcessCommit
  <2>1. /\ txn[w].at = "send" /\ overwritten' = overwritten
        /\ batch'  = [batch EXCEPT ![b] = [row EXCEPT !.total = total]]
        /\ bridge' = [bridge EXCEPT ![b] = [reserved |-> @.reserved + txn[w].reserve,
                                            refunded |-> @.refunded + refund]]
    BY <1>2, <2>0 DEF ProcessCommit
  <2>2. b \in Batches
    BY <2>1 DEF TxnShape
  <2>3. status \in Finished
    BY <1>1, FinalStatusType DEF Txn
  <2>4. row \in BatchRow /\ (row.started <=> txn[w].row.started)
    BY <1>1, <2>3, TransitionToType DEF Txn, Finished, BatchStatus, BatchRow
  <2> HIDE DEF b, total, status, row
  <2>5. /\ bridge'[b].reserved = bridge[b].reserved + txn[w].reserve
        /\ \A c \in Batches \ {b} : batch'[c] = batch[c] /\ bridge'[c] = bridge[c]
    BY <1>1, <2>1, <2>2
  <2>7. batch'[b].started <=> txn[w].row.started
    <3>1. batch'[b] = [row EXCEPT !.total = total]
      BY <1>1, <2>1, <2>2
    <3>2. [row EXCEPT !.total = total].started <=> row.started
      BY <2>4 DEF BatchRow
    <3> QED
      BY <2>4, <3>1, <3>2
  <2>6. \A c \in Batches : (HoldsBatch(w, c) <=> c = b) /\ ~Saves(w, c)
    BY <2>1, <2>2 DEF HoldsBatch, Saves, b
  <2> QED
    BY <2>1, <2>5, <2>6, <2>7
<1>3. CASE ItemsCommit(w)
  <2>1. UNCHANGED <<batch, bridge, overwritten>> /\ txn[w].at \in {"retry", "edit"}
    BY <1>3 DEF ItemsCommit
  <2>2. \A c \in Batches : ~HoldsBatch(w, c) /\ ~Saves(w, c)
    BY <2>1 DEF HoldsBatch, Saves
  <2> QED
    BY <2>1, <2>2
<1>4. CASE CancelCommit(w)
  <2> DEFINE b == txn[w].batch
  <2>0. PICK r \in Refunds(CancelRefund(txn[w].row, b)) :
           bridge' = [bridge EXCEPT ![b].refunded = @ + r]
    BY <1>4 DEF CancelCommit
  <2>1. /\ txn[w].at = "refund" /\ overwritten' = overwritten
        /\ batch'  = [batch EXCEPT ![b] = txn[w].row]
        /\ bridge' = [bridge EXCEPT ![b].refunded = @ + r]
    BY <1>4, <2>0 DEF CancelCommit
  <2>2. b \in Batches
    BY <2>1 DEF TxnShape
  <2>3. /\ batch'[b] = txn[w].row
        /\ \A c \in Batches : bridge'[c].reserved = bridge[c].reserved
        /\ \A c \in Batches \ {b} : batch'[c] = batch[c]
    BY <1>1, <2>1, <2>2 DEF BridgeRow
  <2>4. \A c \in Batches : (HoldsBatch(w, c) <=> c = b) /\ ~Saves(w, c)
    BY <2>1, <2>2 DEF HoldsBatch, Saves
  <2> QED
    BY <1>1, <2>1, <2>3, <2>4
<1>5. CASE RefreshWrite(w)
  <2>1. txn[w].at = "refresh" /\ bridge' = bridge /\ overwritten' = overwritten
    BY <1>5 DEF RefreshWrite
  <2>2. \A c \in Batches : /\ batch'[c].started <=> batch[c].started
                           /\ c # txn[w].batch => batch'[c].total = batch[c].total
    BY <1>1, <1>5 DEF RefreshWrite, BatchRow
  <2>3. \A c \in Batches : ~HoldsBatch(w, c) /\ ~Saves(w, c)
    BY <2>1 DEF HoldsBatch, Saves
  <2> QED
    BY <2>1, <2>2, <2>3
<1>6. CASE UpdateSave(w)
  <2> DEFINE b == txn[w].batch
  <2>1. /\ txn[w].at = "save" /\ bridge' = bridge
        /\ batch' = [batch EXCEPT ![b] = txn[w].row]
        /\ overwritten' = IF batch[b] = txn[w].row THEN overwritten
                          ELSE [overwritten EXCEPT ![b] = @ + 1]
    BY <1>6 DEF UpdateSave
  <2>2. b \in Batches /\ overwritten \in [Batches -> Nat]
    BY <2>1 DEF TxnShape, TypeOK
  <2>3. \A c \in Batches \ {b} : batch'[c] = batch[c] /\ overwritten'[c] = overwritten[c]
    <3>1. overwritten' = overwritten \/ overwritten' = [overwritten EXCEPT ![b] = @ + 1]
      BY <2>1
    <3> HIDE DEF b
    <3> QED
      BY <1>1, <2>1, <2>2, <3>1
  <2>4. (batch'[b] = batch[b] /\ overwritten'[b] = overwritten[b]) \/ overwritten'[b] > 0
    <3>1. CASE batch[b] = txn[w].row
      <4>1. batch'[b] = txn[w].row /\ overwritten' = overwritten
        BY <1>1, <2>1, <2>2, <3>1
      <4> QED
        BY <3>1, <4>1
    <3>2. CASE batch[b] # txn[w].row
      <4>1. overwritten' = [overwritten EXCEPT ![b] = @ + 1]
        BY <2>1, <3>2
      <4> HIDE DEF b
      <4>2. overwritten'[b] = overwritten[b] + 1 /\ overwritten[b] \in Nat
        BY <2>2, <4>1
      <4> QED
        BY <4>2
    <3> QED
      BY <3>1, <3>2
  <2>5. \A c \in Batches : ~HoldsBatch(w, c) /\ (Saves(w, c) <=> c = b)
    BY <2>1, <2>2 DEF HoldsBatch, Saves
  <2> QED
    BY <2>1, <2>3, <2>4, <2>5
<1> QED
  BY <1>2, <1>3, <1>4, <1>5, <1>6 DEF CommitStep

-----------------------------------------------------------------------------
(* The invariant is inductive, one part at a time *)

\* A closed transaction holds nothing.
LEMMA IdleHoldsNothing ==
    /\ Idle.at = "idle" /\ Idle.todo = {} /\ Idle.held = {} /\ Idle.reserve = 0
    /\ \A i \in Items : Idle.rows[i].retry = 0
BY DEF Idle, NoItem

\* The shape of an open transaction is kept.
LEMMA ShapeStep ==
    ASSUME Inductive, [Next]_vars
    PROVE  TxnShape'
<1> USE DEF Inductive
<1>0. txn \in [Workers -> Txn]
  BY DEF TypeOK
<1>1. CASE UNCHANGED vars
  BY <1>1 DEF TxnShape, vars
<1>2. CASE BatchStep \/ \E i \in Items : LatePay(i)
  <2>1. txn' = txn
    BY <1>2, BatchEffect DEF LatePay
  <2> QED
    BY <2>1 DEF TxnShape
<1>3. ASSUME NEW w \in Workers,
             \/ BeginStep(w) \/ ProcessDeduct(w) \/ ProcessSelect(w)
             \/ CommitStep(w) \/ RecordStep(w) \/ RollbackStep(w) \/ AdvanceStep(w)
      PROVE  TxnShape'
  <2> DEFINE Shape(t) == /\ t.todo \subseteq t.held
                         /\ t.at \notin Sends => t.todo = {}
                         /\ t.at \notin Sends \cup {"edit"} => t.held = {}
                         /\ t.at = "edit" => \E i \in Items : t.held = {i}
                         /\ t.at \in {"deduct", "select", "send", "refund", "refresh", "update", "save"}
                               => t.batch \in Batches
                         /\ t.at \notin {"select", "send"} => t.reserve = 0
  <2>1. ASSUME OthersKeep(w), Shape(txn'[w])
        PROVE  TxnShape'
    BY <2>1 DEF OthersKeep, TxnShape
  <2>2. CASE BeginStep(w)
    <3>1. OthersKeep(w)
      BY <2>2, BeginEffect
    <3>2. Shape(txn'[w])
      BY <2>2, BeginEffect DEF Sends
    <3> QED
      BY <2>1, <3>1, <3>2
  <2>3. CASE ProcessDeduct(w)
    <3>1. Shape(txn'[w])
      BY <2>3, DeductEffect DEF TxnShape, SameClaim, Sends
    <3> QED
      BY <2>1, <2>3, <3>1, DeductEffect
  <2>4. CASE ProcessSelect(w)
    <3>1. Shape(txn'[w])
      BY <2>4, SelectEffect DEF TxnShape, Sends
    <3> QED
      BY <2>1, <2>4, <3>1, SelectEffect
  <2>5. CASE CommitStep(w) \/ RollbackStep(w)
    <3>1. txn' = [txn EXCEPT ![w] = Idle]
      BY <2>5, CommitEffect DEF RollbackStep
    <3>2. OthersKeep(w) /\ txn'[w] = Idle
      BY <1>0, <3>1 DEF OthersKeep
    <3>3. Shape(txn'[w])
      BY <3>2, IdleHoldsNothing
    <3> QED
      BY <2>1, <3>2, <3>3
  <2>6. CASE RecordStep(w)
    <3>1. Shape(txn'[w])
      BY <2>6, RecordEffect DEF TxnShape
    <3> QED
      BY <2>1, <2>6, <3>1, RecordEffect
  <2>7. CASE AdvanceStep(w)
    <3>1. Shape(txn'[w])
      BY <2>7, AdvanceEffect DEF TxnShape, SameClaim, Sends
    <3> QED
      BY <2>1, <2>7, <3>1, AdvanceEffect
  <2> QED
    BY <1>3, <2>2, <2>3, <2>4, <2>5, <2>6, <2>7
<1> QED
  BY <1>1, <1>2, <1>3, StepKinds

\* What a transaction is about to commit stays in order.
LEMMA PreparedStep ==
    ASSUME Inductive, [Next]_vars
    PROVE  Prepared'
<1> USE DEF Inductive
<1>0. txn \in [Workers -> Txn] /\ MaxRetryAttempts \in Nat
  BY ConstantsAssumption DEF TypeOK
<1>1. CASE UNCHANGED vars
  BY <1>1 DEF Prepared, vars
<1>2. CASE BatchStep \/ \E i \in Items : LatePay(i)
  <2>1. txn' = txn
    BY <1>2, BatchEffect DEF LatePay
  <2> QED
    BY <2>1 DEF Prepared
<1>3. ASSUME NEW w \in Workers,
             \/ BeginStep(w) \/ ProcessDeduct(w) \/ ProcessSelect(w)
             \/ CommitStep(w) \/ RecordStep(w) \/ RollbackStep(w) \/ AdvanceStep(w)
      PROVE  Prepared'
  <2> DEFINE Ready(t) == /\ t.at = "refund" => t.row.status = "CANCELLED" /\ ~t.row.locked
                         /\ t.at \in {"update", "save"} =>
                               t.row.status # "PROCESSING" /\ ~t.row.locked
                         /\ \A i \in Items : t.rows[i].retry <= MaxRetryAttempts
                         /\ t.at \in Sends => \A i \in t.held \ t.todo :
                               t.rows[i].status \in {"SUCCESS", "RETRYING"}
                         /\ t.at = "edit" => \A i \in t.held :
                               t.rows[i].status \in {"CANCELLED", "SKIPPED"}
  <2>1. ASSUME OthersKeep(w), Ready(txn'[w])
        PROVE  Prepared'
    BY <2>1 DEF OthersKeep, Prepared
  <2>2. CASE BeginStep(w)
    <3>1. OthersKeep(w) /\ txn'[w].held \in SUBSET Items
      BY <2>2, BeginEffect
    <3>2. PICK s \in {"PROCESSING", "CANCELLED", "SKIPPED"} :
             /\ txn'[w].rows = Claim(txn'[w].held, s)
             /\ txn'[w].at = "edit" => s # "PROCESSING"
      BY <2>2, BeginEffect
    <3>3. /\ \A i \in Items : txn'[w].rows[i].retry <= MaxRetryAttempts
          /\ \A i \in txn'[w].held : txn'[w].rows[i].status = s
      BY <3>1, <3>2, ClaimType DEF ItemStatus
    <3>4. txn'[w].at = "refund" => txn'[w].row.status = "CANCELLED" /\ ~txn'[w].row.locked
      BY <2>2, BeginEffect DEF NeverVisiblyProcessing
    <3>4a. txn'[w].at \in {"update", "save"} =>
              txn'[w].row.status # "PROCESSING" /\ ~txn'[w].row.locked
      BY <2>2, BeginEffect DEF NeverVisiblyProcessing
    <3>5. txn'[w].at \in Sends => txn'[w].held \ txn'[w].todo = {}
      BY <2>2, BeginEffect DEF Sends
    <3>6. Ready(txn'[w])
      BY <3>2, <3>3, <3>4, <3>4a, <3>5
    <3> QED
      BY <2>1, <3>1, <3>6
  <2>3. CASE ProcessDeduct(w)
    <3>1. Ready(txn'[w])
      BY <2>3, DeductEffect DEF Prepared, SameClaim, Sends
    <3> QED
      BY <2>1, <2>3, <3>1, DeductEffect
  <2>4. CASE ProcessSelect(w)
    <3>1. /\ txn'[w].rows = Claim(txn'[w].held, "PROCESSING")
          /\ txn'[w].held \in SUBSET Items /\ txn'[w].todo = txn'[w].held
          /\ txn'[w].at = "send"
      BY <2>4, SelectEffect
    <3>2. \A i \in Items : txn'[w].rows[i].retry <= MaxRetryAttempts
      BY <3>1, ClaimType DEF ItemStatus
    <3>3. Ready(txn'[w])
      BY <3>1, <3>2
    <3> QED
      BY <2>1, <2>4, <3>3, SelectEffect
  <2>5. CASE CommitStep(w) \/ RollbackStep(w)
    <3>1. txn' = [txn EXCEPT ![w] = Idle]
      BY <2>5, CommitEffect DEF RollbackStep
    <3>2. OthersKeep(w) /\ txn'[w] = Idle
      BY <1>0, <3>1 DEF OthersKeep
    <3>3. Ready(txn'[w])
      BY <1>0, <3>2, IdleHoldsNothing DEF Sends
    <3> QED
      BY <2>1, <3>2, <3>3
  <2>6. CASE RecordStep(w)
    <3>1. PICK i \in Items :
             /\ i \in txn[w].todo /\ txn'[w].todo = txn[w].todo \ {i}
             /\ \A j \in Items \ {i} : txn'[w].rows[j] = txn[w].rows[j]
             /\ txn'[w].rows[i].retry <= MaxRetryAttempts
             /\ txn'[w].rows[i].status \in {"SUCCESS", "RETRYING"}
      BY <2>6, RecordEffect
    <3>2. /\ OthersKeep(w)
          /\ txn'[w].at = txn[w].at /\ txn[w].at \in Sends
          /\ txn'[w].held = txn[w].held /\ txn[w].held \in SUBSET Items
      BY <1>0, <2>6, RecordEffect DEF Txn
    <3>3. \A j \in Items : txn'[w].rows[j].retry <= MaxRetryAttempts
      BY <3>1 DEF Prepared
    <3>4. \A j \in txn'[w].held \ txn'[w].todo :
             txn'[w].rows[j].status \in {"SUCCESS", "RETRYING"}
      BY <3>1, <3>2 DEF Prepared
    <3>5. Ready(txn'[w])
      BY <3>2, <3>3, <3>4 DEF Sends
    <3> QED
      BY <2>1, <3>2, <3>5
  <2>7. CASE AdvanceStep(w)
    <3>1. Ready(txn'[w])
      BY <2>7, AdvanceEffect DEF Prepared, SameClaim, Sends
    <3> QED
      BY <2>1, <2>7, <3>1, AdvanceEffect
  <2> QED
    BY <1>3, <2>2, <2>3, <2>4, <2>5, <2>6, <2>7
<1> QED
  BY <1>1, <1>2, <1>3, StepKinds

\* Row locks stay exclusive: each is taken only when nobody else has it.
LEMMA LocksStep ==
    ASSUME Inductive, [Next]_vars
    PROVE  RowLocksExclusive'
<1> USE DEF Inductive
<1>0. txn \in [Workers -> Txn]
  BY DEF TypeOK
<1>1. CASE UNCHANGED vars
  BY <1>1 DEF RowLocksExclusive, HoldsBatch, HoldsWallet, vars
<1>2. CASE BatchStep \/ \E i \in Items : LatePay(i)
  <2>1. txn' = txn
    BY <1>2, BatchEffect DEF LatePay
  <2> QED
    BY <2>1 DEF RowLocksExclusive, HoldsBatch, HoldsWallet
<1>3. ASSUME NEW w \in Workers,
             \/ BeginStep(w) \/ ProcessDeduct(w) \/ ProcessSelect(w)
             \/ CommitStep(w) \/ RecordStep(w) \/ RollbackStep(w) \/ AdvanceStep(w)
      PROVE  RowLocksExclusive'
  <2> DEFINE BatchFresh  == \A v \in Workers \ {w}, b \in Batches :
                               HoldsBatch(w, b)' => ~HoldsBatch(v, b)
             ItemFresh   == \A v \in Workers \ {w} : txn'[w].held \cap txn[v].held = {}
             WalletFresh == \A v \in Workers \ {w} : HoldsWallet(w)' => ~HoldsWallet(v)
  <2>1. ASSUME OthersKeep(w), BatchFresh, ItemFresh, WalletFresh
        PROVE  RowLocksExclusive'
    BY <2>1 DEF OthersKeep, RowLocksExclusive, HoldsBatch, HoldsWallet
  <2>2. CASE BeginStep(w)
    <3>1. OthersKeep(w) /\ txn'[w].reserve = 0 /\ \A i \in txn'[w].held : ItemFree(i)
      BY <2>2, BeginEffect
    <3>2. BatchFresh
      BY <2>2, BeginEffect DEF HoldsBatch, BatchFree
    <3>3. ItemFresh
      BY <3>1 DEF ItemFree
    <3>4. WalletFresh
      BY <3>1 DEF HoldsWallet
    <3> QED
      BY <2>1, <3>1, <3>2, <3>3, <3>4
  <2>3. CASE ProcessDeduct(w)
    <3>1. /\ OthersKeep(w) /\ SameClaim(w) /\ WalletFreeFor(w)
          /\ txn[w].at = "deduct" /\ txn'[w].at = "select"
      BY <2>3, DeductEffect
    <3>2. BatchFresh
      BY <3>1 DEF SameClaim, HoldsBatch, RowLocksExclusive
    <3>3. ItemFresh
      BY <3>1 DEF SameClaim, RowLocksExclusive
    <3>4. WalletFresh
      BY <3>1 DEF WalletFreeFor
    <3> QED
      BY <2>1, <3>1, <3>2, <3>3, <3>4
  <2>4. CASE ProcessSelect(w)
    <3>1. /\ OthersKeep(w) /\ \A i \in txn'[w].held : ItemFree(i)
          /\ txn[w].at = "select" /\ txn'[w].at = "send"
          /\ txn'[w].batch = txn[w].batch /\ txn'[w].reserve = txn[w].reserve
      BY <2>4, SelectEffect
    <3>2. BatchFresh
      BY <3>1 DEF HoldsBatch, RowLocksExclusive
    <3>3. ItemFresh
      BY <3>1 DEF ItemFree
    <3>4. WalletFresh
      BY <3>1 DEF HoldsWallet, RowLocksExclusive
    <3> QED
      BY <2>1, <3>1, <3>2, <3>3, <3>4
  <2>5. CASE CommitStep(w) \/ RollbackStep(w)
    <3>1. txn' = [txn EXCEPT ![w] = Idle]
      BY <2>5, CommitEffect DEF RollbackStep
    <3>2. OthersKeep(w) /\ txn'[w] = Idle
      BY <1>0, <3>1 DEF OthersKeep
    <3>3. txn'[w].at = "idle" /\ txn'[w].held = {} /\ txn'[w].reserve = 0
      BY <3>2, IdleHoldsNothing
    <3> QED
      BY <2>1, <3>2, <3>3 DEF HoldsBatch, HoldsWallet
  <2>6. CASE RecordStep(w)
    <3>1. /\ OthersKeep(w) /\ txn'[w].at = txn[w].at /\ txn'[w].batch = txn[w].batch
          /\ txn'[w].reserve = txn[w].reserve /\ txn'[w].held = txn[w].held
      BY <2>6, RecordEffect
    <3> QED
      BY <2>1, <3>1 DEF HoldsBatch, HoldsWallet, RowLocksExclusive
  <2>7. CASE AdvanceStep(w)
    <3>1. /\ OthersKeep(w) /\ SameClaim(w) /\ txn'[w].reserve = txn[w].reserve
          /\ \/ txn[w].at = "deduct" /\ txn'[w].at = "select"
             \/ txn'[w].at = "save"
      BY <2>7, AdvanceEffect
    <3>2. BatchFresh
      BY <3>1 DEF SameClaim, HoldsBatch, RowLocksExclusive
    <3>3. ItemFresh /\ WalletFresh
      BY <3>1 DEF SameClaim, HoldsWallet, RowLocksExclusive
    <3> QED
      BY <2>1, <3>1, <3>2, <3>3
  <2> QED
    BY <1>3, <2>2, <2>3, <2>4, <2>5, <2>6, <2>7
<1> QED
  BY <1>1, <1>2, <1>3, StepKinds

\* While a session holds rows, nobody else changes what it knows of them.
LEMMA LockedRowsStep ==
    ASSUME Inductive, [Next]_vars
    PROVE  LockedRowsKept'
<1> USE DEF Inductive
<1> DEFINE Kept(t) == /\ t.at \in {"deduct", "select", "send"} => batch[t.batch].status = "PENDING"
                      /\ t.at = "refund" => batch[t.batch].status \in {"PENDING", "ON_HOLD"}
                      /\ \A i \in t.held : item[i].status \notin {"ABSENT", "SUCCESS"}
                      /\ t.at \in Sends => \A i \in t.held :
                            item[i].status = IF t.at = "send" THEN "QUEUED" ELSE "RETRYING"
<1>0. txn \in [Workers -> Txn] /\ \A w \in Workers : txn[w].held \in SUBSET Items
  BY DEF TypeOK, Txn
<1>1. CASE UNCHANGED vars
  BY <1>1 DEF LockedRowsKept, vars
<1>2. CASE \E i \in Items : LatePay(i)
  BY <1>2 DEF LockedRowsKept, LatePay
<1>3. CASE BatchStep
  <2>1. txn' = txn
    BY <1>3, BatchEffect
  <2>2. ASSUME NEW w \in Workers, txn[w].at \in {"deduct", "select", "send", "refund"}
        PROVE  /\ txn[w].batch \in Batches /\ ~BatchFree(txn[w].batch)
               /\ batch[txn[w].batch].status \in {"PENDING", "ON_HOLD"}
    BY <2>2 DEF TxnShape, LockedRowsKept, BatchFree, HoldsBatch
  <2>3. \A w \in Workers : txn[w].at \in {"deduct", "select", "send", "refund"}
           => batch'[txn[w].batch].status = batch[txn[w].batch].status
    BY <1>3, <2>2, BatchEffect
  <2>4. \A w \in Workers : \A i \in txn[w].held : item'[i] = item[i]
    BY <1>0, <1>3, BatchEffect DEF LockedRowsKept
  <2> QED
    BY <2>1, <2>3, <2>4 DEF LockedRowsKept
<1>4. ASSUME NEW w \in Workers,
             \/ BeginStep(w) \/ ProcessDeduct(w) \/ ProcessSelect(w)
             \/ RecordStep(w) \/ RollbackStep(w) \/ AdvanceStep(w)
      PROVE  LockedRowsKept'
  <2>1. ASSUME UNCHANGED <<batch, item>>, OthersKeep(w), Kept(txn'[w])
        PROVE  LockedRowsKept'
    BY <2>1 DEF OthersKeep, LockedRowsKept
  <2>2. CASE BeginStep(w)
    <3>1. UNCHANGED <<batch, item>> /\ OthersKeep(w)
      BY <2>2, BeginEffect
    <3>2. Kept(txn'[w])
      BY <2>2, BeginEffect DEF Sends
    <3> QED
      BY <2>1, <3>1, <3>2
  <2>3. CASE ProcessDeduct(w)
    <3>1. UNCHANGED <<batch, item>> /\ OthersKeep(w)
      BY <2>3, DeductEffect
    <3>2. Kept(txn'[w])
      BY <2>3, DeductEffect DEF LockedRowsKept, SameClaim, Sends
    <3> QED
      BY <2>1, <3>1, <3>2
  <2>4. CASE ProcessSelect(w)
    <3>1. UNCHANGED <<batch, item>> /\ OthersKeep(w)
      BY <2>4, SelectEffect
    <3>2. Kept(txn'[w])
      BY <2>4, SelectEffect DEF LockedRowsKept
    <3> QED
      BY <2>1, <3>1, <3>2
  <2>5. CASE RollbackStep(w)
    <3>1. UNCHANGED <<batch, item>> /\ OthersKeep(w) /\ txn'[w] = Idle
      BY <1>0, <2>5 DEF RollbackStep, OthersKeep, Committed
    <3>2. Kept(txn'[w])
      BY <3>1, IdleHoldsNothing DEF Sends
    <3> QED
      BY <2>1, <3>1, <3>2
  <2>6. CASE RecordStep(w)
    <3>1. UNCHANGED <<batch, item>> /\ OthersKeep(w)
      BY <2>6, RecordEffect DEF Committed
    <3>2. txn'[w].at = txn[w].at /\ txn'[w].batch = txn[w].batch /\ txn'[w].held = txn[w].held
      BY <2>6, RecordEffect
    <3>3. Kept(txn'[w])
      BY <3>2 DEF LockedRowsKept
    <3> QED
      BY <2>1, <3>1, <3>3
  <2>7. CASE AdvanceStep(w)
    <3>1. UNCHANGED <<batch, item>> /\ OthersKeep(w)
      BY <2>7, AdvanceEffect
    <3>2. Kept(txn'[w])
      BY <2>7, AdvanceEffect DEF LockedRowsKept, SameClaim, Sends
    <3> QED
      BY <2>1, <3>1, <3>2
  <2> QED
    BY <1>4, <2>2, <2>3, <2>4, <2>5, <2>6, <2>7
<1>5. ASSUME NEW w \in Workers, CommitStep(w)
      PROVE  LockedRowsKept'
  <2>1. /\ txn'[w].at = "idle" /\ txn'[w].held = {}
        /\ \A v \in Workers \ {w} : txn'[v] = txn[v]
    BY <1>0, <1>5, CommitEffect, IdleHoldsNothing
  <2>2. ASSUME NEW v \in Workers \ {w}, txn[v].at \in {"deduct", "select", "send", "refund"}
        PROVE  batch'[txn[v].batch].status = batch[txn[v].batch].status
    <3>1. txn[v].batch \in Batches /\ HoldsBatch(v, txn[v].batch)
      BY <2>2 DEF TxnShape, HoldsBatch
    <3>2. ~HoldsBatch(w, txn[v].batch)
      BY <3>1 DEF RowLocksExclusive
    <3>3. ~Saves(w, txn[v].batch)
      BY <1>5, <3>1, CommitEffect DEF BatchFree
    <3> QED
      BY <1>5, <3>1, <3>2, <3>3, CommitEffect
  <2>3. ASSUME NEW v \in Workers \ {w}, NEW i \in txn[v].held
        PROVE  item'[i] = item[i]
    <3>1. i \in Items /\ i \notin txn[w].held
      BY <1>0, <2>3 DEF RowLocksExclusive
    <3> QED
      BY <1>5, <3>1, CommitEffect DEF ItemsSeenBy
  <2> QED
    BY <2>1, <2>2, <2>3 DEF LockedRowsKept, Sends
<1> QED
  BY <1>1, <1>2, <1>3, <1>4, <1>5, StepKinds

\* PROCESSING is written and overwritten inside one transaction.
LEMMA VisibilityStep ==
    ASSUME Inductive, [Next]_vars
    PROVE  NeverVisiblyProcessing'
<1> USE DEF Inductive
<1>1. CASE UNCHANGED <<batch, item>>
  BY <1>1 DEF NeverVisiblyProcessing
<1>2. CASE BatchStep
  <2>1. \A b \in Batches : batch'[b].status # "PROCESSING" /\ ~batch'[b].locked
    BY <1>2, BatchEffect DEF NeverVisiblyProcessing
  <2>2. \A i \in Items : item'[i].status # "PROCESSING"
    BY <1>2, BatchEffect DEF NeverVisiblyProcessing
  <2> QED
    BY <2>1, <2>2 DEF NeverVisiblyProcessing
<1>3. ASSUME NEW w \in Workers, CommitStep(w)
      PROVE  NeverVisiblyProcessing'
  <2>0. \A b \in Batches : Saves(w, b) =>
           batch'[b].status # "PROCESSING" /\ ~batch'[b].locked
    BY <1>3, CommitEffect DEF Saves, Prepared
  <2>1. \A b \in Batches : batch'[b].status # "PROCESSING" /\ ~batch'[b].locked
    BY <1>3, <2>0, CommitEffect DEF NeverVisiblyProcessing, Finished
  <2>2. \A i \in txn[w].held : txn[w].rows[i].status # "PROCESSING"
    <3>1. txn[w].held \in SUBSET Items /\ txn[w].todo = {}
      BY <1>3, CommitEffect DEF TypeOK, Txn
    <3>2. CASE txn[w].at \in Sends \cup {"edit"}
      BY <3>1, <3>2 DEF Prepared
    <3>3. CASE txn[w].at \notin Sends \cup {"edit"}
      BY <3>3 DEF TxnShape
    <3> QED
      BY <3>2, <3>3
  <2>3. \A i \in Items : item'[i].status # "PROCESSING"
    BY <1>3, <2>2, CommitEffect DEF ItemsSeenBy, NeverVisiblyProcessing
  <2> QED
    BY <2>1, <2>3 DEF NeverVisiblyProcessing
<1>4. ASSUME NEW w \in Workers,
             \/ BeginStep(w) \/ ProcessDeduct(w) \/ ProcessSelect(w)
             \/ RecordStep(w) \/ RollbackStep(w) \/ AdvanceStep(w)
      PROVE  UNCHANGED <<batch, item>>
  BY <1>4, BeginEffect, DeductEffect, SelectEffect DEF RecordStep, RollbackStep, AdvanceStep, Committed
<1>5. UNCHANGED vars \/ (\E i \in Items : LatePay(i)) => UNCHANGED <<batch, item>>
  BY DEF vars, LatePay
<1> QED
  BY <1>1, <1>2, <1>3, <1>4, <1>5, StepKinds

\* FAILED comes with a count that the table refuses: it is never committed.
LEMMA FailedStep ==
    ASSUME Inductive, [Next]_vars
    PROVE  FailedIsNeverRecorded'
<1> USE DEF Inductive
<1>1. CASE item' = item
  BY <1>1 DEF FailedIsNeverRecorded
<1>2. CASE BatchStep
  <2>1. \A i \in Items : item'[i].status # "FAILED"
    BY <1>2, BatchEffect DEF FailedIsNeverRecorded
  <2> QED
    BY <2>1 DEF FailedIsNeverRecorded
<1>3. ASSUME NEW w \in Workers, CommitStep(w)
      PROVE  FailedIsNeverRecorded'
  <2>1. txn[w].held \in SUBSET Items /\ txn[w].todo = {}
    BY <1>3, CommitEffect DEF TypeOK, Txn
  <2>2. \A i \in txn[w].held : txn[w].rows[i].status # "FAILED"
    <3>1. CASE txn[w].at \in Sends \cup {"edit"}
      BY <2>1, <3>1 DEF Prepared
    <3>2. CASE txn[w].at \notin Sends \cup {"edit"}
      BY <3>2 DEF TxnShape
    <3> QED
      BY <3>1, <3>2
  <2>3. \A i \in Items : item'[i].status # "FAILED"
    BY <1>3, <2>2, CommitEffect DEF ItemsSeenBy, FailedIsNeverRecorded
  <2> QED
    BY <2>3 DEF FailedIsNeverRecorded
<1>4. ASSUME NEW w \in Workers,
             \/ BeginStep(w) \/ ProcessDeduct(w) \/ ProcessSelect(w)
             \/ RecordStep(w) \/ RollbackStep(w) \/ AdvanceStep(w)
      PROVE  item' = item
  BY <1>4, BeginEffect, DeductEffect, SelectEffect DEF RecordStep, RollbackStep, AdvanceStep, Committed
<1>5. UNCHANGED vars \/ (\E i \in Items : LatePay(i)) => item' = item
  BY DEF vars, LatePay
<1> QED
  BY <1>1, <1>2, <1>3, <1>4, <1>5, StepKinds

\* What the gateway paid it has paid for ever.
LEMMA PaymentsStay ==
    ASSUME TypeOK, Prepared, TxnShape, RowLocksExclusive, WalletNeverStale, [Next]_vars
    PROVE  \A i \in Items : gateway[i].paid > 0 => gateway'[i].paid > 0
<1>0. gateway \in [Items -> GatewayRow] /\ \A i \in Items : gateway[i].paid \in Nat
  BY DEF TypeOK, GatewayRow
<1>1. ASSUME NEW i \in Items, Asked(i)
      PROVE  \A j \in Items : gateway[j].paid > 0 => gateway'[j].paid > 0
  BY <1>0, <1>1 DEF Asked, GatewayRow
<1>2. ASSUME NEW i \in Items, LatePay(i)
      PROVE  \A j \in Items : gateway[j].paid > 0 => gateway'[j].paid > 0
  <2>1. Answered(i) \in GatewayRow
    BY <1>0, <1>2 DEF LatePay, Answered, GatewayRow
  <2>2. Disburse(Answered(i)).paid > 0
    BY <2>1, DisburseType
  <2> QED
    BY <1>0, <1>2, <2>2 DEF LatePay
<1>3. ASSUME NEW w \in Workers,
             BeginStep(w) \/ ProcessDeduct(w) \/ ProcessSelect(w) \/ CommitStep(w)
      PROVE  gateway' = gateway
  BY <1>3, BeginEffect, DeductEffect, SelectEffect, CommitEffect
<1>4. UNCHANGED vars \/ BatchStep => gateway' = gateway
  BY BatchEffect DEF vars
<1> QED
  BY <1>1, <1>2, <1>3, <1>4, StepKinds DEF RecordStep, RollbackStep, AdvanceStep

\* A SUCCESS, recorded or about to be, keeps its payment and its reference.
LEMMA SuccessStep ==
    ASSUME Inductive, [Next]_vars
    PROVE  SuccessImpliesPaid'
<1> USE DEF Inductive
<1> DEFINE Backed(row, i) == row.status = "SUCCESS" => gateway'[i].paid > 0 /\ row.ref
<1>0. /\ txn \in [Workers -> Txn]
      /\ \A w \in Workers : txn[w].held \in SUBSET Items
      /\ \A i \in Items : gateway[i].paid > 0 => gateway'[i].paid > 0
  BY PaymentsStay DEF TypeOK, Txn
<1>1. /\ \A i \in Items : Backed(item[i], i)
      /\ \A w \in Workers : \A i \in txn[w].held : Backed(txn[w].rows[i], i)
  BY <1>0 DEF SuccessImpliesPaid
<1>2. CASE UNCHANGED vars \/ \E i \in Items : LatePay(i)
  <2>1. UNCHANGED <<item, txn>>
    BY <1>2 DEF vars, LatePay
  <2> QED
    BY <1>1, <2>1 DEF SuccessImpliesPaid
<1>3. CASE BatchStep
  <2>1. txn' = txn /\ \A i \in Items : item'[i] = item[i] \/ item'[i].status = "QUEUED"
    BY <1>3, BatchEffect
  <2> QED
    BY <1>1, <2>1 DEF SuccessImpliesPaid
<1>4. ASSUME NEW w \in Workers,
             \/ BeginStep(w) \/ ProcessDeduct(w) \/ ProcessSelect(w)
             \/ RecordStep(w) \/ RollbackStep(w) \/ AdvanceStep(w)
      PROVE  SuccessImpliesPaid'
  <2>1. ASSUME item' = item, OthersKeep(w),
               \A i \in txn'[w].held : Backed(txn'[w].rows[i], i)
        PROVE  SuccessImpliesPaid'
    BY <1>1, <2>1 DEF OthersKeep, SuccessImpliesPaid
  <2>2. CASE BeginStep(w)
    <3>1. PICK s \in {"PROCESSING", "CANCELLED", "SKIPPED"} :
             txn'[w].rows = Claim(txn'[w].held, s)
      BY <2>2, BeginEffect
    <3>2. item' = item /\ OthersKeep(w) /\ txn'[w].held \in SUBSET Items
      BY <2>2, BeginEffect
    <3>3. \A i \in txn'[w].held : txn'[w].rows[i].status # "SUCCESS"
      BY <3>1, <3>2, ClaimType DEF ItemStatus
    <3> QED
      BY <2>1, <3>2, <3>3
  <2>3. CASE ProcessDeduct(w)
    BY <1>1, <2>1, <2>3, DeductEffect DEF SameClaim
  <2>4. CASE ProcessSelect(w)
    <3>1. /\ item' = item /\ OthersKeep(w) /\ txn'[w].held \in SUBSET Items
          /\ txn'[w].rows = Claim(txn'[w].held, "PROCESSING")
      BY <2>4, SelectEffect
    <3>2. \A i \in txn'[w].held : txn'[w].rows[i].status # "SUCCESS"
      BY <3>1, ClaimType DEF ItemStatus
    <3> QED
      BY <2>1, <3>1, <3>2
  <2>5. CASE RecordStep(w)
    <3>1. PICK i \in Items :
             /\ \A j \in Items \ {i} : txn'[w].rows[j] = txn[w].rows[j]
             /\ Backed(txn'[w].rows[i], i)
      BY <2>5, RecordEffect
    <3>2. item' = item /\ OthersKeep(w) /\ txn'[w].held = txn[w].held
      BY <2>5, RecordEffect DEF Committed
    <3>3. \A j \in txn'[w].held : Backed(txn'[w].rows[j], j)
      BY <1>0, <1>1, <3>1, <3>2
    <3> QED
      BY <2>1, <3>2, <3>3
  <2>6. CASE RollbackStep(w)
    <3>1. item' = item /\ OthersKeep(w) /\ txn'[w].held = {}
      BY <1>0, <2>6, IdleHoldsNothing DEF RollbackStep, OthersKeep, Committed
    <3> QED
      BY <2>1, <3>1
  <2>7. CASE AdvanceStep(w)
    BY <1>1, <2>1, <2>7, AdvanceEffect DEF SameClaim
  <2> QED
    BY <1>4, <2>2, <2>3, <2>4, <2>5, <2>6, <2>7
<1>5. ASSUME NEW w \in Workers, CommitStep(w)
      PROVE  SuccessImpliesPaid'
  <2>1. \A i \in Items : Backed(item'[i], i)
    BY <1>1, <1>5, CommitEffect DEF ItemsSeenBy
  <2>2. /\ \A v \in Workers \ {w} : txn'[v] = txn[v]
        /\ txn'[w].held = {}
    BY <1>0, <1>5, CommitEffect, IdleHoldsNothing
  <2> QED
    BY <1>1, <2>1, <2>2 DEF SuccessImpliesPaid
<1> QED
  BY <1>2, <1>3, <1>4, <1>5, StepKinds

\* The wallet changes only when nobody else has it locked.
LEMMA WalletStep ==
    ASSUME Inductive, [Next]_vars
    PROVE  WalletNeverStale'
<1> USE DEF Inductive
<1> DEFINE Fresh(t, m) == t.reserve > 0 => t.purse = m - t.reserve /\ t.purse >= 0
<1>0. txn \in [Workers -> Txn]
  BY DEF TypeOK
<1>1. balance >= 0 /\ \A w \in Workers : Fresh(txn[w], balance)
  BY DEF WalletNeverStale, HoldsWallet
<1>2. CASE UNCHANGED <<balance, txn>>
  BY <1>1, <1>2 DEF WalletNeverStale, HoldsWallet
<1>3. ASSUME NEW w \in Workers,
             \/ BeginStep(w) \/ ProcessDeduct(w) \/ ProcessSelect(w)
             \/ RecordStep(w) \/ RollbackStep(w) \/ AdvanceStep(w)
      PROVE  WalletNeverStale'
  <2>1. ASSUME balance' = balance, OthersKeep(w), Fresh(txn'[w], balance)
        PROVE  WalletNeverStale'
    BY <1>1, <2>1 DEF OthersKeep, WalletNeverStale, HoldsWallet
  <2>2. CASE BeginStep(w)
    BY <2>1, <2>2, BeginEffect
  <2>3. CASE ProcessDeduct(w)
    BY <2>1, <2>3, DeductEffect
  <2>4. CASE ProcessSelect(w)
    BY <1>1, <2>1, <2>4, SelectEffect
  <2>5. CASE RecordStep(w)
    BY <1>1, <2>1, <2>5, RecordEffect DEF Committed
  <2>6. CASE RollbackStep(w)
    <3>1. balance' = balance /\ OthersKeep(w) /\ txn'[w].reserve = 0
      BY <1>0, <2>6, IdleHoldsNothing DEF RollbackStep, OthersKeep, Committed
    <3> QED
      BY <2>1, <3>1
  <2>7. CASE AdvanceStep(w)
    BY <1>1, <2>1, <2>7, AdvanceEffect
  <2> QED
    BY <1>3, <2>2, <2>3, <2>4, <2>5, <2>6, <2>7
<1>4. ASSUME NEW w \in Workers, CommitStep(w)
      PROVE  WalletNeverStale'
  <2>1. /\ \A v \in Workers \ {w} : txn'[v] = txn[v]
        /\ txn'[w].reserve = 0
    BY <1>0, <1>4, CommitEffect, IdleHoldsNothing
  <2>2. \A v \in Workers \ {w} : Fresh(txn[v], balance')
    BY <1>1, <1>4, CommitEffect DEF HoldsWallet, TypeOK, Txn
  <2> QED
    BY <1>4, <2>1, <2>2, CommitEffect DEF WalletNeverStale, HoldsWallet
<1>5. UNCHANGED vars \/ BatchStep \/ (\E i \in Items : LatePay(i)) => UNCHANGED <<balance, txn>>
  BY BatchEffect DEF vars, LatePay
<1> QED
  BY <1>2, <1>3, <1>4, <1>5, StepKinds

\* Nothing is paid late that was not asked for.
LEMMA LateStep ==
    ASSUME Inductive, [Next]_vars
    PROVE  LateWasAsked'
<1> USE DEF Inductive
<1>0. gateway \in [Items -> GatewayRow]
  BY DEF TypeOK
<1>1. CASE gateway' = gateway
  BY <1>1 DEF LateWasAsked
<1>2. ASSUME NEW i \in Items, Asked(i)
      PROVE  LateWasAsked'
  BY <1>0, <1>2 DEF Asked, LateWasAsked
<1>3. ASSUME NEW i \in Items, LatePay(i)
      PROVE  LateWasAsked'
  <2>1. Answered(i) \in GatewayRow /\ Answered(i).sends = gateway[i].sends
    BY <1>0, <1>3 DEF LatePay, Answered, GatewayRow
  <2>2. gateway'[i].sends = gateway[i].sends /\ gateway[i].sends > 0
    BY <1>0, <1>3, <2>1, DisburseType DEF LatePay, LateWasAsked
  <2> QED
    BY <1>0, <1>3, <2>2 DEF LatePay, LateWasAsked
<1>4. ASSUME NEW w \in Workers,
             BeginStep(w) \/ ProcessDeduct(w) \/ ProcessSelect(w) \/ CommitStep(w)
      PROVE  gateway' = gateway
  BY <1>4, BeginEffect, DeductEffect, SelectEffect, CommitEffect
<1>5. UNCHANGED vars \/ BatchStep => gateway' = gateway
  BY BatchEffect DEF vars
<1> QED
  BY <1>1, <1>2, <1>3, <1>4, <1>5, StepKinds DEF RecordStep, RollbackStep, AdvanceStep

\* The invariant holds at the start ...
LEMMA InitInductive == Init => Inductive
<1> SUFFICES ASSUME Init PROVE Inductive
  OBVIOUS
<1>1. /\ batch = [b \in Batches |-> NoRow] /\ item = [i \in Items |-> NoItem]
      /\ txn = [w \in Workers |-> Idle] /\ balance = InitialBalance
  BY DEF Init
<1>2. NoRow \in BatchRow /\ NoRow.status = "ABSENT" /\ ~NoRow.locked
  BY DEF NoRow, BatchRow
<1>3. NoItem \in ItemRow /\ NoItem.status = "ABSENT" /\ NoItem.retry = 0
  BY DEF NoItem, ItemRow
<1>4. TypeOK
  BY <1>1, <1>2, <1>3, IdleType, ConstantsAssumption DEF Init, TypeOK, BridgeRow, GatewayRow
<1>5. TxnShape /\ Prepared /\ LockedRowsKept
  BY <1>1, IdleHoldsNothing, ConstantsAssumption DEF TxnShape, Prepared, LockedRowsKept, Sends
<1>6. RowLocksExclusive
  BY <1>1, IdleHoldsNothing DEF RowLocksExclusive, HoldsBatch, HoldsWallet
<1>7. NeverVisiblyProcessing /\ FailedIsNeverRecorded
  BY <1>1, <1>2, <1>3 DEF NeverVisiblyProcessing, FailedIsNeverRecorded
<1>8. SuccessImpliesPaid
  BY <1>1, <1>3, IdleHoldsNothing DEF SuccessImpliesPaid
<1>9. WalletNeverStale
  BY <1>1, IdleHoldsNothing, ConstantsAssumption DEF WalletNeverStale, HoldsWallet
<1>10. LateWasAsked
  BY DEF Init, LateWasAsked
<1> QED
  BY <1>4, <1>5, <1>6, <1>7, <1>8, <1>9, <1>10 DEF Inductive

\* ... and is kept by every step.
LEMMA NextInductive ==
    ASSUME Inductive, [Next]_vars
    PROVE  Inductive'
<1>1. TypeOK /\ Prepared /\ TxnShape
  BY DEF Inductive
<1> QED
  BY <1>1, TypeStep, ShapeStep, PreparedStep, LockedRowsStep, LocksStep, VisibilityStep,
     FailedStep, SuccessStep, WalletStep, LateStep DEF Inductive

\* So it holds for ever: everything below follows from it.
THEOREM InductiveInvariance == Spec => []Inductive
<1>1. Inductive /\ [Next]_vars => Inductive'
  BY NextInductive
<1> QED
  BY InitInductive, <1>1, PTL DEF Spec

-----------------------------------------------------------------------------
(* What follows *)

\* Rows keep their types, and retry_count keeps within its CheckConstraint,
\* whatever mark_failed computes.
THEOREM TypeCorrect == Spec => []TypeOK
<1>1. Inductive => TypeOK
  BY DEF Inductive
<1> QED
  BY InductiveInvariance, <1>1, PTL

\* Nobody ever sees a batch or an item PROCESSING, or an advisory lock set.
THEOREM ProcessingInvisible == Spec => []NeverVisiblyProcessing
<1>1. Inductive => NeverVisiblyProcessing
  BY DEF Inductive
<1> QED
  BY InductiveInvariance, <1>1, PTL

\* No two sessions hold the same batch, item or wallet row.
THEOREM LocksExclusive == Spec => []RowLocksExclusive
<1>1. Inductive => RowLocksExclusive
  BY DEF Inductive
<1> QED
  BY InductiveInvariance, <1>1, PTL

\* An item is QUEUED or RETRYING for everyone else while it is being sent.
THEOREM InFlightSafe == Spec => []InFlightUndisturbed
<1>1. Inductive => InFlightUndisturbed
  BY DEF Inductive, TypeOK, Txn, TxnShape, LockedRowsKept, InFlightUndisturbed, Sends
<1> QED
  BY InductiveInvariance, <1>1, PTL

\* What the platform records as SUCCESS, the gateway paid.
THEOREM SuccessBacked == Spec => []SuccessImpliesPaid
<1>1. Inductive => SuccessImpliesPaid
  BY DEF Inductive
<1> QED
  BY InductiveInvariance, <1>1, PTL

\* An item that cannot be paid stays RETRYING: none is ever FAILED.
THEOREM NoItemFails == Spec => []FailedIsNeverRecorded
<1>1. Inductive => FailedIsNeverRecorded
  BY DEF Inductive
<1> QED
  BY InductiveInvariance, <1>1, PTL

\* No update of the wallet is lost and no reservation overdraws it, however
\* many batches of however many items reserve at once.
THEOREM WalletSafe == Spec => []WalletNeverStale
<1>1. Inductive => WalletNeverStale
  BY DEF Inductive
<1> QED
  BY InductiveInvariance, <1>1, PTL

\* Row locks never deadlock, however many sessions wait for them.
THEOREM LocksNeverDeadlock == Spec => []NoCircularWait
<1>1. Inductive => NoCircularWait
  <2> SUFFICES ASSUME Inductive, NEW w \in Workers, Waits(w)
               PROVE  \E v \in Workers :
                         /\ ~Waits(v)
                         /\ \/ WaitsFor(w, v)
                            \/ \E u \in Workers : WaitsFor(w, u) /\ WaitsFor(u, v)
    BY DEF NoCircularWait
  <2> USE DEF Inductive
  <2>1. ASSUME NEW v \in Workers, HoldsWallet(v) PROVE ~Waits(v)
    <3>1. \A u \in Workers \ {v} : ~HoldsWallet(u)
      BY <2>1 DEF RowLocksExclusive
    <3>2. txn[v].at \notin {"refresh", "save"}
      BY <2>1 DEF TxnShape, HoldsWallet
    <3> QED
      BY <3>1, <3>2 DEF Waits, WaitsFor
  <2>2. PICK v \in Workers : WaitsFor(w, v)
    BY DEF Waits
  <2>3. CASE HoldsWallet(v) \/ ~Waits(v)
    BY <2>1, <2>2, <2>3
  <2>4. CASE ~HoldsWallet(v) /\ Waits(v)
    <3>1. txn[v].at \notin {"refresh", "save"}
      BY <2>2, <2>4 DEF WaitsFor, HoldsBatch
    <3>2. PICK u \in Workers : WaitsFor(v, u)
      BY <2>4 DEF Waits
    <3>3. HoldsWallet(u)
      BY <3>1, <3>2 DEF WaitsFor
    <3> QED
      BY <2>1, <2>2, <3>2, <3>3
  <2> QED
    BY <2>3, <2>4
<1> QED
  BY InductiveInvariance, <1>1, PTL

\* A commit by w that changes a closed batch saves an older copy over it, or
\* writes a total that was added up before: w cannot hold its row.
LEMMA ClosedCommit ==
    ASSUME Inductive, NEW w \in Workers, CommitStep(w),
           NEW b \in Batches, batch[b].status \in Closed
    PROVE  /\ batch'[b].status # batch[b].status => UpdateSaved(b)
           /\ batch'[b].total # batch[b].total =>
                 UpdateSaved(b) \/ (txn[w].at = "refresh" /\ txn[w].batch = b)
           /\ txn'[w].at = "idle"
<1> USE DEF Inductive
<1>1. ~HoldsBatch(w, b)
  BY DEF HoldsBatch, LockedRowsKept, Closed
<1>2. txn'[w].at = "idle"
  BY CommitEffect, IdleHoldsNothing DEF TypeOK
<1>3. CASE Saves(w, b)
  <2>1. batch'[b] = txn[w].row
    BY <1>3, CommitEffect
  <2> QED
    BY <1>2, <1>3, <2>1 DEF Saves, UpdateSaved
<1>4. CASE ~Saves(w, b)
  <2>1. batch'[b].status = batch[b].status
    BY <1>1, <1>4, CommitEffect
  <2>2. batch'[b].total # batch[b].total => txn[w].at = "refresh" /\ txn[w].batch = b
    BY <1>1, <1>4, CommitTotals
  <2> QED
    BY <1>2, <2>1, <2>2
<1> QED
  BY <1>3, <1>4

\* Steps that are no commit leave closed batches as they are.
LEMMA ClosedElsewhere ==
    ASSUME Inductive, [Next]_vars, ~\E w \in Workers : CommitStep(w),
           NEW b \in Batches, batch[b].status \in Closed
    PROVE  batch'[b].status = batch[b].status /\ batch'[b].total = batch[b].total
<1> USE DEF Inductive
<1>1. CASE BatchStep
  BY <1>1, BatchEffect DEF Closed
<1>2. ASSUME NEW w \in Workers,
             \/ BeginStep(w) \/ ProcessDeduct(w) \/ ProcessSelect(w)
             \/ RecordStep(w) \/ RollbackStep(w) \/ AdvanceStep(w)
      PROVE  batch' = batch
  BY <1>2, BeginEffect, DeductEffect, SelectEffect
     DEF RecordStep, RollbackStep, AdvanceStep, Committed
<1>3. UNCHANGED vars \/ (\E i \in Items : LatePay(i)) => batch' = batch
  BY DEF vars, LatePay
<1> QED
  BY <1>1, <1>2, <1>3, StepKinds

\* No worker, cancellation, hold, resume or refresh takes a batch out of COMPLETED,
\* PARTIALLY_COMPLETED or CANCELLED: only a PUT or PATCH that loaded it earlier does.
THEOREM ClosedStaysClosed == Spec => ClosedBatchIsFinal
<1> DEFINE Kept == \A b \in Batches :
                      batch[b].status \in Closed /\ batch'[b].status # batch[b].status
                      => UpdateSaved(b)
<1>1. Inductive /\ [Next]_vars => [Kept]_vars
  BY ClosedCommit, ClosedElsewhere
<1> HIDE DEF Kept
<1>2. Spec => [][Kept]_vars
  BY InductiveInvariance, <1>1, PTL DEF Spec
<1> QED
  BY <1>2 DEF Kept, ClosedBatchIsFinal

\* The total of a closed batch is overwritten by refresh_batch_totals and by a PUT
\* or PATCH that loaded another total, and by nothing else.
THEOREM TotalsOnlyRefreshed == Spec => TotalsOfClosedBatches
<1> DEFINE Kept == \A b \in Batches :
                      batch[b].status \in Closed /\ batch'[b].total # batch[b].total
                      => \/ UpdateSaved(b)
                         \/ \E w \in Workers : /\ txn[w].at = "refresh" /\ txn[w].batch = b
                                               /\ txn'[w].at = "idle"
<1>1. Inductive /\ [Next]_vars => [Kept]_vars
  BY ClosedCommit, ClosedElsewhere
<1> HIDE DEF Kept
<1>2. Spec => [][Kept]_vars
  BY InductiveInvariance, <1>1, PTL DEF Spec
<1> QED
  BY <1>2 DEF Kept, TotalsOfClosedBatches

-----------------------------------------------------------------------------
(* started_at tells whether a batch was reserved for *)

\* What an open transaction knows of its batch's reservation: a run of a
\* tenant's batch gets past the wallet with a reservation, or without a wallet; a
\* cancellation commits the started_at that it read under the batch's lock.
Charged ==
    \A w \in Workers :
        /\ txn[w].at \in {"deduct", "select", "send"} => txn[w].row.started
        /\ txn[w].at \in {"select", "send"} /\ txn[w].batch \in Tenanted =>
              (WalletInstalled <=> txn[w].reserve > 0)
        /\ txn[w].at = "refund" => (txn[w].row.started <=> batch[txn[w].batch].started)

Reservations == Charged /\ StartedIffReserved

\* A step keeps what open transactions know of their batches.
LEMMA ChargedStep ==
    ASSUME Inductive, Charged, [Next]_vars
    PROVE  Charged'
<1> USE DEF Inductive
<1> DEFINE Knows(t) ==
              /\ t.at \in {"deduct", "select", "send"} => t.row.started
              /\ t.at \in {"select", "send"} /\ t.batch \in Tenanted =>
                    (WalletInstalled <=> t.reserve > 0)
              /\ t.at = "refund" => (t.row.started <=> batch[t.batch].started)
<1>0. txn \in [Workers -> Txn]
  BY DEF TypeOK
<1>1. CASE UNCHANGED vars \/ \E i \in Items : LatePay(i)
  <2>1. UNCHANGED <<batch, txn>>
    BY <1>1 DEF vars, LatePay
  <2> QED
    BY <2>1 DEF Charged
<1>2. CASE BatchStep
  <2>1. txn' = txn /\ \A b \in Batches : batch'[b].started <=> batch[b].started
    BY <1>2, BatchEffect
  <2> QED
    BY <2>1 DEF Charged, TxnShape
<1>3. ASSUME NEW w \in Workers,
             \/ BeginStep(w) \/ ProcessDeduct(w) \/ ProcessSelect(w)
             \/ RecordStep(w) \/ RollbackStep(w) \/ AdvanceStep(w)
      PROVE  Charged'
  <2>1. ASSUME batch' = batch, OthersKeep(w), Knows(txn'[w])
        PROVE  Charged'
    BY <2>1 DEF OthersKeep, Charged
  <2>2. CASE BeginStep(w)
    <3>1. batch' = batch /\ OthersKeep(w)
      BY <2>2, BeginEffect
    <3>2. Knows(txn'[w])
      BY <2>2, BeginEffect
    <3> QED
      BY <2>1, <3>1, <3>2
  <2>3. CASE ProcessDeduct(w)
    <3>1. batch' = batch /\ OthersKeep(w)
      BY <2>3, DeductEffect
    <3>2. Knows(txn'[w])
      BY <2>3, DeductEffect DEF Charged, SameClaim
    <3> QED
      BY <2>1, <3>1, <3>2
  <2>4. CASE ProcessSelect(w)
    <3>1. batch' = batch /\ OthersKeep(w)
      BY <2>4, SelectEffect
    <3>2. Knows(txn'[w])
      BY <2>4, SelectEffect DEF Charged
    <3> QED
      BY <2>1, <3>1, <3>2
  <2>5. CASE RecordStep(w)
    <3>1. batch' = batch /\ OthersKeep(w)
      BY <2>5, RecordEffect DEF Committed
    <3>2. Knows(txn'[w])
      BY <2>5, RecordEffect DEF Charged, Sends
    <3> QED
      BY <2>1, <3>1, <3>2
  <2>6. CASE RollbackStep(w)
    <3>1. batch' = batch /\ OthersKeep(w) /\ txn'[w].at = "idle"
      BY <1>0, <2>6, IdleHoldsNothing DEF RollbackStep, OthersKeep, Committed
    <3> QED
      BY <2>1, <3>1
  <2>7. CASE AdvanceStep(w)
    <3>1. batch' = batch /\ OthersKeep(w)
      BY <2>7, AdvanceEffect
    <3>2. Knows(txn'[w])
      <4>1. txn'[w].at = "select" => txn[w].at = "deduct" /\ ~WalletInstalled
        BY <2>7, AdvanceEffect
      <4>2. txn[w].at = "deduct" => txn[w].reserve = 0
        BY DEF TxnShape
      <4> QED
        BY <2>7, <4>1, <4>2, AdvanceEffect DEF Charged, SameClaim
    <3> QED
      BY <2>1, <3>1, <3>2
  <2> QED
    BY <1>3, <2>2, <2>3, <2>4, <2>5, <2>6, <2>7
<1>4. ASSUME NEW w \in Workers, CommitStep(w)
      PROVE  Charged'
  <2>1. txn'[w].at = "idle" /\ \A v \in Workers \ {w} : txn'[v] = txn[v]
    BY <1>0, <1>4, CommitEffect, IdleHoldsNothing
  <2>2. ASSUME NEW v \in Workers \ {w}, txn[v].at = "refund"
        PROVE  batch'[txn[v].batch].started <=> batch[txn[v].batch].started
    <3>1. txn[v].batch \in Batches /\ HoldsBatch(v, txn[v].batch)
      BY <2>2 DEF TxnShape, HoldsBatch
    <3>2. ~HoldsBatch(w, txn[v].batch)
      BY <3>1 DEF RowLocksExclusive
    <3>3. ~Saves(w, txn[v].batch)
      BY <1>4, <3>1, CommitEffect DEF BatchFree
    <3> QED
      BY <1>4, <3>1, <3>2, <3>3, CommitTotals
  <2> QED
    BY <2>1, <2>2 DEF Charged
<1> QED
  BY <1>1, <1>2, <1>3, <1>4, StepKinds

\* started_at and the reservation of a batch are committed together; a save that
\* brings an older started_at back is counted.
LEMMA ReservedStep ==
    ASSUME Inductive, Charged, StartedIffReserved, [Next]_vars
    PROVE  StartedIffReserved'
<1> USE DEF Inductive
<1>1. ASSUME UNCHANGED <<bridge, overwritten>>,
             \A b \in Batches : batch'[b].started <=> batch[b].started
      PROVE  StartedIffReserved'
  BY <1>1, ConstantsAssumption DEF StartedIffReserved
<1>2. BatchStep => UNCHANGED <<bridge, overwritten>> /\ \A b \in Batches : batch'[b].started <=> batch[b].started
  BY BatchEffect
<1>3. ASSUME NEW w \in Workers,
             \/ BeginStep(w) \/ ProcessDeduct(w) \/ ProcessSelect(w)
             \/ RecordStep(w) \/ RollbackStep(w) \/ AdvanceStep(w)
      PROVE  UNCHANGED <<batch, bridge, overwritten>>
  BY <1>3, BeginEffect, DeductEffect, SelectEffect DEF RecordStep, RollbackStep, AdvanceStep, Committed
<1>4. UNCHANGED vars \/ (\E i \in Items : LatePay(i)) => UNCHANGED <<batch, bridge, overwritten>>
  BY DEF vars, LatePay
<1>5. ASSUME NEW w \in Workers, CommitStep(w)
      PROVE  StartedIffReserved'
  <2>0. \A b \in Batches : HoldsBatch(w, b) => txn[w].at \in {"send", "refund"}
    BY <1>5, CommitTotals
  <2>1. ASSUME NEW b \in Tenanted, overwritten'[b] = 0
        PROVE  batch'[b].started /\ WalletInstalled <=> bridge'[b].reserved > 0
    <3>0. b \in Batches /\ bridge[b].reserved \in Nat /\ txn[w].reserve \in Nat
      BY ConstantsAssumption DEF TypeOK, BridgeRow, Txn
    <3>0a. overwritten[b] = 0 /\ (Saves(w, b) => batch'[b] = batch[b])
      BY <1>5, <2>1, <3>0, CommitTotals
    <3>1. CASE ~HoldsBatch(w, b)
      <4>1. /\ batch'[b].started <=> batch[b].started
            /\ bridge'[b].reserved = bridge[b].reserved
        BY <1>5, <3>0, <3>0a, <3>1, CommitTotals
      <4> QED
        BY <3>0a, <4>1 DEF StartedIffReserved
    <3>2. CASE HoldsBatch(w, b) /\ txn[w].at = "refund"
      <4>1. /\ batch'[b].started <=> txn[w].row.started
            /\ bridge'[b].reserved = bridge[b].reserved
        BY <1>5, <3>0, <3>2, CommitTotals
      <4>2. txn[w].row.started <=> batch[b].started
        BY <3>2 DEF Charged, HoldsBatch
      <4> QED
        BY <3>0a, <4>1, <4>2 DEF StartedIffReserved
    <3>3. CASE HoldsBatch(w, b) /\ txn[w].at # "refund"
      <4>1. txn[w].at = "send" /\ txn[w].batch = b
        BY <2>0, <3>0, <3>3 DEF HoldsBatch
      <4>2. /\ batch'[b].started <=> txn[w].row.started
            /\ bridge'[b].reserved = bridge[b].reserved + txn[w].reserve
        BY <1>5, <3>0, <3>3, <4>1, CommitTotals
      <4>3. txn[w].row.started /\ (WalletInstalled <=> txn[w].reserve > 0)
        BY <4>1 DEF Charged
      <4>4. ~WalletInstalled => bridge[b].reserved = 0
        BY <3>0, <3>0a DEF StartedIffReserved
      <4> QED
        BY <3>0, <4>2, <4>3, <4>4
    <3> QED
      BY <3>1, <3>2, <3>3
  <2> QED
    BY <2>1 DEF StartedIffReserved
<1> QED
  BY <1>1, <1>2, <1>3, <1>4, <1>5, StepKinds

\* A batch was reserved for exactly when it has a started_at and the wallet's
\* models are installed, unless an older row was saved over it: what a
\* cancellation relies on to know that there is something to give back.
THEOREM StartedMeansReserved == Spec => []StartedIffReserved
<1>1. Init => Reservations
  <2> SUFFICES ASSUME Init PROVE Reservations
    OBVIOUS
  <2>1. Charged
    BY IdleHoldsNothing DEF Init, Charged
  <2>2. StartedIffReserved
    BY ConstantsAssumption DEF Init, StartedIffReserved, NoRow
  <2> QED
    BY <2>1, <2>2 DEF Reservations
<1>2. Inductive /\ Reservations /\ [Next]_vars => Reservations'
  BY ChargedStep, ReservedStep DEF Reservations
<1>3. Reservations => StartedIffReserved
  BY DEF Reservations
<1> QED
  BY InductiveInvariance, <1>1, <1>2, <1>3, PTL DEF Spec

-----------------------------------------------------------------------------
(* The payout queue implements the life cycle of its items *)

\* Of a closed transaction nothing is left to report; of an edit one item is
\* dropped; of a run the items it paid are reported, together.
LEMMA CommitReports ==
    ASSUME Inductive, NEW w \in Workers, CommitStep(w)
    PROVE  [Lifecycle!Next]_(Lifecycle!lifecycleVars)
<1> USE DEF Inductive
<1> DEFINE state  == [i \in Items |-> Reported(item[i].status)]
           moved  == [i \in Items |-> gateway[i].paid > 0]
           asked  == [i \in Items |-> gateway[i].sends > 0]
<1>1. /\ gateway' = gateway /\ item' = ItemsSeenBy(w) /\ txn[w].todo = {}
      /\ txn[w].held \in SUBSET Items
  BY CommitEffect DEF TypeOK, Txn
<1>2. moved' = moved /\ asked' = asked
  BY <1>1
<1>3. CASE txn[w].at \notin Sends \cup {"edit"}
  <2>1. txn[w].held = {}
    BY <1>3 DEF TxnShape
  <2>2. state' = state
    BY <1>1, <2>1 DEF ItemsSeenBy
  <2> QED
    BY <1>2, <2>2 DEF Lifecycle!lifecycleVars
<1>4. CASE txn[w].at = "edit"
  <2>1. PICK i \in Items : txn[w].held = {i}
    BY <1>4 DEF TxnShape
  <2>2. /\ item[i].status \notin {"ABSENT", "SUCCESS"}
        /\ txn[w].rows[i].status \in {"CANCELLED", "SKIPPED"}
    BY <1>4, <2>1 DEF LockedRowsKept, Prepared
  <2>3. state' = [state EXCEPT ![i] = "dropped"]
    BY <1>1, <2>1, <2>2 DEF ItemsSeenBy, Reported
  <2>4. CASE state[i] = "dropped"
    <3>1. state' = state
      BY <2>3, <2>4
    <3> QED
      BY <1>2, <3>1 DEF Lifecycle!lifecycleVars
  <2>5. CASE state[i] # "dropped"
    <3>1. state[i] = "open"
      BY <2>2, <2>5 DEF Reported
    <3>2. Lifecycle!Drop(i)
      BY <1>2, <2>3, <3>1 DEF Lifecycle!Drop
    <3> QED
      BY <3>2 DEF Lifecycle!Next
  <2> QED
    BY <2>4, <2>5
<1>5. CASE txn[w].at \in Sends
  <2> DEFINE S == {i \in txn[w].held : txn[w].rows[i].status = "SUCCESS"}
  <2>1. ASSUME NEW i \in txn[w].held
        PROVE  /\ i \in Items /\ state[i] = "open"
               /\ txn[w].rows[i].status \in {"SUCCESS", "RETRYING"}
               /\ i \in S => moved[i]
    <3>1. item[i].status \in {"QUEUED", "RETRYING"}
      BY <1>5 DEF LockedRowsKept
    <3> QED
      BY <1>1, <1>5, <3>1 DEF Prepared, SuccessImpliesPaid, Reported
  <2>2. state' = [i \in Items |-> IF i \in S THEN "paid" ELSE state[i]]
    BY <1>1, <2>1 DEF ItemsSeenBy, Reported
  <2>3. Lifecycle!Report(S)
    BY <1>2, <2>1, <2>2 DEF Lifecycle!Report
  <2> QED
    BY <1>1, <2>3 DEF Lifecycle!Next
<1> QED
  BY <1>3, <1>4, <1>5

\* The gateway is asked only for open items.
LEMMA AskedWhileOpen ==
    ASSUME TypeOK, NEW i \in Items, item[i].status \in {"QUEUED", "RETRYING"},
           item' = item, Asked(i)
    PROVE  Lifecycle!Next
<1> DEFINE state  == [j \in Items |-> Reported(item[j].status)]
           moved  == [j \in Items |-> gateway[j].paid > 0]
           asked  == [j \in Items |-> gateway[j].sends > 0]
<1>1. PICK g \in GatewayRow :
         g.sends > 0 /\ g.paid >= gateway[i].paid /\ gateway' = [gateway EXCEPT ![i] = g]
  BY DEF Asked
<1>2. gateway \in [Items -> GatewayRow] /\ gateway[i].paid \in Nat /\ g.paid \in Nat
  BY DEF TypeOK, GatewayRow
<1>3. state[i] = "open" /\ state' = state
  BY DEF Reported
<1>4. asked' = [asked EXCEPT ![i] = TRUE]
  BY <1>1, <1>2
<1>5. moved' \in {moved, [moved EXCEPT ![i] = TRUE]}
  <2>1. CASE g.paid > 0
    BY <1>1, <1>2, <2>1
  <2>2. CASE ~(g.paid > 0)
    BY <1>1, <1>2, <2>2
  <2> QED
    BY <2>1, <2>2
<1> QED
  BY <1>3, <1>4, <1>5 DEF Lifecycle!Next, Lifecycle!Ask

\* Every step of the queue is a step of the life cycle, or changes nothing in it.
LEMMA StepsRefine ==
    ASSUME Inductive, [Next]_vars
    PROVE  [Lifecycle!Next]_(Lifecycle!lifecycleVars)
<1> USE DEF Inductive
<1> DEFINE state  == [i \in Items |-> Reported(item[i].status)]
           moved  == [i \in Items |-> gateway[i].paid > 0]
           asked  == [i \in Items |-> gateway[i].sends > 0]
<1>1. CASE UNCHANGED <<item, gateway>>
  BY <1>1 DEF Lifecycle!lifecycleVars
<1>2. CASE BatchStep
  <2> DEFINE S == {i \in Items : item'[i] # item[i]}
  <2>1. /\ gateway' = gateway
        /\ \A i \in S : item[i].status = "ABSENT" /\ item'[i].status = "QUEUED"
    BY <1>2, BatchEffect
  <2>2. state' = [i \in Items |-> IF i \in S THEN "open" ELSE state[i]]
    BY <2>1 DEF Reported
  <2>3. \A i \in S : state[i] = "absent"
    BY <2>1 DEF Reported
  <2>4. Lifecycle!Request(S)
    BY <2>1, <2>2, <2>3 DEF Lifecycle!Request
  <2> QED
    BY <2>4 DEF Lifecycle!Next
<1>3. ASSUME NEW i \in Items, LatePay(i)
      PROVE  Lifecycle!Next
  <2>1. Answered(i) \in GatewayRow /\ Answered(i).sends = gateway[i].sends
    BY <1>3 DEF LatePay, Answered, TypeOK, GatewayRow
  <2>2. /\ Disburse(Answered(i)).paid > 0
        /\ Disburse(Answered(i)).sends = gateway[i].sends
        /\ gateway' = [gateway EXCEPT ![i] = Disburse(Answered(i))]
        /\ item' = item
    BY <1>3, <2>1, DisburseType DEF LatePay
  <2>3. gateway \in [Items -> GatewayRow] /\ asked[i]
    BY <1>3 DEF LatePay, LateWasAsked, TypeOK
  <2>4. state' = state /\ asked' = asked /\ moved' = [moved EXCEPT ![i] = TRUE]
    BY <2>2, <2>3
  <2> QED
    BY <2>3, <2>4 DEF Lifecycle!Next, Lifecycle!PayLate
<1>4. ASSUME NEW w \in Workers, RecordStep(w) \/ RollbackStep(w),
             ~UNCHANGED <<item, gateway>>
      PROVE  Lifecycle!Next
  <2>1. item' = item
    BY <1>4 DEF RecordStep, RollbackStep, Committed
  <2>2. PICK i \in Items : i \in txn[w].todo /\ Asked(i)
    <3>1. RecordStep(w) => \E i \in Items : i \in txn[w].todo /\ Asked(i)
      BY DEF RecordStep, Recorded, Outcome
    <3>2. RollbackStep(w) => \E i \in Items : i \in txn[w].todo /\ Asked(i)
      BY <1>4, <2>1 DEF RollbackStep
    <3> QED
      BY <1>4, <3>1, <3>2
  <2>3. item[i].status \in {"QUEUED", "RETRYING"}
    BY <2>2 DEF TxnShape, LockedRowsKept
  <2> QED
    BY <2>1, <2>2, <2>3, AskedWhileOpen
<1>5. ASSUME NEW w \in Workers,
             BeginStep(w) \/ ProcessDeduct(w) \/ ProcessSelect(w) \/ AdvanceStep(w)
      PROVE  UNCHANGED <<item, gateway>>
  BY <1>5, BeginEffect, DeductEffect, SelectEffect, AdvanceEffect
<1>6. UNCHANGED vars => UNCHANGED <<item, gateway>>
  BY DEF vars
<1> QED
  BY <1>1, <1>2, <1>3, <1>4, <1>5, <1>6, CommitReports, StepKinds

\* Through crashes, rollbacks, lost answers and concurrent edits, the payout
\* queue keeps what PayoutLifecycle promises of every item.
THEOREM QueueImplementsLifecycle == Spec => ImplementsLifecycle
<1>1. Init => Lifecycle!Init
  <2> SUFFICES ASSUME Init PROVE Lifecycle!Init
    OBVIOUS
  <2>1. \A i \in Items : item[i].status = "ABSENT" /\ gateway[i].sends = 0 /\ gateway[i].paid = 0
    BY DEF Init, NoItem
  <2>3. [i \in Items |-> Reported(item[i].status)] = [i \in Items |-> "absent"]
    BY <2>1 DEF Reported
  <2>2. \A i \in Items : (gateway[i].sends > 0) = FALSE /\ (gateway[i].paid > 0) = FALSE
    BY <2>1
  <2>4. [i \in Items |-> gateway[i].sends > 0] = [i \in Items |-> FALSE]
    BY <2>2, Zenon
  <2>5. [i \in Items |-> gateway[i].paid > 0] = [i \in Items |-> FALSE]
    BY <2>2, Zenon
  <2> QED
    BY <2>3, <2>4, <2>5 DEF Lifecycle!Init
<1>2. Inductive /\ [Next]_vars => [Lifecycle!Next]_(Lifecycle!lifecycleVars)
  BY StepsRefine
<1> QED
  BY InductiveInvariance, <1>1, <1>2, PTL DEF Spec, ImplementsLifecycle, Lifecycle!Spec
=============================================================================
