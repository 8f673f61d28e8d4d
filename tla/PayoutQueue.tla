----------------------------- MODULE PayoutQueue -----------------------------
(***************************************************************************)
(* The payout queue of api/payout_queue together with its wallet bridge    *)
(* api/wallet/payout_integration.py.                                       *)
(*                                                                         *)
(* A worker is any database session: a Celery task, a web request, a       *)
(* management command.  batch, item and balance are the COMMITTED rows;    *)
(* txn[w] is the open transaction of worker w: the rows it has written and *)
(* not yet committed, which are also the rows it holds FOR UPDATE.  Commit *)
(* writes them, Abort (an exception that leaves transaction.atomic, a      *)
(* killed process, a lost connection) drops them.  bridge and overwritten  *)
(* are history: no code reads them.                                        *)
(* The gateway is another system: what it did is never rolled back.        *)
(*                                                                         *)
(* Transactions whose reads and writes all lie under one row lock and that *)
(* touch nothing else are one step.                                        *)
(***************************************************************************)
EXTENDS Integers, FiniteSets, FiniteSetsExt

CONSTANTS
    Batches,              \* primary keys of PayoutBatch rows
    Items,                \* primary keys of PayoutItem rows
    Workers,              \* database sessions
    NoBatch,              \* "no batch"
    BatchOf,              \* BatchOf[i]: the batch item i is created in
    GrossSum,             \* GrossSum[S]: sum of gross_amount over the items S
    Tenanted,             \* the batches with a tenant: only these use the wallet
    WalletInstalled,      \* does api.wallet.models have the models of the bridge
    InitialBalance,       \* available_balance of the PAYOUT wallet at start
    MaxRetryAttempts,     \* MAX_RETRY_ATTEMPTS
    MaxConcurrentBatches, \* MAX_CONCURRENT_BATCHES
    MaxBatchSize,         \* MAX_BATCH_SIZE
    Replies,              \* the answers the gateway may give
    GatewayIdempotent,    \* does the gateway pay a reference at most once
    Crashes,              \* may a transaction be cut off by its environment
    MaxSends,             \* bound: gateway requests per item
    MaxOverwrites         \* bound: outdated saves per batch after which none is edited

AllReplies == {"success", "noref", "error", "timeout", "insufficient"}

ASSUME ConstantsAssumption ==
    /\ NoBatch \notin Batches
    /\ BatchOf \in [Items -> Batches]
    /\ Tenanted \subseteq Batches
    /\ WalletInstalled \in BOOLEAN
    /\ InitialBalance \in Nat
    /\ MaxRetryAttempts \in Nat
    /\ MaxConcurrentBatches \in Nat \ {0}
    /\ MaxBatchSize \in Nat
    /\ Replies \subseteq AllReplies
    /\ GatewayIdempotent \in BOOLEAN
    /\ Crashes \in BOOLEAN
    /\ MaxSends \in Nat
    /\ MaxOverwrites \in Nat

\* A table has finitely many rows.
ASSUME FiniteAssumption == IsFiniteSet(Batches) /\ IsFiniteSet(Items)

\* Gross amounts are positive, and GrossSum adds them up.
ASSUME GrossSumAssumption ==
    /\ GrossSum \in [SUBSET Items -> Nat]
    /\ GrossSum[{}] = 0
    /\ \A i \in Items : GrossSum[{i}] > 0
    /\ \A S \in SUBSET Items : \A i \in Items \ S :
          GrossSum[S \cup {i}] = GrossSum[S] + GrossSum[{i}]

VARIABLES
    batch,      \* batch[b]: the committed PayoutBatch row
    item,       \* item[i]: the committed PayoutItem row
    balance,    \* available_balance of the PAYOUT WalletAccount
    bridge,     \* bridge[b]: what was taken from the wallet and given back for b
    overwritten,\* overwritten[b]: how often b was saved over from an outdated copy
    gateway,    \* gateway[i]: what the gateway saw and did for i's reference
    txn         \* txn[w]: the open transaction of w

vars == <<batch, item, balance, bridge, overwritten, gateway, txn>>

-----------------------------------------------------------------------------
(* Rows *)

BatchStatus == {"PENDING", "PROCESSING", "COMPLETED", "PARTIALLY_COMPLETED",
                "FAILED", "CANCELLED", "ON_HOLD"}
ItemStatus  == {"QUEUED", "PROCESSING", "SUCCESS", "FAILED", "RETRYING",
                "CANCELLED", "SKIPPED"}

\* "ABSENT" is the status of a row that has not been inserted.
\* locked: locked_at is set; started: started_at is set; total: total_amount.
BatchRow == [status  : BatchStatus \cup {"ABSENT"},
             locked  : BOOLEAN,
             started : BOOLEAN,
             total   : Nat]

\* retry: retry_count; ref: gateway_reference is not empty.
ItemRow == [status : ItemStatus \cup {"ABSENT"}, retry : Nat, ref : BOOLEAN]

BridgeRow  == [reserved : Nat, refunded : Nat]
GatewayRow == [sends : Nat, paid : Nat, late : Nat]

NoRow  == [status |-> "ABSENT", locked |-> FALSE, started |-> FALSE, total |-> 0]
NoItem == [status |-> "ABSENT", retry |-> 0, ref |-> FALSE]

\* Where a transaction stands: the statement it executes next.
Points == {"idle", "deduct", "select", "send", "retry", "refund", "edit", "refresh",
           "update", "save"}

Txn == [at      : Points,
        batch   : Batches \cup {NoBatch},
        row     : BatchRow,                     \* the batch row it will commit
        reserve : Nat,                          \* deducted from the wallet so far
        purse   : Int,                          \* the wallet balance it will commit
        todo    : SUBSET Items,                 \* items still to be sent
        held    : SUBSET Items,                 \* item rows locked by it ...
        rows    : [Items -> ItemRow],           \* ... and what it will commit there
        ok      : Nat,                          \* success_count
        bad     : Nat]                          \* failure_count

Idle == [at |-> "idle", batch |-> NoBatch, row |-> NoRow, reserve |-> 0, purse |-> 0,
         todo |-> {}, held |-> {}, rows |-> [i \in Items |-> NoItem], ok |-> 0, bad |-> 0]

-----------------------------------------------------------------------------
(* Row locks (SELECT ... FOR UPDATE), held until the transaction ends *)

HoldsBatch(w, b) ==
    txn[w].batch = b /\ txn[w].at \in {"deduct", "select", "send", "refund"}

\* Faulty variant: the batch is read without select_for_update.
BatchFreeUnlocked(b) == b \in Batches

BatchFree(b) == \A w \in Workers : ~HoldsBatch(w, b)

ItemFree(i) == \A w \in Workers : i \notin txn[w].held

\* Faulty variant: the wallet is read FOR SHARE before it is locked FOR UPDATE.
HoldsWalletShared(w) == txn[w].reserve > 0 \/ txn[w].at = "deduct"

HoldsWallet(w) == txn[w].reserve > 0

\* Faulty variant: the wallet is read without select_for_update.
WalletFreeUnlocked(w) == w \in Workers

\* The wallet row can be locked by w: no OTHER session holds it.
WalletFreeFor(w) == \A v \in Workers \ {w} : ~HoldsWallet(v)

-----------------------------------------------------------------------------
(* State machines of the rows *)

\* Faulty variant: a cancelled batch can be resumed.
ValidTransitionsReopened ==
    [s \in BatchStatus |->
        CASE s = "PENDING"    -> {"PROCESSING", "CANCELLED", "ON_HOLD"}
          [] s = "PROCESSING" -> {"COMPLETED", "PARTIALLY_COMPLETED", "FAILED", "ON_HOLD"}
          [] s = "ON_HOLD"    -> {"PENDING", "CANCELLED"}
          [] s \in {"FAILED", "CANCELLED"} -> {"PENDING"}
          [] OTHER            -> {}]

ValidTransitions ==
    [s \in BatchStatus |->
        CASE s = "PENDING"    -> {"PROCESSING", "CANCELLED", "ON_HOLD"}
          [] s = "PROCESSING" -> {"COMPLETED", "PARTIALLY_COMPLETED", "FAILED", "ON_HOLD"}
          [] s = "ON_HOLD"    -> {"PENDING", "CANCELLED"}
          [] s = "FAILED"     -> {"PENDING"}
          [] OTHER            -> {}]

CanTransition(s, t) == s \in BatchStatus /\ t \in ValidTransitions[s]

Finished == {"COMPLETED", "PARTIALLY_COMPLETED", "FAILED"}

\* Faulty variant: a batch that fails keeps its advisory lock.
TransitionToKeepingLock(row, s) ==
    [row EXCEPT !.status  = s,
                !.started = @ \/ s = "PROCESSING",
                !.locked  = @ /\ s \notin {"COMPLETED", "PARTIALLY_COMPLETED"}]

\* Faulty variant: every transition sets started_at.
TransitionToAlwaysStarted(row, s) ==
    [row EXCEPT !.status  = s,
                !.started = TRUE,
                !.locked  = @ /\ s \notin Finished]

\* started_at is set with PROCESSING; the advisory lock goes with an outcome.
TransitionTo(row, s) ==
    [row EXCEPT !.status  = s,
                !.started = @ \/ s = "PROCESSING",
                !.locked  = @ /\ s \notin Finished]

AcquireLock(row) == [row EXCEPT !.locked = TRUE]

FinalStatus(ok, bad) ==
    CASE bad = 0             -> "COMPLETED"
      [] bad > 0 /\ ok = 0   -> "FAILED"
      [] bad > 0 /\ ok > 0   -> "PARTIALLY_COMPLETED"

\* Faulty variant: the transaction id is not stored.
MarkSuccessNoReference(row) == [row EXCEPT !.status = "SUCCESS"]

MarkSuccess(row) == [row EXCEPT !.status = "SUCCESS", !.ref = TRUE]

\* Faulty variant: the last retry is not granted.
MarkFailedEarly(row) ==
    [row EXCEPT !.status = IF row.retry + 1 < MaxRetryAttempts THEN "RETRYING" ELSE "FAILED",
                !.retry  = @ + 1]

MarkFailed(row) ==
    [row EXCEPT !.status = IF row.retry + 1 <= MaxRetryAttempts THEN "RETRYING" ELSE "FAILED",
                !.retry  = @ + 1]

\* Faulty variant: a table without the constraint.
StorableUnchecked(row) == row.retry \in Nat

\* The CheckConstraint pq_pi_retry_count_max, written with the literal 3.
Storable(row) == row.retry <= MaxRetryAttempts

\* Faulty variant: a paid item can be cancelled.
EditableAnytime(i, s) == item[i].status \notin {"ABSENT", s}

\* cancel() and skip() refuse SUCCESS and return early on their own status.
Editable(i, s) == item[i].status \notin {"ABSENT", "SUCCESS", s}

-----------------------------------------------------------------------------
(* What a session sees: committed rows overlaid with its own writes *)

ItemsSeenBy(w) ==
    [i \in Items |-> IF i \in txn[w].held THEN txn[w].rows[i] ELSE item[i]]

ItemsOf(b, rows) == {i \in Items : BatchOf[i] = b /\ rows[i].status # "ABSENT"}

\* The rows of S with a new status, as the session that locked them sees them.
Claim(S, s) ==
    [i \in Items |-> IF i \in S THEN [item[i] EXCEPT !.status = s] ELSE NoItem]

\* refresh_financial_totals: the sum over ALL items, whatever their status.
TotalAmount(b, rows) == GrossSum[ItemsOf(b, rows)]

ProcessingBatches == {b \in Batches : batch[b].status = "PROCESSING"}

\* Faulty variant: the items are read without select_for_update(skip_locked).
AvailableUnlocked(status) == {i \in Items : item[i].status = status}

\* The items process_batch and retry_failed_items may take now: FOR UPDATE
\* SKIP LOCKED passes over the rows another session holds.
Available(status) == {i \in Items : item[i].status = status /\ ItemFree(i)}

\* A call of the bridge reaches a wallet: otherwise it raises ImportError (the
\* deduction, which process_batch then goes without) or returns (the refund).
UsesWallet(b) == b \in Tenanted /\ WalletInstalled

\* _refund_batch_wallet: everything for FAILED, the FAILED items otherwise.
RefundDue(b, status, total, rows) ==
    IF ~UsesWallet(b)
    THEN 0
    ELSE CASE status = "FAILED"              -> total
           [] status = "PARTIALLY_COMPLETED" ->
                  GrossSum[{i \in ItemsOf(b, rows) : rows[i].status = "FAILED"}]
           [] OTHER                          -> 0

-----------------------------------------------------------------------------
Init ==
    /\ batch   = [b \in Batches |-> NoRow]
    /\ item    = [i \in Items |-> NoItem]
    /\ balance = InitialBalance
    /\ bridge  = [b \in Batches |-> [reserved |-> 0, refunded |-> 0]]
    /\ overwritten = [b \in Batches |-> 0]
    /\ gateway = [i \in Items |-> [sends |-> 0, paid |-> 0, late |-> 0]]
    /\ txn     = [w \in Workers |-> Idle]

-----------------------------------------------------------------------------
(* Batch administration *)

CreateBatch(b) ==
    /\ batch[b].status = "ABSENT"
    /\ batch' = [batch EXCEPT ![b].status = "PENDING"]
    /\ UNCHANGED <<item, balance, bridge, overwritten, gateway, txn>>

\* All-or-nothing: one bad item of the request rolls the others back.
AddItems(b, S) ==
    /\ S # {}
    /\ \A i \in S : BatchOf[i] = b /\ item[i].status = "ABSENT"
    /\ BatchFree(b)
    /\ batch[b].status = "PENDING"
    /\ Cardinality(ItemsOf(b, item)) + Cardinality(S) <= MaxBatchSize
    /\ item'  = [i \in Items |-> IF i \in S THEN [NoItem EXCEPT !.status = "QUEUED"]
                                            ELSE item[i]]
    /\ batch' = [batch EXCEPT ![b].total = TotalAmount(b, item')]
    /\ UNCHANGED <<balance, bridge, overwritten, gateway, txn>>

DoTransition(b, s) ==
    /\ BatchFree(b)
    /\ CanTransition(batch[b].status, s)
    /\ batch' = [batch EXCEPT ![b] = TransitionTo(@, s)]
    /\ UNCHANGED <<item, balance, bridge, overwritten, gateway, txn>>

Hold(b)   == DoTransition(b, "ON_HOLD")
Resume(b) == DoTransition(b, "PENDING")

\* release_batch_lock and the release_stale_locks beat task.
ReleaseLock(b) ==
    /\ batch[b].status # "ABSENT"
    /\ BatchFree(b)
    /\ batch' = [batch EXCEPT ![b].locked = FALSE]
    /\ UNCHANGED <<item, balance, bridge, overwritten, gateway, txn>>

\* cancel_payout_batch locks the batch row, then the wallet row for the refund.
CancelBegin(w, b) ==
    /\ txn[w].at = "idle"
    /\ BatchFree(b)
    /\ CanTransition(batch[b].status, "CANCELLED")
    /\ txn' = [txn EXCEPT ![w] = [Idle EXCEPT !.at    = "refund",
                                              !.batch = b,
                                              !.row   = TransitionTo(batch[b], "CANCELLED")]]
    /\ UNCHANGED <<batch, item, balance, bridge, overwritten, gateway>>

CancelRefund(row, b) == IF UsesWallet(b) /\ row.started THEN row.total ELSE 0

\* A refund that finds no active wallet, or fails, is logged, and the commit goes
\* on without it.
Refunds(due) == {0, due}

CancelCommit(w) ==
    LET b == txn[w].batch
    IN  /\ txn[w].at = "refund"
        /\ \E r \in Refunds(CancelRefund(txn[w].row, b)) :
              /\ r > 0 => WalletFreeFor(w)
              /\ balance' = balance + r
              /\ bridge'  = [bridge EXCEPT ![b].refunded = @ + r]
        /\ batch'   = [batch EXCEPT ![b] = txn[w].row]
        /\ txn'     = [txn EXCEPT ![w] = Idle]
        /\ UNCHANGED <<item, overwritten, gateway>>

\* refresh_batch_totals takes no lock: it aggregates, and writes later.
RefreshRead(w, b) ==
    /\ txn[w].at = "idle"
    /\ batch[b].status # "ABSENT"
    /\ txn' = [txn EXCEPT ![w] = [Idle EXCEPT !.at        = "refresh",
                                              !.batch     = b,
                                              !.row.total = TotalAmount(b, item)]]
    /\ UNCHANGED <<batch, item, balance, bridge, overwritten, gateway>>

RefreshWrite(w) ==
    /\ txn[w].at = "refresh"
    /\ BatchFree(txn[w].batch)
    /\ batch' = [batch EXCEPT ![txn[w].batch].total = txn[w].row.total]
    /\ txn'   = [txn EXCEPT ![w] = Idle]
    /\ UNCHANGED <<item, balance, bridge, overwritten, gateway>>

-----------------------------------------------------------------------------
(* PUT and PATCH of a batch: the request's fields (name, note, priority ...)  *)
(* go into a copy of the row, and save() writes every column of the copy.     *)

UpdateLoad(w, b) ==
    /\ overwritten[b] < MaxOverwrites
    /\ txn[w].at = "idle"
    /\ batch[b].status # "ABSENT"
    /\ txn' = [txn EXCEPT ![w] = [Idle EXCEPT !.at    = "update",
                                              !.batch = b,
                                              !.row   = batch[b]]]
    /\ UNCHANGED <<batch, item, balance, bridge, overwritten, gateway>>

Closed == {"COMPLETED", "PARTIALLY_COMPLETED", "CANCELLED"}

\* clean() compares the copy with the row of now, unlocked, and only when both
\* are closed: an amount that differs is refused.
UpdateClean(w) ==
    LET copy == txn[w].row
        now  == batch[txn[w].batch]
    IN  /\ txn[w].at = "update"
        /\ txn' = [txn EXCEPT ![w] =
                      IF {copy.status, now.status} \subseteq Closed /\ copy.total # now.total
                      THEN Idle
                      ELSE [@ EXCEPT !.at = "save"]]
        /\ UNCHANGED <<batch, item, balance, bridge, overwritten, gateway>>

UpdateSave(w) ==
    LET b == txn[w].batch
    IN  /\ txn[w].at = "save"
        /\ BatchFree(b)
        /\ batch' = [batch EXCEPT ![b] = txn[w].row]
        /\ overwritten' = IF batch[b] = txn[w].row THEN overwritten
                          ELSE [overwritten EXCEPT ![b] = @ + 1]
        /\ txn' = [txn EXCEPT ![w] = Idle]
        /\ UNCHANGED <<item, balance, bridge, gateway>>

-----------------------------------------------------------------------------
(* Item administration: cancel_payout_item and skip_payout_item *)

EditBegin(w, i, s) ==
    /\ txn[w].at = "idle"
    /\ ItemFree(i)
    /\ Editable(i, s)
    /\ txn' = [txn EXCEPT ![w] = [Idle EXCEPT !.at   = "edit",
                                              !.held = {i},
                                              !.rows = Claim({i}, s)]]
    /\ UNCHANGED <<batch, item, balance, bridge, overwritten, gateway>>

-----------------------------------------------------------------------------
(* process_batch: one transaction from the batch lock to the last write *)

ProcessBegin(w, b) ==
    /\ txn[w].at = "idle"
    /\ BatchFree(b)
    /\ Cardinality(ProcessingBatches) < MaxConcurrentBatches
    /\ ~batch[b].locked
    /\ CanTransition(batch[b].status, "PROCESSING")
    /\ \A i \in ItemsOf(b, item) : gateway[i].sends < MaxSends
    /\ txn' = [txn EXCEPT ![w] =
                  [Idle EXCEPT !.at    = IF b \in Tenanted THEN "deduct" ELSE "select",
                               !.batch = b,
                               !.row   = TransitionTo(AcquireLock(batch[b]), "PROCESSING")]]
    /\ UNCHANGED <<batch, item, balance, bridge, overwritten, gateway>>

Rollback(w) ==
    /\ txn' = [txn EXCEPT ![w] = Idle]
    /\ UNCHANGED <<batch, item, balance, bridge, overwritten>>

\* Faulty variant: the balance is not compared with the amount.
AffordableUnchecked(amount) == amount > 0

Affordable(amount) == amount > 0 /\ amount <= balance

\* deduct_payout_wallet: lock the wallet row, check it, reserve total_amount.
ProcessDeduct(w) ==
    /\ txn[w].at = "deduct"
    /\ WalletInstalled
    /\ WalletFreeFor(w)
    /\ Affordable(txn[w].row.total)
    /\ txn' = [txn EXCEPT ![w].at      = "select",
                          ![w].reserve = txn[w].row.total,
                          ![w].purse   = balance - txn[w].row.total]
    /\ UNCHANGED <<batch, item, balance, bridge, overwritten, gateway>>

\* Without the wallet's models the batch is processed unreserved.
ProcessUnreserved(w) ==
    /\ txn[w].at = "deduct"
    /\ ~WalletInstalled
    /\ txn[w].row.total > 0
    /\ txn' = [txn EXCEPT ![w].at = "select"]
    /\ UNCHANGED <<batch, item, balance, bridge, overwritten, gateway>>

\* Faulty variant: a batch the wallet cannot fund waits for the money.
ProcessDeductWaits(w) ==
    /\ txn[w].at = "deduct"
    /\ txn[w].row.total = 0
    /\ Rollback(w)
    /\ UNCHANGED gateway

\* Nothing to reserve, insufficient funds, or no active wallet to be found:
\* mark_failed_with_release writes FAILED inside the same transaction, and the
\* exception rolls that back too.
ProcessDeductFails(w) ==
    /\ txn[w].at = "deduct"
    /\ \/ txn[w].row.total = 0
       \/ WalletInstalled /\ WalletFreeFor(w)
    /\ Rollback(w)
    /\ UNCHANGED gateway

ProcessSelect(w) ==
    /\ txn[w].at = "select"
    /\ LET S == {i \in Available("QUEUED") : BatchOf[i] = txn[w].batch}
       IN  txn' = [txn EXCEPT ![w].at   = "send",
                              ![w].todo = S,
                              ![w].held = S,
                              ![w].rows = Claim(S, "PROCESSING")]
    /\ UNCHANGED <<batch, item, balance, bridge, overwritten, gateway>>

\* _finalise_batch and the commit: totals, outcome, refund.
ProcessCommit(w) ==
    LET b      == txn[w].batch
        seen   == ItemsSeenBy(w)
        total  == TotalAmount(b, seen)
        status == FinalStatus(txn[w].ok, txn[w].bad)
    IN  /\ txn[w].at = "send"
        /\ txn[w].todo = {}
        /\ \E refund \in Refunds(RefundDue(b, status, total, seen)) :
              /\ refund > 0 => WalletFreeFor(w)
              /\ balance' = (IF HoldsWallet(w) THEN txn[w].purse ELSE balance) + refund
              /\ bridge'  = [bridge EXCEPT ![b] = [reserved |-> @.reserved + txn[w].reserve,
                                                   refunded |-> @.refunded + refund]]
        /\ batch'   = [batch EXCEPT ![b] =
                          [TransitionTo(txn[w].row, status) EXCEPT !.total = total]]
        /\ item'    = seen
        /\ txn'     = [txn EXCEPT ![w] = Idle]
        /\ UNCHANGED <<overwritten, gateway>>

-----------------------------------------------------------------------------
(* retry_failed_items: RETRYING items of any batch, no batch or wallet lock. *)
(* next_retry_at, item_ids and limit make S any set of available items.     *)

RetryBegin(w, S) ==
    /\ txn[w].at = "idle"
    /\ S # {}
    /\ S \subseteq Available("RETRYING")
    /\ \A i \in S : gateway[i].sends < MaxSends
    /\ txn' = [txn EXCEPT ![w] =
                  [Idle EXCEPT !.at   = "retry",
                               !.todo = S,
                               !.held = S,
                               !.rows = Claim(S, "PROCESSING")]]
    /\ UNCHANGED <<batch, item, balance, bridge, overwritten, gateway>>

\* Writes to item rows only: a retry run that ends, or an item edit.
ItemsCommit(w) ==
    /\ txn[w].at \in {"retry", "edit"}
    /\ txn[w].todo = {}
    /\ item' = ItemsSeenBy(w)
    /\ txn'  = [txn EXCEPT ![w] = Idle]
    /\ UNCHANGED <<batch, balance, bridge, overwritten, gateway>>

-----------------------------------------------------------------------------
(* One gateway call of either loop, and the record of its outcome.  The row *)
(* written is visible to no one before commit, so a crash between call and  *)
(* record is a crash after it.                                              *)

\* Disburse once more, unless the gateway recognises the reference.
Disburse(g) == [g EXCEPT !.paid = IF GatewayIdempotent /\ @ > 0 THEN @ ELSE @ + 1]

Sent(i) == [gateway[i] EXCEPT !.sends = @ + 1]

Sending(w, i, reply) ==
    /\ reply \in Replies
    /\ txn[w].at \in {"send", "retry"}
    /\ i \in txn[w].todo

SendSuccess(w, i) ==
    /\ Sending(w, i, "success")
    /\ gateway' = [gateway EXCEPT ![i] = Disburse(Sent(i))]
    /\ txn' = [txn EXCEPT ![w].todo    = @ \ {i},
                          ![w].rows[i] = MarkSuccess(@),
                          ![w].ok      = @ + 1]
    /\ UNCHANGED <<batch, item, balance, bridge, overwritten>>

\* mark_failed.  A row the CheckConstraint refuses aborts the transaction: retry
\* lets the IntegrityError out; process_batch swallows it, but PostgreSQL then
\* refuses every further statement (the next gateway call is never reached).
RecordFailure(w, i) ==
    LET row == MarkFailed(txn[w].rows[i])
    IN  IF Storable(row)
        THEN /\ txn' = [txn EXCEPT ![w].todo    = @ \ {i},
                                   ![w].rows[i] = row,
                                   ![w].bad     = @ + 1]
             /\ UNCHANGED <<batch, item, balance, bridge, overwritten>>
        ELSE Rollback(w)

SendError(w, i) ==
    /\ Sending(w, i, "error")
    /\ gateway' = [gateway EXCEPT ![i] = Sent(i)]
    /\ RecordFailure(w, i)

\* Paid, but the answer carries no transaction id: PayoutResult refuses to be
\* built, and both loops record the ValueError as a failed attempt.
SendNoReference(w, i) ==
    /\ Sending(w, i, "noref")
    /\ gateway' = [gateway EXCEPT ![i] = Disburse(Sent(i))]
    /\ RecordFailure(w, i)

\* No answer in time: recorded as a failure, though the request may be paid.
SendTimeout(w, i) ==
    /\ Sending(w, i, "timeout")
    /\ gateway' = [gateway EXCEPT ![i] = [Sent(i) EXCEPT !.late = @ + 1]]
    /\ RecordFailure(w, i)

\* The gateway account is empty: process_batch raises, retry records a failure.
SendInsufficient(w, i) ==
    /\ Sending(w, i, "insufficient")
    /\ gateway' = [gateway EXCEPT ![i] = Sent(i)]
    /\ \/ txn[w].at = "send" /\ Rollback(w)
       \/ txn[w].at = "retry" /\ RecordFailure(w, i)

Send(w, i) ==
    \/ SendSuccess(w, i)
    \/ SendNoReference(w, i)
    \/ SendError(w, i)
    \/ SendTimeout(w, i)
    \/ SendInsufficient(w, i)

-----------------------------------------------------------------------------
(* The environment *)

\* A request whose answer was lost is answered: it is paid after all.
Answered(i) == [gateway[i] EXCEPT !.late = @ - 1]

LatePay(i) ==
    /\ gateway[i].late > 0
    /\ gateway' = [gateway EXCEPT ![i] = Disburse(Answered(i))]
    /\ UNCHANGED <<batch, item, balance, bridge, overwritten, txn>>

Abort(w) ==
    /\ Crashes
    /\ txn[w].at # "idle"
    /\ Rollback(w)
    /\ UNCHANGED gateway

-----------------------------------------------------------------------------
Admin ==
    \/ \E b \in Batches :
          \/ CreateBatch(b) \/ Hold(b) \/ Resume(b) \/ ReleaseLock(b)
          \/ \E S \in SUBSET Items : AddItems(b, S)
          \/ \E w \in Workers : CancelBegin(w, b) \/ RefreshRead(w, b) \/ UpdateLoad(w, b)
    \/ \E w \in Workers, i \in Items, s \in {"CANCELLED", "SKIPPED"} : EditBegin(w, i, s)

\* The next statement of an open transaction.
Step(w) ==
    \/ ProcessDeduct(w) \/ ProcessUnreserved(w) \/ ProcessDeductFails(w)
    \/ ProcessSelect(w) \/ ProcessCommit(w)
    \/ ItemsCommit(w) \/ CancelCommit(w) \/ RefreshWrite(w)
    \/ UpdateClean(w) \/ UpdateSave(w)
    \/ \E i \in Items : Send(w, i)

Next ==
    \/ Admin
    \/ \E w \in Workers :
          \/ \E b \in Batches : ProcessBegin(w, b)
          \/ \E S \in SUBSET Items : RetryBegin(w, S)
          \/ Step(w)
          \/ Abort(w)
    \/ \E i \in Items : LatePay(i)

Spec == Init /\ [][Next]_vars

\* A session that runs goes on running, the gateway client has a timeout
\* (GATEWAY_TIMEOUT_SECONDS), and PostgreSQL serves row locks in turn.
FairSpec == Spec /\ \A w \in Workers : SF_vars(Step(w))

-----------------------------------------------------------------------------
(* Properties that hold *)

\* The rows, the overlays and the gateway's books have their types.  The part
\* with content: no committed row ever breaks the retry_count CheckConstraint
\* (models.py:511), although mark_failed computes the count 4.
TypeOK ==
    /\ batch \in [Batches -> BatchRow]
    /\ item \in [Items -> ItemRow]
    /\ balance \in Int
    /\ bridge \in [Batches -> BridgeRow]
    /\ overwritten \in [Batches -> Nat]
    /\ gateway \in [Items -> GatewayRow]
    /\ txn \in [Workers -> Txn]
    /\ \A i \in Items : item[i].retry <= MaxRetryAttempts

\* No other session ever sees a batch or an item PROCESSING, or the advisory lock
\* of a batch set: all are written and cleared inside the one transaction of
\* process_batch or retry_failed_items.  So PayoutBatch.objects.processing()
\* counts 0 and the stale-lock sweep finds nothing, always: mutual exclusion
\* rests on the row locks alone, and no crash leaves a row stuck PROCESSING.
NeverVisiblyProcessing ==
    /\ \A b \in Batches : batch[b].status # "PROCESSING" /\ ~batch[b].locked
    /\ \A i \in Items : item[i].status # "PROCESSING"

\* Two sessions never hold the same batch, item or wallet row: a batch is
\* processed by one worker, an item is sent by one worker, at a time.
RowLocksExclusive ==
    \A v, w \in Workers : v # w =>
        /\ \A b \in Batches : ~(HoldsBatch(v, b) /\ HoldsBatch(w, b))
        /\ txn[v].held \cap txn[w].held = {}
        /\ ~(HoldsWallet(v) /\ HoldsWallet(w))

\* An item on its way to the gateway still is, for everyone else, QUEUED
\* (process_batch) or RETRYING (retry_failed_items): nobody cancelled, skipped
\* or paid it between the SELECT and the gateway call.
InFlightUndisturbed ==
    \A w \in Workers : \A i \in txn[w].todo :
        item[i].status = IF txn[w].at = "send" THEN "QUEUED" ELSE "RETRYING"

\* A committed SUCCESS was disbursed by the gateway and carries its reference,
\* and so does a SUCCESS about to be committed.
SuccessImpliesPaid ==
    /\ \A i \in Items : item[i].status = "SUCCESS" => gateway[i].paid > 0 /\ item[i].ref
    /\ \A w \in Workers : \A i \in txn[w].held :
          txn[w].rows[i].status = "SUCCESS" => gateway[i].paid > 0 /\ txn[w].rows[i].ref

\* The balance that the commit of a reservation writes is computed from the
\* balance of now, not of the time of the SELECT: no update is lost, and no
\* reservation or sum of reservations overdraws the wallet.
WalletNeverStale ==
    /\ balance >= 0
    /\ \A w \in Workers : HoldsWallet(w) =>
          txn[w].purse = balance - txn[w].reserve /\ txn[w].purse >= 0

\* The next statement of w locks the wallet row: a reservation, or a refund.
NeedsWallet(w) ==
    \/ txn[w].at = "deduct" /\ WalletInstalled
    \/ txn[w].at = "refund" /\ CancelRefund(txn[w].row, txn[w].batch) > 0
    \/ /\ txn[w].at = "send" /\ txn[w].todo = {}
       /\ RefundDue(txn[w].batch, FinalStatus(txn[w].ok, txn[w].bad),
                    TotalAmount(txn[w].batch, ItemsSeenBy(w)), ItemsSeenBy(w)) > 0

\* The next statement of w waits for a row lock of v.
WaitsFor(w, v) ==
    /\ v # w
    /\ \/ NeedsWallet(w) /\ HoldsWallet(v)
       \/ txn[w].at \in {"refresh", "save"} /\ HoldsBatch(v, txn[w].batch)

Waits(w) == \E v \in Workers : WaitsFor(w, v)

\* Row locks never deadlock: who waits, waits for a session that does not wait,
\* directly or (a refresh or a save, for a batch whose holder waits for the wallet) through
\* one other.  The wallet row, last in the order, is held by no one who waits.
NoCircularWait ==
    \A w \in Workers : Waits(w) =>
        \E v \in Workers :
            /\ ~Waits(v)
            /\ \/ WaitsFor(w, v)
               \/ \E u \in Workers : WaitsFor(w, u) /\ WaitsFor(u, v)

\* No movement of money is lost or counted twice: the balance is what it was,
\* minus what committed runs took for their batches, plus what they and
\* cancellations gave back, although each run writes a balance that it computed
\* before its first gateway call.  (What the bridge logs and does not give back
\* stays away; of the WalletTransaction rows it means to write, none is written.)
NetOf(b) == bridge[b].refunded - bridge[b].reserved

WalletMovesAddUp == balance = InitialBalance + SumFunction([b \in Batches |-> NetOf(b)])

\* cancel_payout_batch takes started_at for the sign that the batch was reserved
\* for.  It is one where the wallet's models are installed: started_at is set on a
\* tenant's batch exactly when a reservation for it was committed, through
\* crashes, refused reservations and resumed batches, unless a PUT or PATCH saved
\* an older row over it.  (It does not say whether that was refunded since.)
\* Where they are not installed, batches start and nothing is ever reserved.
StartedIffReserved ==
    \A b \in Tenanted : overwritten[b] = 0 =>
        (batch[b].started /\ WalletInstalled <=> bridge[b].reserved > 0)

\* A PUT or PATCH of b is saved.
UpdateSaved(b) ==
    \E w \in Workers : /\ txn[w].at = "save" /\ txn[w].batch = b
                       /\ txn'[w].at = "idle" /\ batch'[b] = txn[w].row

\* The total of a closed batch is only ever overwritten by refresh_batch_totals
\* and by a PUT or PATCH that loaded another total: no item is added late and no
\* worker closes or recomputes the batch again.  (The refresh may write a sum
\* that it read long before.)
TotalsOfClosedBatches ==
    [][\A b \in Batches :
          batch[b].status \in Closed /\ batch'[b].total # batch[b].total
          => \/ UpdateSaved(b)
             \/ \E w \in Workers : /\ txn[w].at = "refresh" /\ txn[w].batch = b
                                   /\ txn'[w].at = "idle"]_vars

\* A batch that is COMPLETED, PARTIALLY_COMPLETED or CANCELLED stays so, whatever
\* processes, cancels, holds, resumes or refreshes it and under a worker that read
\* it PENDING before.  The one way back is a PUT or PATCH that loaded the row
\* before it was closed: clean() does not refuse it.
ClosedBatchIsFinal ==
    [][\A b \in Batches :
          batch[b].status \in Closed /\ batch'[b].status # batch[b].status
          => UpdateSaved(b)]_vars

\* No item ever becomes FAILED: the count that mark_failed stores with FAILED is
\* one that the table refuses.  An item that nobody cancels is RETRYING until it
\* is paid, and what is done for FAILED items (the refund of a partial outcome,
\* reconciliation, the SLA alert) is done for none.
FailedIsNeverRecorded == \A i \in Items : item[i].status # "FAILED"

\* The promise about single items, PayoutLifecycle.
Reported(status) ==
    CASE status = "ABSENT"                   -> "absent"
      [] status = "SUCCESS"                  -> "paid"
      [] status \in {"CANCELLED", "SKIPPED"} -> "dropped"
      [] OTHER                               -> "open"

Lifecycle == INSTANCE PayoutLifecycle WITH
    state <- [i \in Items |-> Reported(item[i].status)],
    asked <- [i \in Items |-> gateway[i].sends > 0],
    moved <- [i \in Items |-> gateway[i].paid > 0]

\* Through crashes, rollbacks, lost answers and concurrent edits, an item is
\* asked for only while open, reported paid only when paid, and final then.
ImplementsLifecycle == Lifecycle!Spec

\* Every transaction ends: the lock order batch row, wallet row, item rows
\* (SKIP LOCKED) leaves no session waiting for ever.
TransactionsEnd ==
    \A w \in Workers : txn[w].at # "idle" ~> txn[w].at = "idle"

-----------------------------------------------------------------------------
(* What the documentation says and the code does not do *)

\* "Refund a previously reserved amount" (payout_integration.py:179): a batch
\* is never refunded more than was reserved for it.
RefundWithinReserve ==
    \A b \in Batches : bridge[b].refunded <= bridge[b].reserved

\* "This prevents over-disbursement" (payout_integration.py:12): the items of a
\* batch that are paid and recorded are covered by its reservation.
DisbursedWithinReserve ==
    \A b \in Tenanted :
        GrossSum[{i \in ItemsOf(b, item) : item[i].status = "SUCCESS"}]
            <= bridge[b].reserved - bridge[b].refunded

\* "prevents single bad item from rolling back all previous successes"
\* (services.py:499): what was paid is recorded once its run is over.
PaidIsRecorded ==
    \A i \in Items : gateway[i].paid > 0 /\ ItemFree(i) => item[i].status = "SUCCESS"

\* "PROCESSING batches at a time" (constants.py:29).
ConcurrencyLimited ==
    Cardinality({w \in Workers : txn[w].at \in {"deduct", "select", "send"}})
        <= MaxConcurrentBatches

\* "exhausts all retries and reaches FAILED" (signals.py:20): after the first
\* attempt and MAX_RETRY_ATTEMPTS retries an item is not sent again.
AttemptsBounded ==
    \A i \in Items : gateway[i].sends <= MaxRetryAttempts + 1

\* "'total_amount' cannot be changed on a terminal batch" (models.py:327).
TerminalTotalsFrozen ==
    [][\A b \in Batches :
          batch[b].status \in Closed => batch'[b].total = batch[b].total]_vars

=============================================================================
