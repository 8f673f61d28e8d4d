# TLA+ models of the money paths of earning-backend-C

The repository is a Django monolith for a rewards platform in Bangladesh: users
complete offers, earn a balance, and are paid out through mobile-money and bank
gateways (bKash, Nagad, Rocket, bank transfer, manual) or in vouchers and goods.
About fifty applications live under `src/api`; the core of the product is the
path of value to the user. This project models the parts of that path where an
error costs real money and cannot be undone:

* the **payout queue** (`src/api/payout_queue`), which takes batches of payouts,
  reserves their total from a wallet, sends every item to a gateway, retries,
  refunds, reconciles and tells merchants by webhook;
* the **reward inventory** (`src/api/inventory`), which awards items of limited
  stock and single-use redemption codes, and delivers them from a Celery task;
* the **user wallet and its withdrawals** (`src/api/wallet`), which keep what a
  user has earned and pay it out.

The three do not call one another: the payout queue reserves from the tenant's
`WalletAccount`, the withdrawals draw on the user's `Wallet`. They are therefore
three specifications: with no row in common, a composition would
show nothing that the parts do not. `PayoutEvents` does compose: it is the payout
queue with its webhooks.

Line numbers below refer to files under `src/api/payout_queue/`,
`src/api/inventory/` or `src/api/wallet/`, as the section says, unless a path is given.

## 1. Inventory

| Component | State it keeps | Operations | Interacts with |
|---|---|---|---|
| payout queue: `services.py`, `models.py`, `managers.py` | `PayoutBatch` (status, `locked_at`, `started_at`, `total_amount`), `PayoutItem` (status, `retry_count`, `gateway_reference`), `WithdrawalPriority`, `BulkProcessLog`, statistics cache | create, add items, hold, resume, cancel, release lock, refresh totals, `process_batch`, `retry_failed_items`, item cancel and skip, withdrawal priority, statistics | wallet bridge (calls), processors (calls), receivers (signals) |
| payout wallet bridge: `src/api/wallet/payout_integration.py` | `WalletAccount.available_balance`; the `WalletTransaction` rows it means to create (section 5) | `deduct_payout_wallet`, `refund_payout_wallet` | called inside the payout queue's transactions |
| processors: `processors/*.py` | access tokens | `send_payout`, `verify_payout` | HTTP to the gateways |
| Celery tasks: `tasks.py` | none of their own | process one batch, dispatch due batches, retry due items, release stale locks, reconcile, deliver webhooks | call the services from any worker, at any time |
| signals and receivers: `signals.py`, `receivers.py` | none of their own; the messages of the Celery broker | webhook calls, audit rows, notifications | run inside the transaction of `process_batch`; hand webhooks to the broker |
| API, admin, commands | none of their own | request handlers; PUT and PATCH of a batch, the forms of the admin site | call the services; save whole rows loaded without a lock |
| reward inventory: `src/api/inventory` | `RewardItem` (status, `current_stock`, -1 for unlimited), `RedemptionCode` (status), `UserInventory` (status, code, attempts), `StockEvent` | restock, adjust, import codes, award, deliver, retry, revoke, claim, edit, void, expire, correct the stock | Celery tasks (delivery), rewards shown by the other applications |
| user wallet: `src/api/wallet/services/core`, `models/core.py` | `Wallet` (current, pending, frozen, withdrawn, `is_locked`), `WalletTransaction`, `IdempotencyKey` | credit, debit, transfer, admin debit, freeze, unfreeze, reserve, release, reverse, lock, unlock, PATCH, admin form | withdrawals, offers, referral and every application that pays a user |
| withdrawals: `src/api/wallet/services/withdrawal`, `tasks/withdrawal_processing_tasks.py` | `WithdrawalRequest` (status), its `WalletTransaction` (status), `WithdrawalBatch` | create, approve, reject, complete, cancel, gateway task, bulk actions of the admin site, create and process a batch | user wallet |
| postback engine: `src/api/postback_engine` | raw logs, deduplication keys, conversions, retry and dead-letter rows | receive, deduplicate, attribute, credit, retry (none runs: section 6) | user wallet |
| offer inventory, offerwall, smartlink, routing | clicks, conversions, caps | record click, record conversion, approve | user wallet |
| fraud, kyc, rate limit, notifications, analytics, tenants, backups, front end | their own rows | scoring, delivery, reporting | read by the above |

**What is hard here.** Everything runs in many processes at once: several
Celery workers (`acks_late`: a killed worker's task is delivered again), web
requests, management commands, beat tasks. They meet only in PostgreSQL rows and
at the gateway, which does not roll back.

* *Payout queue*: rows are locked (`SELECT ... FOR UPDATE`, `SKIP LOCKED`).
  `process_batch` is ONE transaction around a loop of HTTP calls: what the loop
  wrote disappears with any exception that leaves it, what the gateway did stays.
  Two rows describe the same money (item and batch, batch and wallet), and a batch
  can go FAILED -> PENDING -> anything, long after its money was returned. Errors around the wallet are
  logged and passed over. A PUT or PATCH of a batch saves a row it read without a lock.
* *Reward inventory*: one lock, the item row during an award. The delivery runs
  with no lock and no transaction, saves code and receipt one after the other, and
  meets revocations, claims, expiry, edits and its own redelivery in between. -1 in
  the stock column means "unlimited", one decrement below "sold out".
* *Wallet*: no lock but in `reserve_balance` and `release_reserve`. Every other call reads a wallet, computes five balances from the copy
  and saves the WHOLE row; every guard on a request reads a copy of it.

**What makes it correct.**

* *Payout queue*: two workers never send one item at once; nobody cancels an item
  while it is being sent; a reported success was paid; a closed batch stays
  closed unless an outdated row is saved over it; a merchant is told of what happened and of nothing else; the
  tenant's wallet never loses an update, is never overdrawn and its movements add up; no transaction
  waits for ever; a crash leaves nothing stuck.
* *Reward inventory*: a code goes to one receipt and never back to the pool; a
  delivered code is spent; a user's receipts stay under the cap; nothing but an edit
  makes an item unlimited; the events account for the stock; a delivery ends.
* *Wallet*: a request is settled once; the balances agree with what happened; a
  key is credited once; a locked wallet stays locked. These cannot hold
  unconditionally without locks. The properties say exactly *under what condition*
  they hold ("unless a call saved an outdated copy or staff typed over a balance"), and the conditions are shown to be
  necessary by the runs that violate the documentation.

These hold, and sections 3 and 4 show it. What the documentation further claims
does not all hold: section 5.

`PROJECT.json` lists every component, also those not modelled, and every hazard
with its line and the property that watches it.

## 2. Modules

| Module | What it is |
|---|---|
| `PayoutLifecycle.tla` | what the queue promises about ONE item, without batches, workers or rows: money moves only on request, a request is made only while the item is open, "paid" is only said of paid items and is final |
| `PayoutQueue.tla` | the queue with its wallet bridge, its gateway, and any number of database sessions; implements `PayoutLifecycle` |
| `MCPayoutQueue.tla` and `PayoutQueue_*.cfg` | small instances for TLC |
| `PayoutQueue_proofs.tla` | the inductive invariant and the theorems, checked by TLAPS |
| `SumLemmas.tla` | induction over the subsets of a finite set, and with it the lemmas about sums over a set |
| `PayoutMoney_proofs.tla` | the theorems about the wallet's books, refunds and payments of the queue |
| `PayoutAttempts_proofs.tla` | the theorems about how often an item is sent and paid |
| `PayoutEvents.tla` | PayoutQueue with its webhooks: what the receivers hand to the broker and when, and `deliver_webhook_event` |
| `MCPayoutEvents.tla` and `PayoutEvents_*.cfg` | small instances for TLC |
| `PayoutEvents_proofs.tla` | the theorems about the webhooks, which rest on the invariant of the queue |
| `SingleUseCodes.tla` | what the inventory promises about its codes, without items, locks or tasks: a code is loaded once, leaves the pool once, for one receipt or for nobody |
| `RewardInventory.tla` | stock, codes, receipts and delivery with any number of requests and Celery workers; implements `SingleUseCodes` |
| `MCRewardInventory.tla` and `RewardInventory_*.cfg` | small instances for TLC |
| `RewardInventory_proofs.tla` | the inductive invariant, the theorems and the refinement |
| `Withdrawals.tla` | one user's wallet and the withdrawal requests drawn on it |
| `MCWithdrawals.tla` and `Withdrawals_*.cfg` | small instances for TLC |
| `Withdrawals_proofs.tla` | the inductive invariant and the theorems |

### How PayoutQueue corresponds to the code

*Sessions and transactions.* A worker `w` is a database session. `batch`, `item`,
`balance` are committed rows; `bridge` (what was taken from the wallet and given back
for each batch) and `overwritten` (how often a batch was saved over from an outdated copy) are
history that no code reads. `txn[w]` is the open transaction of
`w`: where it stands (`at`), the batch row it will commit (`row`), the wallet
balance it will commit (`purse`, with `reserve` > 0 while it holds the wallet
row), the item rows it holds and will commit (`held`, `rows`), the items still to
be sent (`todo`), the two counters that decide the outcome. Commit writes all of it in one
step; `Rollback` drops it. A session sees committed rows under its own writes
(`ItemsSeenBy`). A row lock is derived from the transaction that holds it
(`HoldsBatch`, `ItemFree`, `WalletFreeFor`); a step that must lock a row is
enabled when the row is free, which is how a session waits for it.

*process_batch* (services.py:628-662) is `ProcessBegin` (lock the batch, limit,
advisory lock, PROCESSING), `ProcessDeduct`, `ProcessDeductFails` or `ProcessUnreserved` (the wallet),
`ProcessSelect` (the QUEUED items, SKIP LOCKED), one `Send...` per item, and
`ProcessCommit` (`_finalise_batch`, refund, commit). *retry_failed_items* is
`RetryBegin`, the same `Send...` steps, and `ItemsCommit`. `Send...` has one
action per answer of the gateway:

| Action | Answer | What the loop does |
|---|---|---|
| `SendSuccess` | success with a reference | `mark_success` |
| `SendNoReference` | success WITHOUT a reference (bKash without `trxID`, processors/bkash.py:163): the money moved, but `PayoutResult` refuses to be built (utils/payment_gateway.py:64) and the `ValueError` is caught | `mark_failed` |
| `SendError` | refusal | `mark_failed` |
| `SendTimeout` | none in time; `LatePay` may still pay | `mark_failed` |
| `SendInsufficient` | gateway account empty | `process_batch` lets the exception out: rollback; retry: `mark_failed` |

`mark_failed` (models.py:618) on an item at its last retry computes a
`retry_count` that the CHECK constraint refuses (`Storable`): the transaction is
lost. In the retry loop the `IntegrityError` leaves the loop; in `process_batch`
it is swallowed, but PostgreSQL refuses every further statement of an aborted
transaction, so the result is the same.

*Errors around the wallet.* A deduction that fails for lack of money or of a wallet raises, and
everything rolls back (`ProcessDeductFails`). One whose import fails is logged, and the batch is processed with
nothing reserved (services.py:480, `ProcessUnreserved`, when `WalletInstalled` is FALSE). A refund never raises: where the import
fails, no active wallet is found or anything else goes wrong, the commit goes on without it (services.py:225 and 782,
payout_integration.py:194-210): `Refunds` gives either amount.

*PUT and PATCH of a batch* (viewsets.py:144; the form of `PayoutBatchAdmin` does the same) are `UpdateLoad`, which reads the row without a lock,
`UpdateClean`, and `UpdateSave`, which writes every column of the copy (models.py:334). `clean()` (models.py:321) compares
amounts only when both the copy and the row of now are closed, and does not lock, so a copy that was
loaded before the batch was closed is saved over it. `UpdateSave` waits for the row lock and counts in `overwritten`
the saves that change something. The fields a request sets (name, note, priority) are not in the model.

*Single steps.* `CreateBatch`, `AddItems`, `Hold`, `Resume`, `ReleaseLock` read
and write under one row lock and touch nothing else, so each is one step.
`cancel_payout_batch` (batch row, then wallet row), the item edits and
`refresh_batch_totals` (which reads without any lock and writes later) have a
step per lock or read.

*Crashes.* `Abort(w)` is enabled at every point of an open transaction: killed
worker, lost connection, an exception of a signal receiver. Redelivery of the
task is a later `ProcessBegin`.

*Data left out.* Names, amounts other than gross, fees, notes, times and counters.
An amount appears only as `GrossSum[S]`, the sum over a set of items, which a
constant gives with the assumption `GrossSumAssumption`. `scheduled_at`
and `next_retry_at` only delay: a due batch or item is picked at any time, and
`RetryBegin` takes any set of available RETRYING items (`item_ids`, `limit`,
`next_retry_at`). An `Item` stands for a claim (user, amount, account), so a
duplicate of the same claim is the same item.
The gateways are not in the repository and are modelled from the answers the
processors handle (`external` in the map). The bridge imports `WalletAccount` and `WalletTransaction` from
`api.wallet.models`; the second is there (wallet/models/core.py:246), the first is not, so in the repository as it stands
every import of the bridge raises ImportError: `WalletInstalled` = FALSE. TRUE is the bridge as it is
written, once that model is added. `create_payout_batch` never sets a tenant, so a batch is `Tenanted` only when
someone sets it elsewhere. The theorems cover both values and both kinds of batch; `batch` and `delivery` run with FALSE, the other runs with TRUE.

### How PayoutEvents corresponds to the code

`PayoutEvents` EXTENDS `PayoutQueue`: every step of the queue is a step here,
together with the calls of `deliver_webhook_event.delay` that its signals make
(`Announce` is `_emit_webhook_event`, receivers.py:348). `process_batch` sends a
signal after `mark_success` (`AnnouncedSuccess`), after a refusal that made the item
FAILED (`AnnouncedRefusal`), and in `_finalise_batch`, before the commit
(`AnnouncedCommit`; `AnnouncedAbort` when the worker dies between the two). The
exceptions of a gateway call and the whole of `retry_failed_items` send none
(`SilentSend`). `SilentStep` is the rest of the queue.

`calls[e]` counts the calls for an event, `broker` holds the messages that are not
acknowledged, `ended` the calls whose end the merchant or the log knows.
`Conclude(m)` is one run of the task (tasks.py:307-334): `Finish` (2xx, 4xx, or the
limit of the retries) or `Retry`, which publishes the message again with one more
retry. `WorkerLost(m)` is the death of the whole worker at any point of that run:
with `acks_late` the broker still has the message, whatever the run had already done.
When only the child process dies, Celery may log the failure and acknowledge, which is a
`Finish`. The payloads, the signature and the URLs are left out; so are
`payout_sla_breach`, which goes with a signal that is never sent, and the
priority events.

### How RewardInventory corresponds to the code

*State.* `item`, `code`, `receipt` and `recorded` (the sum of the `StockEvent`
rows of an item) are committed rows; `queue` is what the broker holds of
`deliver_inventory_item`. `tx[p]` is what process `p` has read and still goes by:
a session is a web request or a maintenance task, a worker a Celery worker.

*award_item_to_user* (services.py:285-376) is the only operation with two steps
under a lock: `AwardBegin` takes the item row `FOR UPDATE`, makes every check (active,
cap, a code with `SKIP LOCKED`, stock) and sends the task, *before* the commit, as
services.py:372-373 does; `AwardCommit` writes code, stock, event and receipt together. Between the
two, `ItemLocked` and `CodeLocked` keep out every other UPDATE of these rows. `restock_item`,
`adjust_stock` and `bulk_import_codes` lock the same row for one short
transaction and are one step each.

*Delivery* (services.py:379-451, tasks.py:17-39): `Take` is a worker taking a
message: the receipt is not there yet (`DeliverNotFound`, retried), already DELIVERED
(`DeliverSkip`), or anything else, REVOKED included (`DeliverLoad`). Then `DeliverRedeem`
saves the code, `DeliverMark` the receipt, each its own commit; `DeliverFail` is
`mark_failed` and `self.retry`. `retry_delivery` is the admin action.

*Without a lock*: `RevokeRead`/`RevokeCommit` and `ClaimRead`/`ClaimWrite` check a copy and
write later; `EditLoad`/`EditSave` is a PATCH, which saves the whole row it has loaded
(viewsets.py:44); `SyncRead`/`SyncCount`/`SyncWrite` is `sync_stock_counts`, which
overwrites the stock with an earlier count. `void` and `expire_redemption_codes` are single UPDATEs.

*Crashes.* `Abort` ends a request anywhere; an open award rolls back but its message stays sent.
`WorkerDies` gives the message back (`acks_late`) or loses it (only the child process died and
Celery acknowledges).

*Data left out.* Names, prices, alerts, e-mails, delivery handlers (a handler succeeds or
raises), `total_redeemed`. `max_per_user` is not in the model because no code reads it: the cap is
`MAX_QUANTITY_PER_USER_PER_ITEM`. `reserved_until` is not in it because nothing enforces it.

### How Withdrawals corresponds to the code

*State.* The committed rows of ONE user: the `wallet`, the requests with the status of their
transaction (`request[r].txn`, `reversed`), the batches, the idempotency keys, and the transactions of no request (`others`: amount and status). `session[s]` is the
call under way, with the copies it has read. `ledger`, `settled`, `byHand` and `credits` are
history: what has really happened to the money, and which requests staff closed in bulk. `tainted` records what was ever written from
a copy that another call had overtaken, whether staff typed over a balance, which requests were cancelled twice, and which
keys were shared by two calls in flight.

*A call* reads (`ReadWallet`, `ReadRequest`, `FetchRelated`, `ReadBatch`), decides and computes on its copy and
saves. A save of the wallet writes every column of the copy (`Wallet.save()` without
`update_fields`), which is how a lock is undone by a payment that started before it. A
refused call raises, and its `transaction.atomic` rolls back: `Refused`, which also stands for
a process that dies.

| Action | Code |
|---|---|
| `CheckKey`, `Credit` | `WalletService.credit`: the look-up of the key, then the rest; a key on record without a transaction of this wallet does not stop the credit (WalletService.py:126-132) |
| `RecordKey` | a credit of another user's wallet, which leaves its key on record: keys are not per wallet |
| `InstantPayout` | a `debit` that nothing settles (`services_extra.py`, InstantPayoutService; recurring payments, subscriptions and instalments debit the same way) |
| `Transfer`, `AdminDebit`, `Freeze`, `Unfreeze`, `SetLocked` | the operations of the same names; of a transfer the sender's side |
| `Withdraw`, `Approve`, `Reject`, `Cancel`, `Complete` | `WithdrawalService` and the transitions of `WithdrawalRequest` and `WalletTransaction` |
| `ReserveBalance`, `ReleaseReserve` | the two operations that read the row under its lock; they save their own two columns |
| `Reverse` | `WalletTransaction.reverse` of any approved transaction that is not a request's: credits, debits, transfers, freezes, unfreezes, fees, refunds, reversals. Only `current_balance` moves, against the sign of the amount. What was credited is taken back as far as it is still there, because the `pre_save` signal clamps a negative balance at zero (`TakenBack`) |
| `ApproveOther` | staff approve the transaction of an instant payout, which can then be reversed |
| `SaveWallet` | a PATCH of the wallet, and the form of `WalletAdmin` (admin.py:853): the row as it was loaded, with what staff typed into balances and lock |
| `reject_requests`, `process_withdrawals` | the bulk actions of `WithdrawalRequestAdmin` (admin.py:1496-1537): one UPDATE of the PENDING requests to REJECTED, of the APPROVED ones to COMPLETED; wallet and transactions stay as they are |
| `EndTransaction` | staff approve or reject a withdrawal's transaction (WalletTransactionViewSet.py:48-64); the request is not looked at |
| `ReverseWithdrawal`, `MarkReversed` | `WalletTransaction.reverse` of a withdrawal's debit: the wallet is saved, and the transaction marked by a later save; nothing spans the two |
| `DispatchFails` | `process_pending_withdrawals`: no gateway is wired up, so every dispatch ends in `mark_failed`, which looks at no status |
| `CreateBatch`, `ReadBatch`, `ProcessBatch` | `WithdrawalBatchService` |
| `ExpireKey` | the TTL of a key and its deletion |

*Data left out.* Amounts differ only between requests (`Amount`), their `Fee` and other movements (`Sums`).
Limits, cooling-off blocks, bonus balances, multipliers, KYC: they refuse
a call or change its amount. `total_earned` only grows. `is_reversed` of a transaction of no request is left out: two calls
that hold the same unmarked transaction both reverse it, as does a retry after a
death between the two saves, so an approved one may be reversed at any time. Rows that agree in amount and status are one in `others`.
A reversal whose amount was clamped is posted with the whole amount, as in the code.

### Bounds

| Bound | In | Why it is enough |
|---|---|---|
| `MaxSends` (guards of `ProcessBegin`, `RetryBegin`) | gateway requests per item | 2 gives a first run and a retry or a second run after FAILED -> PENDING |
| `MaxRetryAttempts` = 1 | retries | the code's 3 only repeats RETRYING -> RETRYING; both outcomes of `mark_failed` occur |
| `MaxBatchSize` | items in a batch | 2 items: one paid and one not is what a partial outcome needs |
| 2 sessions | | the row locks are exclusive: a third session waits where the second does; the theorems hold for any number |
| `MaxCalls` = 1 (guard of `Announce`) | calls of `delay()` for one event | a second announcement of the same event repeats the first; FAILED and then COMPLETED are two events |
| `MaxDeliveryRetries` = 1 | retries of a delivery | the code's 3 only repeats `Retry`; the first attempt and the last occur |
| balance 2 or 4 | | 2 funds either batch of `wallet` but not both, so that the second is refused |
| `MaxStock`, `MaxRecorded` (guards of restock, adjustment and import) | units that enter an item, sum of its events | 1: sold out, in stock, and one decrement from the sentinel all occur |
| `MaxPerUser` = 1 | receipts of one user and item | the code's 5 only delays the case; two receipts of one user compete |
| `MaxAttempts`, `MaxRetries` = 2 in `receipts` | executions of a delivery | the code's 3 only repeats; a first execution, a retry, the exhausting one, and one after it (admin retry) occur |
| one death per receipt (`mishap`), one admin retry per receipt (`asked`) | | a second one repeats the first; without a bound a worker could die for ever |
| `Deltas`, `EditedStocks` | quantities of staff | -1 is the adjustment that can reach the sentinel and the form value that is the sentinel; `receipts` uses 1 |
| `MaxOverwrites` (guard of `UpdateLoad`) | outdated saves of a batch after which it is not edited again | 1 in `updates`: one outdated save reopens a closed batch, and what the queue then does with it is in the run; 0 in the other runs, whose properties the theorems prove for any number |
| `MaxIn`, `MaxOut`, `MaxFrozen` | credits, other debits, frozen balance | 2 units in `balances`: a debit, a freeze, a reservation or a withdrawal of all there is, and the reversal of each; 4 in `withdrawals`: two credits, which a key may share |
| `MaxRestored` | units that reversed debits restore | 2: one reversal of each kind shows what it leaves behind; a second one repeats it |
| `Typed` | the balances staff type into the form | 0 in `withdrawals` (a balance wiped out), none in `balances`, where typing over a balance is a taint and ends the claim |
| `Endings` | the statuses that staff give a transaction on its own | both in `balances`; none in the other runs, whose questions they do not touch. The theorems hold for any |
| `MaxReturned` | returns of one request | 2 in `cancelled_again`; 1 elsewhere: the second return is a taint anyway |
| `MaxOvertaken` (guard of `Taint`) | calls that write from outdated copies | 1 in `withdrawals`: what an outdated save does to a lock, a key or a request; 0 in `balances`, whose property is about behaviours without one. The theorems hold for any number |
| 1 request in `withdrawals` | | settlement and rejection concern one request at a time; that an accident to one does not spread to another is in the theorem, which holds for any finite set of requests |

## 3. Runs that pass

| Run | Instance | Properties |
|---|---|---|
| `batch` | 1 batch, 2 items, 2 sessions, crashes, every answer but a plain refusal, no wallet models | `TypeOK`, `NeverVisiblyProcessing`, `InFlightUndisturbed`, `SuccessImpliesPaid`, `FailedIsNeverRecorded`, `ImplementsLifecycle` |
| `updates` | 1 batch, 2 items, 2 sessions, crashes, PUT and PATCH among the calls | `StartedIffReserved`, `ClosedBatchIsFinal`, `TotalsOfClosedBatches` |
| `wallet` | 2 batches of different totals, wallet for one of them, refunds that may fail, `FairSpec` | `RowLocksExclusive`, `WalletNeverStale`, `NoCircularWait`, `WalletMovesAddUp`, `TransactionsEnd` |
| `delivery` | 1 batch of 1 item, 1 session, crashes, every answer, no wallet models, `FairEventsSpec` | `EventsTypeOK`, `SuccessEventsPaid`, `FirstSuccessIsAnnounced`, `OutcomeIsAnnounced`, `PermanentFailureNeverAnnounced`, `NoCallIsLost`, `DeliveriesEnd` |
| `inventory` | 1 item, 2 receipts of one user, 2 requests, 1 worker, adjustments and edits | `TypeOK`, `CapHolds`, `BecomesUnlimitedByEditOnly`, `TrailAccountsForStock` |
| `receipts` | 1 voucher item with a code, 2 receipts, 1 request, 1 worker, crashes, `FairSpec` | `DeliveredCodeIsSpent`, `SweepFindsNothing`, `CodesAreSingleUse`, `DeliveryEnds` |
| `withdrawals` | 1 request, 1 batch, 1 key, 2 sessions one of which may write an outdated copy, bulk actions and the wallet's form | `TypeOK`, `SettledOnce`, `BatchesPayNobody`, `CreditedOnce`, `RejectedWhilePending`, `UnlockedByHand` |
| `balances` | 1 request with its fee, staff's decisions on its transaction, every kind of movement and the reversal of each, 2 sessions | `FundsAccounted` |

`wallet` has no crashes, which would make the search for a transaction that never ends too long; `batch` has them, and the theorems
of section 4 say of the four safety properties of `wallet` that they hold with crashes, too.

### Payout queue

* `NeverVisiblyProcessing`: no other session ever sees PROCESSING or an advisory
  lock. This is why a killed worker leaves nothing to clean up, and also why
  `PayoutBatch.objects.processing()` is always empty and the stale-lock sweep never
  finds anything.
* `RowLocksExclusive`, `InFlightUndisturbed`: one worker per batch and per item,
  and between the SELECT and the HTTP call nobody cancels, skips or pays the item.
* `SuccessImpliesPaid`, `ImplementsLifecycle`: what is reported was paid, through
  rollbacks, lost answers and edits. Nothing is claimed about paying only once:
  that is up to the gateway (`GatewayIdempotent`), and `lost_success` shows it
  would be false.
* `FailedIsNeverRecorded`: the count `mark_failed` stores with FAILED is one more than
  the CHECK constraint accepts, so no committed item is ever FAILED. With it the refund of a
  partial outcome is always 0, the FAILED half of reconciliation has nothing to examine and the
  alert for permanent failures is dead.
* `ClosedBatchIsFinal`: process, retry, cancel, hold, resume and refresh leave a closed batch closed, under
  a worker that read it PENDING before, too. The one way back is a PUT or PATCH that loaded the row before the
  batch was closed: it saves the old status over the new one. The property says that there is no other.
* `TotalsOfClosedBatches`: no item is added late and no worker recomputes a closed batch; its total is written by
  the refresh, whose sum may be old (section 5), and by a PUT or PATCH that saves another one.
* `WalletNeverStale`, `WalletMovesAddUp`: the balance written at commit was computed
  from the balance of now; no overdraft; no movement of money is lost or counted twice. What a refund should have given back and
  did not, because it failed, is in neither sum: the properties say what happened to the balance, not what ought to have.
* `StartedIffReserved`: `started_at`, by which `cancel_payout_batch` decides whether there is something
  to refund, is set exactly on the tenants' batches that were reserved for at some time, where the wallet's models are installed and
  until a PUT or PATCH saves an older row over the batch. Where they are not installed, batches start with nothing
  reserved. (That it does not say whether the reservation was returned since is in section 5.)
* `NoCircularWait`: the lock order (batch, wallet, items with SKIP LOCKED) has no
  deadlock: who waits for a row waits for a session that waits for nothing, or
  (a refresh or a save, for a batch whose holder waits for the wallet) is one more link away from it.
* `TransactionsEnd`: nor does a transaction fail to end for another reason, if sessions run.
* `SuccessEventsPaid`: a success is announced before it is committed, and the
  rollback does not take the message back; what the merchant was told stays true,
  because the gateway does not roll back either. (That the platform remembers it
  is another matter: `lost_success`.)
* `FirstSuccessIsAnnounced`: the other direction, for items that succeed at their first
  attempt; later attempts are made by the retry loop, which has no signals (section 5).
* `OutcomeIsAnnounced`: no batch gets an outcome past `_finalise_batch`, and each
  under its own event. One item cannot be PARTIALLY_COMPLETED; the theorem covers it.
* `PermanentFailureNeverAnnounced`: `process_batch` only takes QUEUED items, which are at
  their first attempt, and `mark_failed` makes those RETRYING. The branch at services.py:584 and
  the receiver behind it, with its SLA alert, are dead code.
* `NoCallIsLost`, `DeliveriesEnd`: every call is with the broker until its end is
  known, and every call ends.

### Reward inventory

* `CapHolds`: two awards of one user cannot both count the same receipts, because the item row
  is locked. It is stated over receipts in their first life: a FAILED or REVOKED receipt has given
  its place away, and a delivery that comes after that can push the user over the cap (section 5).
* `BecomesUnlimitedByEditOnly`: the sentinel -1 is one below "sold out". No sale, return, adjustment
  or correction, however they interleave, turns a finite stock into an unlimited one.
* `TrailAccountsForStock`: the `StockEvent` rows explain every change of a finite stock but
  two: a whole-row edit and `sync_stock_counts`, which write no event.
* `DeliveredCodeIsSpent`: code and receipt are two commits; in every interleaving with death,
  redelivery, revocation and expiry the code of a delivered receipt is not one the pool can give again.
* `CodesAreSingleUse`: the refinement of `SingleUseCodes`.
* `SweepFindsNothing`: `retry_failed_deliveries` selects FAILED receipts with attempts left;
  a receipt only fails when its attempts are used up, so the sweep is idle for ever.
* `DeliveryEnds`: a PENDING receipt is delivered, fails or is revoked, unless its message went with
  a child process. Nothing looks for receipts that stay PENDING.

### Wallet and withdrawals

* `FundsAccounted`: `pending_balance` holds exactly the open requests, those that staff rejected or completed in
  bulk, and what instant payouts left there; `total_withdrawn` the completed ones and the transfers; nothing is lost, and nothing made but what
  reversed debits restored, **as long as
  no call saved an outdated copy, nobody typed over a balance and no request was cancelled twice**. It shows that every call keeps
  the five columns, the request and its transaction in step, refusals included, and says what is left behind by those that
  do not: a reversed freeze is in `current_balance` and in `frozen_balance`, a reversed withdrawal in `current_balance` and in
  `pending_balance`, a request rejected in bulk in `pending_balance` for ever. `lost_update` shows that the condition is needed.
* `SettledOnce`: paid once if COMPLETED, returned once if REJECTED or CANCELLED, neither otherwise,
  for every request that itself was not written from an outdated copy: an accident to one
  request or to the wallet does not spread to the settlement of another. A request that staff closed in bulk is neither
  paid nor returned, and stays so: no call that read it in time settles it later without being an outdated copy.
* `BatchesPayNobody`: `create_batch` sets BATCHED and `complete` wants APPROVED or PROCESSING: a
  batch completes none of its requests and marks all of them FAILED.
* `RejectedWhilePending`: `reject` lets APPROVED through and saves the wallet; its transaction
  then refuses, and all depends on the rollback.
* `CreditedOnce`: a key is credited once, and stays on record, unless it expired or two credits with it overlapped; also where another
  wallet's credit recorded it first.
* `UnlockedByHand`: an administrator's lock is undone by `unlock` or the form, which move no money then, or by a call that saves
  a copy from before it, and by nothing else.
* `TypeOK` includes that no balance is ever negative, even with lost updates. The clamp of
  `pre_save` (signals.py:93-103) acts in one operation alone, the reversal of a credit that is already spent.

### Fairness

`FairSpec` of the queue gives strong fairness to the steps of each session. A session that runs goes on: the
gateway client has a timeout (`GATEWAY_TIMEOUT_SECONDS`, constants.py), so every call returns;
PostgreSQL serves the waiters of a row lock in turn, so a session that waits for a row that is free
again and again gets it (this is what needs strong fairness). No fairness is
assumed of administrators, beat tasks, late payments or crashes: whether a batch
is ever processed is not promised.

`FairEventsSpec` assumes weak fairness of `Conclude(m)`, for each message, and nothing of the
queue: some worker of the Celery pool takes every message (the request has a timeout and the task
a time limit of 30 s, tasks.py:265-266), and it is not killed over it every time.

`FairSpec` of the inventory assumes that a request ends (weak, per session), that a worker finishes the delivery
it has begun (weak, per worker), and that a message is taken (strong, per receipt: the broker's
queue is first in, first out, so a message is not passed over for ever while a worker is free again
and again). Nothing is assumed of staff, expiry or the admin's retry.

Nothing is promised of withdrawals: `process_pending_withdrawals` only runs when someone starts it, because
`WALLET_BEAT_SCHEDULE` (celery_beat_config.py) is merged by neither `config/celery.py` nor the settings. The
maintenance tasks of the inventory are in the same position (the settings name tasks such as
`inventory.tasks.cleanup_expired_codes`, which do not exist); in the model they may happen at any time.

### Deadlock and mutants

Deadlock checking is on in the runs of the queue: a batch that exists and is not locked can
always be unlocked again (`ReleaseLock`), so the whole system never stops; that
no single session is stuck is what `TransactionsEnd` says. It is off for the inventory and
the withdrawals, where the bounds (finitely many receipts, requests, units) let the whole instance come to its end.

Every property of these runs has a mutant in `PROJECT.json`: a definition of the
model changed as a plausible bug in the code would change it (a missing
`select_for_update`, a reopened CANCELLED batch, a dropped balance check...),
with which TLC finds the property violated. The changed definitions stand in the modules as "Faulty variant".

## 4. What is proved

All theorems are checked by TLAPS, for any values of the constants that satisfy the named
assumptions.

### Payout queue

`PayoutQueue_proofs.tla`: for ANY sets of batches, items and
sessions, any amounts, limits and answers, assuming only `ConstantsAssumption`
and `GrossSumAssumption` (and, for sums, `FiniteAssumption`: a table has finitely
many batches and items; all are evaluated by TLC in every run of the queue):

| Theorem | States |
|---|---|
| `InductiveInvariance` | `Spec => []Inductive` |
| `TypeCorrect` | `TypeOK` |
| `ProcessingInvisible` | `NeverVisiblyProcessing` |
| `LocksExclusive` | `RowLocksExclusive` |
| `InFlightSafe` | `InFlightUndisturbed` |
| `SuccessBacked` | `SuccessImpliesPaid` |
| `WalletSafe` | `WalletNeverStale` |
| `NoItemFails` | `FailedIsNeverRecorded` |
| `LocksNeverDeadlock` | `NoCircularWait` |
| `StartedMeansReserved` | `StartedIffReserved` |
| `ClosedStaysClosed` | `ClosedBatchIsFinal` |
| `TotalsOnlyRefreshed` | `TotalsOfClosedBatches` |
| `QueueImplementsLifecycle` | `ImplementsLifecycle`, the refinement |

*The argument.* None of the invariants is inductive alone, because a commit
writes what the transaction prepared many steps before. `Inductive` adds what must
be known of a transaction while it is open:

* `TxnShape`: at each point, which fields mean something (a reservation only
  between the deduction and the commit, rows only of held items, `todo` within
  `held`);
* `Prepared`: the batch row that waits in a transaction is the committed one
  moved along `ValidTransitions`, its advisory lock taken with PROCESSING. With the row lock this
  says that the committed row has not changed since it was read;
* `LockedRowsKept`: an item row held by a sender is still QUEUED or RETRYING in
  the table: the lock kept everybody else out;
* `FailedIsNeverRecorded`: a retry count at its limit is not storable, so no prepared row is FAILED;
* `LateWasAsked`: a payment that may still arrive late was asked for, which the
  refinement needs of `LatePay`.

The steps are grouped by what they do to the rows (`BatchStep`, `BeginStep`,
`CommitStep`, `RecordStep`, `RollbackStep`); `StepKinds` proves that every step of
`Next` is of one kind, an effect lemma says what each kind can change, and each
part of `Inductive` has a lemma that goes through the kinds. `StartedMeansReserved` needs a second invariant on top
of it: what an open transaction has reserved is what its batch row will say with `started_at`
(`Reservations`, `Charged`). The refinement uses
the same cases: a commit of items is `Report`, `Drop` or a stutter, a gateway
call is `Ask`, `LatePay` is `PayLate`, everything else stutters or is `Request`.

*Deadlock freedom* needs no measure on chains of waiters: `Inductive` says who can hold the wallet (a
session past its deduction, which waits for nothing), and that a refresh holds no row at all, so a
chain of waiters has at most two links.

*Money.* `PayoutMoney_proofs.tla` is about the reservations and refunds:

| Theorem | States |
|---|---|
| `BooksBalance` | `Spec => []WalletMovesAddUp` |
| `RefundsCovered` | `RefundWithinReserve`, of behaviours that are always `Undisturbed` |
| `PaymentsWithinReserve` | `DisbursedWithinReserve`, where `WalletInstalled`, of behaviours that are always `Undisturbed` and `FailedItemsNotPaid` |

`BooksBalance` is about a sum over all batches. `SumLemmas.tla` has what it needs: `SubsetInduction` (a set of
subsets that contains the empty set and grows by single elements contains every subset of a finite set; proved by
a smallest counterexample, because the induction theorems of the library take an operator as a parameter), and by it
`SumChange`: a sum in which one summand changes changes by as much. A commit changes the
movements (`bridge`) of one batch and the balance by the same amount, because the balance that the session computed is
the balance of now (`WalletNeverStale`).

The other two are about properties that TLC *violates* (section 5). A violation shows one way to break a
property; these theorems show that there is no other. `Undisturbed` says that no step takes a batch out of FAILED,
that no refresh writes a total other than the one that is there, and that no PUT or PATCH saves a row other than the one that is there; `FailedItemsNotPaid`, that no item of a FAILED batch
becomes SUCCESS. Under them an invariant (`Covered`, `ItemsMatchBatch`, `ReservationKept`) holds that fails in general: the
total of a batch is the sum of its items, and what an open run has reserved is that total; nothing was moved for a batch that is
PENDING, ON_HOLD or CANCELLED; no item of a FAILED batch is paid; a COMPLETED or PARTIALLY_COMPLETED batch
keeps a reservation for all its items. Crashes, rollbacks, timeouts, late payments, refunds that fail and all
interleavings of cancel, hold, refresh and retry remain in these behaviours. What they lack is what the code would have to
rule out: a resume after FAILED that does not look at the refund, a refresh and an edit without the lock, a retry of refunded items, a batch
that runs without a wallet.

*Attempts and payments.* `PayoutAttempts_proofs.tla` does the same for two more:

| Theorem | States |
|---|---|
| `AttemptsWithinBound` | `AttemptsBounded`, of behaviours that are always `NoAttemptForgotten` |
| `PaymentsRecorded` | `PaidIsRecorded`, and that nobody is paid twice (`PaidOnce`), of behaviours that are always `PaymentsAnswered` |

`NoAttemptForgotten`: a transaction that sends items is rolled back before its first request or not at all. It is the rollback
of a count that lets an item be sent again, and the last failed attempt always ends in one (`Storable`), which is why
`AttemptsBounded` is violated; with it out of the way, `retry_count` and the row locks bound the requests, whoever processes and
retries at the same time. `PaymentsAnswered`: the gateway pays only what it answers with success, in time, and no transaction that
holds a success is rolled back. These exclude the three ways to pay without a record (a late payment, a success without reference, a
rollback), and nothing else: the theorem holds with `GatewayIdempotent` = FALSE. Both invariants (`AttemptsCounted`, `PaymentsCounted`)
speak of every version of a row that exists, the committed one and those that transactions hold (`RowOf`), and rest on
`ClaimedAsFound`: a row that a session has taken to send is, until it is sent, the committed one.

`PayoutEvents_proofs.tla` adds, assuming also `EventsAssumption`:

| Theorem | States |
|---|---|
| `EventsWatchTheQueue` | `EventsSpec => Spec`: the webhooks change nothing about the queue, and every theorem above holds with them |
| `EventsInvariance` | `EventsSpec => []EventsInductive` |
| `EventsTypeCorrect` | `EventsTypeOK` |
| `SuccessEventsTrue` | `SuccessEventsPaid` |
| `FirstSuccessesAnnounced` | `FirstSuccessIsAnnounced` |
| `OutcomesAnnounced` | `OutcomeIsAnnounced` |
| `CallsSurvive` | `NoCallIsLost` |
| `PermanentFailureSilent` | `PermanentFailureNeverAnnounced`, when `MaxRetryAttempts` > 0 |

`EventsInductive` is `Inductive`, the properties themselves, `FirstAttempt` (an item that is
QUEUED, or was taken QUEUED and is not yet sent, has retry_count 0, and one that is RETRYING has not), which
`PermanentFailureSilent` needs, and `FirstSuccessTold` (the same announcement for successes that a transaction
holds and has not committed). `EventKinds` says which events a step announces; `OutcomesComeFromCommits` that only the
commit of `process_batch` gives a batch an outcome.

### Reward inventory

`RewardInventory_proofs.tla`, for any items, codes, receipts, users, sessions and workers, from `ConstantsAssumption`
and `FiniteAssumption` (the receipts and codes are finite sets):

| Theorem | States |
|---|---|
| `InductiveInvariant` | `Spec => []Inductive` |
| `TypeCorrect` | `TypeOK` |
| `CapCorrect` | `CapHolds` |
| `DeliveredCodesAreSpent` | `DeliveredCodeIsSpent` |
| `SweepNeverActs` | `SweepFindsNothing` |
| `UnlimitedByEditOnly` | `BecomesUnlimitedByEditOnly` |
| `TrailIsComplete` | `TrailAccountsForStock` |
| `CodesImplementSingleUse` | `CodesAreSingleUse`, the refinement |
| `OversellByEditOnly` | `NoOversell`, of behaviours that are always `StockUntouched` |
| `RevokedAtRestStays` | `RevokedIsNotDelivered`, of behaviours that are always `RevokedAtRest` |

*The argument.* `Inductive` adds to the type invariant:

* `Locks`: two open awards hold different item rows and different code rows;
* `AwardsOpen`: what an open award has checked still holds when it commits: its receipt is absent, its code is
  AVAILABLE, its item is in stock;
* `Rows`: an absent receipt has no code and no history, and no revocation, claim or delivery goes by one;
* `OneChain`: while a receipt has attempts left, at most one task is queued or under way for it, so its
  attempts are not written twice;
* `Snapshots`: the attempts a delivery has loaded are those of the row, or all are used up in both;
* `OutOfPool`: the code of a receipt is RESERVED, REDEEMED or VOIDED, and of no other receipt;
* `Spent`: besides the receipts that are delivered, a delivery past `mark_redeemed` and a claim go by a spent code;
* `Capped`: the cap over receipts in their first life, with the awards that are still open counted in.

The cap needs cardinalities: an award adds one receipt to a set that had room (`FS_AddElement` and `FS_Subset`
of the library). `CodesImplementSingleUse` maps an award's commit to `Assign`, an import to `Load`, expiry and the
voiding of a pooled code to `Withdraw`, everything else to a stutter.

The last two say what alone violates the two properties of section 5. `StockUntouched`: no edit of an item's row and no
correction ends with another stock than it found. Then the stock is the initial one plus all that was recorded
(`StockOnTrail`, from the same lemma as `TrailIsComplete`), and it is never negative: the lock of the award prevents
overselling, as services.py:5 says, and the whole-row edit is what defeats it. `RevokedAtRest`: no receipt is revoked while its delivery is
queued or under way, or while a claim has read it DELIVERED. Then it stays REVOKED (`RevokedStays`), because nothing begins
or queues anything for such a receipt: an award wants an absent row, `retry_delivery` a FAILED one, a claim a DELIVERED one. Excluding queued deliveries alone is not enough: TLC finds the
delivery that has loaded the receipt already.

### Wallet and withdrawals

`Withdrawals_proofs.tla`, for any requests, batches, keys, sessions and amounts, from `AmountAssumption`,
`FeeAssumption`, `SumsAssumption`, `TypedAssumption`, `RequestAssumption` (finitely many requests), `EndingsAssumption` and
`NoneAssumption`:

| Theorem | States |
|---|---|
| `InductiveInvariant` | `Spec => []Inductive` |
| `TypeCorrect` | `TypeOK`, no negative balance |
| `SettledCorrect` | `SettledOnce` |
| `FundsCorrect` | `FundsAccounted` |
| `BatchesNeverPay` | `BatchesPayNobody` |
| `KeysCorrect` | `CreditedOnce` |
| `RejectionFromPending` | `RejectedWhilePending` |
| `UnlockCorrect` | `UnlockedByHand` |

*The argument.* `Copies` says what each kind of call holds (a copy of the wallet that is a wallet row, the
requests it is about, a batch only while it has it). `TxnApproved` ties a request's status to its transaction's while nothing
overtook it: the transaction of an APPROVED request is past PENDING and stays so, whatever staff do to it, which is why a
rejection from APPROVED is refused. `KeyInNoHand`: a key that has been credited, untouched by expiry or
overlap, is in no call's hand, so no second credit is on its way. `FundsAccounted` is kept case by case: a call either taints, and
there is nothing to show, or its copy IS the row, and the sums move as the operators `Credited`, `Debited`, `Returned`, `Paid`
say, with `Cardinality(Held)` and `Cardinality(PaidOut)` changed by one request (lemmas on cardinalities of sets that gain or lose an element).
`Reverse` is a credit or a debit of its own (`ReverseFacts`). A bulk action changes neither set: what it closes was held and stays so
(`byHand`), and what was closed in bulk no guard lets through again unless a copy is outdated (`ClosedByHand`).

*Only model-checked:* `TransactionsEnd`, `DeliveriesEnd` and `DeliveryEnds` (liveness under fairness is out of the
prover's reach), and the violations below. Sums over finite sets are within its reach (`SumLemmas`); what a recursive
definition computes for every input is not; no definition of the models is recursive.

## 5. Where code and documentation disagree

Each of these is a run in which TLC finds a violation of a sentence of the
repository; `PROJECT.json` "findings" quotes the sentence.

| Run | What happens |
|---|---|
| `over_disbursement` | All items fail ONCE: the batch is FAILED and refunded in full (services.py:207) although its items are RETRYING; the retry task pays them without any reservation. |
| `lost_success` | Item 1 is paid and marked; on item 2 the gateway account is empty; the exception (services.py:574) rolls the first `mark_success` back; item 1 is QUEUED and will be sent again. |
| `lost_update` | Two credits read one balance; the second save erases the first. The comment on `version` (wallet/models/core.py:36) promises optimistic locking; no save compares it. |
| `cancelled_again` | `cancel` refuses only COMPLETED and REJECTED: a CANCELLED request is cancelled again and its amount returned again. |

### Without a run of their own

The property is in the module; named in a cfg of the same instance, TLC shows the counterexample.

| Property | What happens |
|---|---|
| `PayoutQueue!RefundWithinReserve` | All items of a batch fail: FAILED, refunded in full. An administrator resumes it (PENDING) and cancels it: `started_at` is still set, `cancel_payout_batch` (services.py:770) refunds the total again. |
| `PayoutQueue!ConcurrencyLimited` | Two workers start two batches under `MAX_CONCURRENT_BATCHES` = 1: the count reads committed PROCESSING rows, and there are none. |
| `PayoutQueue!AttemptsBounded` | At the last retry the FAILED row breaks the CHECK constraint, the whole retry run rolls back, the item stays RETRYING and is sent again for ever (needs `MaxSends` = 4). |
| `PayoutQueue!TerminalTotalsFrozen` | `refresh_batch_totals` sums the items, a worker completes the batch after more were added, the old sum is written over the total of the COMPLETED batch. A PATCH that was loaded while it was PENDING does the same. |
| `PayoutEvents!SuccessIsAnnounced` | An item fails in `process_batch` and succeeds in the retry task: it is SUCCESS, and no signal was sent (services.py:732). |
| `RewardInventory!NoOversell` | Staff save an item form with the stock they loaded before a sale (`current_stock` is writable in `RewardItemWriteSerializer`): the sold unit is back and is sold again, against "prevent oversell" (services.py:5). |
| `RewardInventory!RevokedIsNotDelivered` | A receipt is revoked, and its unit returned, while its delivery is queued: `deliver_item` (services.py:393) skips only DELIVERED and delivers it. |

### Met while reading, not stated as properties

*Payout queue.* Neither the deduction nor the refund leaves a `WalletTransaction`: `create(account=..., reference=...)`
(payout_integration.py:145-160 and 215-226) names fields that the model does not have, and the `TypeError` is logged and passed
over. The nightly reconciliation (tasks.py:387-500) reports a discrepancy whenever the gateway's `verify` answers anything but
success for a SUCCESS item, "pending" and "not found" included; it does not examine a paid item that is RETRYING because the gateway gave
no reference. FAILED, resumed and processed again with nothing QUEUED, a batch is COMPLETED and its total reserved a second time
for nothing. An unfunded
batch is written FAILED inside the transaction that the same error rolls back
and stays PENDING (`ProcessDeductFails`; payout_integration.py:15 says otherwise);
an item edit that aborts after `process_batch` passed over its row leaves the item
QUEUED in a COMPLETED batch; the reserved share of cancelled items is never
returned; `AppendOnlyModel.save` (models.py:160) refuses rows with a preset UUID,
so `BulkProcessLog` is never written; audit rows of payouts are not written either
(`log_payout_event` in `src/api/audit_logs/payout_integration.py` gives `AuditLog` fields that
the model does not have, and the error is caught); a webhook whose last attempt times out raises
the timeout again inside its own `except` clause (`self.retry(exc=exc)`, tasks.py:327), which the handler
that writes the "dead-letter" line of receivers.py:363 does not cover; `set_withdrawal_priority` (services.py:852) deactivates
and inserts without a lock.

*Reward inventory.* `adjust_stock` with a positive delta on an unlimited item adds to the sentinel: the item becomes
finite with one unit less (services.py:172-180). Restocks and sales of unlimited items write events although no stock moves.
`max_per_user` of an item is never read, `reserved_until` of a code never enforced. A FAILED receipt returns neither its unit nor
its code; the revocation of a PENDING receipt leaves its code RESERVED for ever. The delivery message leaves before the
commit (services.py:372-373), so a first execution may find nothing, and a rolled-back award leaves a message behind that is
retried until it gives up. A delivery that runs after the receipt has FAILED or was REVOKED can still deliver it, and with
it exceed the cap. Two concurrent revocations of one receipt return its unit twice.

*Staff and the wallet.* `WithdrawalRequestAdmin.approve_requests` (wallet/admin.py:1450-1494) means to debit the wallet again and
approve, but writes nothing: `withdrawal.user.wallet` is the reverse of smartlink's `PublisherWallet`
(smartlink/models/billing.py:217-219, `related_name='wallet'`; that of `Wallet` is `wallet_wallet_user`, models/core.py:49). A
user without one is skipped, and with one `WalletTransaction.objects.create` refuses it (ValueError, caught per request). The change form of `WithdrawalRequestAdmin` does not open (its fieldsets name
`account_number`, which is no field of the model: FieldError), so the status is not editable there; nor does that of `WalletTransactionAdmin`
(`transaction_id`). `reject_requests` has no template for its form (`reject_form.html` does not exist): it works for a POST that has
'apply' and a reason. A PATCH of the wallet and `WalletAdmin`'s form do save (`SaveWallet`). `WalletRepository.credit_user` of the offer
inventory sets a `CombinedExpression`, which the `pre_save` signal compares with 0: TypeError, rolled back.

*Wallet.* `process_batch` of withdrawals marks every request FAILED, and a FAILED request keeps its money in
`pending_balance` until someone cancels it. `cancel` writes no refund transaction and leaves the debit PENDING. The webhook
for a completed withdrawal looks for `gateway_reference` (integration/webhooks_integration.py:183), which only
`complete` itself sets, so it finds nothing. `freeze` takes the amount out of `current_balance` and `available_balance`
subtracts `frozen_balance` once more. Instant payouts, recurring payments, subscriptions and instalments leave their amount in
`pending_balance` for ever (`InstantPayout`, the `parked` book). `deduct_balance` (WalletService.py:403-406), the chargeback debit
(chargeback.py:177-186), `debit_for_reversal` (adapters/inbound.py) and `TransactionService.create` pass keyword arguments that `debit` and
`credit` do not have and end in `TypeError`. Some transaction types are longer than the column that stores them.
`WalletTransaction.reverse` (models/core.py:394) takes any approved or completed transaction and moves `current_balance` alone: that of a
withdrawal touches neither `pending_balance` nor the request, which can still be paid or cancelled, that of a freeze not
`frozen_balance`, that of a transfer not the receiver: the amount is then there twice (the book `restored`
of the model accounts for it). Of a credit that is spent it takes back what is left, and the trail (`balance_after`) says so, but its
amount is the whole. The withdrawal limits count requests that concurrent calls have not inserted yet.

## 6. What is not modelled

* *Payout queue*, the forms of `PayoutItemAdmin` (admin.py:172) and `PayoutItemInline` (66): they save a whole item row that was loaded without
  a lock, with `gross_amount` editable, so an outdated form can write QUEUED over a SUCCESS, and what is said here about items holds as long as no
  such form overtakes a run. The deletion of a batch (DELETE of viewsets.py:144, and of the admin site). Reconciliation, which reads, asks the gateway and reports (section 5).
* *Payout queue*, `services.py`: withdrawal priorities, statistics and their cache, fee
  computation, the process log; `receivers.py`: notifications, audit rows, SLA and priority events. The processing of a payout reads none of them.
* *Reward inventory*: the forms of `RedemptionCodeAdmin` (admin.py:83-88) and `UserInventoryAdmin` (106-118), which save a whole code or
  receipt, its editable status included, from an unlocked copy: what is said here about codes and receipts holds as long as staff
  do not set a status in these forms and no such form overtakes a delivery. Low-stock alerts, warnings and the texts of the delivery handlers.
* *Wallet*: bonuses, points, streaks, earning caps and multipliers, the `reserved_balance` of `BalanceReserve`,
  the double-entry ledger tables, withdrawal limits and blocks. Other users' wallets: of a transfer the sender's side is modelled.
* The offer inventory's conversion engine (`src/api/offer_inventory`): both of its intakes
  stop before they record anything on the configured database:
  `ConversionTracker` joins nullable relations under `FOR UPDATE`
  (conversion_tracking.py:229-233), which PostgreSQL refuses and the code reports as a
  duplicate; `ConversionService._update_caps` filters on a Python property
  (services.py:359) and the `FieldError` rolls the conversion back. A model would be one rollback.
* The postback engine (`src/api/postback_engine`): its services call methods of custom managers
  (`get_by_key_or_raise`, `record`, `get_by_click_id`, `is_blacklisted`) that `managers.py` defines
  and no model is given, so `receive_postback` (services.py:127) ends in `AttributeError`. A model
  would have no behaviour.
* Permission checks, serialisation, HTTP, tokens, notification texts: no property
  here is about them.
* The other applications, listed in `PROJECT.json` with the reason. The repository has more than two million lines of Python in some
  fifty applications; most of them are serializers, admin pages, migrations, reports and CRUD endpoints over rows that no
  second actor touches. They make up nearly all of the lines and have no behaviour of the kind that is modelled here.

## 7. Plan

| Part | State |
|---|---|
| Payout queue (`PayoutLifecycle`, `PayoutQueue`, proofs) | done |
| Webhooks (`PayoutEvents` over `PayoutQueue`, proofs) | done |
| Reward inventory (`SingleUseCodes`, `RewardInventory`, proofs) | done |
| Wallet and withdrawals (`Withdrawals`, proofs) | done for the operations of section 2 |
| Wallet: reservations, reversals of every kind, staff's decisions, bulk actions and forms | done |
| Payout queue: whole-row edits of batches, errors around the wallet | done |
| Payout queue: the form of an item; inventory: the forms of codes and receipts | left; each is an `EditLoad`/`EditSave` pair whose outdated saves the item and code properties would have to except |
| Wallet: withdrawal limits | left; would be a guard of `Withdraw` over the requests a call has counted |
| Payout queue: withdrawal priorities, statistics cache, fees | left; small, and nothing in the queue depends on them |
| Under what conditions the violated properties hold (refunds, disbursement, attempts, payments, oversale, revocation) | proved (section 4) |
