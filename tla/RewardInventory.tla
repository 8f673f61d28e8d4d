--------------------------- MODULE RewardInventory ---------------------------
(***************************************************************************)
(* The reward inventory of api/inventory: the stock of the items, the      *)
(* redemption codes, the receipts (UserInventory) and their delivery.      *)
(*                                                                         *)
(* item, code, receipt and recorded are the COMMITTED rows.  A session is  *)
(* a web request or a maintenance task, a worker executes the Celery task  *)
(* deliver_inventory_item; tx[p] is what p has read and still goes by.     *)
(* An open award also holds its item row and its code row FOR UPDATE until *)
(* it commits or aborts, and every other UPDATE of these rows waits.  The  *)
(* transactions that lie whole under one row lock are one step.            *)
(***************************************************************************)
EXTENDS Integers, FiniteSets

CONSTANTS
    Items,          \* primary keys of RewardItem rows
    CodeItems,      \* the digital and voucher items (uses_codes)
    Codes,          \* redemption codes
    Receipts,       \* primary keys of UserInventory rows
    Users,          \* users
    UserOf,         \* UserOf[r]: the user receipt r is for
    ItemOf,         \* ItemOf[r]: the item receipt r is for
    Sessions,       \* web requests and maintenance tasks
    Workers,        \* Celery workers
    NoCode,         \* "no redemption code"
    NoItem,         \* the item of a code that was never imported
    InitialStock,   \* InitialStock[i]: current_stock at start
    MaxPerUser,     \* MAX_QUANTITY_PER_USER_PER_ITEM
    MaxAttempts,    \* MAX_DELIVERY_RETRY_ATTEMPTS
    MaxRetries,     \* max_retries of deliver_inventory_item
    Deltas,         \* the quantities staff restock and adjust by
    Edited,         \* the items whose rows staff edit
    EditedStocks,   \* the current_stock values an edit form may carry
    Crashes,        \* may a process die
    MaxStock,       \* bound: no restock beyond it
    MaxRecorded     \* bound: no restock event beyond it

UNLIMITED_STOCK == -1

ASSUME ConstantsAssumption ==
    /\ CodeItems \subseteq Items
    /\ UserOf \in [Receipts -> Users]
    /\ ItemOf \in [Receipts -> Items]
    /\ Sessions \cap Workers = {}
    /\ NoCode \notin Codes \cup Receipts
    /\ NoItem \notin Items
    /\ InitialStock \in [Items -> Nat \cup {UNLIMITED_STOCK}]
    /\ MaxPerUser \in Nat
    /\ MaxAttempts \in Nat \ {0}
    /\ MaxRetries \in Nat
    /\ Deltas \subseteq Int
    /\ Edited \subseteq Items
    /\ EditedStocks \subseteq Nat \cup {UNLIMITED_STOCK}
    /\ Crashes \in BOOLEAN
    /\ MaxStock \in Nat
    /\ MaxRecorded \in Nat

ASSUME FiniteAssumption == IsFiniteSet(Receipts) /\ IsFiniteSet(Codes)

VARIABLES
    item,       \* item[i]: the RewardItem row
    code,       \* code[c]: the RedemptionCode row
    receipt,    \* receipt[r]: the UserInventory row
    recorded,   \* recorded[i]: sum of quantity_delta over i's StockEvents
    queue,      \* the delivery tasks the broker holds
    mishap,     \* mishap[r]: what a dying worker did to a delivery of r
    asked,      \* receipts whose delivery an admin has asked to retry
    tx          \* tx[p]: the operation p has under way

rows == <<item, code, receipt, recorded>>
vars == <<item, code, receipt, recorded, queue, mishap, asked, tx>>

-----------------------------------------------------------------------------
(* Rows, tasks and operations *)

Procs == Sessions \cup Workers

ItemRow == [status : {"ACTIVE", "INACTIVE"}, stock : Nat \cup {UNLIMITED_STOCK}]

CodeStatus == {"ABSENT", "AVAILABLE", "RESERVED", "REDEEMED", "EXPIRED", "VOIDED"}
CodeRow == [status : CodeStatus, item : Items \cup {NoItem}]

\* "ABSENT" is the status of a row that has not been inserted.
InventoryStatus == {"ABSENT", "PENDING", "DELIVERED", "CLAIMED", "REVOKED", "FAILED"}
\* revoked: revoked_at is set.
ReceiptRow == [status : InventoryStatus, code : Codes \cup {NoCode}, attempts : Nat,
               revoked : BOOLEAN]
NewReceipt(status, c) == [status |-> status, code |-> c, attempts |-> 0, revoked |-> FALSE]

\* A queued task: sent by the award or by an admin; tries counts its retries.
Task == [receipt : Receipts, origin : {"award", "admin"}, tries : Nat]

Idle == [op |-> "idle"]
AwardTx   == [op : {"award"}, receipt : Receipts, code : Codes \cup {NoCode}]
CheckedTx == [op : {"revoke", "claim"}, receipt : Receipts]
EditTx    == [op : {"edit"}, item : Items, row : ItemRow]
SyncTx    == [op : {"sync"}, item : Items, stock : Nat]
CountedTx == [op : {"counted"}, item : Items, count : Nat]
DeliverTx == [op : {"deliver"}, task : Task, attempts : Nat, redeemed : BOOLEAN]
Operation == {Idle} \cup AwardTx \cup CheckedTx \cup EditTx \cup SyncTx
                \cup CountedTx \cup DeliverTx

Start(p, operation) == tx[p] = Idle /\ tx' = [tx EXCEPT ![p] = operation]
Finish(p)           == tx' = [tx EXCEPT ![p] = Idle]

Awarding(p) == tx[p].op = "award"
\* Faulty variant: the item is read without FOR UPDATE.
NeverLocked(i) == FALSE
ItemLocked(i) == \E p \in Procs : Awarding(p) /\ ItemOf[tx[p].receipt] = i
CodeLocked(c) == \E p \in Procs : Awarding(p) /\ tx[p].code = c

\* Faulty variant: a stock of zero is taken for unlimited.
UnlimitedOrEmpty(i) == item[i].stock <= 0
is_unlimited(i) == item[i].stock = UNLIMITED_STOCK
\* Faulty variant: off by one.
NotNegative(i) == item[i].stock >= 0
InStock(i) == is_unlimited(i) \/ item[i].stock >= 1

\* Faulty variant: every code not yet redeemed counts as available.
UnredeemedCodes(i) ==
    {c \in Codes : code[c].status \in {"AVAILABLE", "RESERVED"} /\ code[c].item = i}
AvailableCodes(i) == {c \in Codes : code[c].status = "AVAILABLE" /\ code[c].item = i}

\* The receipts that count against the cap of a user on an item.
ActiveStatus == {"PENDING", "DELIVERED", "CLAIMED"}
Active(u, i) == {r \in Receipts : /\ receipt[r].status \in ActiveStatus
                                  /\ UserOf[r] = u
                                  /\ ItemOf[r] = i}

Init ==
    /\ item = [i \in Items |-> [status |-> "ACTIVE", stock |-> InitialStock[i]]]
    /\ code = [c \in Codes |-> [status |-> "ABSENT", item |-> NoItem]]
    /\ receipt = [r \in Receipts |-> NewReceipt("ABSENT", NoCode)]
    /\ recorded = [i \in Items |-> 0]
    /\ queue = {}
    /\ mishap = [r \in Receipts |-> "none"]
    /\ asked = {}
    /\ tx = [p \in Procs |-> Idle]

-----------------------------------------------------------------------------
(* Stock *)

\* increment_stock, decrement_stock: an F() update, none on unlimited items.
\* Faulty variant: the sentinel is counted like a stock.
MoveSentinelToo(i, n) == item' = [item EXCEPT ![i].stock = @ + n]
MoveStock(i, n) ==
    item' = [item EXCEPT ![i].stock = IF is_unlimited(i) THEN @ ELSE @ + n]

Record(i, n) == recorded' = [recorded EXCEPT ![i] = @ + n]

WithinBounds(i, n) == item[i].stock + n <= MaxStock /\ recorded[i] + n <= MaxRecorded

\* The event is written for unlimited items too, whose stock does not move.
restock_item(p, i, quantity) ==
    /\ tx[p] = Idle /\ ~ItemLocked(i)
    /\ quantity > 0
    /\ WithinBounds(i, quantity)
    /\ MoveStock(i, quantity)
    /\ Record(i, quantity)
    /\ UNCHANGED <<code, receipt, queue, mishap, asked, tx>>

\* On an unlimited item a positive delta is added to the sentinel.
adjust_stock(p, i, delta) ==
    /\ tx[p] = Idle /\ ~ItemLocked(i)
    /\ delta # 0
    /\ is_unlimited(i) => delta > 0
    /\ ~is_unlimited(i) => item[i].stock + delta >= 0
    /\ WithinBounds(i, delta) /\ recorded[i] + delta >= -MaxRecorded
    /\ item' = [item EXCEPT ![i].stock = @ + delta]
    /\ Record(i, delta)
    /\ UNCHANGED <<code, receipt, queue, mishap, asked, tx>>

\* Codes already in the table are skipped; the item need not use codes.
bulk_import_codes(p, i, S) ==
    /\ tx[p] = Idle /\ ~ItemLocked(i)
    /\ S # {} /\ \A c \in S : code[c].status = "ABSENT"
    /\ WithinBounds(i, Cardinality(S))
    /\ code' = [c \in Codes |-> IF c \in S THEN [status |-> "AVAILABLE", item |-> i]
                                           ELSE code[c]]
    /\ MoveStock(i, Cardinality(S))
    /\ IF is_unlimited(i) THEN UNCHANGED recorded ELSE Record(i, Cardinality(S))
    /\ UNCHANGED <<receipt, queue, mishap, asked, tx>>

-----------------------------------------------------------------------------
(* Award: one transaction under the lock of the item row *)

\* The checks; the task is sent before the transaction commits.
AwardBegin(p, r, c) ==
    LET i == ItemOf[r] IN
    /\ receipt[r].status = "ABSENT"
    /\ \A q \in Procs : Awarding(q) => tx[q].receipt # r
    /\ \A task \in queue : task.receipt # r
    /\ ~ItemLocked(i)
    /\ item[i].status = "ACTIVE"
    /\ Cardinality(Active(UserOf[r], i)) + 1 <= MaxPerUser
    /\ IF i \in CodeItems THEN c \in AvailableCodes(i) /\ ~CodeLocked(c) ELSE c = NoCode
    /\ InStock(i)
    /\ Start(p, [op |-> "award", receipt |-> r, code |-> c])
    /\ queue' = queue \cup {[receipt |-> r, origin |-> "award", tries |-> 0]}
    /\ UNCHANGED <<rows, mishap, asked>>

AwardCommit(p) ==
    LET r == tx[p].receipt
        c == tx[p].code
    IN
    /\ Awarding(p)
    /\ code' = IF c = NoCode THEN code ELSE [code EXCEPT ![c].status = "RESERVED"]
    /\ MoveStock(ItemOf[r], -1)
    /\ Record(ItemOf[r], -1)
    /\ receipt' = [receipt EXCEPT ![r] = NewReceipt("PENDING", c)]
    /\ Finish(p)
    /\ UNCHANGED <<queue, mishap, asked>>

-----------------------------------------------------------------------------
(* Delivery: no transaction, no lock; every save commits by itself *)

\* Faulty variant: one execution too few.
RetriedLess(task) ==
    IF task.tries + 1 < MaxRetries THEN {[task EXCEPT !.tries = @ + 1]} ELSE {}
\* self.retry: the task goes back to the broker until its retries are used up.
Retried(task) == IF task.tries < MaxRetries THEN {[task EXCEPT !.tries = @ + 1]} ELSE {}

\* The award behind a first execution may still be open; the retry delay of a
\* minute outlasts it.
DeliverNotFound(w, task) ==
    /\ tx[w] = Idle /\ task \in queue
    /\ receipt[task.receipt].status = "ABSENT"
    /\ task.tries = 0 \/ \A p \in Procs : Awarding(p) => tx[p].receipt # task.receipt
    /\ queue' = (queue \ {task}) \cup Retried(task)
    /\ UNCHANGED <<rows, mishap, asked, tx>>

DeliverSkip(w, task) ==
    /\ tx[w] = Idle /\ task \in queue
    /\ receipt[task.receipt].status = "DELIVERED"
    /\ queue' = queue \ {task}
    /\ UNCHANGED <<rows, mishap, asked, tx>>

\* Every other status is delivered, whatever happened to the receipt.
DeliverLoad(w, task) ==
    /\ task \in queue
    /\ receipt[task.receipt].status \notin {"ABSENT", "DELIVERED"}
    /\ Start(w, [op |-> "deliver", task |-> task, redeemed |-> FALSE,
                 attempts |-> receipt[task.receipt].attempts])
    /\ queue' = queue \ {task}
    /\ UNCHANGED <<rows, mishap, asked>>

Delivering(w) == tx[w].op = "deliver"
CodeOf(w)     == receipt[tx[w].task.receipt].code

\* Faulty variant: the receipt is saved before its code.
MarkAnyTime(w) == TRUE
CodeSaved(w) == CodeOf(w) # NoCode => tx[w].redeemed

\* Faulty variant: the last attempt comes one too early.
NearlyExhausted(attempt) == attempt + 1 >= MaxAttempts
Exhausted(attempt) == attempt >= MaxAttempts

\* The handler has succeeded: mark_redeemed, over whatever the status is.
DeliverRedeem(w) ==
    /\ Delivering(w)
    /\ ~CodeSaved(w)
    /\ code' = [code EXCEPT ![CodeOf(w)].status = "REDEEMED"]
    /\ tx' = [tx EXCEPT ![w].redeemed = TRUE]
    /\ UNCHANGED <<item, receipt, recorded, queue, mishap, asked>>

DeliverMark(w) ==
    /\ Delivering(w)
    /\ CodeSaved(w)
    /\ receipt' = [receipt EXCEPT ![tx[w].task.receipt].status = "DELIVERED"]
    /\ Finish(w)
    /\ UNCHANGED <<item, code, recorded, queue, mishap, asked>>

\* The handler or a save raised.  The status is written by the last attempt only.
DeliverFail(w) ==
    LET r == tx[w].task.receipt
        attempt == tx[w].attempts + 1
    IN
    /\ Delivering(w)
    /\ receipt' = [receipt EXCEPT
            ![r].attempts = attempt,
            ![r].status   = IF Exhausted(attempt) THEN "FAILED" ELSE @]
    /\ queue' = queue \cup Retried(tx[w].task)
    /\ Finish(w)
    /\ UNCHANGED <<item, code, recorded, mishap, asked>>

\* The admin action "Retry delivery for selected inventory items".  Bound: once
\* per receipt.
retry_delivery(r) ==
    /\ receipt[r].status = "FAILED" /\ r \notin asked
    /\ queue' = queue \cup {[receipt |-> r, origin |-> "admin", tries |-> 0]}
    /\ asked' = asked \cup {r}
    /\ UNCHANGED <<rows, mishap, tx>>

-----------------------------------------------------------------------------
(* Revocation and claim: a check on an unlocked copy, then a write *)

RevokeRead(p, r) ==
    /\ receipt[r].status \notin {"ABSENT", "REVOKED"}
    /\ Start(p, [op |-> "revoke", receipt |-> r])
    /\ UNCHANGED <<rows, queue, mishap, asked>>

\* Only a redeemed code is voided; no code goes back to the pool.
RevokeCommit(p) ==
    LET r == tx[p].receipt
        i == ItemOf[r]
        c == receipt[r].code
    IN
    /\ tx[p].op = "revoke" /\ ~ItemLocked(i)
    /\ receipt' = [receipt EXCEPT ![r].status = "REVOKED", ![r].revoked = TRUE]
    /\ MoveStock(i, 1)
    /\ IF is_unlimited(i) THEN UNCHANGED recorded ELSE Record(i, 1)
    /\ code' = IF c # NoCode /\ code[c].status = "REDEEMED"
               THEN [code EXCEPT ![c].status = "VOIDED"] ELSE code
    /\ Finish(p)
    /\ UNCHANGED <<queue, mishap, asked>>

ClaimRead(p, r) ==
    /\ receipt[r].status = "DELIVERED"
    /\ Start(p, [op |-> "claim", receipt |-> r])
    /\ UNCHANGED <<rows, queue, mishap, asked>>

ClaimWrite(p) ==
    /\ tx[p].op = "claim"
    /\ receipt' = [receipt EXCEPT ![tx[p].receipt].status = "CLAIMED"]
    /\ Finish(p)
    /\ UNCHANGED <<item, code, recorded, queue, mishap, asked>>

-----------------------------------------------------------------------------
(* Edits and maintenance *)

\* PATCH of an item: the row is read, changed and saved whole, without a lock.
EditLoad(p, i) ==
    /\ i \in Edited
    /\ Start(p, [op |-> "edit", item |-> i, row |-> item[i]])
    /\ UNCHANGED <<rows, queue, mishap, asked>>

EditSave(p, status, stock) ==
    /\ tx[p].op = "edit" /\ ~ItemLocked(tx[p].item)
    /\ item' = [item EXCEPT ![tx[p].item] = [status |-> status, stock |-> stock]]
    /\ Finish(p)
    /\ UNCHANGED <<code, receipt, recorded, queue, mishap, asked>>

\* The fields the form does not carry keep the values that were loaded.
Edit(p) ==
    \E status \in {"ACTIVE", "INACTIVE"}, stock \in {tx[p].row.stock} \cup EditedStocks :
        EditSave(p, status, stock)

void(c) ==
    /\ code[c].status # "ABSENT" /\ ~CodeLocked(c)
    /\ code' = [code EXCEPT ![c].status = "VOIDED"]
    /\ UNCHANGED <<item, receipt, recorded, queue, mishap, asked, tx>>

\* S: the codes in the pool that are past their date.
expire_redemption_codes(S) ==
    /\ S # {}
    /\ \A c \in S : code[c].status = "AVAILABLE" /\ ~CodeLocked(c)
    /\ code' = [c \in Codes |-> IF c \in S THEN [code[c] EXCEPT !.status = "EXPIRED"]
                                           ELSE code[c]]
    /\ UNCHANGED <<item, receipt, recorded, queue, mishap, asked, tx>>

SyncRead(p, i) ==
    /\ i \in CodeItems /\ ~is_unlimited(i)
    /\ Start(p, [op |-> "sync", item |-> i, stock |-> item[i].stock])
    /\ UNCHANGED <<rows, queue, mishap, asked>>

SyncCount(p) ==
    LET count == Cardinality(AvailableCodes(tx[p].item)) IN
    /\ tx[p].op = "sync"
    /\ tx' = [tx EXCEPT ![p] = IF count = tx[p].stock THEN Idle
                               ELSE [op |-> "counted", item |-> tx[p].item, count |-> count]]
    /\ UNCHANGED <<rows, queue, mishap, asked>>

\* The correction is an UPDATE without a lock and without a StockEvent.
SyncWrite(p) ==
    /\ tx[p].op = "counted" /\ ~ItemLocked(tx[p].item)
    /\ item' = [item EXCEPT ![tx[p].item].stock = tx[p].count]
    /\ Finish(p)
    /\ UNCHANGED <<code, receipt, recorded, queue, mishap, asked>>

-----------------------------------------------------------------------------
(* Failures *)

\* A request dies: an open award rolls back, its message stays sent.
Abort(p) ==
    /\ Crashes /\ p \in Sessions /\ tx[p] # Idle
    /\ Finish(p)
    /\ UNCHANGED <<rows, queue, mishap, asked>>

\* acks_late: a task whose worker is lost is delivered again, except when only
\* its child process died: then it is acknowledged and gone.  Bound: one death
\* per receipt.
WorkerDies(w) ==
    /\ Crashes /\ Delivering(w)
    /\ mishap[tx[w].task.receipt] = "none"
    /\ \/ /\ mishap' = [mishap EXCEPT ![tx[w].task.receipt] = "redelivered"]
          /\ queue' = queue \cup {tx[w].task}
       \/ /\ mishap' = [mishap EXCEPT ![tx[w].task.receipt] = "lost"]
          /\ UNCHANGED queue
    /\ Finish(w)
    /\ UNCHANGED <<rows, asked>>

-----------------------------------------------------------------------------

Take(w, r) == \E task \in queue :
    /\ task.receipt = r
    /\ \/ DeliverNotFound(w, task)
       \/ DeliverSkip(w, task)
       \/ DeliverLoad(w, task)

Deliver(w) ==
    \/ DeliverRedeem(w)
    \/ DeliverMark(w)
    \/ DeliverFail(w)

\* The step that ends the operation of a session.
Complete(p) ==
    \/ AwardCommit(p)
    \/ RevokeCommit(p)
    \/ ClaimWrite(p)
    \/ tx[p].op = "edit" /\ Edit(p)
    \/ SyncCount(p)
    \/ SyncWrite(p)

Request(p) ==
    \/ \E i \in Items : \/ \E n \in Deltas : restock_item(p, i, n) \/ adjust_stock(p, i, n)
                        \/ \E S \in SUBSET Codes : bulk_import_codes(p, i, S)
                        \/ EditLoad(p, i)
                        \/ SyncRead(p, i)
    \/ \E r \in Receipts : \/ \E c \in Codes \cup {NoCode} : AwardBegin(p, r, c)
                           \/ RevokeRead(p, r)
                           \/ ClaimRead(p, r)

Next ==
    \/ \E p \in Sessions : Request(p) \/ Complete(p) \/ Abort(p)
    \/ \E w \in Workers : Deliver(w) \/ WorkerDies(w)
    \/ \E r \in Receipts : retry_delivery(r) \/ \E w \in Workers : Take(w, r)
    \/ \E c \in Codes : void(c)
    \/ \E S \in SUBSET Codes : expire_redemption_codes(S)

Spec == Init /\ [][Next]_vars

\* A request ends, a worker finishes its task, and no task stays behind in the
\* broker's queue, which is first in, first out, while others are taken.
Fairness ==
    /\ \A p \in Sessions : WF_vars(Complete(p))
    /\ \A w \in Workers : WF_vars(Deliver(w))
    /\ \A r \in Receipts : SF_vars(\E w \in Workers : Take(w, r))

FairSpec == Spec /\ Fairness

-----------------------------------------------------------------------------
(* Properties *)

TypeOK ==
    /\ item \in [Items -> ItemRow]
    /\ code \in [Codes -> CodeRow]
    /\ receipt \in [Receipts -> ReceiptRow]
    /\ recorded \in [Items -> Int]
    /\ queue \subseteq Task
    /\ mishap \in [Receipts -> {"none", "redelivered", "lost"}]
    /\ asked \subseteq Receipts
    /\ tx \in [Procs -> Operation]

\* Stock and the sentinel for unlimited stock share a column.  No sale, return,
\* adjustment or correction of a finite stock ends in the sentinel, however the
\* requests interleave: an item becomes unlimited only by an edit of its row.
BecomesUnlimitedByEditOnly ==
    [][\A i \in Items :
          (item[i].stock # UNLIMITED_STOCK /\ item'[i].stock = UNLIMITED_STOCK)
          => \E p \in Sessions : tx[p].op = "edit" /\ tx'[p] = Idle]_vars

\* "Immutable audit trail for every stock mutation": every change of a finite
\* stock other than an edit of the row or a correction by sync_stock_counts is
\* the change its StockEvent records.
TrailAccountsForStock ==
    [][\A i \in Items :
          \/ item[i].stock = UNLIMITED_STOCK
          \/ \E p \in Sessions : tx[p].op \in {"edit", "counted"} /\ tx'[p] = Idle
          \/ item'[i].stock - item[i].stock = recorded'[i] - recorded[i]]_vars

\* A delivered or claimed receipt has spent its code: the code is not one that
\* an award or the nightly expiry may still take, though code and receipt are
\* saved by two commits and a worker may die between them.
DeliveredCodeIsSpent ==
    \A r \in Receipts :
        receipt[r].status \in {"DELIVERED", "CLAIMED"} /\ receipt[r].code # NoCode
        => code[receipt[r].code].status \in {"REDEEMED", "VOIDED"}

\* The cap on the receipts a user holds of an item, as far as the row lock of
\* the award keeps it: over the receipts that never failed and never were revoked.
FirstLife(r) == ~receipt[r].revoked /\ receipt[r].attempts < MaxAttempts
Held(u, i)   == {r \in Active(u, i) : FirstLife(r)}
CapHolds     == \A u \in Users, i \in Items : Cardinality(Held(u, i)) <= MaxPerUser

\* retry_failed_deliveries selects FAILED receipts with attempts left.  There are
\* none: a receipt fails only when its attempts are used up.
SweepFindsNothing ==
    \A r \in Receipts : ~(receipt[r].status = "FAILED" /\ receipt[r].attempts < MaxAttempts)

\* The codes of the inventory, seen as single-use codes.
HolderOf(c) == IF \E r \in Receipts : receipt[r].code = c
               THEN CHOOSE r \in Receipts : receipt[r].code = c ELSE NoCode
StageOf(c) ==
    CASE code[c].status = "ABSENT"    -> "unloaded"
      [] code[c].status = "AVAILABLE" -> "pool"
      [] OTHER -> IF \E r \in Receipts : receipt[r].code = c THEN "held" ELSE "withdrawn"

SingleUse == INSTANCE SingleUseCodes WITH
    Nobody <- NoCode,
    stage  <- [c \in Codes |-> StageOf(c)],
    holder <- [c \in Codes |-> HolderOf(c)]

\* A redemption code goes to at most one receipt and never returns to the pool,
\* through concurrent awards, expiry, voiding, revocation and redelivery.
CodesAreSingleUse == SingleUse!Spec

\* A pending receipt is delivered, fails or is revoked, unless the delivery was
\* lost with a worker process: no sweep looks for pending receipts.
DeliveryEnds ==
    \A r \in Receipts :
        receipt[r].status = "PENDING" ~> receipt[r].status # "PENDING" \/ mishap[r] = "lost"

\* services.py: "SELECT FOR UPDATE is used on stock rows to prevent oversell
\* under high concurrency": no more units are sold than were ever supplied.
NoOversell ==
    \A i \in Items : InitialStock[i] # UNLIMITED_STOCK => InitialStock[i] + recorded[i] >= 0

\* revoke_inventory: "Revoke a user's inventory entry and return the stock unit":
\* an entry whose unit went back to the stock is not handed to the user.
RevokedIsNotDelivered ==
    \A r \in Receipts : receipt[r].revoked => receipt[r].status \notin {"DELIVERED", "CLAIMED"}
=============================================================================
