----------------------------- MODULE Withdrawals -----------------------------
(***************************************************************************)
(* A user's wallet of api/wallet and the withdrawal requests drawn on it.  *)
(*                                                                         *)
(* wallet, request, batch, keys and others are the COMMITTED rows of one   *)
(* user.                                                                   *)
(* A session is a web request, a webhook or a Celery task.  It first reads *)
(* the rows it needs, without locking them, and its transaction then       *)
(* computes from these copies and saves the WHOLE wallet row: the rows may *)
(* have changed in between, and nothing in the code notices.  ledger,      *)
(* settled, byHand and credits are what has really happened to the money,  *)
(* and tainted is what was ever written from an outdated copy or typed     *)
(* over.  No code reads these.                                             *)
(***************************************************************************)
EXTENDS Integers, FiniteSets

CONSTANTS
    Request,        \* primary keys of WithdrawalRequest rows
    Batch,          \* primary keys of WithdrawalBatch rows
    Key,            \* idempotency keys
    Session,        \* web requests, webhooks and Celery tasks
    None,           \* "no key", "no batch", "no copy"
    Amount,         \* the amount of every request
    Fee,            \* the part of it that is the fee
    Sums,           \* the amounts of every other movement
    Typed,          \* the balances staff type into a wallet's form
    Endings,        \* the statuses staff give a transaction without its request
    MaxIn,          \* bound: credits in all
    MaxOut,         \* bound: other debits in all
    MaxRestored,    \* bound: what reversed debits restore in all
    MaxFrozen,      \* bound: frozen_balance
    MaxReturned,    \* bound: times a request's money is returned
    MaxOvertaken    \* bound: calls that taint the wallet or a request

ASSUME AmountAssumption == Amount \in Nat \ {0}
ASSUME FeeAssumption    == Fee \in 0 .. Amount - 1
ASSUME SumsAssumption   == Sums \subseteq Nat \ {0}
ASSUME TypedAssumption  == Typed \subseteq Nat
ASSUME RequestAssumption == IsFiniteSet(Request)
ASSUME EndingsAssumption == Endings \subseteq {"APPROVED", "REJECTED"}
ASSUME NoneAssumption   == None \notin Key \cup Batch

VARIABLES
    wallet,     \* the Wallet row
    request,    \* request[r]: the WithdrawalRequest row and its transaction's status
    batch,      \* batch[b]: the WithdrawalBatch row
    keys,       \* the IdempotencyKey rows
    others,     \* the WalletTransaction rows of no request: signed amount and status
    session,    \* session[s]: the call s has under way, with its copies
    ledger,     \* the movements no request accounts for: in, out, sent, parked,
                \* and what reversed debits restored
    settled,    \* settled[r]: how often r was paid and its money returned
    byHand,     \* the requests staff closed without touching the wallet
    credits,    \* credits[k]: the credits booked under key k
    tainted     \* what was written from an outdated copy

rows == <<wallet, request, batch, keys, others>>
history == <<ledger, settled, byHand, credits, tainted>>
vars == <<rows, session, history>>

-----------------------------------------------------------------------------
(* Rows and calls *)

WalletRow == [current : Nat, pending : Nat, frozen : Nat, withdrawn : Nat,
              locked : BOOLEAN]

\* "ABSENT" is the status of a row that has not been inserted.  No code sets
\* the status PROCESSING, which the guards also allow.
Status == {"ABSENT", "PENDING", "APPROVED", "COMPLETED", "REJECTED", "FAILED",
           "CANCELLED", "BATCHED"}
TransactionStatus == {"ABSENT", "PENDING", "APPROVED", "COMPLETED", "REJECTED"}
\* reversed: is_reversed of the request's transaction.
RequestRow == [status : Status, txn : TransactionStatus, reversed : BOOLEAN,
               batch : Batch \cup {None}]

\* APPROVED stands for COMPLETED, too; rows that agree are one.
OtherRow == Int \X {"PENDING", "APPROVED"}

BatchRow == [status : {"ABSENT", "PENDING", "COMPLETED", "PARTIAL", "FAILED"},
             processed : Nat]

\* A call first holds copies of rows: of the wallet; of the wallet after the
\* look-up of its key; of a request; of a request with its transaction and
\* wallet; of the requests of a batch.  Which operation the call is for, and
\* with which sum, only matters once it writes.  "reversal": the wallet is saved
\* and the transaction not yet marked.
\* seen: the status of the requests in the copy.
Call == [has : {"nothing", "wallet", "key", "request", "related", "batch", "reversal"},
         key : Key \cup {None}, on : SUBSET Request, batch : Batch \cup {None},
         seen : Status, txn : TransactionStatus, reversed : BOOLEAN,
         copy : WalletRow \cup {None}]
Idle == [has |-> "nothing", key |-> None, on |-> {}, batch |-> None,
         seen |-> "ABSENT", txn |-> "ABSENT", reversed |-> FALSE, copy |-> None]

Reads(s, call) == session[s] = Idle /\ session' = [session EXCEPT ![s] = call]
Done(s) == session' = [session EXCEPT ![s] = Idle]
Has(s, what) == session[s].has = what

-----------------------------------------------------------------------------
(* What a call computes from its copy of the wallet *)

\* Faulty variant: neither max() nor pre_save stops at zero.
LessUnclamped(x, y) == x - y
Less(x, y) == IF x >= y THEN x - y ELSE 0

available_balance(w) == Less(w.current, w.frozen)

Credited(w, a) == [w EXCEPT !.current = @ + a]
Debited(w, a) == [w EXCEPT !.current = @ - a, !.pending = @ + a]
Sent(w, a) == [w EXCEPT !.current = @ - a, !.withdrawn = @ + a]
Taken(w, a) == [w EXCEPT !.current = @ - a]
\* The clamp of pre_save: a balance stops at zero.
TakenBack(w, a) == IF a <= w.current THEN a ELSE w.current
Frozen(w, a) == [w EXCEPT !.current = @ - a, !.frozen = @ + a]
\* Faulty variant: the frozen balance is not reduced.
UnfrozenTwice(w, a) == [w EXCEPT !.current = @ + a]
Unfrozen(w, a) == [w EXCEPT !.current = @ + a, !.frozen = @ - a]
\* Faulty variant: returning the amount resets the lock.
ReturnedUnlocked(w) ==
    [w EXCEPT !.current = @ + Amount, !.pending = Less(@, Amount), !.locked = FALSE]
Returned(w) == [w EXCEPT !.current = @ + Amount, !.pending = Less(@, Amount)]
Paid(w) == [w EXCEPT !.pending = Less(@, Amount), !.withdrawn = @ + Amount]

Debitable(w, a) == ~w.locked /\ a <= available_balance(w)

\* Faulty variant: the transaction is not asked.
RejectableByStatus(seen, txn) == seen \in {"PENDING", "APPROVED"}
Rejectable(seen, txn) == seen \in {"PENDING", "APPROVED"} /\ txn = "PENDING"
\* Faulty variant: the request of a batch is completed.
CompletableBatched(seen) == seen \in {"APPROVED", "BATCHED"}
Completable(seen) == seen = "APPROVED"
\* Faulty variant: a completed request is cancelled.
CancellableCompleted(seen) == seen # "REJECTED"
Cancellable(seen) == seen \notin {"COMPLETED", "REJECTED"}

-----------------------------------------------------------------------------
(* What a call writes *)

\* wallet.save() writes every column of the copy, which may be outdated.
StaleWallet(s) == session[s].copy # wallet

\* The requests of a call whose row is no longer what the call has seen.
StaleRequests(s) == {r \in session[s].on : request[r].status # session[s].seen}

\* Faulty variant: the look-up of a key never finds it.
NeverOnRecord(k) == FALSE
OnRecord(k) == k \in keys

\* The keys with which a credit is booked while another call has found them
\* unused and has not booked its own yet.
SharedKeys(s) ==
    {k \in Key : /\ session[s].key = k
                 /\ \E t \in Session \ {s} : session[t].key = k}

\* A call writes a wallet or requests from outdated copies, cancels a
\* request twice, or shares its key with a call under way.
Taint(walletToo, rs, ks) ==
    LET overtaken == IF walletToo \/ rs # {} THEN 1 ELSE 0 IN
    /\ tainted.calls + overtaken <= MaxOvertaken                    \* bound
    /\ tainted' = [calls    |-> tainted.calls + overtaken,
                   wallet   |-> tainted.wallet \/ walletToo,
                   requests |-> tainted.requests \cup rs,
                   keys     |-> tainted.keys \cup ks]

SetStatus(rs, status) ==
    [r \in Request |-> IF r \in rs THEN [request[r] EXCEPT !.status = status]
                                   ELSE request[r]]

SetRow(rs, status, txn) ==
    [r \in Request |-> IF r \in rs THEN [request[r] EXCEPT !.status = status, !.txn = txn]
                                   ELSE request[r]]

SetTxn(rs, txn) ==
    [r \in Request |-> IF r \in rs THEN [request[r] EXCEPT !.txn = txn]
                                   ELSE request[r]]

Booked(book, a) == ledger' = [ledger EXCEPT ![book] = @ + a]

Count(rs, outcome) ==
    settled' = [r \in Request |-> IF r \in rs THEN [settled[r] EXCEPT ![outcome] = @ + 1]
                                              ELSE settled[r]]

-----------------------------------------------------------------------------
(* The wallet *)

Init ==
    /\ wallet = [current |-> 0, pending |-> 0, frozen |-> 0, withdrawn |-> 0,
                 locked |-> FALSE]
    /\ request = [r \in Request |-> [status |-> "ABSENT", txn |-> "ABSENT",
                                    reversed |-> FALSE, batch |-> None]]
    /\ batch = [b \in Batch |-> [status |-> "ABSENT", processed |-> 0]]
    /\ keys = {}
    /\ others = {}
    /\ byHand = {}
    /\ session = [s \in Session |-> Idle]
    /\ ledger = [in |-> 0, out |-> 0, sent |-> 0, parked |-> 0, restored |-> 0]
    /\ settled = [r \in Request |-> [paid |-> 0, returned |-> 0]]
    /\ credits = [k \in Key |-> 0]
    /\ tainted = [calls |-> 0, wallet |-> FALSE, requests |-> {}, keys |-> {}]

\* A call on the wallet reads its row: the view, or the caller of the service.
ReadWallet(s) ==
    /\ Reads(s, [Idle EXCEPT !.has = "wallet", !.copy = wallet])
    /\ UNCHANGED <<rows, history>>

\* credit, first half: a locked wallet is refused, and a key on record under
\* which this wallet has a transaction is a replay.  Both end the call; a key that
\* another wallet has left on record does not.
CheckKey(s, k) ==
    /\ Has(s, "wallet")
    /\ ~session[s].copy.locked
    /\ ~(OnRecord(k) /\ credits[k] > 0)
    /\ session' = [session EXCEPT ![s].has = "key", ![s].key = k]
    /\ UNCHANGED <<rows, history>>

\* A transaction of this wallet that no request refers to.
Posted(a, status) == others' = others \cup {<<a, status>>}

\* credit, second half, and the whole of a credit without a key: books the
\* transaction, saves the wallet and leaves the key on record (get_or_create:
\* a key that appeared meanwhile is no error).
Credit(s, a) ==
    LET c == session[s] IN
    /\ Has(s, "key") \/ (Has(s, "wallet") /\ ~c.copy.locked)
    /\ ledger.in + a <= MaxIn                              \* bound
    /\ wallet' = Credited(c.copy, a)
    /\ keys' = keys \cup ({c.key} \ {None})
    /\ credits' = [k \in Key |-> IF k = c.key THEN credits[k] + 1 ELSE credits[k]]
    /\ Taint(StaleWallet(s), {}, SharedKeys(s))
    /\ Booked("in", a)
    /\ Posted(a, "APPROVED")
    /\ Done(s)
    /\ UNCHANGED <<request, batch, settled, byHand>>

\* Another user's credit leaves its key on record.
RecordKey(k) ==
    /\ keys' = keys \cup {k}
    /\ UNCHANGED <<wallet, request, batch, others, session, history>>

\* A key expires after IDEMPOTENCY_TTL and is deleted.
ExpireKey(k) ==
    /\ k \in keys
    /\ keys' = keys \ {k}
    /\ tainted' = [tainted EXCEPT !.keys = @ \cup {k}]
    /\ UNCHANGED <<wallet, request, batch, others, session, ledger, settled, byHand, credits>>

\* A debit of another kind than a withdrawal: allowed on the copy, computed
\* from it, and saved.
Debit(s, a, allowed, after, book, status) ==
    /\ Has(s, "wallet")
    /\ allowed
    /\ ledger.out + ledger.sent + ledger.parked + a <= MaxOut       \* bound
    /\ wallet' = after
    /\ Taint(StaleWallet(s), {}, {})
    /\ Booked(book, a)
    /\ Posted(-a, status)
    /\ Done(s)
    /\ UNCHANGED <<request, batch, keys, settled, byHand, credits>>

\* An instant payout is a debit that nothing ever takes out of pending_balance;
\* recurring payments, subscriptions and instalments debit the same way.
InstantPayout(s, a) ==
    LET w == session[s].copy IN
    Debit(s, a, Debitable(w, a), Debited(w, a), "parked", "PENDING")

\* transfer, the sender's side: the debit is settled at once.
Transfer(s, a) ==
    LET w == session[s].copy IN Debit(s, a, Debitable(w, a), Sent(w, a), "sent", "APPROVED")

AdminDebit(s, a) ==
    LET w == session[s].copy IN Debit(s, a, a <= w.current, Taken(w, a), "out", "APPROVED")

\* Staff approve the transaction of an instant payout; only its status moves.
ApproveOther(row) ==
    /\ "APPROVED" \in Endings
    /\ row[2] = "PENDING"
    /\ Posted(row[1], "APPROVED")
    /\ UNCHANGED <<wallet, request, batch, keys, session, history>>

\* reverse takes any approved transaction, itself a reversal or not, and undoes
\* what it did to current_balance, with no regard to the other columns.  What was
\* credited may be spent: the rest is forgiven.  (The original is marked by a later
\* save, so that two calls, or a crash, reverse it twice.)
Reverse(s, x) ==
    LET w == session[s].copy IN
    /\ Has(s, "wallet")
    /\ <<x, "APPROVED">> \in others
    /\ \/ /\ x > 0
          /\ ledger.out + ledger.sent + ledger.parked + x <= MaxOut   \* bound
          /\ wallet' = Taken(w, TakenBack(w, x))
          /\ Booked("out", TakenBack(w, x))
       \/ /\ x < 0
          /\ ledger.restored - x <= MaxRestored                      \* bound
          /\ wallet' = Credited(w, -x)
          /\ Booked("restored", -x)
    /\ Taint(StaleWallet(s), {}, {})
    /\ Posted(-x, "APPROVED")
    /\ Done(s)
    /\ UNCHANGED <<request, batch, keys, settled, byHand, credits>>

Freeze(s, a) ==
    LET w == session[s].copy IN
    /\ Has(s, "wallet")
    /\ a <= w.current
    /\ w.frozen + a <= MaxFrozen                                    \* bound
    /\ wallet' = Frozen(w, a)
    /\ Taint(StaleWallet(s), {}, {})
    /\ Posted(-a, "APPROVED")
    /\ Done(s)
    /\ UNCHANGED <<request, batch, keys, ledger, settled, byHand, credits>>

Unfreeze(s, a) ==
    LET w == session[s].copy IN
    /\ Has(s, "wallet")
    /\ a <= w.frozen
    /\ wallet' = Unfrozen(w, a)
    /\ Taint(StaleWallet(s), {}, {})
    /\ Posted(a, "APPROVED")
    /\ Done(s)
    /\ UNCHANGED <<request, batch, keys, ledger, settled, byHand, credits>>

\* reserve_balance and release_reserve alone read the row under its lock, and save
\* their own columns.
ReserveBalance(a) ==
    /\ a <= wallet.current
    /\ wallet.frozen + a <= MaxFrozen                               \* bound
    /\ wallet' = Frozen(wallet, a)
    /\ UNCHANGED <<request, batch, keys, others, session, history>>

ReleaseReserve(a) ==
    LET released == IF a <= wallet.frozen THEN a ELSE wallet.frozen IN
    /\ wallet' = Unfrozen(wallet, released)
    /\ UNCHANGED <<request, batch, keys, others, session, history>>

\* lock and unlock save their own columns only.
SetLocked(locked) ==
    /\ wallet.locked # locked
    /\ wallet' = [wallet EXCEPT !.locked = locked]
    /\ UNCHANGED <<request, batch, keys, others, session, history>>

Money(w) == <<w.current, w.pending, w.frozen, w.withdrawn>>

\* A PATCH of the wallet saves the row as it was loaded; the form of the admin
\* site puts what staff typed into the balances and the lock.
SaveWallet(s) ==
    LET c == session[s].copy IN
    /\ Has(s, "wallet")
    /\ wallet' \in [current   : {c.current} \cup Typed,
                   pending   : {c.pending} \cup Typed,
                   frozen    : {c.frozen} \cup Typed,
                   withdrawn : {c.withdrawn} \cup Typed,
                   locked    : BOOLEAN]
    /\ Taint(StaleWallet(s) \/ Money(wallet') # Money(c), {}, {})
    /\ Done(s)
    /\ UNCHANGED <<request, batch, keys, others, ledger, settled, byHand, credits>>

-----------------------------------------------------------------------------
(* Withdrawal requests *)

\* WithdrawalService.create; the fee is a transaction of its own.
Withdraw(s, r) ==
    LET w == session[s].copy IN
    /\ Has(s, "wallet")
    /\ request[r].status = "ABSENT"
    /\ Debitable(w, Amount)
    /\ wallet' = Debited(w, Amount)
    /\ Taint(StaleWallet(s), {}, {})
    /\ request' = SetRow({r}, "PENDING", "PENDING")
    /\ others' = others \cup {<<-f, "APPROVED">> : f \in {Fee} \ {0}}
    /\ Done(s)
    /\ UNCHANGED <<batch, keys, ledger, settled, byHand, credits>>

\* A call on a request reads the request: the view, the webhook or the task.
ReadRequest(s, r) ==
    /\ request[r].status # "ABSENT"
    /\ Reads(s, [Idle EXCEPT !.has = "request", !.on = {r}, !.seen = request[r].status])
    /\ UNCHANGED <<rows, history>>

\* It reads the request's transaction and wallet: with the request
\* (select_related) or at their first use.
FetchRelated(s, r) ==
    /\ Has(s, "request")
    /\ session[s].on = {r}
    /\ session' = [session EXCEPT ![s].has = "related", ![s].txn = request[r].txn,
                                  ![s].reversed = request[r].reversed,
                                  ![s].copy = wallet]
    /\ UNCHANGED <<rows, history>>

Approve(s) ==
    LET c == session[s] IN
    /\ Has(s, "related")
    /\ c.seen = "PENDING" /\ c.txn = "PENDING"
    /\ request' = SetRow(c.on, "APPROVED", "APPROVED")
    /\ Taint(FALSE, StaleRequests(s), {})
    /\ Done(s)
    /\ UNCHANGED <<wallet, batch, keys, others, ledger, settled, byHand, credits>>

\* The transaction refuses to be rejected once it is approved, and the whole
\* call then rolls back.
Reject(s) ==
    LET c == session[s] IN
    /\ Has(s, "related")
    /\ Rejectable(c.seen, c.txn)
    /\ wallet' = Returned(c.copy)
    /\ Taint(StaleWallet(s), StaleRequests(s), {})
    /\ request' = SetRow(c.on, "REJECTED", "REJECTED")
    /\ Count(c.on, "returned")
    /\ Posted(Amount, "APPROVED")
    /\ Done(s)
    /\ UNCHANGED <<batch, keys, ledger, byHand, credits>>

\* cancel refuses COMPLETED and REJECTED alone: a CANCELLED request is
\* cancelled, and its money returned, again.
Cancel(s) ==
    LET c == session[s]
        again == {r \in c.on : c.seen = "CANCELLED"}
    IN
    /\ Has(s, "related")
    /\ Cancellable(c.seen)
    /\ \A r \in c.on : settled[r].returned < MaxReturned          \* bound
    /\ wallet' = Returned(c.copy)
    /\ Taint(StaleWallet(s), StaleRequests(s) \cup again, {})
    /\ request' = SetStatus(c.on, "CANCELLED")
    /\ Count(c.on, "returned")
    /\ Done(s)
    /\ UNCHANGED <<batch, keys, others, ledger, byHand, credits>>

Complete(s) ==
    LET c == session[s] IN
    /\ Has(s, "related")
    /\ Completable(c.seen)
    /\ wallet' = Paid(c.copy)
    /\ Taint(StaleWallet(s), StaleRequests(s), {})
    /\ request' = SetRow(c.on, "COMPLETED", "COMPLETED")
    /\ Count(c.on, "paid")
    /\ Done(s)
    /\ UNCHANGED <<batch, keys, others, ledger, byHand, credits>>

\* process_pending_withdrawals reads the approved requests.  No gateway is wired
\* up, so every dispatch fails, and mark_failed looks at no status.
DispatchFails(s) ==
    LET c == session[s] IN
    /\ Has(s, "request")
    /\ c.seen = "APPROVED"
    /\ request' = SetStatus(c.on, "FAILED")
    /\ Taint(FALSE, StaleRequests(s), {})
    /\ Done(s)
    /\ UNCHANGED <<wallet, batch, keys, others, ledger, settled, byHand, credits>>

\* Administrators approve and reject the transaction without its request; only
\* the transaction's status moves.
EndTransaction(s, status) ==
    LET c == session[s] IN
    /\ Has(s, "related")
    /\ c.txn = "PENDING"
    /\ request' = SetTxn(c.on, status)
    /\ Done(s)
    /\ UNCHANGED <<wallet, batch, keys, others, history>>

\* They reverse it, too: the amount is back, while pending_balance and the
\* request stay as they are.  No transaction spans the two saves.
ReverseWithdrawal(s) ==
    LET c == session[s] IN
    /\ Has(s, "related")
    /\ c.txn \in {"APPROVED", "COMPLETED"} /\ ~c.reversed
    /\ ledger.restored + Amount <= MaxRestored                      \* bound
    /\ wallet' = Credited(c.copy, Amount)
    /\ Taint(StaleWallet(s), {}, {})
    /\ Booked("restored", Amount)
    /\ Posted(Amount, "APPROVED")
    /\ session' = [session EXCEPT ![s] = [Idle EXCEPT !.has = "reversal", !.on = c.on]]
    /\ UNCHANGED <<request, batch, keys, settled, byHand, credits>>

MarkReversed(s) ==
    LET c == session[s] IN
    /\ Has(s, "reversal")
    /\ request' = [r \in Request |-> IF r \in c.on THEN [request[r] EXCEPT !.reversed = TRUE]
                                                  ELSE request[r]]
    /\ Done(s)
    /\ UNCHANGED <<wallet, batch, keys, others, history>>

\* The bulk actions of the admin site: one UPDATE of the requests that have the
\* status, and nothing else.
CloseByHand(rs, before, after) ==
    /\ rs # {}
    /\ \A r \in rs : request[r].status = before
    /\ request' = SetStatus(rs, after)
    /\ byHand' = byHand \cup rs
    /\ UNCHANGED <<wallet, batch, keys, others, session, ledger, settled, credits, tainted>>

reject_requests(rs) == CloseByHand(rs, "PENDING", "REJECTED")
process_withdrawals(rs) == CloseByHand(rs, "APPROVED", "COMPLETED")

\* A call the service refuses raises, and its transaction rolls back; so does
\* that of a process that dies.
Refused(s) ==
    /\ session[s] # Idle
    /\ Done(s)
    /\ UNCHANGED <<rows, history>>

-----------------------------------------------------------------------------
(* Batches *)

\* create_batch takes the approved ones among the requests it is given.
CreateBatch(b, ids) ==
    LET chosen == {r \in ids : request[r].status = "APPROVED"} IN
    /\ batch[b].status = "ABSENT"
    /\ chosen # {}
    /\ batch' = [batch EXCEPT ![b].status = "PENDING"]
    /\ request' = [r \in Request |->
                      IF r \in chosen
                        THEN [request[r] EXCEPT !.status = "BATCHED", !.batch = b]
                        ELSE request[r]]
    /\ UNCHANGED <<wallet, keys, others, session, history>>

\* process_batch saves the batch, which locks its row until the call ends, and
\* selects its BATCHED requests, whatever the batch's own status.
ReadBatch(s, b) ==
    /\ batch[b].status # "ABSENT"
    /\ \A t \in Session : session[t].batch # b
    /\ Reads(s, [Idle EXCEPT !.has = "batch", !.batch = b, !.seen = "BATCHED",
                      !.on = {r \in Request : request[r].batch = b
                                                /\ request[r].status = "BATCHED"}])
    /\ UNCHANGED <<rows, history>>

\* Each request is completed, or marked failed when complete refuses it.
ProcessBatch(s) ==
    LET c    == session[s]
        ok   == {r \in c.on : Completable(c.seen)}
        fail == c.on \ ok
        paid == Amount * Cardinality(ok)
    IN
    /\ Has(s, "batch")
    /\ wallet' = [wallet EXCEPT !.pending = Less(@, paid), !.withdrawn = @ + paid]
    /\ request' = [r \in Request |->
          CASE r \in ok   -> [request[r] EXCEPT !.status = "COMPLETED", !.txn = "COMPLETED"]
            [] r \in fail -> [request[r] EXCEPT !.status = "FAILED"]
            [] OTHER      -> request[r]]
    /\ batch' = [batch EXCEPT ![c.batch].processed = Cardinality(ok),
                              ![c.batch].status = IF fail = {} THEN "COMPLETED"
                                                  ELSE IF ok # {} THEN "PARTIAL"
                                                  ELSE "FAILED"]
    /\ Taint(FALSE, StaleRequests(s), {})
    /\ Count(ok, "paid")
    /\ Done(s)
    /\ UNCHANGED <<keys, others, ledger, byHand, credits>>

-----------------------------------------------------------------------------

WalletStep(s) ==
    \/ ReadWallet(s)
    \/ \E k \in Key : CheckKey(s, k)
    \/ \E a \in Sums : \/ Credit(s, a) \/ InstantPayout(s, a) \/ Transfer(s, a)
                       \/ AdminDebit(s, a) \/ Freeze(s, a) \/ Unfreeze(s, a)
    \/ \E row \in others : Reverse(s, row[1])
    \/ SaveWallet(s)

RequestStep(s) ==
    \/ \E r \in Request : Withdraw(s, r) \/ ReadRequest(s, r) \/ FetchRelated(s, r)
    \/ Approve(s) \/ Reject(s) \/ Cancel(s) \/ Complete(s) \/ DispatchFails(s)

TransactionStep(s) ==
    \/ \E status \in Endings : EndTransaction(s, status)
    \/ ReverseWithdrawal(s)
    \/ MarkReversed(s)

BatchStep(s) == (\E b \in Batch : ReadBatch(s, b)) \/ ProcessBatch(s)

Next == \/ \E s \in Session : \/ WalletStep(s) \/ RequestStep(s) \/ TransactionStep(s)
                              \/ BatchStep(s) \/ Refused(s)
        \/ \E k \in Key : RecordKey(k) \/ ExpireKey(k)
        \/ \E row \in others : ApproveOther(row)
        \/ \E locked \in BOOLEAN : SetLocked(locked)
        \/ \E a \in Sums : ReserveBalance(a) \/ ReleaseReserve(a)
        \/ \E rs \in SUBSET Request : reject_requests(rs) \/ process_withdrawals(rs)
        \/ \E b \in Batch, ids \in SUBSET Request : CreateBatch(b, ids)

Spec == Init /\ [][Next]_vars

-----------------------------------------------------------------------------
(* Properties *)

\* Every variable holds values of its kind; that no balance is ever negative,
\* whatever the interleaving of the unlocked saves, is part of it.
TypeOK ==
    /\ wallet \in WalletRow
    /\ request \in [Request -> RequestRow]
    /\ batch \in [Batch -> BatchRow]
    /\ keys \subseteq Key
    /\ others \subseteq OtherRow
    /\ byHand \subseteq Request
    /\ session \in [Session -> Call]
    /\ ledger \in [in : Nat, out : Nat, sent : Nat, parked : Nat, restored : Nat]
    /\ settled \in [Request -> [paid : Nat, returned : Nat]]
    /\ credits \in [Key -> Nat]
    /\ tainted \in [calls : Nat, wallet : BOOLEAN, requests : SUBSET Request, keys : SUBSET Key]

\* The requests whose amount is still in pending_balance, and the paid ones.
Held == byHand \cup
    {r \in Request : request[r].status \in {"PENDING", "APPROVED", "BATCHED", "FAILED"}}
PaidOut == {r \in Request : request[r].status = "COMPLETED"} \ byHand

\* The wallet agrees with what happened: pending_balance holds the open requests,
\* those that staff rejected or completed in bulk, and what instant payouts left
\* there; total_withdrawn the completed ones and the transfers; and nothing is lost
\* in between.  What is made comes from reversed debits: reverse gives back what
\* they took from current_balance and leaves what they put elsewhere.
Accounted ==
    /\ wallet.pending = Amount * Cardinality(Held) + ledger.parked
    /\ wallet.withdrawn = Amount * Cardinality(PaidOut) + ledger.sent
    /\ wallet.current + wallet.frozen + wallet.pending + wallet.withdrawn + ledger.out
            = ledger.in + ledger.restored

\* As long as no call saved a wallet or a request from an outdated copy, nobody
\* typed over a balance and no request was cancelled twice, the wallet is accounted
\* for: each service call keeps the columns, the request and its transaction in step.
FundsAccounted == ~tainted.wallet /\ tainted.requests = {} => Accounted

\* A request no call wrote from an outdated copy, and that was not cancelled
\* twice, is settled once: paid if it is COMPLETED, returned if it is REJECTED
\* or CANCELLED, and neither while it is open, FAILED or BATCHED.  One that staff
\* completed or rejected in bulk is neither paid nor returned, then or later, by any
\* call.  What happens to other requests and to the wallet's own columns cannot
\* change that.
SettledOnce ==
    \A r \in Request \ tainted.requests :
        /\ settled[r].paid = IF request[r].status = "COMPLETED" /\ r \notin byHand
                             THEN 1 ELSE 0
        /\ settled[r].returned = IF /\ request[r].status \in {"REJECTED", "CANCELLED"}
                                    /\ r \notin byHand
                                 THEN 1 ELSE 0
        /\ r \in byHand => request[r].status \in {"COMPLETED", "REJECTED"}

\* process_batch pays nobody: complete refuses every BATCHED request, so that
\* no batch ever counts a request as processed.
BatchesPayNobody == \A b \in Batch : batch[b].processed = 0

\* A key is credited at most once, and a credited one stays on record, also when
\* another wallet recorded it first, unless it expired or two credits with it
\* overlapped: the look-up and the insertion are not one step, and no constraint
\* makes two transactions with one key collide.
CreditedOnce ==
    \A k \in Key \ tainted.keys :
        credits[k] \in {0, 1} /\ (credits[k] = 1 => k \in keys)

\* reject's guard names APPROVED, yet the transaction of an approved request
\* refuses: a request that no call wrote from an outdated copy is rejected from
\* PENDING alone.
RejectedWhilePending ==
    [][\A r \in Request : request'[r].status = "REJECTED" /\ request[r].status # "REJECTED"
            => request[r].status = "PENDING" \/ r \in tainted'.requests]_vars

\* A wallet an administrator has locked is unlocked by unlock or the form, which
\* move no money then, or by a call that saves a copy from before the lock.
UnlockedByHand ==
    [][wallet.locked /\ ~wallet'.locked => Money(wallet') = Money(wallet) \/ tainted'.wallet]_vars

-----------------------------------------------------------------------------
(* What the code's documentation says, and the code does not do *)

\* models/core.py: "Optimistic locking via `version` field prevents concurrent
\* lost updates".  No save looks at version.
NoLostUpdate == tainted.requests = {} => Accounted

\* models/withdrawal.py: "pending/approved/processing -> cancelled (by user)".
\* A CANCELLED request is cancelled again.
CancelledFromOpen ==
    [][\A r \in Request : settled'[r].returned > settled[r].returned
            => request[r].status \in {"PENDING", "APPROVED", "PROCESSING"}]_vars

=============================================================================
