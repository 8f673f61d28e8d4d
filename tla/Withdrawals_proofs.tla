------------------------- MODULE Withdrawals_proofs -------------------------
(***************************************************************************)
(* Proofs about Withdrawals, for every set of sessions, keys, batches and  *)
(* amounts, and every finite set of requests.                              *)
(***************************************************************************)
EXTENDS Withdrawals, FiniteSetTheorems, TLAPS

-----------------------------------------------------------------------------
(* The inductive invariant *)

\* What a call holds: a copy of the wallet once it has read it, one request or
\* those of a batch, and the status it has seen.
Sound(call) ==
    /\ call.has \in {"wallet", "key", "related"} => call.copy \in WalletRow
    /\ call.has \in {"request", "related"} =>
          /\ \E r \in Request : call.on = {r}
          /\ call.seen # "ABSENT"
    /\ call.has = "batch" => call.batch \in Batch /\ call.seen = "BATCHED"
    /\ call.has # "key" => call.key = None

Copies == \A s \in Session : Sound(session[s])

\* A key that has been credited and is not tainted is in no call's hands.
KeyInNoHand ==
    \A k \in Key \ tainted.keys, s \in Session : credits[k] > 0 => session[s].key # k

\* What the guard of reject relies on: an approved request has a transaction
\* that is not pending any more, and so has the copy of an approved request.
TxnApproved ==
    /\ \A r \in Request :
          /\ request[r].status = "ABSENT" => request[r].txn = "ABSENT"
          /\ request[r].status = "APPROVED" => request[r].txn \notin {"ABSENT", "PENDING"}
    /\ \A s \in Session : session[s].has \in {"request", "related"} =>
          \A r \in session[s].on : request[r].status # "ABSENT"
    /\ \A s \in Session : session[s].seen = "APPROVED" =>
          /\ session[s].has = "request" =>
                \A r \in session[s].on : request[r].txn \notin {"ABSENT", "PENDING"}
          /\ session[s].has = "related" => session[s].txn # "PENDING"

Inductive == /\ TypeOK
             /\ Copies
             /\ BatchesPayNobody
             /\ KeyInNoHand
             /\ CreditedOnce
             /\ SettledOnce
             /\ FundsAccounted
             /\ TxnApproved

-----------------------------------------------------------------------------
(* The operators of the model *)

\* The columns of a wallet row are naturals, and naturals make one.
LEMMA WalletColumns ==
    ASSUME NEW w \in WalletRow
    PROVE  /\ w.current \in Nat /\ w.pending \in Nat /\ w.frozen \in Nat /\ w.withdrawn \in Nat
           /\ w.locked \in BOOLEAN
           /\ w = [current |-> w.current, pending |-> w.pending, frozen |-> w.frozen,
                   withdrawn |-> w.withdrawn, locked |-> w.locked]
BY DEF WalletRow

LEMMA WalletOf ==
    ASSUME NEW c \in Nat, NEW p \in Nat, NEW f \in Nat, NEW d \in Nat, NEW l \in BOOLEAN
    PROVE  [current |-> c, pending |-> p, frozen |-> f, withdrawn |-> d, locked |-> l]
             \in WalletRow
BY DEF WalletRow

\* Subtraction that stops at zero.
LEMMA LessFacts ==
    ASSUME NEW x \in Nat, NEW y \in Nat
    PROVE  /\ Less(x, y) \in Nat
           /\ x >= y => Less(x, y) = x - y
           /\ Less(x, y) <= x
BY DEF Less

\* The columns of the rows a call computes from its copy, and that they are rows.
LEMMA CreditedRow ==
    ASSUME NEW w \in WalletRow, NEW a \in Nat
    PROVE  /\ Credited(w, a) \in WalletRow
           /\ Credited(w, a) = [current |-> w.current + a, pending |-> w.pending,
                                frozen |-> w.frozen, withdrawn |-> w.withdrawn, locked |-> w.locked]
<1>1. w.current + a \in Nat
  BY WalletColumns
<1>2. Credited(w, a) = [current |-> w.current + a, pending |-> w.pending,
                        frozen |-> w.frozen, withdrawn |-> w.withdrawn, locked |-> w.locked]
  BY <1>1, WalletColumns DEF Credited, WalletRow
<1>3. [current |-> w.current + a, pending |-> w.pending,
       frozen |-> w.frozen, withdrawn |-> w.withdrawn, locked |-> w.locked]
        \in WalletRow
  BY <1>1, WalletColumns, WalletOf
<1> QED
  BY <1>2, <1>3

LEMMA DebitedRow ==
    ASSUME NEW w \in WalletRow, NEW a \in Nat, Debitable(w, a)
    PROVE  /\ Debited(w, a) \in WalletRow
           /\ Debited(w, a) = [current |-> w.current - a, pending |-> w.pending + a,
                               frozen |-> w.frozen, withdrawn |-> w.withdrawn, locked |-> w.locked]
<1>1. w.current - a \in Nat /\ w.pending + a \in Nat
  BY WalletColumns DEF Debitable, available_balance, Less
<1>2. Debited(w, a) = [current |-> w.current - a, pending |-> w.pending + a,
                       frozen |-> w.frozen, withdrawn |-> w.withdrawn, locked |-> w.locked]
  <2>1. w = [current |-> w.current, pending |-> w.pending, frozen |-> w.frozen,
             withdrawn |-> w.withdrawn, locked |-> w.locked]
    BY WalletColumns
  <2>2. [[current |-> w.current, pending |-> w.pending, frozen |-> w.frozen,
          withdrawn |-> w.withdrawn, locked |-> w.locked]
         EXCEPT !.current = w.current - a]
        = [current |-> w.current - a, pending |-> w.pending, frozen |-> w.frozen,
           withdrawn |-> w.withdrawn, locked |-> w.locked]
    OBVIOUS
  <2>3. [[current |-> w.current - a, pending |-> w.pending, frozen |-> w.frozen,
          withdrawn |-> w.withdrawn, locked |-> w.locked]
         EXCEPT !.pending = w.pending + a]
        = [current |-> w.current - a, pending |-> w.pending + a, frozen |-> w.frozen,
           withdrawn |-> w.withdrawn, locked |-> w.locked]
    OBVIOUS
  <2> QED
    BY <2>1, <2>2, <2>3 DEF Debited
<1>3. [current |-> w.current - a, pending |-> w.pending + a,
       frozen |-> w.frozen, withdrawn |-> w.withdrawn, locked |-> w.locked]
        \in WalletRow
  BY <1>1, WalletColumns, WalletOf
<1> QED
  BY <1>2, <1>3

LEMMA SentRow ==
    ASSUME NEW w \in WalletRow, NEW a \in Nat, Debitable(w, a)
    PROVE  /\ Sent(w, a) \in WalletRow
           /\ Sent(w, a) = [current |-> w.current - a, pending |-> w.pending,
                            frozen |-> w.frozen, withdrawn |-> w.withdrawn + a, locked |-> w.locked]
<1>1. w.current - a \in Nat /\ w.withdrawn + a \in Nat
  BY WalletColumns DEF Debitable, available_balance, Less
<1>2. Sent(w, a) = [current |-> w.current - a, pending |-> w.pending,
                    frozen |-> w.frozen, withdrawn |-> w.withdrawn + a, locked |-> w.locked]
  <2>1. w = [current |-> w.current, pending |-> w.pending, frozen |-> w.frozen,
             withdrawn |-> w.withdrawn, locked |-> w.locked]
    BY WalletColumns
  <2>2. [[current |-> w.current, pending |-> w.pending, frozen |-> w.frozen,
          withdrawn |-> w.withdrawn, locked |-> w.locked]
         EXCEPT !.current = w.current - a]
        = [current |-> w.current - a, pending |-> w.pending, frozen |-> w.frozen,
           withdrawn |-> w.withdrawn, locked |-> w.locked]
    OBVIOUS
  <2>3. [[current |-> w.current - a, pending |-> w.pending, frozen |-> w.frozen,
          withdrawn |-> w.withdrawn, locked |-> w.locked]
         EXCEPT !.withdrawn = w.withdrawn + a]
        = [current |-> w.current - a, pending |-> w.pending, frozen |-> w.frozen,
           withdrawn |-> w.withdrawn + a, locked |-> w.locked]
    OBVIOUS
  <2> QED
    BY <2>1, <2>2, <2>3 DEF Sent
<1>3. [current |-> w.current - a, pending |-> w.pending,
       frozen |-> w.frozen, withdrawn |-> w.withdrawn + a, locked |-> w.locked]
        \in WalletRow
  BY <1>1, WalletColumns, WalletOf
<1> QED
  BY <1>2, <1>3

LEMMA TakenRow ==
    ASSUME NEW w \in WalletRow, NEW a \in Nat, a <= w.current
    PROVE  /\ Taken(w, a) \in WalletRow
           /\ Taken(w, a) = [current |-> w.current - a, pending |-> w.pending,
                             frozen |-> w.frozen, withdrawn |-> w.withdrawn, locked |-> w.locked]
<1>1. w.current - a \in Nat
  BY WalletColumns
<1>2. Taken(w, a) = [current |-> w.current - a, pending |-> w.pending,
                     frozen |-> w.frozen, withdrawn |-> w.withdrawn, locked |-> w.locked]
  BY <1>1, WalletColumns DEF Taken, WalletRow
<1>3. [current |-> w.current - a, pending |-> w.pending,
       frozen |-> w.frozen, withdrawn |-> w.withdrawn, locked |-> w.locked]
        \in WalletRow
  BY <1>1, WalletColumns, WalletOf
<1> QED
  BY <1>2, <1>3

LEMMA FrozenRow ==
    ASSUME NEW w \in WalletRow, NEW a \in Nat, a <= w.current
    PROVE  /\ Frozen(w, a) \in WalletRow
           /\ Frozen(w, a) = [current |-> w.current - a, pending |-> w.pending,
                              frozen |-> w.frozen + a, withdrawn |-> w.withdrawn, locked |-> w.locked]
<1>1. w.current - a \in Nat /\ w.frozen + a \in Nat
  BY WalletColumns
<1>2. Frozen(w, a) = [current |-> w.current - a, pending |-> w.pending,
                      frozen |-> w.frozen + a, withdrawn |-> w.withdrawn, locked |-> w.locked]
  <2>1. w = [current |-> w.current, pending |-> w.pending, frozen |-> w.frozen,
             withdrawn |-> w.withdrawn, locked |-> w.locked]
    BY WalletColumns
  <2>2. [[current |-> w.current, pending |-> w.pending, frozen |-> w.frozen,
          withdrawn |-> w.withdrawn, locked |-> w.locked]
         EXCEPT !.current = w.current - a]
        = [current |-> w.current - a, pending |-> w.pending, frozen |-> w.frozen,
           withdrawn |-> w.withdrawn, locked |-> w.locked]
    OBVIOUS
  <2>3. [[current |-> w.current - a, pending |-> w.pending, frozen |-> w.frozen,
          withdrawn |-> w.withdrawn, locked |-> w.locked]
         EXCEPT !.frozen = w.frozen + a]
        = [current |-> w.current - a, pending |-> w.pending, frozen |-> w.frozen + a,
           withdrawn |-> w.withdrawn, locked |-> w.locked]
    OBVIOUS
  <2> QED
    BY <2>1, <2>2, <2>3 DEF Frozen
<1>3. [current |-> w.current - a, pending |-> w.pending,
       frozen |-> w.frozen + a, withdrawn |-> w.withdrawn, locked |-> w.locked]
        \in WalletRow
  BY <1>1, WalletColumns, WalletOf
<1> QED
  BY <1>2, <1>3

LEMMA UnfrozenRow ==
    ASSUME NEW w \in WalletRow, NEW a \in Nat, a <= w.frozen
    PROVE  /\ Unfrozen(w, a) \in WalletRow
           /\ Unfrozen(w, a) = [current |-> w.current + a, pending |-> w.pending,
                                frozen |-> w.frozen - a, withdrawn |-> w.withdrawn, locked |-> w.locked]
<1>1. w.current + a \in Nat /\ w.frozen - a \in Nat
  BY WalletColumns
<1>2. Unfrozen(w, a) = [current |-> w.current + a, pending |-> w.pending,
                        frozen |-> w.frozen - a, withdrawn |-> w.withdrawn, locked |-> w.locked]
  <2>1. w = [current |-> w.current, pending |-> w.pending, frozen |-> w.frozen,
             withdrawn |-> w.withdrawn, locked |-> w.locked]
    BY WalletColumns
  <2>2. [[current |-> w.current, pending |-> w.pending, frozen |-> w.frozen,
          withdrawn |-> w.withdrawn, locked |-> w.locked]
         EXCEPT !.current = w.current + a]
        = [current |-> w.current + a, pending |-> w.pending, frozen |-> w.frozen,
           withdrawn |-> w.withdrawn, locked |-> w.locked]
    OBVIOUS
  <2>3. [[current |-> w.current + a, pending |-> w.pending, frozen |-> w.frozen,
          withdrawn |-> w.withdrawn, locked |-> w.locked]
         EXCEPT !.frozen = w.frozen - a]
        = [current |-> w.current + a, pending |-> w.pending, frozen |-> w.frozen - a,
           withdrawn |-> w.withdrawn, locked |-> w.locked]
    OBVIOUS
  <2> QED
    BY <2>1, <2>2, <2>3 DEF Unfrozen
<1>3. [current |-> w.current + a, pending |-> w.pending,
       frozen |-> w.frozen - a, withdrawn |-> w.withdrawn, locked |-> w.locked]
        \in WalletRow
  BY <1>1, WalletColumns, WalletOf
<1> QED
  BY <1>2, <1>3

LEMMA ReturnedRow ==
    ASSUME NEW w \in WalletRow
    PROVE  /\ Returned(w) \in WalletRow
           /\ Returned(w) = [current |-> w.current + Amount, pending |-> Less(w.pending, Amount),
                             frozen |-> w.frozen, withdrawn |-> w.withdrawn, locked |-> w.locked]
<1>1. w.current + Amount \in Nat /\ Less(w.pending, Amount) \in Nat
  BY WalletColumns, AmountAssumption, LessFacts
<1>2. Returned(w) = [current |-> w.current + Amount, pending |-> Less(w.pending, Amount),
                     frozen |-> w.frozen, withdrawn |-> w.withdrawn, locked |-> w.locked]
  <2>1. w = [current |-> w.current, pending |-> w.pending, frozen |-> w.frozen,
             withdrawn |-> w.withdrawn, locked |-> w.locked]
    BY WalletColumns
  <2>2. [[current |-> w.current, pending |-> w.pending, frozen |-> w.frozen,
          withdrawn |-> w.withdrawn, locked |-> w.locked]
         EXCEPT !.current = w.current + Amount]
        = [current |-> w.current + Amount, pending |-> w.pending, frozen |-> w.frozen,
           withdrawn |-> w.withdrawn, locked |-> w.locked]
    OBVIOUS
  <2>3. [[current |-> w.current + Amount, pending |-> w.pending, frozen |-> w.frozen,
          withdrawn |-> w.withdrawn, locked |-> w.locked]
         EXCEPT !.pending = Less(w.pending, Amount)]
        = [current |-> w.current + Amount, pending |-> Less(w.pending, Amount), frozen |-> w.frozen,
           withdrawn |-> w.withdrawn, locked |-> w.locked]
    OBVIOUS
  <2> QED
    BY <2>1, <2>2, <2>3 DEF Returned
<1>3. [current |-> w.current + Amount, pending |-> Less(w.pending, Amount),
       frozen |-> w.frozen, withdrawn |-> w.withdrawn, locked |-> w.locked]
        \in WalletRow
  BY <1>1, WalletColumns, WalletOf
<1> QED
  BY <1>2, <1>3

LEMMA PaidRow ==
    ASSUME NEW w \in WalletRow
    PROVE  /\ Paid(w) \in WalletRow
           /\ Paid(w) = [current |-> w.current, pending |-> Less(w.pending, Amount),
                         frozen |-> w.frozen, withdrawn |-> w.withdrawn + Amount, locked |-> w.locked]
<1>1. w.withdrawn + Amount \in Nat /\ Less(w.pending, Amount) \in Nat
  BY WalletColumns, AmountAssumption, LessFacts
<1>2. Paid(w) = [current |-> w.current, pending |-> Less(w.pending, Amount),
                 frozen |-> w.frozen, withdrawn |-> w.withdrawn + Amount, locked |-> w.locked]
  <2>1. w = [current |-> w.current, pending |-> w.pending, frozen |-> w.frozen,
             withdrawn |-> w.withdrawn, locked |-> w.locked]
    BY WalletColumns
  <2>2. [[current |-> w.current, pending |-> w.pending, frozen |-> w.frozen,
          withdrawn |-> w.withdrawn, locked |-> w.locked]
         EXCEPT !.pending = Less(w.pending, Amount)]
        = [current |-> w.current, pending |-> Less(w.pending, Amount), frozen |-> w.frozen,
           withdrawn |-> w.withdrawn, locked |-> w.locked]
    OBVIOUS
  <2>3. [[current |-> w.current, pending |-> Less(w.pending, Amount), frozen |-> w.frozen,
          withdrawn |-> w.withdrawn, locked |-> w.locked]
         EXCEPT !.withdrawn = w.withdrawn + Amount]
        = [current |-> w.current, pending |-> Less(w.pending, Amount), frozen |-> w.frozen,
           withdrawn |-> w.withdrawn + Amount, locked |-> w.locked]
    OBVIOUS
  <2> QED
    BY <2>1, <2>2, <2>3 DEF Paid
<1>3. [current |-> w.current, pending |-> Less(w.pending, Amount),
       frozen |-> w.frozen, withdrawn |-> w.withdrawn + Amount, locked |-> w.locked]
        \in WalletRow
  BY <1>1, WalletColumns, WalletOf
<1> QED
  BY <1>2, <1>3

\* What the clamp lets a reversal take.
LEMMA TakenBackFacts ==
    ASSUME NEW w \in WalletRow, NEW a \in Nat
    PROVE  TakenBack(w, a) \in Nat /\ TakenBack(w, a) <= w.current
BY WalletColumns DEF TakenBack

\* What staff type into a wallet's form, or the PATCH of a copy, makes a wallet row.
LEMMA SavedRow ==
    ASSUME NEW w \in WalletRow, NEW x,
           x \in [current : {w.current} \cup Typed, pending : {w.pending} \cup Typed,
                  frozen : {w.frozen} \cup Typed, withdrawn : {w.withdrawn} \cup Typed,
                  locked : BOOLEAN]
    PROVE  x \in WalletRow
<1>1. /\ {w.current} \cup Typed \subseteq Nat /\ {w.pending} \cup Typed \subseteq Nat
      /\ {w.frozen} \cup Typed \subseteq Nat /\ {w.withdrawn} \cup Typed \subseteq Nat
  BY WalletColumns, TypedAssumption
<1> QED
  BY <1>1 DEF WalletRow

\* What a call taints is added to what was tainted before.
LEMMA TaintGrows ==
    ASSUME TypeOK, NEW w \in BOOLEAN, NEW rs \in SUBSET Request, NEW ks \in SUBSET Key,
           Taint(w, rs, ks)
    PROVE  /\ tainted' \in [calls : Nat, wallet : BOOLEAN, requests : SUBSET Request,
                            keys : SUBSET Key]
           /\ tainted'.requests = tainted.requests \cup rs
           /\ tainted'.keys = tainted.keys \cup ks
           /\ ~tainted'.wallet => ~tainted.wallet /\ ~w
<1>1. /\ tainted.calls \in Nat /\ tainted.wallet \in BOOLEAN
      /\ tainted.requests \in SUBSET Request /\ tainted.keys \in SUBSET Key
  BY DEF TypeOK
<1>2. PICK n \in {0, 1} : tainted' = [calls |-> tainted.calls + n, wallet |-> tainted.wallet \/ w,
                                      requests |-> tainted.requests \cup rs,
                                      keys |-> tainted.keys \cup ks]
  BY DEF Taint
<1>3. tainted.calls + n \in Nat
  BY <1>1, <1>2
<1> QED
  BY <1>1, <1>2, <1>3

\* A call taints requests and keys only.
LEMMA TaintedKinds ==
    ASSUME TypeOK, NEW s \in Session
    PROVE  /\ StaleRequests(s) \in SUBSET Request
           /\ SharedKeys(s) \in SUBSET Key
           /\ StaleWallet(s) \in BOOLEAN
           /\ {r \in session[s].on : session[s].seen = "CANCELLED"} \in SUBSET Request
  BY DEF TypeOK, Call, StaleRequests, SharedKeys, StaleWallet

\* Changing the rows of some requests leaves a table of request rows.
LEMMA RequestRows ==
    ASSUME TypeOK, NEW rs \in SUBSET Request, NEW status \in Status,
           NEW txn \in TransactionStatus
    PROVE  /\ SetRow(rs, status, txn) \in [Request -> RequestRow]
           /\ SetStatus(rs, status) \in [Request -> RequestRow]
           /\ \A r \in Request :
                 /\ SetRow(rs, status, txn)[r].status = IF r \in rs THEN status
                                                                  ELSE request[r].status
                 /\ SetStatus(rs, status)[r].status = IF r \in rs THEN status
                                                                ELSE request[r].status
<1>1. \A r \in Request : /\ request[r] \in RequestRow
                         /\ [request[r] EXCEPT !.status = status, !.txn = txn] \in RequestRow
                         /\ [request[r] EXCEPT !.status = status] \in RequestRow
  BY DEF TypeOK, RequestRow
<1>2. \A r \in Request :
         /\ [request[r] EXCEPT !.status = status, !.txn = txn].status = status
         /\ [request[r] EXCEPT !.status = status].status = status
  BY <1>1 DEF RequestRow
<1> QED
  BY <1>1, <1>2 DEF SetRow, SetStatus

\* So does changing their status alone.
LEMMA StatusRows ==
    ASSUME TypeOK, NEW rs \in SUBSET Request, NEW status \in Status
    PROVE  /\ SetStatus(rs, status) \in [Request -> RequestRow]
           /\ \A r \in Request : SetStatus(rs, status)[r].status = IF r \in rs THEN status
                                                                    ELSE request[r].status
<1>1. \A r \in Request : /\ request[r] \in RequestRow
                         /\ [request[r] EXCEPT !.status = status] \in RequestRow
                         /\ [request[r] EXCEPT !.status = status].status = status
  BY DEF TypeOK, RequestRow
<1> QED
  BY <1>1 DEF SetStatus

\* One more settlement of some requests.
LEMMA Settlements ==
    ASSUME TypeOK, NEW rs \in SUBSET Request, NEW outcome \in {"paid", "returned"},
           Count(rs, outcome)
    PROVE  /\ settled' \in [Request -> [paid : Nat, returned : Nat]]
           /\ \A r \in Request \ rs : settled'[r] = settled[r]
           /\ \A r \in rs : settled'[r] = [settled[r] EXCEPT ![outcome] = @ + 1]
<1>1. \A r \in Request : settled[r] \in [paid : Nat, returned : Nat]
  BY DEF TypeOK
<1>2. \A r \in Request : [settled[r] EXCEPT ![outcome] = @ + 1] \in [paid : Nat, returned : Nat]
  BY <1>1
<1> QED
  BY <1>1, <1>2 DEF Count

\* The transactions that can be reversed, and what reversing one does: what it gave is
\* taken back as far as it is there, and what it took is given back.
LEMMA ReverseFacts ==
    ASSUME TypeOK, Copies, NEW s \in Session, NEW row \in others, Reverse(s, row[1])
    PROVE  /\ session[s].copy \in WalletRow /\ row[1] \in Int
           /\ \/ /\ TakenBack(session[s].copy, row[1]) \in Nat
                 /\ TakenBack(session[s].copy, row[1]) <= session[s].copy.current
                 /\ wallet' = Taken(session[s].copy, TakenBack(session[s].copy, row[1]))
                 /\ Booked("out", TakenBack(session[s].copy, row[1]))
              \/ /\ -row[1] \in Nat
                 /\ wallet' = Credited(session[s].copy, -row[1])
                 /\ Booked("restored", -row[1])
<1>1. session[s].copy \in WalletRow
  BY DEF Reverse, Has, Copies, Sound
<1>2. row[1] \in Int
  BY DEF TypeOK, OtherRow
<1>3. CASE row[1] > 0
  <2>1. row[1] \in Nat /\ ~(row[1] < 0)
    BY <1>2, <1>3
  <2>2. /\ TakenBack(session[s].copy, row[1]) \in Nat
        /\ TakenBack(session[s].copy, row[1]) <= session[s].copy.current
    BY <1>1, <2>1, TakenBackFacts
  <2> QED
    BY <1>1, <1>2, <2>1, <2>2 DEF Reverse
<1>4. CASE ~(row[1] > 0)
  <2>1. -row[1] \in Nat
    BY <1>2, <1>4
  <2> QED
    BY <1>1, <1>2, <1>4, <2>1 DEF Reverse
<1> QED
  BY <1>3, <1>4

\* What reject_requests and process_withdrawals write.
LEMMA ByHandFacts ==
    ASSUME NEW rs \in SUBSET Request, reject_requests(rs) \/ process_withdrawals(rs)
    PROVE  /\ \/ /\ request' = SetStatus(rs, "REJECTED")
                 /\ \A r \in rs : request[r].status = "PENDING"
              \/ /\ request' = SetStatus(rs, "COMPLETED")
                 /\ \A r \in rs : request[r].status = "APPROVED"
           /\ byHand' = byHand \cup rs
           /\ wallet' = wallet /\ batch' = batch /\ keys' = keys /\ others' = others
           /\ session' = session /\ ledger' = ledger /\ settled' = settled
           /\ credits' = credits /\ tainted' = tainted
BY DEF reject_requests, process_withdrawals, CloseByHand

\* The records calls are made of.
LEMMA IdleCall == Idle \in Call
  BY NoneAssumption DEF Idle, Call, Status, TransactionStatus

\* Ending a call leaves the other calls as they are.
LEMMA DoneCall ==
    ASSUME TypeOK, NEW s \in Session, Done(s)
    PROVE  /\ session' \in [Session -> Call]
           /\ session'[s] = Idle
           /\ \A t \in Session \ {s} : session'[t] = session[t]
  BY IdleCall DEF TypeOK, Done

\* So does beginning one.
LEMMA ReadsCall ==
    ASSUME TypeOK, NEW s \in Session, NEW call \in Call, Reads(s, call)
    PROVE  /\ session' \in [Session -> Call]
           /\ session'[s] = call
           /\ \A t \in Session \ {s} : session'[t] = session[t]
  BY DEF TypeOK, Reads

-----------------------------------------------------------------------------
(* Type correctness *)

\* What is tainted stays tainted.
TaintedMore ==
    /\ tainted' \in [calls : Nat, wallet : BOOLEAN, requests : SUBSET Request, keys : SUBSET Key]
    /\ tainted.requests \subseteq tainted'.requests
    /\ tainted.keys \subseteq tainted'.keys
    /\ ~tainted'.wallet => ~tainted.wallet

\* Every step taints more, or the same.
LEMMA TaintStep ==
    ASSUME TypeOK, [Next]_vars
    PROVE  TaintedMore
<1>1. ASSUME NEW s \in Session, ReadWallet(s) PROVE TaintedMore
  BY <1>1 DEF ReadWallet, rows, history, TypeOK, TaintedMore
<1>2. ASSUME NEW s \in Session, NEW k \in Key, CheckKey(s, k) PROVE TaintedMore
  BY <1>2 DEF CheckKey, rows, history, TypeOK, TaintedMore
<1>3. ASSUME NEW s \in Session, NEW a \in Sums, Credit(s, a) PROVE TaintedMore
  <2>1. Taint(StaleWallet(s), {}, SharedKeys(s))
    BY <1>3 DEF Credit
  <2>2. StaleWallet(s) \in BOOLEAN /\ {} \in SUBSET Request /\ SharedKeys(s) \in SUBSET Key
    BY TaintedKinds
  <2> QED
    BY <2>1, <2>2, TaintGrows DEF TaintedMore
<1>4. ASSUME NEW s \in Session, NEW a \in Sums, InstantPayout(s, a) PROVE TaintedMore
  <2>1. Taint(StaleWallet(s), {}, {})
    BY <1>4 DEF InstantPayout, Debit
  <2>2. StaleWallet(s) \in BOOLEAN /\ {} \in SUBSET Request /\ {} \in SUBSET Key
    BY TaintedKinds
  <2> QED
    BY <2>1, <2>2, TaintGrows DEF TaintedMore
<1>5. ASSUME NEW s \in Session, NEW a \in Sums, Transfer(s, a) PROVE TaintedMore
  <2>1. Taint(StaleWallet(s), {}, {})
    BY <1>5 DEF Transfer, Debit
  <2>2. StaleWallet(s) \in BOOLEAN /\ {} \in SUBSET Request /\ {} \in SUBSET Key
    BY TaintedKinds
  <2> QED
    BY <2>1, <2>2, TaintGrows DEF TaintedMore
<1>6. ASSUME NEW s \in Session, NEW a \in Sums, AdminDebit(s, a) PROVE TaintedMore
  <2>1. Taint(StaleWallet(s), {}, {})
    BY <1>6 DEF AdminDebit, Debit
  <2>2. StaleWallet(s) \in BOOLEAN /\ {} \in SUBSET Request /\ {} \in SUBSET Key
    BY TaintedKinds
  <2> QED
    BY <2>1, <2>2, TaintGrows DEF TaintedMore
<1>7. ASSUME NEW s \in Session, NEW a \in Sums, Freeze(s, a) PROVE TaintedMore
  <2>1. Taint(StaleWallet(s), {}, {})
    BY <1>7 DEF Freeze
  <2>2. StaleWallet(s) \in BOOLEAN /\ {} \in SUBSET Request /\ {} \in SUBSET Key
    BY TaintedKinds
  <2> QED
    BY <2>1, <2>2, TaintGrows DEF TaintedMore
<1>8. ASSUME NEW s \in Session, NEW a \in Sums, Unfreeze(s, a) PROVE TaintedMore
  <2>1. Taint(StaleWallet(s), {}, {})
    BY <1>8 DEF Unfreeze
  <2>2. StaleWallet(s) \in BOOLEAN /\ {} \in SUBSET Request /\ {} \in SUBSET Key
    BY TaintedKinds
  <2> QED
    BY <2>1, <2>2, TaintGrows DEF TaintedMore
<1>9. ASSUME NEW s \in Session, NEW r \in Request, Withdraw(s, r) PROVE TaintedMore
  <2>1. Taint(StaleWallet(s), {}, {})
    BY <1>9 DEF Withdraw
  <2>2. StaleWallet(s) \in BOOLEAN /\ {} \in SUBSET Request /\ {} \in SUBSET Key
    BY TaintedKinds
  <2> QED
    BY <2>1, <2>2, TaintGrows DEF TaintedMore
<1>10. ASSUME NEW s \in Session, NEW r \in Request, ReadRequest(s, r) PROVE TaintedMore
  BY <1>10 DEF ReadRequest, rows, history, TypeOK, TaintedMore
<1>11. ASSUME NEW s \in Session, NEW r \in Request, FetchRelated(s, r) PROVE TaintedMore
  BY <1>11 DEF FetchRelated, rows, history, TypeOK, TaintedMore
<1>12. ASSUME NEW s \in Session, Approve(s) PROVE TaintedMore
  <2>1. Taint(FALSE, StaleRequests(s), {})
    BY <1>12 DEF Approve
  <2>2. FALSE \in BOOLEAN /\ StaleRequests(s) \in SUBSET Request /\ {} \in SUBSET Key
    BY TaintedKinds
  <2> QED
    BY <2>1, <2>2, TaintGrows DEF TaintedMore
<1>13. ASSUME NEW s \in Session, Reject(s) PROVE TaintedMore
  <2>1. Taint(StaleWallet(s), StaleRequests(s), {})
    BY <1>13 DEF Reject
  <2>2. StaleWallet(s) \in BOOLEAN /\ StaleRequests(s) \in SUBSET Request /\ {} \in SUBSET Key
    BY TaintedKinds
  <2> QED
    BY <2>1, <2>2, TaintGrows DEF TaintedMore
<1>14. ASSUME NEW s \in Session, Cancel(s) PROVE TaintedMore
  <2> DEFINE again == {r \in session[s].on : session[s].seen = "CANCELLED"}
  <2>1. Taint(StaleWallet(s), StaleRequests(s) \cup again, {})
    BY <1>14 DEF Cancel
  <2>2. StaleWallet(s) \in BOOLEAN /\ StaleRequests(s) \cup again \in SUBSET Request
        /\ {} \in SUBSET Key
    BY TaintedKinds
  <2> QED
    BY <2>1, <2>2, TaintGrows DEF TaintedMore
<1>15. ASSUME NEW s \in Session, Complete(s) PROVE TaintedMore
  <2>1. Taint(StaleWallet(s), StaleRequests(s), {})
    BY <1>15 DEF Complete
  <2>2. StaleWallet(s) \in BOOLEAN /\ StaleRequests(s) \in SUBSET Request /\ {} \in SUBSET Key
    BY TaintedKinds
  <2> QED
    BY <2>1, <2>2, TaintGrows DEF TaintedMore
<1>16. ASSUME NEW s \in Session, DispatchFails(s) PROVE TaintedMore
  <2>1. Taint(FALSE, StaleRequests(s), {})
    BY <1>16 DEF DispatchFails
  <2>2. FALSE \in BOOLEAN /\ StaleRequests(s) \in SUBSET Request /\ {} \in SUBSET Key
    BY TaintedKinds
  <2> QED
    BY <2>1, <2>2, TaintGrows DEF TaintedMore
<1>17. ASSUME NEW s \in Session, Refused(s) PROVE TaintedMore
  BY <1>17 DEF Refused, rows, history, TypeOK, TaintedMore
<1>18. ASSUME NEW s \in Session, NEW b \in Batch, ReadBatch(s, b) PROVE TaintedMore
  BY <1>18 DEF ReadBatch, rows, history, TypeOK, TaintedMore
<1>19. ASSUME NEW s \in Session, ProcessBatch(s) PROVE TaintedMore
  <2>1. Taint(FALSE, StaleRequests(s), {})
    BY <1>19 DEF ProcessBatch
  <2>2. FALSE \in BOOLEAN /\ StaleRequests(s) \in SUBSET Request /\ {} \in SUBSET Key
    BY TaintedKinds
  <2> QED
    BY <2>1, <2>2, TaintGrows DEF TaintedMore
<1>20. ASSUME NEW k \in Key, ExpireKey(k) PROVE TaintedMore
  <2>1. k \in Key
    OBVIOUS
  <2> QED
    BY <1>20, <2>1 DEF ExpireKey, TypeOK, TaintedMore
<1>21. ASSUME NEW locked \in BOOLEAN, SetLocked(locked) PROVE TaintedMore
  BY <1>21 DEF SetLocked, history, TypeOK, TaintedMore
<1>22. ASSUME NEW b \in Batch, NEW ids \in SUBSET Request, CreateBatch(b, ids)
       PROVE  TaintedMore
  BY <1>22 DEF CreateBatch, history, TypeOK, TaintedMore
<1>23. CASE UNCHANGED vars
  BY <1>23 DEF vars, rows, history, TypeOK, TaintedMore
<1>24. ASSUME NEW s \in Session, NEW row \in others, Reverse(s, row[1])
       PROVE  TaintedMore
  <2>1. Taint(StaleWallet(s), {}, {})
    BY <1>24 DEF Reverse
  <2>2. StaleWallet(s) \in BOOLEAN /\ {} \in SUBSET Request /\ {} \in SUBSET Key
    BY TaintedKinds
  <2> QED
    BY <2>1, <2>2, TaintGrows DEF TaintedMore
<1>25. ASSUME NEW s \in Session, NEW status \in Endings, EndTransaction(s, status)
       PROVE  TaintedMore
  BY <1>25 DEF EndTransaction, history, TypeOK, TaintedMore
<1>26. ASSUME NEW s \in Session, ReverseWithdrawal(s) PROVE TaintedMore
  <2>1. Taint(StaleWallet(s), {}, {})
    BY <1>26 DEF ReverseWithdrawal
  <2>2. StaleWallet(s) \in BOOLEAN /\ {} \in SUBSET Request /\ {} \in SUBSET Key
    BY TaintedKinds
  <2> QED
    BY <2>1, <2>2, TaintGrows DEF TaintedMore
<1>27. ASSUME NEW s \in Session, MarkReversed(s) PROVE TaintedMore
  BY <1>27 DEF MarkReversed, history, TypeOK, TaintedMore
<1>28. ASSUME NEW a \in Sums, ReserveBalance(a) PROVE TaintedMore
  BY <1>28 DEF ReserveBalance, history, TypeOK, TaintedMore
<1>29. ASSUME NEW a \in Sums, ReleaseReserve(a) PROVE TaintedMore
  BY <1>29 DEF ReleaseReserve, history, TypeOK, TaintedMore
<1>30. ASSUME NEW k \in Key, RecordKey(k) PROVE TaintedMore
  BY <1>30 DEF RecordKey, history, TypeOK, TaintedMore
<1>31. ASSUME NEW row \in others, ApproveOther(row) PROVE TaintedMore
  BY <1>31 DEF ApproveOther, history, TypeOK, TaintedMore
<1>32. ASSUME NEW s \in Session, SaveWallet(s) PROVE TaintedMore
  <2> DEFINE typed == Money(wallet') # Money(session[s].copy)
  <2>1. Taint(StaleWallet(s) \/ typed, {}, {})
    BY <1>32 DEF SaveWallet
  <2>2. (StaleWallet(s) \/ typed) \in BOOLEAN /\ {} \in SUBSET Request /\ {} \in SUBSET Key
    BY DEF StaleWallet
  <2> HIDE DEF typed
  <2> QED
    BY <2>1, <2>2, TaintGrows DEF TaintedMore
<1>33. ASSUME NEW rs \in SUBSET Request, reject_requests(rs) \/ process_withdrawals(rs)
       PROVE  TaintedMore
  BY <1>33, ByHandFacts DEF TypeOK, TaintedMore
<1> QED
  BY <1>1, <1>2, <1>3, <1>4, <1>5, <1>6, <1>7, <1>8, <1>9, <1>10, <1>11, <1>12, <1>13,
     <1>14, <1>15, <1>16, <1>17, <1>18, <1>19, <1>20, <1>21, <1>22, <1>23, <1>24, <1>25,
     <1>26, <1>27, <1>28, <1>29, <1>30, <1>31, <1>32, <1>33
  DEF Next, WalletStep, RequestStep, TransactionStep, BatchStep

\* A processed batch changes no balance.
LEMMA BatchPaysNothing ==
    ASSUME TypeOK, Copies, NEW s \in Session, ProcessBatch(s)
    PROVE  wallet' = wallet
<1>1. {r \in session[s].on : Completable(session[s].seen)} = {}
  BY DEF ProcessBatch, Has, Copies, Sound, Completable
<1>2. /\ wallet.pending \in Nat /\ wallet.withdrawn \in Nat
      /\ wallet \in WalletRow
  BY DEF TypeOK, WalletRow
<1>3. Amount * Cardinality({}) = 0
  BY FS_EmptySet, AmountAssumption
<1>4. wallet' = [wallet EXCEPT !.pending = Less(@, 0), !.withdrawn = @ + 0]
  BY <1>1, <1>3 DEF ProcessBatch
<1>5. Less(wallet.pending, 0) = wallet.pending /\ wallet.withdrawn + 0 = wallet.withdrawn
  BY <1>2 DEF Less
<1> QED
  BY <1>2, <1>4, <1>5 DEF WalletRow

\* Every call saves a wallet row: no balance becomes negative.
LEMMA WalletStaysRow ==
    ASSUME TypeOK, Copies, [Next]_vars
    PROVE  wallet' \in WalletRow
<1>1. ASSUME NEW s \in Session, ReadWallet(s) PROVE wallet' \in WalletRow
  BY <1>1 DEF ReadWallet, rows, history, TypeOK, WalletRow
<1>2. ASSUME NEW s \in Session, NEW k \in Key, CheckKey(s, k) PROVE wallet' \in WalletRow
  BY <1>2 DEF CheckKey, rows, history, TypeOK, WalletRow
<1>3. ASSUME NEW s \in Session, NEW a \in Sums, Credit(s, a) PROVE wallet' \in WalletRow
  <2>1. session[s].copy \in WalletRow
    BY <1>3 DEF Credit, Has, Copies, Sound
  <2>2. a \in Nat
    BY <1>3, <2>1, SumsAssumption, AmountAssumption DEF Credit
  <2>3. wallet' = Credited(session[s].copy, a)
    BY <1>3 DEF Credit
  <2> QED
    BY <2>1, <2>2, <2>3, CreditedRow
<1>4. ASSUME NEW s \in Session, NEW a \in Sums, InstantPayout(s, a)
      PROVE  wallet' \in WalletRow
  <2>1. session[s].copy \in WalletRow
    BY <1>4 DEF InstantPayout, Debit, Has, Copies, Sound
  <2>2. a \in Nat /\ Debitable(session[s].copy, a)
    BY <1>4, <2>1, SumsAssumption, AmountAssumption DEF InstantPayout, Debit
  <2>3. wallet' = Debited(session[s].copy, a)
    BY <1>4 DEF InstantPayout, Debit
  <2> QED
    BY <2>1, <2>2, <2>3, DebitedRow
<1>5. ASSUME NEW s \in Session, NEW a \in Sums, Transfer(s, a) PROVE wallet' \in WalletRow
  <2>1. session[s].copy \in WalletRow
    BY <1>5 DEF Transfer, Debit, Has, Copies, Sound
  <2>2. a \in Nat /\ Debitable(session[s].copy, a)
    BY <1>5, <2>1, SumsAssumption, AmountAssumption DEF Transfer, Debit
  <2>3. wallet' = Sent(session[s].copy, a)
    BY <1>5 DEF Transfer, Debit
  <2> QED
    BY <2>1, <2>2, <2>3, SentRow
<1>6. ASSUME NEW s \in Session, NEW a \in Sums, AdminDebit(s, a) PROVE wallet' \in WalletRow
  <2>1. session[s].copy \in WalletRow
    BY <1>6 DEF AdminDebit, Debit, Has, Copies, Sound
  <2>2. a \in Nat /\ a <= session[s].copy.current
    BY <1>6, <2>1, SumsAssumption, AmountAssumption DEF AdminDebit, Debit
  <2>3. wallet' = Taken(session[s].copy, a)
    BY <1>6 DEF AdminDebit, Debit
  <2> QED
    BY <2>1, <2>2, <2>3, TakenRow
<1>7. ASSUME NEW s \in Session, NEW a \in Sums, Freeze(s, a) PROVE wallet' \in WalletRow
  <2>1. session[s].copy \in WalletRow
    BY <1>7 DEF Freeze, Has, Copies, Sound
  <2>2. a \in Nat /\ a <= session[s].copy.current
    BY <1>7, <2>1, SumsAssumption, AmountAssumption DEF Freeze
  <2>3. wallet' = Frozen(session[s].copy, a)
    BY <1>7 DEF Freeze
  <2> QED
    BY <2>1, <2>2, <2>3, FrozenRow
<1>8. ASSUME NEW s \in Session, NEW a \in Sums, Unfreeze(s, a) PROVE wallet' \in WalletRow
  <2>1. session[s].copy \in WalletRow
    BY <1>8 DEF Unfreeze, Has, Copies, Sound
  <2>2. a \in Nat /\ a <= session[s].copy.frozen
    BY <1>8, <2>1, SumsAssumption, AmountAssumption DEF Unfreeze
  <2>3. wallet' = Unfrozen(session[s].copy, a)
    BY <1>8 DEF Unfreeze
  <2> QED
    BY <2>1, <2>2, <2>3, UnfrozenRow
<1>9. ASSUME NEW s \in Session, NEW r \in Request, Withdraw(s, r)
      PROVE  wallet' \in WalletRow
  <2>1. session[s].copy \in WalletRow
    BY <1>9 DEF Withdraw, Has, Copies, Sound
  <2>2. Amount \in Nat /\ Debitable(session[s].copy, Amount)
    BY <1>9, <2>1, SumsAssumption, AmountAssumption DEF Withdraw
  <2>3. wallet' = Debited(session[s].copy, Amount)
    BY <1>9 DEF Withdraw
  <2> QED
    BY <2>1, <2>2, <2>3, DebitedRow
<1>10. ASSUME NEW s \in Session, NEW r \in Request, ReadRequest(s, r)
       PROVE  wallet' \in WalletRow
  BY <1>10 DEF ReadRequest, rows, history, TypeOK, WalletRow
<1>11. ASSUME NEW s \in Session, NEW r \in Request, FetchRelated(s, r)
       PROVE  wallet' \in WalletRow
  BY <1>11 DEF FetchRelated, rows, history, TypeOK, WalletRow
<1>12. ASSUME NEW s \in Session, Approve(s) PROVE wallet' \in WalletRow
  BY <1>12 DEF Approve, TypeOK, WalletRow
<1>13. ASSUME NEW s \in Session, Reject(s) PROVE wallet' \in WalletRow
  <2>1. session[s].copy \in WalletRow
    BY <1>13 DEF Reject, Has, Copies, Sound
  <2>2. Amount \in Nat
    BY <1>13, <2>1, SumsAssumption, AmountAssumption DEF Reject
  <2>3. wallet' = Returned(session[s].copy)
    BY <1>13 DEF Reject
  <2> QED
    BY <2>1, <2>2, <2>3, ReturnedRow
<1>14. ASSUME NEW s \in Session, Cancel(s) PROVE wallet' \in WalletRow
  <2>1. session[s].copy \in WalletRow
    BY <1>14 DEF Cancel, Has, Copies, Sound
  <2>2. Amount \in Nat
    BY <1>14, <2>1, SumsAssumption, AmountAssumption DEF Cancel
  <2>3. wallet' = Returned(session[s].copy)
    BY <1>14 DEF Cancel
  <2> QED
    BY <2>1, <2>2, <2>3, ReturnedRow
<1>15. ASSUME NEW s \in Session, Complete(s) PROVE wallet' \in WalletRow
  <2>1. session[s].copy \in WalletRow
    BY <1>15 DEF Complete, Has, Copies, Sound
  <2>2. Amount \in Nat
    BY <1>15, <2>1, SumsAssumption, AmountAssumption DEF Complete
  <2>3. wallet' = Paid(session[s].copy)
    BY <1>15 DEF Complete
  <2> QED
    BY <2>1, <2>2, <2>3, PaidRow
<1>16. ASSUME NEW s \in Session, DispatchFails(s) PROVE wallet' \in WalletRow
  BY <1>16 DEF DispatchFails, TypeOK, WalletRow
<1>17. ASSUME NEW s \in Session, Refused(s) PROVE wallet' \in WalletRow
  BY <1>17 DEF Refused, rows, history, TypeOK, WalletRow
<1>18. ASSUME NEW s \in Session, NEW b \in Batch, ReadBatch(s, b)
       PROVE  wallet' \in WalletRow
  BY <1>18 DEF ReadBatch, rows, history, TypeOK, WalletRow
<1>19. ASSUME NEW s \in Session, ProcessBatch(s) PROVE wallet' \in WalletRow
  BY <1>19, BatchPaysNothing DEF TypeOK
<1>20. ASSUME NEW k \in Key, ExpireKey(k) PROVE wallet' \in WalletRow
  BY <1>20 DEF ExpireKey, TypeOK, WalletRow
<1>21. ASSUME NEW locked \in BOOLEAN, SetLocked(locked) PROVE wallet' \in WalletRow
  BY <1>21 DEF SetLocked, TypeOK, WalletRow
<1>22. ASSUME NEW b \in Batch, NEW ids \in SUBSET Request, CreateBatch(b, ids)
       PROVE  wallet' \in WalletRow
  BY <1>22 DEF CreateBatch, history, TypeOK, WalletRow
<1>23. CASE UNCHANGED vars
  BY <1>23 DEF vars, rows, history, TypeOK
<1>24. ASSUME NEW s \in Session, NEW row \in others, Reverse(s, row[1])
       PROVE  wallet' \in WalletRow
  <2> DEFINE w == session[s].copy
             taken == TakenBack(w, row[1])
             given == -row[1]
  <2>1. w \in WalletRow /\ \/ taken \in Nat /\ taken <= w.current /\ wallet' = Taken(w, taken)
                           \/ given \in Nat /\ wallet' = Credited(w, given)
    BY <1>24, ReverseFacts
  <2> HIDE DEF w, taken, given
  <2> QED
    BY <2>1, TakenRow, CreditedRow
<1>25. ASSUME NEW s \in Session, NEW status \in Endings, EndTransaction(s, status)
       PROVE  wallet' \in WalletRow
  BY <1>25 DEF EndTransaction, TypeOK, WalletRow
<1>26. ASSUME NEW s \in Session, ReverseWithdrawal(s) PROVE wallet' \in WalletRow
  <2>1. session[s].copy \in WalletRow
    BY <1>26 DEF ReverseWithdrawal, Has, Copies, Sound
  <2>2. wallet' = Credited(session[s].copy, Amount) /\ Amount \in Nat
    BY <1>26, AmountAssumption DEF ReverseWithdrawal
  <2> QED
    BY <2>1, <2>2, CreditedRow
<1>27. ASSUME NEW s \in Session, MarkReversed(s) PROVE wallet' \in WalletRow
  BY <1>27 DEF MarkReversed, TypeOK, WalletRow
<1>28. ASSUME NEW a \in Sums, ReserveBalance(a) PROVE wallet' \in WalletRow
  <2>1. wallet \in WalletRow /\ a \in Nat /\ a <= wallet.current
    BY <1>28, SumsAssumption DEF ReserveBalance, TypeOK
  <2>2. wallet' = Frozen(wallet, a)
    BY <1>28 DEF ReserveBalance
  <2> QED
    BY <2>1, <2>2, FrozenRow
<1>29. ASSUME NEW a \in Sums, ReleaseReserve(a) PROVE wallet' \in WalletRow
  <2> DEFINE released == IF a <= wallet.frozen THEN a ELSE wallet.frozen
  <2>1. wallet \in WalletRow /\ released \in Nat /\ released <= wallet.frozen
    BY SumsAssumption, WalletColumns DEF TypeOK
  <2>2. wallet' = Unfrozen(wallet, released)
    BY <1>29 DEF ReleaseReserve
  <2> QED
    BY <2>1, <2>2, UnfrozenRow
<1>30. ASSUME NEW k \in Key, RecordKey(k) PROVE wallet' \in WalletRow
  BY <1>30 DEF RecordKey, TypeOK
<1>31. ASSUME NEW row \in others, ApproveOther(row) PROVE wallet' \in WalletRow
  BY <1>31 DEF ApproveOther, TypeOK
<1>32. ASSUME NEW s \in Session, SaveWallet(s) PROVE wallet' \in WalletRow
  <2>1. session[s].copy \in WalletRow
    BY <1>32 DEF SaveWallet, Has, Copies, Sound
  <2> QED
    BY <1>32, <2>1, SavedRow DEF SaveWallet
<1>33. ASSUME NEW rs \in SUBSET Request, reject_requests(rs) \/ process_withdrawals(rs)
       PROVE  wallet' \in WalletRow
  BY <1>33, ByHandFacts DEF TypeOK
<1> QED
  BY <1>1, <1>2, <1>3, <1>4, <1>5, <1>6, <1>7, <1>8, <1>9, <1>10, <1>11, <1>12, <1>13,
     <1>14, <1>15, <1>16, <1>17, <1>18, <1>19, <1>20, <1>21, <1>22, <1>23, <1>24, <1>25,
     <1>26, <1>27, <1>28, <1>29, <1>30, <1>31, <1>32, <1>33
  DEF Next, WalletStep, RequestStep, TransactionStep, BatchStep

\* A request row with a new status, transaction or batch is a request row.
LEMMA RowUpdates ==
    ASSUME NEW x \in RequestRow, NEW status \in Status, NEW txn \in TransactionStatus,
           NEW b \in Batch \cup {None}
    PROVE  /\ [x EXCEPT !.status = status] \in RequestRow
           /\ [x EXCEPT !.status = status, !.txn = txn] \in RequestRow
           /\ [x EXCEPT !.status = status, !.batch = b] \in RequestRow
           /\ [x EXCEPT !.status = status].status = status
           /\ [x EXCEPT !.status = status, !.txn = txn].status = status
           /\ [x EXCEPT !.status = status, !.batch = b].status = status
<1>1. /\ x = [status |-> x.status, txn |-> x.txn, reversed |-> x.reversed, batch |-> x.batch]
      /\ x.txn \in TransactionStatus /\ x.reversed \in BOOLEAN /\ x.batch \in Batch \cup {None}
  BY DEF RequestRow
<1>2. [[status |-> x.status, txn |-> x.txn, reversed |-> x.reversed, batch |-> x.batch] EXCEPT !.status = status]
        = [status |-> status, txn |-> x.txn, reversed |-> x.reversed, batch |-> x.batch]
  OBVIOUS
<1>3. [[status |-> status, txn |-> x.txn, reversed |-> x.reversed, batch |-> x.batch] EXCEPT !.txn = txn]
        = [status |-> status, txn |-> txn, reversed |-> x.reversed, batch |-> x.batch]
  OBVIOUS
<1>4. [[status |-> status, txn |-> x.txn, reversed |-> x.reversed, batch |-> x.batch] EXCEPT !.batch = b]
        = [status |-> status, txn |-> x.txn, reversed |-> x.reversed, batch |-> b]
  OBVIOUS
<1>5. /\ [x EXCEPT !.status = status]
           = [status |-> status, txn |-> x.txn, reversed |-> x.reversed, batch |-> x.batch]
      /\ [x EXCEPT !.status = status, !.txn = txn]
           = [status |-> status, txn |-> txn, reversed |-> x.reversed, batch |-> x.batch]
      /\ [x EXCEPT !.status = status, !.batch = b]
           = [status |-> status, txn |-> x.txn, reversed |-> x.reversed, batch |-> b]
  BY <1>1, <1>2, <1>3, <1>4
<1> QED
  BY <1>1, <1>5 DEF RequestRow

\* Every call leaves a table of request rows.
LEMMA RequestsStayRows ==
    ASSUME TypeOK, Copies, [Next]_vars
    PROVE  request' \in [Request -> RequestRow]
<1>1. ASSUME NEW s \in Session, ReadWallet(s) PROVE request' \in [Request -> RequestRow]
  BY <1>1 DEF ReadWallet, rows, history, TypeOK
<1>2. ASSUME NEW s \in Session, NEW k \in Key, CheckKey(s, k)
      PROVE  request' \in [Request -> RequestRow]
  BY <1>2 DEF CheckKey, rows, history, TypeOK
<1>3. ASSUME NEW s \in Session, NEW a \in Sums, Credit(s, a)
      PROVE  request' \in [Request -> RequestRow]
  BY <1>3 DEF Credit, TypeOK
<1>4. ASSUME NEW s \in Session, NEW a \in Sums, InstantPayout(s, a)
      PROVE  request' \in [Request -> RequestRow]
  BY <1>4 DEF InstantPayout, Debit, TypeOK
<1>5. ASSUME NEW s \in Session, NEW a \in Sums, Transfer(s, a)
      PROVE  request' \in [Request -> RequestRow]
  BY <1>5 DEF Transfer, Debit, TypeOK
<1>6. ASSUME NEW s \in Session, NEW a \in Sums, AdminDebit(s, a)
      PROVE  request' \in [Request -> RequestRow]
  BY <1>6 DEF AdminDebit, Debit, TypeOK
<1>7. ASSUME NEW s \in Session, NEW a \in Sums, Freeze(s, a)
      PROVE  request' \in [Request -> RequestRow]
  BY <1>7 DEF Freeze, TypeOK
<1>8. ASSUME NEW s \in Session, NEW a \in Sums, Unfreeze(s, a)
      PROVE  request' \in [Request -> RequestRow]
  BY <1>8 DEF Unfreeze, TypeOK
<1>9. ASSUME NEW s \in Session, NEW r \in Request, Withdraw(s, r)
      PROVE  request' \in [Request -> RequestRow]
  <2>1. request' = SetRow({r}, "PENDING", "PENDING")
    BY <1>9 DEF Withdraw
  <2>2. "PENDING" \in Status /\ "PENDING" \in TransactionStatus /\ {r} \in SUBSET Request
    BY DEF Status, TransactionStatus
  <2> QED
    BY <2>1, <2>2, RequestRows DEF Status, TransactionStatus
<1>10. ASSUME NEW s \in Session, NEW r \in Request, ReadRequest(s, r)
       PROVE  request' \in [Request -> RequestRow]
  BY <1>10 DEF ReadRequest, rows, history, TypeOK
<1>11. ASSUME NEW s \in Session, NEW r \in Request, FetchRelated(s, r)
       PROVE  request' \in [Request -> RequestRow]
  BY <1>11 DEF FetchRelated, rows, history, TypeOK
<1>12. ASSUME NEW s \in Session, Approve(s) PROVE request' \in [Request -> RequestRow]
  <2>1. request' = SetRow(session[s].on, "APPROVED", "APPROVED")
    BY <1>12 DEF Approve
  <2>2. session[s].on \in SUBSET Request
    BY DEF TypeOK, Call
  <2> QED
    BY <2>1, <2>2, RequestRows DEF Status, TransactionStatus
<1>13. ASSUME NEW s \in Session, Reject(s) PROVE request' \in [Request -> RequestRow]
  <2>1. request' = SetRow(session[s].on, "REJECTED", "REJECTED")
    BY <1>13 DEF Reject
  <2>2. session[s].on \in SUBSET Request
    BY DEF TypeOK, Call
  <2> QED
    BY <2>1, <2>2, RequestRows DEF Status, TransactionStatus
<1>14. ASSUME NEW s \in Session, Cancel(s) PROVE request' \in [Request -> RequestRow]
  <2>1. request' = SetStatus(session[s].on, "CANCELLED")
    BY <1>14 DEF Cancel
  <2>2. session[s].on \in SUBSET Request
    BY DEF TypeOK, Call
  <2>3. "PENDING" \in TransactionStatus
    BY DEF TransactionStatus
  <2> QED
    BY <2>1, <2>2, <2>3, RequestRows DEF Status
<1>15. ASSUME NEW s \in Session, Complete(s) PROVE request' \in [Request -> RequestRow]
  <2>1. request' = SetRow(session[s].on, "COMPLETED", "COMPLETED")
    BY <1>15 DEF Complete
  <2>2. session[s].on \in SUBSET Request
    BY DEF TypeOK, Call
  <2> QED
    BY <2>1, <2>2, RequestRows DEF Status, TransactionStatus
<1>16. ASSUME NEW s \in Session, DispatchFails(s) PROVE request' \in [Request -> RequestRow]
  <2>1. request' = SetStatus(session[s].on, "FAILED")
    BY <1>16 DEF DispatchFails
  <2>2. session[s].on \in SUBSET Request
    BY DEF TypeOK, Call
  <2>3. "PENDING" \in TransactionStatus
    BY DEF TransactionStatus
  <2> QED
    BY <2>1, <2>2, <2>3, RequestRows DEF Status
<1>17. ASSUME NEW s \in Session, Refused(s) PROVE request' \in [Request -> RequestRow]
  BY <1>17 DEF Refused, rows, history, TypeOK
<1>18. ASSUME NEW s \in Session, NEW b \in Batch, ReadBatch(s, b)
       PROVE  request' \in [Request -> RequestRow]
  BY <1>18 DEF ReadBatch, rows, history, TypeOK
<1>19. ASSUME NEW s \in Session, ProcessBatch(s) PROVE request' \in [Request -> RequestRow]
  <2>1. \A r \in Request :
            /\ request[r] \in RequestRow
            /\ [request[r] EXCEPT !.status = "COMPLETED", !.txn = "COMPLETED"] \in RequestRow
            /\ [request[r] EXCEPT !.status = "FAILED"] \in RequestRow
    <3>1. "COMPLETED" \in Status /\ "COMPLETED" \in TransactionStatus /\ "FAILED" \in Status
      BY DEF Status, TransactionStatus
    <3>2. \A r \in Request : request[r] \in RequestRow
      BY DEF TypeOK
    <3> QED
      BY <3>1, <3>2, RowUpdates
  <2>2. {r \in session[s].on : Completable(session[s].seen)} = {}
    BY <1>19 DEF ProcessBatch, Has, Copies, Sound, Completable
  <2>3. request' = [r \in Request |-> IF r \in session[s].on
                                        THEN [request[r] EXCEPT !.status = "FAILED"]
                                        ELSE request[r]]
    BY <1>19, <2>2 DEF ProcessBatch
  <2> QED
    BY <2>1, <2>3
<1>20. ASSUME NEW k \in Key, ExpireKey(k) PROVE request' \in [Request -> RequestRow]
  BY <1>20 DEF ExpireKey, TypeOK
<1>21. ASSUME NEW locked \in BOOLEAN, SetLocked(locked)
       PROVE  request' \in [Request -> RequestRow]
  BY <1>21 DEF SetLocked, history, TypeOK
<1>22. ASSUME NEW b \in Batch, NEW ids \in SUBSET Request, CreateBatch(b, ids)
       PROVE  request' \in [Request -> RequestRow]
  <2>1. \A r \in Request : /\ request[r] \in RequestRow
                           /\ [request[r] EXCEPT !.status = "BATCHED", !.batch = b] \in RequestRow
    <3>1. "BATCHED" \in Status /\ "PENDING" \in TransactionStatus
      BY DEF Status, TransactionStatus
    <3> QED
      BY <3>1, RowUpdates DEF TypeOK
  <2> QED
    BY <1>22, <2>1 DEF CreateBatch
<1>23. CASE UNCHANGED vars
  BY <1>23 DEF vars, rows, history, TypeOK
<1>24. ASSUME NEW s \in Session, NEW row \in others, Reverse(s, row[1])
       PROVE  request' \in [Request -> RequestRow]
  BY <1>24 DEF Reverse, TypeOK
<1>25. ASSUME NEW s \in Session, NEW status \in Endings, EndTransaction(s, status)
       PROVE  request' \in [Request -> RequestRow]
  <2>1. \A r \in Request : request[r] \in RequestRow /\ status \in TransactionStatus
    BY EndingsAssumption DEF TypeOK, TransactionStatus
  <2>2. \A r \in Request : [request[r] EXCEPT !.txn = status] \in RequestRow
    BY <2>1 DEF RequestRow
  <2> QED
    BY <1>25, <2>1, <2>2 DEF EndTransaction, SetTxn
<1>26. ASSUME NEW s \in Session, ReverseWithdrawal(s)
       PROVE  request' \in [Request -> RequestRow]
  BY <1>26 DEF ReverseWithdrawal, TypeOK
<1>27. ASSUME NEW s \in Session, MarkReversed(s) PROVE request' \in [Request -> RequestRow]
  <2>1. \A r \in Request : /\ request[r] \in RequestRow
                           /\ [request[r] EXCEPT !.reversed = TRUE] \in RequestRow
    BY DEF TypeOK, RequestRow
  <2> QED
    BY <1>27, <2>1 DEF MarkReversed
<1>28. ASSUME NEW a \in Sums, ReserveBalance(a) PROVE request' \in [Request -> RequestRow]
  BY <1>28 DEF ReserveBalance, TypeOK
<1>29. ASSUME NEW a \in Sums, ReleaseReserve(a) PROVE request' \in [Request -> RequestRow]
  BY <1>29 DEF ReleaseReserve, TypeOK
<1>30. ASSUME NEW k \in Key, RecordKey(k) PROVE request' \in [Request -> RequestRow]
  BY <1>30 DEF RecordKey, TypeOK
<1>31. ASSUME NEW row \in others, ApproveOther(row)
       PROVE  request' \in [Request -> RequestRow]
  BY <1>31 DEF ApproveOther, TypeOK
<1>32. ASSUME NEW s \in Session, SaveWallet(s)
       PROVE  request' \in [Request -> RequestRow]
  BY <1>32 DEF SaveWallet, TypeOK
<1>33. ASSUME NEW rs \in SUBSET Request, reject_requests(rs) \/ process_withdrawals(rs)
       PROVE  request' \in [Request -> RequestRow]
  <2>1. "REJECTED" \in Status /\ "COMPLETED" \in Status
    BY DEF Status
  <2>2. PICK status \in Status : request' = SetStatus(rs, status)
    BY <1>33, <2>1, ByHandFacts
  <2> QED
    BY <2>2, StatusRows
<1> QED
  BY <1>1, <1>2, <1>3, <1>4, <1>5, <1>6, <1>7, <1>8, <1>9, <1>10, <1>11, <1>12, <1>13,
     <1>14, <1>15, <1>16, <1>17, <1>18, <1>19, <1>20, <1>21, <1>22, <1>23, <1>24, <1>25,
     <1>26, <1>27, <1>28, <1>29, <1>30, <1>31, <1>32, <1>33
  DEF Next, WalletStep, RequestStep, TransactionStep, BatchStep

\* No step lets a batch pay: complete refuses the BATCHED requests it holds.
LEMMA BatchesStayUnpaid ==
    ASSUME TypeOK, Copies, BatchesPayNobody, [Next]_vars
    PROVE  batch' \in [Batch -> BatchRow] /\ BatchesPayNobody'
<1>1. ASSUME NEW s \in Session, ReadWallet(s)
      PROVE  batch' \in [Batch -> BatchRow] /\ BatchesPayNobody'
  BY <1>1 DEF ReadWallet, rows, history, TypeOK, BatchesPayNobody
<1>2. ASSUME NEW s \in Session, NEW k \in Key, CheckKey(s, k)
      PROVE  batch' \in [Batch -> BatchRow] /\ BatchesPayNobody'
  BY <1>2 DEF CheckKey, rows, history, TypeOK, BatchesPayNobody
<1>3. ASSUME NEW s \in Session, NEW a \in Sums, Credit(s, a)
      PROVE  batch' \in [Batch -> BatchRow] /\ BatchesPayNobody'
  BY <1>3 DEF Credit, TypeOK, BatchesPayNobody
<1>4. ASSUME NEW s \in Session, NEW a \in Sums, InstantPayout(s, a)
      PROVE  batch' \in [Batch -> BatchRow] /\ BatchesPayNobody'
  BY <1>4 DEF InstantPayout, Debit, TypeOK, BatchesPayNobody
<1>5. ASSUME NEW s \in Session, NEW a \in Sums, Transfer(s, a)
      PROVE  batch' \in [Batch -> BatchRow] /\ BatchesPayNobody'
  BY <1>5 DEF Transfer, Debit, TypeOK, BatchesPayNobody
<1>6. ASSUME NEW s \in Session, NEW a \in Sums, AdminDebit(s, a)
      PROVE  batch' \in [Batch -> BatchRow] /\ BatchesPayNobody'
  BY <1>6 DEF AdminDebit, Debit, TypeOK, BatchesPayNobody
<1>7. ASSUME NEW s \in Session, NEW a \in Sums, Freeze(s, a)
      PROVE  batch' \in [Batch -> BatchRow] /\ BatchesPayNobody'
  BY <1>7 DEF Freeze, TypeOK, BatchesPayNobody
<1>8. ASSUME NEW s \in Session, NEW a \in Sums, Unfreeze(s, a)
      PROVE  batch' \in [Batch -> BatchRow] /\ BatchesPayNobody'
  BY <1>8 DEF Unfreeze, TypeOK, BatchesPayNobody
<1>9. ASSUME NEW s \in Session, NEW r \in Request, Withdraw(s, r)
      PROVE  batch' \in [Batch -> BatchRow] /\ BatchesPayNobody'
  BY <1>9 DEF Withdraw, TypeOK, BatchesPayNobody
<1>10. ASSUME NEW s \in Session, NEW r \in Request, ReadRequest(s, r)
       PROVE  batch' \in [Batch -> BatchRow] /\ BatchesPayNobody'
  BY <1>10 DEF ReadRequest, rows, history, TypeOK, BatchesPayNobody
<1>11. ASSUME NEW s \in Session, NEW r \in Request, FetchRelated(s, r)
       PROVE  batch' \in [Batch -> BatchRow] /\ BatchesPayNobody'
  BY <1>11 DEF FetchRelated, rows, history, TypeOK, BatchesPayNobody
<1>12. ASSUME NEW s \in Session, Approve(s)
       PROVE  batch' \in [Batch -> BatchRow] /\ BatchesPayNobody'
  BY <1>12 DEF Approve, TypeOK, BatchesPayNobody
<1>13. ASSUME NEW s \in Session, Reject(s)
       PROVE  batch' \in [Batch -> BatchRow] /\ BatchesPayNobody'
  BY <1>13 DEF Reject, TypeOK, BatchesPayNobody
<1>14. ASSUME NEW s \in Session, Cancel(s)
       PROVE  batch' \in [Batch -> BatchRow] /\ BatchesPayNobody'
  BY <1>14 DEF Cancel, TypeOK, BatchesPayNobody
<1>15. ASSUME NEW s \in Session, Complete(s)
       PROVE  batch' \in [Batch -> BatchRow] /\ BatchesPayNobody'
  BY <1>15 DEF Complete, TypeOK, BatchesPayNobody
<1>16. ASSUME NEW s \in Session, DispatchFails(s)
       PROVE  batch' \in [Batch -> BatchRow] /\ BatchesPayNobody'
  BY <1>16 DEF DispatchFails, TypeOK, BatchesPayNobody
<1>17. ASSUME NEW s \in Session, Refused(s)
       PROVE  batch' \in [Batch -> BatchRow] /\ BatchesPayNobody'
  BY <1>17 DEF Refused, rows, history, TypeOK, BatchesPayNobody
<1>18. ASSUME NEW s \in Session, NEW b \in Batch, ReadBatch(s, b)
       PROVE  batch' \in [Batch -> BatchRow] /\ BatchesPayNobody'
  BY <1>18 DEF ReadBatch, rows, history, TypeOK, BatchesPayNobody
<1>19. ASSUME NEW s \in Session, ProcessBatch(s)
       PROVE  batch' \in [Batch -> BatchRow] /\ BatchesPayNobody'
  <2> DEFINE b == session[s].batch
  <2>1. b \in Batch /\ {r \in session[s].on : Completable(session[s].seen)} = {}
    BY <1>19 DEF ProcessBatch, Has, Copies, Sound, Completable
  <2>2. PICK status \in {"COMPLETED", "FAILED"} :
            batch' = [batch EXCEPT ![b].processed = 0, ![b].status = status]
    BY <1>19, <2>1, FS_EmptySet DEF ProcessBatch
  <2>3. \A d \in Batch : batch[d] \in BatchRow
    BY DEF TypeOK
  <2>4. batch[b] = [status |-> batch[b].status, processed |-> batch[b].processed]
    BY <2>1, <2>3 DEF BatchRow
  <2>5. batch' = [batch EXCEPT ![b] = [status |-> status, processed |-> 0]]
    <3>1. [batch EXCEPT ![b].processed = 0]
            = [batch EXCEPT ![b] = [status |-> batch[b].status, processed |-> 0]]
      <4>1. [batch[b] EXCEPT !.processed = 0] = [status |-> batch[b].status, processed |-> 0]
        BY <2>1, <2>3 DEF BatchRow
      <4> QED
        BY <4>1
    <3>2. PICK f : f = [batch EXCEPT ![b] = [status |-> batch[b].status, processed |-> 0]]
      OBVIOUS
    <3>3. batch' = [f EXCEPT ![b].status = status]
      BY <2>2, <3>1, <3>2
    <3>4. f[b] = [status |-> batch[b].status, processed |-> 0]
      BY <2>1, <3>2 DEF TypeOK
    <3>5. [f[b] EXCEPT !.status = status] = [status |-> status, processed |-> 0]
      BY <3>4
    <3>6. batch' = [f EXCEPT ![b] = [status |-> status, processed |-> 0]]
      BY <3>3, <3>5
    <3> QED
      BY <3>2, <3>6 DEF TypeOK
  <2>6. [status |-> status, processed |-> 0] \in BatchRow
    BY DEF BatchRow
  <2> QED
    BY <2>1, <2>3, <2>5, <2>6 DEF TypeOK, BatchesPayNobody
<1>20. ASSUME NEW k \in Key, ExpireKey(k)
       PROVE  batch' \in [Batch -> BatchRow] /\ BatchesPayNobody'
  BY <1>20 DEF ExpireKey, TypeOK, BatchesPayNobody
<1>21. ASSUME NEW locked \in BOOLEAN, SetLocked(locked)
       PROVE  batch' \in [Batch -> BatchRow] /\ BatchesPayNobody'
  BY <1>21 DEF SetLocked, history, TypeOK, BatchesPayNobody
<1>22. ASSUME NEW b \in Batch, NEW ids \in SUBSET Request, CreateBatch(b, ids)
       PROVE  batch' \in [Batch -> BatchRow] /\ BatchesPayNobody'
  <2>1. \A d \in Batch : batch[d] \in BatchRow /\ [batch[d] EXCEPT !.status = "PENDING"] \in BatchRow
    BY DEF TypeOK, BatchRow
  <2>2. [batch[b] EXCEPT !.status = "PENDING"].processed = batch[b].processed
    BY <2>1 DEF BatchRow
  <2>3. batch' = [batch EXCEPT ![b] = [batch[b] EXCEPT !.status = "PENDING"]]
    BY <1>22 DEF CreateBatch
  <2>4. \A d \in Batch : batch'[d] = IF d = b THEN [batch[b] EXCEPT !.status = "PENDING"]
                                              ELSE batch[d]
    BY <2>3 DEF TypeOK
  <2> QED
    BY <2>1, <2>2, <2>3, <2>4 DEF TypeOK, BatchesPayNobody
<1>23. CASE UNCHANGED vars
  BY <1>23 DEF vars, rows, history, TypeOK, BatchesPayNobody
<1>24. ASSUME NEW s \in Session, NEW row \in others, Reverse(s, row[1])
       PROVE  batch' \in [Batch -> BatchRow] /\ BatchesPayNobody'
  BY <1>24 DEF Reverse, TypeOK, BatchesPayNobody
<1>25. ASSUME NEW s \in Session, NEW status \in Endings, EndTransaction(s, status)
       PROVE  batch' \in [Batch -> BatchRow] /\ BatchesPayNobody'
  BY <1>25 DEF EndTransaction, TypeOK, BatchesPayNobody
<1>26. ASSUME NEW s \in Session, ReverseWithdrawal(s)
       PROVE  batch' \in [Batch -> BatchRow] /\ BatchesPayNobody'
  BY <1>26 DEF ReverseWithdrawal, TypeOK, BatchesPayNobody
<1>27. ASSUME NEW s \in Session, MarkReversed(s)
       PROVE  batch' \in [Batch -> BatchRow] /\ BatchesPayNobody'
  BY <1>27 DEF MarkReversed, TypeOK, BatchesPayNobody
<1>28. ASSUME NEW a \in Sums, ReserveBalance(a)
       PROVE  batch' \in [Batch -> BatchRow] /\ BatchesPayNobody'
  BY <1>28 DEF ReserveBalance, TypeOK, BatchesPayNobody
<1>29. ASSUME NEW a \in Sums, ReleaseReserve(a)
       PROVE  batch' \in [Batch -> BatchRow] /\ BatchesPayNobody'
  BY <1>29 DEF ReleaseReserve, TypeOK, BatchesPayNobody
<1>30. ASSUME NEW k \in Key, RecordKey(k)
       PROVE  batch' \in [Batch -> BatchRow] /\ BatchesPayNobody'
  BY <1>30 DEF RecordKey, TypeOK, BatchesPayNobody
<1>31. ASSUME NEW row \in others, ApproveOther(row)
       PROVE  batch' \in [Batch -> BatchRow] /\ BatchesPayNobody'
  BY <1>31 DEF ApproveOther, TypeOK, BatchesPayNobody
<1>32. ASSUME NEW s \in Session, SaveWallet(s)
       PROVE  batch' \in [Batch -> BatchRow] /\ BatchesPayNobody'
  BY <1>32 DEF SaveWallet, TypeOK, BatchesPayNobody
<1>33. ASSUME NEW rs \in SUBSET Request, reject_requests(rs) \/ process_withdrawals(rs)
       PROVE  batch' \in [Batch -> BatchRow] /\ BatchesPayNobody'
  BY <1>33, ByHandFacts DEF TypeOK, BatchesPayNobody
<1> QED
  BY <1>1, <1>2, <1>3, <1>4, <1>5, <1>6, <1>7, <1>8, <1>9, <1>10, <1>11, <1>12, <1>13,
     <1>14, <1>15, <1>16, <1>17, <1>18, <1>19, <1>20, <1>21, <1>22, <1>23, <1>24, <1>25,
     <1>26, <1>27, <1>28, <1>29, <1>30, <1>31, <1>32, <1>33
  DEF Next, WalletStep, RequestStep, TransactionStep, BatchStep

\* What has happened: the keys on record, the transactions, what staff closed, the
\* credits, movements and settlements.
HistoryTyped == /\ keys \subseteq Key
                /\ others \subseteq OtherRow
                /\ byHand \subseteq Request
                /\ credits \in [Key -> Nat]
                /\ ledger \in [in : Nat, out : Nat, sent : Nat, parked : Nat, restored : Nat]
                /\ settled \in [Request -> [paid : Nat, returned : Nat]]

\* A transaction of a movement is a row.
LEMMA PostedRow ==
    ASSUME TypeOK, NEW a \in Int, NEW status \in {"PENDING", "APPROVED"}, Posted(a, status)
    PROVE  others' \subseteq OtherRow
<1>1. <<a, status>> \in OtherRow
  BY DEF OtherRow
<1> QED
  BY <1>1 DEF Posted, TypeOK

\* Every step books natural sums and counts.
LEMMA HistoryStaysTyped ==
    ASSUME TypeOK, Copies, [Next]_vars
    PROVE  HistoryTyped'
<1>1. ASSUME NEW s \in Session, ReadWallet(s) PROVE HistoryTyped'
  BY <1>1 DEF ReadWallet, rows, history, TypeOK, HistoryTyped
<1>2. ASSUME NEW s \in Session, NEW k \in Key, CheckKey(s, k) PROVE HistoryTyped'
  BY <1>2 DEF CheckKey, rows, history, TypeOK, HistoryTyped
<1>3. ASSUME NEW s \in Session, NEW a \in Sums, Credit(s, a) PROVE HistoryTyped'
  <2>1. a \in Nat /\ session[s].key \in Key \cup {None}
    BY SumsAssumption DEF TypeOK, Call
  <2>2. keys' \subseteq Key
    BY <1>3, <2>1 DEF Credit, TypeOK
  <2>3. \A k \in Key : credits[k] \in Nat /\ credits[k] + 1 \in Nat
    BY DEF TypeOK
  <2>4. credits' \in [Key -> Nat]
    BY <1>3, <2>3 DEF Credit
  <2>5. ledger' \in [in : Nat, out : Nat, sent : Nat, parked : Nat, restored : Nat]
    <3>1. Booked("in", a)
      BY <1>3 DEF Credit
    <3> QED
      BY <3>1, <2>1 DEF Booked, TypeOK
  <2>9. others' \subseteq OtherRow
    <3>1. Posted(a, "APPROVED") /\ a \in Int
      BY <1>3, <2>1 DEF Credit
    <3> QED
      BY <3>1, PostedRow
  <2> QED
    BY <1>3, <2>2, <2>4, <2>5, <2>9 DEF Credit, TypeOK, HistoryTyped
<1>4. ASSUME NEW s \in Session, NEW a \in Sums, InstantPayout(s, a) PROVE HistoryTyped'
  <2>1. a \in Nat
    BY SumsAssumption
  <2>2. ledger' \in [in : Nat, out : Nat, sent : Nat, parked : Nat, restored : Nat]
    <3>1. Booked("parked", a)
      BY <1>4 DEF InstantPayout, Debit
    <3> QED
      BY <3>1, <2>1 DEF Booked, TypeOK
  <2>9. others' \subseteq OtherRow
    <3>1. Posted(-a, "PENDING") /\ -a \in Int
      BY <1>4, <2>1 DEF InstantPayout, Debit
    <3> QED
      BY <3>1, PostedRow
  <2> QED
    BY <1>4, <2>2, <2>9 DEF InstantPayout, Debit, TypeOK, HistoryTyped
<1>5. ASSUME NEW s \in Session, NEW a \in Sums, Transfer(s, a) PROVE HistoryTyped'
  <2>1. a \in Nat
    BY SumsAssumption
  <2>2. ledger' \in [in : Nat, out : Nat, sent : Nat, parked : Nat, restored : Nat]
    <3>1. Booked("sent", a)
      BY <1>5 DEF Transfer, Debit
    <3> QED
      BY <3>1, <2>1 DEF Booked, TypeOK
  <2>9. others' \subseteq OtherRow
    <3>1. Posted(-a, "APPROVED") /\ -a \in Int
      BY <1>5, <2>1 DEF Transfer, Debit
    <3> QED
      BY <3>1, PostedRow
  <2> QED
    BY <1>5, <2>2, <2>9 DEF Transfer, Debit, TypeOK, HistoryTyped
<1>6. ASSUME NEW s \in Session, NEW a \in Sums, AdminDebit(s, a) PROVE HistoryTyped'
  <2>1. a \in Nat
    BY SumsAssumption
  <2>2. ledger' \in [in : Nat, out : Nat, sent : Nat, parked : Nat, restored : Nat]
    <3>1. Booked("out", a)
      BY <1>6 DEF AdminDebit, Debit
    <3> QED
      BY <3>1, <2>1 DEF Booked, TypeOK
  <2>9. others' \subseteq OtherRow
    <3>1. Posted(-a, "APPROVED") /\ -a \in Int
      BY <1>6, <2>1 DEF AdminDebit, Debit
    <3> QED
      BY <3>1, PostedRow
  <2> QED
    BY <1>6, <2>2, <2>9 DEF AdminDebit, Debit, TypeOK, HistoryTyped
<1>7. ASSUME NEW s \in Session, NEW a \in Sums, Freeze(s, a) PROVE HistoryTyped'
  <2>9. others' \subseteq OtherRow
    <3>1. Posted(-a, "APPROVED") /\ -a \in Int
      BY <1>7, SumsAssumption DEF Freeze
    <3> QED
      BY <3>1, PostedRow
  <2> QED
    BY <1>7, <2>9 DEF Freeze, TypeOK, HistoryTyped
<1>8. ASSUME NEW s \in Session, NEW a \in Sums, Unfreeze(s, a) PROVE HistoryTyped'
  <2>9. others' \subseteq OtherRow
    <3>1. Posted(a, "APPROVED") /\ a \in Int
      BY <1>8, SumsAssumption DEF Unfreeze
    <3> QED
      BY <3>1, PostedRow
  <2> QED
    BY <1>8, <2>9 DEF Unfreeze, TypeOK, HistoryTyped
<1>9. ASSUME NEW s \in Session, NEW r \in Request, Withdraw(s, r) PROVE HistoryTyped'
  <2>1. others' = others \cup {<<-x, "APPROVED">> : x \in {Fee} \ {0}}
    BY <1>9 DEF Withdraw
  <2>2. Fee \in Int /\ -Fee \in Int
    BY FeeAssumption, AmountAssumption
  <2>3. others' \subseteq OtherRow
    BY <2>1, <2>2 DEF OtherRow, TypeOK
  <2> QED
    BY <1>9, <2>3 DEF Withdraw, TypeOK, HistoryTyped
<1>10. ASSUME NEW s \in Session, NEW r \in Request, ReadRequest(s, r) PROVE HistoryTyped'
  BY <1>10 DEF ReadRequest, rows, history, TypeOK, HistoryTyped
<1>11. ASSUME NEW s \in Session, NEW r \in Request, FetchRelated(s, r) PROVE HistoryTyped'
  BY <1>11 DEF FetchRelated, rows, history, TypeOK, HistoryTyped
<1>12. ASSUME NEW s \in Session, Approve(s) PROVE HistoryTyped'
  BY <1>12 DEF Approve, TypeOK, HistoryTyped
<1>13. ASSUME NEW s \in Session, Reject(s) PROVE HistoryTyped'
  <2>1. session[s].on \in SUBSET Request /\ Count(session[s].on, "returned")
    BY <1>13 DEF Reject, TypeOK, Call
  <2>2. settled' \in [Request -> [paid : Nat, returned : Nat]]
    BY <2>1, Settlements
  <2>9. others' \subseteq OtherRow
    <3>1. Posted(Amount, "APPROVED") /\ Amount \in Int
      BY <1>13, AmountAssumption DEF Reject
    <3> QED
      BY <3>1, PostedRow
  <2> QED
    BY <1>13, <2>2, <2>9 DEF Reject, TypeOK, HistoryTyped
<1>14. ASSUME NEW s \in Session, Cancel(s) PROVE HistoryTyped'
  <2>1. session[s].on \in SUBSET Request /\ Count(session[s].on, "returned")
    BY <1>14 DEF Cancel, TypeOK, Call
  <2>2. settled' \in [Request -> [paid : Nat, returned : Nat]]
    BY <2>1, Settlements
  <2> QED
    BY <1>14, <2>2 DEF Cancel, TypeOK, HistoryTyped
<1>15. ASSUME NEW s \in Session, Complete(s) PROVE HistoryTyped'
  <2>1. session[s].on \in SUBSET Request /\ Count(session[s].on, "paid")
    BY <1>15 DEF Complete, TypeOK, Call
  <2>2. settled' \in [Request -> [paid : Nat, returned : Nat]]
    BY <2>1, Settlements
  <2> QED
    BY <1>15, <2>2 DEF Complete, TypeOK, HistoryTyped
<1>16. ASSUME NEW s \in Session, DispatchFails(s) PROVE HistoryTyped'
  BY <1>16 DEF DispatchFails, TypeOK, HistoryTyped
<1>17. ASSUME NEW s \in Session, Refused(s) PROVE HistoryTyped'
  BY <1>17 DEF Refused, rows, history, TypeOK, HistoryTyped
<1>18. ASSUME NEW s \in Session, NEW b \in Batch, ReadBatch(s, b) PROVE HistoryTyped'
  BY <1>18 DEF ReadBatch, rows, history, TypeOK, HistoryTyped
<1>19. ASSUME NEW s \in Session, ProcessBatch(s) PROVE HistoryTyped'
  <2> DEFINE ok == {r \in session[s].on : Completable(session[s].seen)}
  <2>1. ok \in SUBSET Request /\ Count(ok, "paid")
    BY <1>19 DEF ProcessBatch, TypeOK, Call
  <2>2. settled' \in [Request -> [paid : Nat, returned : Nat]]
    BY <2>1, Settlements
  <2> QED
    BY <1>19, <2>2 DEF ProcessBatch, TypeOK, HistoryTyped
<1>20. ASSUME NEW k \in Key, ExpireKey(k) PROVE HistoryTyped'
  BY <1>20 DEF ExpireKey, TypeOK, HistoryTyped
<1>21. ASSUME NEW locked \in BOOLEAN, SetLocked(locked) PROVE HistoryTyped'
  BY <1>21 DEF SetLocked, history, TypeOK, HistoryTyped
<1>22. ASSUME NEW b \in Batch, NEW ids \in SUBSET Request, CreateBatch(b, ids)
       PROVE  HistoryTyped'
  BY <1>22 DEF CreateBatch, history, TypeOK, HistoryTyped
<1>23. CASE UNCHANGED vars
  BY <1>23 DEF vars, rows, history, TypeOK, HistoryTyped
<1>24. ASSUME NEW s \in Session, NEW row \in others, Reverse(s, row[1])
       PROVE  HistoryTyped'
  <2> DEFINE w == session[s].copy
             taken == TakenBack(w, row[1])
             given == -row[1]
  <2>1. /\ row[1] \in Int
        /\ \/ taken \in Nat /\ Booked("out", taken)
           \/ given \in Nat /\ Booked("restored", given)
    BY <1>24, ReverseFacts
  <2>2. others' \subseteq OtherRow
    <3>1. Posted(-row[1], "APPROVED") /\ -row[1] \in Int
      BY <1>24, <2>1 DEF Reverse
    <3> QED
      BY <3>1, PostedRow
  <2>3. ledger' \in [in : Nat, out : Nat, sent : Nat, parked : Nat, restored : Nat]
    <3> HIDE DEF taken, given
    <3> QED
      BY <2>1 DEF Booked, TypeOK
  <2> QED
    BY <1>24, <2>2, <2>3 DEF Reverse, TypeOK, HistoryTyped
<1>25. ASSUME NEW s \in Session, NEW status \in Endings, EndTransaction(s, status)
       PROVE  HistoryTyped'
  BY <1>25 DEF EndTransaction, history, TypeOK, HistoryTyped
<1>26. ASSUME NEW s \in Session, ReverseWithdrawal(s) PROVE HistoryTyped'
  <2>1. Amount \in Nat /\ Booked("restored", Amount)
    BY <1>26, AmountAssumption DEF ReverseWithdrawal
  <2>2. ledger' \in [in : Nat, out : Nat, sent : Nat, parked : Nat, restored : Nat]
    BY <2>1 DEF Booked, TypeOK
  <2>9. others' \subseteq OtherRow
    <3>1. Posted(Amount, "APPROVED") /\ Amount \in Int
      BY <1>26, <2>1 DEF ReverseWithdrawal
    <3> QED
      BY <3>1, PostedRow
  <2> QED
    BY <1>26, <2>2, <2>9 DEF ReverseWithdrawal, TypeOK, HistoryTyped
<1>27. ASSUME NEW s \in Session, MarkReversed(s) PROVE HistoryTyped'
  BY <1>27 DEF MarkReversed, history, TypeOK, HistoryTyped
<1>28. ASSUME NEW a \in Sums, ReserveBalance(a) PROVE HistoryTyped'
  BY <1>28 DEF ReserveBalance, history, TypeOK, HistoryTyped
<1>29. ASSUME NEW a \in Sums, ReleaseReserve(a) PROVE HistoryTyped'
  BY <1>29 DEF ReleaseReserve, history, TypeOK, HistoryTyped
<1>30. ASSUME NEW k \in Key, RecordKey(k) PROVE HistoryTyped'
  BY <1>30 DEF RecordKey, history, TypeOK, HistoryTyped
<1>31. ASSUME NEW row \in others, ApproveOther(row) PROVE HistoryTyped'
  <2>1. row[1] \in Int /\ Posted(row[1], "APPROVED")
    BY <1>31 DEF ApproveOther, TypeOK, OtherRow
  <2>2. others' \subseteq OtherRow
    BY <2>1, PostedRow
  <2> QED
    BY <1>31, <2>2 DEF ApproveOther, history, TypeOK, HistoryTyped
<1>32. ASSUME NEW s \in Session, SaveWallet(s) PROVE HistoryTyped'
  BY <1>32 DEF SaveWallet, TypeOK, HistoryTyped
<1>33. ASSUME NEW rs \in SUBSET Request, reject_requests(rs) \/ process_withdrawals(rs)
       PROVE  HistoryTyped'
  BY <1>33, ByHandFacts DEF TypeOK, HistoryTyped
<1> QED
  BY <1>1, <1>2, <1>3, <1>4, <1>5, <1>6, <1>7, <1>8, <1>9, <1>10, <1>11, <1>12, <1>13,
     <1>14, <1>15, <1>16, <1>17, <1>18, <1>19, <1>20, <1>21, <1>22, <1>23, <1>24, <1>25,
     <1>26, <1>27, <1>28, <1>29, <1>30, <1>31, <1>32, <1>33
  DEF Next, WalletStep, RequestStep, TransactionStep, BatchStep

\* A step that gives one session a call keeps the others'.
LEMMA OneCall ==
    ASSUME TypeOK, Copies, NEW s \in Session, NEW call \in Call, Sound(call),
           session' = [session EXCEPT ![s] = call]
    PROVE  session' \in [Session -> Call] /\ Copies'
<1>1. session' \in [Session -> Call]
  BY DEF TypeOK
<1>2. \A t \in Session : session'[t] = IF t = s THEN call ELSE session[t]
  BY DEF TypeOK
<1>3. \A t \in Session : Sound(session'[t])
  BY <1>2 DEF Copies
<1> QED
  BY <1>1, <1>3 DEF Copies, Sound

\* The calls that read rows.
LEMMA IdleForm ==
    ASSUME NEW no, no = FALSE
    PROVE  Idle = [has |-> "nothing", key |-> None, on |-> {}, batch |-> None, seen |-> "ABSENT",
                   txn |-> "ABSENT", reversed |-> no, copy |-> None]
BY DEF Idle

LEMMA WalletCall ==
    ASSUME TypeOK
    PROVE  /\ [Idle EXCEPT !.has = "wallet", !.copy = wallet] \in Call
           /\ Sound([Idle EXCEPT !.has = "wallet", !.copy = wallet])
<1>0. PICK no \in BOOLEAN : no = FALSE
  OBVIOUS
<1>1. [Idle EXCEPT !.has = "wallet", !.copy = wallet]
        = [has |-> "wallet", key |-> None, on |-> {}, batch |-> None, seen |-> "ABSENT",
           txn |-> "ABSENT", reversed |-> no, copy |-> wallet]
  <2>1. [[has |-> "nothing", key |-> None, on |-> {}, batch |-> None, seen |-> "ABSENT",
           txn |-> "ABSENT", reversed |-> no, copy |-> None]
         EXCEPT !.has = "wallet"]
        = [has |-> "wallet", key |-> None, on |-> {}, batch |-> None, seen |-> "ABSENT",
           txn |-> "ABSENT", reversed |-> no, copy |-> None]
    OBVIOUS
  <2>2. [[has |-> "wallet", key |-> None, on |-> {}, batch |-> None, seen |-> "ABSENT",
           txn |-> "ABSENT", reversed |-> no, copy |-> None]
         EXCEPT !.copy = wallet]
        = [has |-> "wallet", key |-> None, on |-> {}, batch |-> None, seen |-> "ABSENT",
           txn |-> "ABSENT", reversed |-> no, copy |-> wallet]
    OBVIOUS
  <2> QED
    BY <1>0, IdleForm, <2>1, <2>2
<1> QED
  BY <1>0, <1>1 DEF TypeOK, Call, Sound, Status, TransactionStatus

LEMMA RequestCall ==
    ASSUME NEW r \in Request, NEW status \in Status, status # "ABSENT"
    PROVE  /\ [Idle EXCEPT !.has = "request", !.on = {r}, !.seen = status] \in Call
           /\ Sound([Idle EXCEPT !.has = "request", !.on = {r}, !.seen = status])
<1>0. PICK no \in BOOLEAN : no = FALSE
  OBVIOUS
<1>1. [Idle EXCEPT !.has = "request", !.on = {r}, !.seen = status]
        = [has |-> "request", key |-> None, on |-> {r}, batch |-> None, seen |-> status,
           txn |-> "ABSENT", reversed |-> no, copy |-> None]
  <2>1. [[has |-> "nothing", key |-> None, on |-> {}, batch |-> None, seen |-> "ABSENT",
           txn |-> "ABSENT", reversed |-> no, copy |-> None]
         EXCEPT !.has = "request"]
        = [has |-> "request", key |-> None, on |-> {}, batch |-> None, seen |-> "ABSENT",
           txn |-> "ABSENT", reversed |-> no, copy |-> None]
    OBVIOUS
  <2>2. [[has |-> "request", key |-> None, on |-> {}, batch |-> None, seen |-> "ABSENT",
           txn |-> "ABSENT", reversed |-> no, copy |-> None]
         EXCEPT !.on = {r}]
        = [has |-> "request", key |-> None, on |-> {r}, batch |-> None, seen |-> "ABSENT",
           txn |-> "ABSENT", reversed |-> no, copy |-> None]
    OBVIOUS
  <2>3. [[has |-> "request", key |-> None, on |-> {r}, batch |-> None, seen |-> "ABSENT",
           txn |-> "ABSENT", reversed |-> no, copy |-> None]
         EXCEPT !.seen = status]
        = [has |-> "request", key |-> None, on |-> {r}, batch |-> None, seen |-> status,
           txn |-> "ABSENT", reversed |-> no, copy |-> None]
    OBVIOUS
  <2>4. [Idle EXCEPT !.has = "request", !.on = {r}]
        = [has |-> "request", key |-> None, on |-> {r}, batch |-> None, seen |-> "ABSENT",
           txn |-> "ABSENT", reversed |-> no, copy |-> None]
    BY <1>0, IdleForm, <2>1, <2>2
  <2> QED
    BY <2>4, <2>3
<1>2. "ABSENT" \in TransactionStatus
  BY DEF TransactionStatus
<1> QED
  BY <1>0, <1>1, <1>2 DEF Call, Sound

LEMMA BatchCall ==
    ASSUME NEW b \in Batch, NEW on \in SUBSET Request
    PROVE  /\ [Idle EXCEPT !.has = "batch", !.batch = b, !.seen = "BATCHED", !.on = on] \in Call
           /\ Sound([Idle EXCEPT !.has = "batch", !.batch = b, !.seen = "BATCHED", !.on = on])
<1>0. PICK no \in BOOLEAN : no = FALSE
  OBVIOUS
<1>1. [Idle EXCEPT !.has = "batch", !.batch = b, !.seen = "BATCHED", !.on = on]
        = [has |-> "batch", key |-> None, on |-> on, batch |-> b, seen |-> "BATCHED",
           txn |-> "ABSENT", reversed |-> no, copy |-> None]
  <2>1. [[has |-> "nothing", key |-> None, on |-> {}, batch |-> None, seen |-> "ABSENT",
           txn |-> "ABSENT", reversed |-> no, copy |-> None]
         EXCEPT !.has = "batch"]
        = [has |-> "batch", key |-> None, on |-> {}, batch |-> None, seen |-> "ABSENT",
           txn |-> "ABSENT", reversed |-> no, copy |-> None]
    OBVIOUS
  <2>2. [[has |-> "batch", key |-> None, on |-> {}, batch |-> None, seen |-> "ABSENT",
           txn |-> "ABSENT", reversed |-> no, copy |-> None]
         EXCEPT !.batch = b]
        = [has |-> "batch", key |-> None, on |-> {}, batch |-> b, seen |-> "ABSENT",
           txn |-> "ABSENT", reversed |-> no, copy |-> None]
    OBVIOUS
  <2>3. [[has |-> "batch", key |-> None, on |-> {}, batch |-> b, seen |-> "ABSENT",
           txn |-> "ABSENT", reversed |-> no, copy |-> None]
         EXCEPT !.seen = "BATCHED"]
        = [has |-> "batch", key |-> None, on |-> {}, batch |-> b, seen |-> "BATCHED",
           txn |-> "ABSENT", reversed |-> no, copy |-> None]
    OBVIOUS
  <2>4. [[has |-> "batch", key |-> None, on |-> {}, batch |-> b, seen |-> "BATCHED",
           txn |-> "ABSENT", reversed |-> no, copy |-> None]
         EXCEPT !.on = on]
        = [has |-> "batch", key |-> None, on |-> on, batch |-> b, seen |-> "BATCHED",
           txn |-> "ABSENT", reversed |-> no, copy |-> None]
    OBVIOUS
  <2>5. [Idle EXCEPT !.has = "batch", !.batch = b]
        = [has |-> "batch", key |-> None, on |-> {}, batch |-> b, seen |-> "ABSENT",
           txn |-> "ABSENT", reversed |-> no, copy |-> None]
    BY <1>0, IdleForm, <2>1, <2>2
  <2> QED
    BY <2>5, <2>3, <2>4
<1>2. "BATCHED" \in Status /\ "ABSENT" \in TransactionStatus
  BY DEF Status, TransactionStatus
<1> QED
  BY <1>0, <1>1, <1>2 DEF Call, Sound

LEMMA IdleSound == Sound(Idle)
  BY DEF Idle, Sound

\* A call that has looked up its key.
LEMMA KeyedCall ==
    ASSUME NEW c \in Call, NEW k
    PROVE  [c EXCEPT !.has = "key", !.key = k]
             = [has |-> "key", key |-> k, on |-> c.on, batch |-> c.batch,
                seen |-> c.seen, txn |-> c.txn, reversed |-> c.reversed, copy |-> c.copy]
<1>1. c = [has |-> c.has, key |-> c.key, on |-> c.on, batch |-> c.batch, seen |-> c.seen,
           txn |-> c.txn, reversed |-> c.reversed, copy |-> c.copy]
  BY DEF Call
<1>2. [[has |-> c.has, key |-> c.key, on |-> c.on, batch |-> c.batch, seen |-> c.seen,
         txn |-> c.txn, reversed |-> c.reversed, copy |-> c.copy]
       EXCEPT !.has = "key"]
      = [has |-> "key", key |-> c.key, on |-> c.on, batch |-> c.batch, seen |-> c.seen,
         txn |-> c.txn, reversed |-> c.reversed, copy |-> c.copy]
  OBVIOUS
<1>3. [[has |-> "key", key |-> c.key, on |-> c.on, batch |-> c.batch, seen |-> c.seen,
         txn |-> c.txn, reversed |-> c.reversed, copy |-> c.copy]
       EXCEPT !.key = k]
      = [has |-> "key", key |-> k, on |-> c.on, batch |-> c.batch, seen |-> c.seen,
         txn |-> c.txn, reversed |-> c.reversed, copy |-> c.copy]
  OBVIOUS
<1> QED
  BY <1>1, <1>2, <1>3

\* A call that has read its request's transaction and wallet.
LEMMA FetchedCall ==
    ASSUME NEW c \in Call, NEW txn, NEW rev, NEW w
    PROVE  [c EXCEPT !.has = "related", !.txn = txn, !.reversed = rev, !.copy = w]
             = [has |-> "related", key |-> c.key, on |-> c.on, batch |-> c.batch, seen |-> c.seen,
                txn |-> txn, reversed |-> rev, copy |-> w]
<1>1. c = [has |-> c.has, key |-> c.key, on |-> c.on, batch |-> c.batch, seen |-> c.seen,
           txn |-> c.txn, reversed |-> c.reversed, copy |-> c.copy]
  BY DEF Call
<1>2. [[has |-> c.has, key |-> c.key, on |-> c.on, batch |-> c.batch, seen |-> c.seen,
        txn |-> c.txn, reversed |-> c.reversed, copy |-> c.copy]
       EXCEPT !.has = "related"]
      = [has |-> "related", key |-> c.key, on |-> c.on, batch |-> c.batch, seen |-> c.seen,
         txn |-> c.txn, reversed |-> c.reversed, copy |-> c.copy]
  OBVIOUS
<1>3. [[has |-> "related", key |-> c.key, on |-> c.on, batch |-> c.batch, seen |-> c.seen,
        txn |-> c.txn, reversed |-> c.reversed, copy |-> c.copy]
       EXCEPT !.txn = txn]
      = [has |-> "related", key |-> c.key, on |-> c.on, batch |-> c.batch, seen |-> c.seen,
         txn |-> txn, reversed |-> c.reversed, copy |-> c.copy]
  OBVIOUS
<1>4. [[has |-> "related", key |-> c.key, on |-> c.on, batch |-> c.batch, seen |-> c.seen,
        txn |-> txn, reversed |-> c.reversed, copy |-> c.copy]
       EXCEPT !.reversed = rev]
      = [has |-> "related", key |-> c.key, on |-> c.on, batch |-> c.batch, seen |-> c.seen,
         txn |-> txn, reversed |-> rev, copy |-> c.copy]
  OBVIOUS
<1>5. [[has |-> "related", key |-> c.key, on |-> c.on, batch |-> c.batch, seen |-> c.seen,
        txn |-> txn, reversed |-> rev, copy |-> c.copy]
       EXCEPT !.copy = w]
      = [has |-> "related", key |-> c.key, on |-> c.on, batch |-> c.batch, seen |-> c.seen,
         txn |-> txn, reversed |-> rev, copy |-> w]
  OBVIOUS
<1>6. [c EXCEPT !.has = "related", !.txn = txn]
      = [has |-> "related", key |-> c.key, on |-> c.on, batch |-> c.batch, seen |-> c.seen,
         txn |-> txn, reversed |-> c.reversed, copy |-> c.copy]
  BY <1>1, <1>2, <1>3
<1>7. [c EXCEPT !.has = "related", !.txn = txn, !.reversed = rev]
      = [has |-> "related", key |-> c.key, on |-> c.on, batch |-> c.batch, seen |-> c.seen,
         txn |-> txn, reversed |-> rev, copy |-> c.copy]
  BY <1>6, <1>4
<1> QED
  BY <1>7, <1>5

\* A call that has reversed a withdrawal and not marked it yet.
LEMMA ReversalCall ==
    ASSUME NEW on \in SUBSET Request
    PROVE  /\ [Idle EXCEPT !.has = "reversal", !.on = on] \in Call
           /\ Sound([Idle EXCEPT !.has = "reversal", !.on = on])
<1>0. PICK no \in BOOLEAN : no = FALSE
  OBVIOUS
<1>1. [Idle EXCEPT !.has = "reversal", !.on = on]
        = [has |-> "reversal", key |-> None, on |-> on, batch |-> None, seen |-> "ABSENT",
           txn |-> "ABSENT", reversed |-> no, copy |-> None]
  <2>1. [[has |-> "nothing", key |-> None, on |-> {}, batch |-> None, seen |-> "ABSENT",
           txn |-> "ABSENT", reversed |-> no, copy |-> None]
         EXCEPT !.has = "reversal"]
        = [has |-> "reversal", key |-> None, on |-> {}, batch |-> None, seen |-> "ABSENT",
           txn |-> "ABSENT", reversed |-> no, copy |-> None]
    OBVIOUS
  <2>2. [[has |-> "reversal", key |-> None, on |-> {}, batch |-> None, seen |-> "ABSENT",
           txn |-> "ABSENT", reversed |-> no, copy |-> None]
         EXCEPT !.on = on]
        = [has |-> "reversal", key |-> None, on |-> on, batch |-> None, seen |-> "ABSENT",
           txn |-> "ABSENT", reversed |-> no, copy |-> None]
    OBVIOUS
  <2> QED
    BY <1>0, IdleForm, <2>1, <2>2
<1>2. "ABSENT" \in Status /\ "ABSENT" \in TransactionStatus
  BY DEF Status, TransactionStatus
<1> QED
  BY <1>0, <1>1, <1>2 DEF Call, Sound

\* Every step leaves sound calls.
LEMMA CopiesStaySound ==
    ASSUME TypeOK, Copies, [Next]_vars
    PROVE  session' \in [Session -> Call] /\ Copies'
<1>1. ASSUME NEW s \in Session, ReadWallet(s)
      PROVE  session' \in [Session -> Call] /\ Copies'
  <2> DEFINE call == [Idle EXCEPT !.has = "wallet", !.copy = wallet]
  <2>1. session' = [session EXCEPT ![s] = call]
    BY <1>1 DEF ReadWallet, Reads
  <2>2. call \in Call /\ Sound(call)
    BY WalletCall
  <2> QED
    BY <2>1, <2>2, OneCall
<1>2. ASSUME NEW s \in Session, NEW k \in Key, CheckKey(s, k)
      PROVE  session' \in [Session -> Call] /\ Copies'
  <2> DEFINE c == session[s]
             call == [c EXCEPT !.has = "key", !.key = k]
  <2>1. c \in Call /\ c.has = "wallet" /\ Sound(c)
    BY <1>2 DEF CheckKey, Has, TypeOK, Copies
  <2>2. session' = [session EXCEPT ![s] = call]
    <3>1. PICK f : f = [session EXCEPT ![s] = [c EXCEPT !.has = "key"]]
      OBVIOUS
    <3>2. session' = [f EXCEPT ![s].key = k]
      BY <1>2, <3>1 DEF CheckKey
    <3>3. f[s] = [c EXCEPT !.has = "key"]
      BY <3>1 DEF TypeOK
    <3>4. session' = [f EXCEPT ![s] = call]
      BY <3>2, <3>3
    <3> QED
      BY <3>1, <3>4 DEF TypeOK
  <2>3. call = [has |-> "key", key |-> k, on |-> c.on, batch |-> c.batch,
                seen |-> c.seen, txn |-> c.txn, reversed |-> c.reversed, copy |-> c.copy]
    BY <2>1, KeyedCall
  <2>4. call \in Call /\ Sound(call)
    BY <2>1, <2>3 DEF Call, Sound
  <2> QED
    BY <2>2, <2>4, OneCall
<1>3. ASSUME NEW s \in Session, NEW a \in Sums, Credit(s, a)
      PROVE  session' \in [Session -> Call] /\ Copies'
  <2>1. session' = [session EXCEPT ![s] = Idle]
    BY <1>3 DEF Credit, Done
  <2> QED
    BY <2>1, IdleCall, IdleSound, OneCall
<1>4. ASSUME NEW s \in Session, NEW a \in Sums, InstantPayout(s, a)
      PROVE  session' \in [Session -> Call] /\ Copies'
  <2>1. session' = [session EXCEPT ![s] = Idle]
    BY <1>4 DEF InstantPayout, Debit, Done
  <2> QED
    BY <2>1, IdleCall, IdleSound, OneCall
<1>5. ASSUME NEW s \in Session, NEW a \in Sums, Transfer(s, a)
      PROVE  session' \in [Session -> Call] /\ Copies'
  <2>1. session' = [session EXCEPT ![s] = Idle]
    BY <1>5 DEF Transfer, Debit, Done
  <2> QED
    BY <2>1, IdleCall, IdleSound, OneCall
<1>6. ASSUME NEW s \in Session, NEW a \in Sums, AdminDebit(s, a)
      PROVE  session' \in [Session -> Call] /\ Copies'
  <2>1. session' = [session EXCEPT ![s] = Idle]
    BY <1>6 DEF AdminDebit, Debit, Done
  <2> QED
    BY <2>1, IdleCall, IdleSound, OneCall
<1>7. ASSUME NEW s \in Session, NEW a \in Sums, Freeze(s, a)
      PROVE  session' \in [Session -> Call] /\ Copies'
  <2>1. session' = [session EXCEPT ![s] = Idle]
    BY <1>7 DEF Freeze, Done
  <2> QED
    BY <2>1, IdleCall, IdleSound, OneCall
<1>8. ASSUME NEW s \in Session, NEW a \in Sums, Unfreeze(s, a)
      PROVE  session' \in [Session -> Call] /\ Copies'
  <2>1. session' = [session EXCEPT ![s] = Idle]
    BY <1>8 DEF Unfreeze, Done
  <2> QED
    BY <2>1, IdleCall, IdleSound, OneCall
<1>9. ASSUME NEW s \in Session, NEW r \in Request, Withdraw(s, r)
      PROVE  session' \in [Session -> Call] /\ Copies'
  <2>1. session' = [session EXCEPT ![s] = Idle]
    BY <1>9 DEF Withdraw, Done
  <2> QED
    BY <2>1, IdleCall, IdleSound, OneCall
<1>10. ASSUME NEW s \in Session, NEW r \in Request, ReadRequest(s, r)
       PROVE  session' \in [Session -> Call] /\ Copies'
  <2> DEFINE call == [Idle EXCEPT !.has = "request", !.on = {r}, !.seen = request[r].status]
  <2>1. session' = [session EXCEPT ![s] = call] /\ request[r].status # "ABSENT"
    BY <1>10 DEF ReadRequest, Reads
  <2>2. request[r].status \in Status
    BY DEF TypeOK, RequestRow
  <2>3. call \in Call /\ Sound(call)
    BY <2>1, <2>2, RequestCall
  <2> QED
    BY <2>1, <2>3, OneCall
<1>11. ASSUME NEW s \in Session, NEW r \in Request, FetchRelated(s, r)
       PROVE  session' \in [Session -> Call] /\ Copies'
  <2> DEFINE c == session[s]
             txn == request[r].txn
             rev == request[r].reversed
             call == [c EXCEPT !.has = "related", !.txn = txn, !.reversed = rev, !.copy = wallet]
  <2>1. c \in Call /\ c.has = "request" /\ Sound(c) /\ wallet \in WalletRow
        /\ txn \in TransactionStatus /\ rev \in BOOLEAN
    BY <1>11 DEF FetchRelated, Has, TypeOK, Copies, RequestRow
  <2>2. session' = [session EXCEPT ![s] = call]
    <3>1. PICK f : f = [session EXCEPT ![s] = [c EXCEPT !.has = "related"]]
      OBVIOUS
    <3>2. PICK g : g = [session EXCEPT ![s] = [c EXCEPT !.has = "related", !.txn = txn]]
      OBVIOUS
    <3>3. PICK h : h = [session EXCEPT ![s] = [c EXCEPT !.has = "related", !.txn = txn,
                                                        !.reversed = rev]]
      OBVIOUS
    <3>4. f[s] = [c EXCEPT !.has = "related"]
      BY <3>1 DEF TypeOK
    <3>5. g = [f EXCEPT ![s].txn = txn]
      BY <3>1, <3>2, <3>4 DEF TypeOK
    <3>6. g[s] = [c EXCEPT !.has = "related", !.txn = txn]
      BY <3>2 DEF TypeOK
    <3>7. h = [g EXCEPT ![s].reversed = rev]
      BY <3>2, <3>3, <3>6 DEF TypeOK
    <3>8. h[s] = [c EXCEPT !.has = "related", !.txn = txn, !.reversed = rev]
      BY <3>3 DEF TypeOK
    <3>9. session' = [h EXCEPT ![s].copy = wallet]
      BY <1>11, <3>1, <3>5, <3>7 DEF FetchRelated
    <3>10. session' = [h EXCEPT ![s] = call]
      BY <3>8, <3>9
    <3> QED
      BY <3>3, <3>10 DEF TypeOK
  <2> HIDE DEF c, txn, rev
  <2>3. call = [has |-> "related", key |-> c.key, on |-> c.on, batch |-> c.batch,
                seen |-> c.seen, txn |-> txn, reversed |-> rev, copy |-> wallet]
    BY <2>1, FetchedCall
  <2>4. call \in Call /\ Sound(call)
    BY <2>1, <2>3 DEF Call, Sound
  <2> QED
    BY <2>2, <2>4, OneCall
<1>12. ASSUME NEW s \in Session, Approve(s) PROVE session' \in [Session -> Call] /\ Copies'
  <2>1. session' = [session EXCEPT ![s] = Idle]
    BY <1>12 DEF Approve, Done
  <2> QED
    BY <2>1, IdleCall, IdleSound, OneCall
<1>13. ASSUME NEW s \in Session, Reject(s) PROVE session' \in [Session -> Call] /\ Copies'
  <2>1. session' = [session EXCEPT ![s] = Idle]
    BY <1>13 DEF Reject, Done
  <2> QED
    BY <2>1, IdleCall, IdleSound, OneCall
<1>14. ASSUME NEW s \in Session, Cancel(s) PROVE session' \in [Session -> Call] /\ Copies'
  <2>1. session' = [session EXCEPT ![s] = Idle]
    BY <1>14 DEF Cancel, Done
  <2> QED
    BY <2>1, IdleCall, IdleSound, OneCall
<1>15. ASSUME NEW s \in Session, Complete(s) PROVE session' \in [Session -> Call] /\ Copies'
  <2>1. session' = [session EXCEPT ![s] = Idle]
    BY <1>15 DEF Complete, Done
  <2> QED
    BY <2>1, IdleCall, IdleSound, OneCall
<1>16. ASSUME NEW s \in Session, DispatchFails(s)
       PROVE  session' \in [Session -> Call] /\ Copies'
  <2>1. session' = [session EXCEPT ![s] = Idle]
    BY <1>16 DEF DispatchFails, Done
  <2> QED
    BY <2>1, IdleCall, IdleSound, OneCall
<1>17. ASSUME NEW s \in Session, Refused(s) PROVE session' \in [Session -> Call] /\ Copies'
  <2>1. session' = [session EXCEPT ![s] = Idle]
    BY <1>17 DEF Refused, Done
  <2> QED
    BY <2>1, IdleCall, IdleSound, OneCall
<1>18. ASSUME NEW s \in Session, NEW b \in Batch, ReadBatch(s, b)
       PROVE  session' \in [Session -> Call] /\ Copies'
  <2> DEFINE on == {r \in Request : request[r].batch = b /\ request[r].status = "BATCHED"}
             call == [Idle EXCEPT !.has = "batch", !.batch = b, !.seen = "BATCHED", !.on = on]
  <2>1. session' = [session EXCEPT ![s] = call]
    BY <1>18 DEF ReadBatch, Reads
  <2>2. call \in Call /\ Sound(call)
    BY BatchCall
  <2> QED
    BY <2>1, <2>2, OneCall
<1>19. ASSUME NEW s \in Session, ProcessBatch(s)
       PROVE  session' \in [Session -> Call] /\ Copies'
  <2>1. session' = [session EXCEPT ![s] = Idle]
    BY <1>19 DEF ProcessBatch, Done
  <2> QED
    BY <2>1, IdleCall, IdleSound, OneCall
<1>20. ASSUME NEW k \in Key, ExpireKey(k) PROVE session' \in [Session -> Call] /\ Copies'
  BY <1>20 DEF ExpireKey, TypeOK, Copies, Sound
<1>21. ASSUME NEW locked \in BOOLEAN, SetLocked(locked)
       PROVE  session' \in [Session -> Call] /\ Copies'
  BY <1>21 DEF SetLocked, history, TypeOK, Copies, Sound
<1>22. ASSUME NEW b \in Batch, NEW ids \in SUBSET Request, CreateBatch(b, ids)
       PROVE  session' \in [Session -> Call] /\ Copies'
  BY <1>22 DEF CreateBatch, history, TypeOK, Copies, Sound
<1>23. CASE UNCHANGED vars
  BY <1>23 DEF vars, rows, history, TypeOK, Copies, Sound
<1>24. ASSUME NEW s \in Session, NEW row \in others, Reverse(s, row[1])
       PROVE  session' \in [Session -> Call] /\ Copies'
  <2>1. session' = [session EXCEPT ![s] = Idle]
    BY <1>24 DEF Reverse, Done
  <2> QED
    BY <2>1, IdleCall, IdleSound, OneCall
<1>25. ASSUME NEW s \in Session, NEW status \in Endings, EndTransaction(s, status)
       PROVE  session' \in [Session -> Call] /\ Copies'
  <2>1. session' = [session EXCEPT ![s] = Idle]
    BY <1>25 DEF EndTransaction, Done
  <2> QED
    BY <2>1, IdleCall, IdleSound, OneCall
<1>26. ASSUME NEW s \in Session, ReverseWithdrawal(s)
       PROVE  session' \in [Session -> Call] /\ Copies'
  <2> DEFINE call == [Idle EXCEPT !.has = "reversal", !.on = session[s].on]
  <2>1. session' = [session EXCEPT ![s] = call] /\ session[s].on \in SUBSET Request
    BY <1>26 DEF ReverseWithdrawal, TypeOK, Call
  <2>2. call \in Call /\ Sound(call)
    BY <2>1, ReversalCall
  <2> QED
    BY <2>1, <2>2, OneCall
<1>27. ASSUME NEW s \in Session, MarkReversed(s)
       PROVE  session' \in [Session -> Call] /\ Copies'
  <2>1. session' = [session EXCEPT ![s] = Idle]
    BY <1>27 DEF MarkReversed, Done
  <2> QED
    BY <2>1, IdleCall, IdleSound, OneCall
<1>28. ASSUME NEW a \in Sums, ReserveBalance(a)
       PROVE  session' \in [Session -> Call] /\ Copies'
  BY <1>28 DEF ReserveBalance, history, TypeOK, Copies, Sound
<1>29. ASSUME NEW a \in Sums, ReleaseReserve(a)
       PROVE  session' \in [Session -> Call] /\ Copies'
  BY <1>29 DEF ReleaseReserve, history, TypeOK, Copies, Sound
<1>30. ASSUME NEW k \in Key, RecordKey(k)
       PROVE  session' \in [Session -> Call] /\ Copies'
  BY <1>30 DEF RecordKey, TypeOK, Copies, Sound
<1>31. ASSUME NEW row \in others, ApproveOther(row)
       PROVE  session' \in [Session -> Call] /\ Copies'
  BY <1>31 DEF ApproveOther, TypeOK, Copies, Sound
<1>32. ASSUME NEW s \in Session, SaveWallet(s)
       PROVE  session' \in [Session -> Call] /\ Copies'
  <2>1. session' = [session EXCEPT ![s] = Idle]
    BY <1>32 DEF SaveWallet, Done
  <2> QED
    BY <2>1, IdleCall, IdleSound, OneCall
<1>33. ASSUME NEW rs \in SUBSET Request, reject_requests(rs) \/ process_withdrawals(rs)
       PROVE  session' \in [Session -> Call] /\ Copies'
  BY <1>33, ByHandFacts DEF TypeOK, Copies, Sound
<1> QED
  BY <1>1, <1>2, <1>3, <1>4, <1>5, <1>6, <1>7, <1>8, <1>9, <1>10, <1>11, <1>12, <1>13,
     <1>14, <1>15, <1>16, <1>17, <1>18, <1>19, <1>20, <1>21, <1>22, <1>23, <1>24, <1>25,
     <1>26, <1>27, <1>28, <1>29, <1>30, <1>31, <1>32, <1>33
  DEF Next, WalletStep, RequestStep, TransactionStep, BatchStep

\* What ending a transaction and marking it reversed write.
LEMMA EndedRows ==
    ASSUME TypeOK, NEW s \in Session, NEW status, EndTransaction(s, status)
    PROVE  \A r \in Request :
              /\ request'[r].status = request[r].status
              /\ request'[r].txn = IF r \in session[s].on THEN status ELSE request[r].txn
<1>1. \A r \in Request : /\ [request[r] EXCEPT !.txn = status].status = request[r].status
                         /\ [request[r] EXCEPT !.txn = status].txn = status
  BY DEF TypeOK, RequestRow
<1> QED
  BY <1>1 DEF EndTransaction, SetTxn

LEMMA MarkedRows ==
    ASSUME TypeOK, NEW s \in Session, MarkReversed(s)
    PROVE  \A r \in Request : /\ request'[r].status = request[r].status
                              /\ request'[r].txn = request[r].txn
<1>1. \A r \in Request : /\ [request[r] EXCEPT !.reversed = TRUE].status = request[r].status
                         /\ [request[r] EXCEPT !.reversed = TRUE].txn = request[r].txn
  BY DEF TypeOK, RequestRow
<1> QED
  BY <1>1 DEF MarkReversed

-----------------------------------------------------------------------------
(* Keys *)

\* A step that books no credit and takes no key off record keeps the two facts
\* about keys, if no session takes a key that has been credited.
LEMMA KeysKept ==
    ASSUME TypeOK, KeyInNoHand, CreditedOnce, keys \subseteq keys', credits' = credits,
           tainted.keys \subseteq tainted'.keys,
           \A t \in Session : \/ session'[t].key \in {session[t].key, None}
                              \/ \A k \in Key \ tainted.keys :
                                    session'[t].key = k => credits[k] = 0
    PROVE  KeyInNoHand' /\ CreditedOnce'
<1>1. \A k \in Key : k # None /\ credits[k] \in Nat
  BY NoneAssumption DEF TypeOK
<1>2. ASSUME NEW k \in Key, k \notin tainted'.keys, NEW t \in Session, credits'[k] > 0
      PROVE  session'[t].key # k
  BY <1>1, <1>2 DEF KeyInNoHand
<1>3. ASSUME NEW k \in Key, k \notin tainted'.keys
      PROVE  credits'[k] \in {0, 1} /\ (credits'[k] = 1 => k \in keys')
  BY <1>3 DEF CreditedOnce
<1> QED
  BY <1>2, <1>3 DEF KeyInNoHand, CreditedOnce

\* A key that has been credited is on record, credited once and in nobody's hands,
\* unless it is tainted.
LEMMA KeysStep ==
    ASSUME TypeOK, Copies, KeyInNoHand, CreditedOnce, [Next]_vars
    PROVE  KeyInNoHand' /\ CreditedOnce'
<1>0. TaintedMore
  BY TaintStep
<1>1. ASSUME NEW s \in Session, ReadWallet(s) PROVE KeyInNoHand' /\ CreditedOnce'
  <2>1. /\ session' = [session EXCEPT ![s] = [Idle EXCEPT !.has = "wallet", !.copy = wallet]]
        /\ keys' = keys /\ credits' = credits
    BY <1>1 DEF ReadWallet, Reads, rows, history
  <2>2. session'[s].key = None
    BY <2>1, <1>0 DEF TypeOK, Idle
  <2>3. \A t \in Session \ {s} : session'[t] = session[t]
    BY <2>1 DEF TypeOK
  <2> QED
    BY <1>0, <2>1, <2>2, <2>3, KeysKept DEF TaintedMore
<1>2. ASSUME NEW s \in Session, NEW k \in Key, CheckKey(s, k)
      PROVE  KeyInNoHand' /\ CreditedOnce'
  <2>1. /\ session' = [session EXCEPT ![s].has = "key", ![s].key = k]
        /\ keys' = keys /\ credits' = credits /\ ~(k \in keys /\ credits[k] > 0)
    BY <1>2 DEF CheckKey, OnRecord, rows, history
  <2>2. \A t \in Session \ {s} : session'[t] = session[t]
    BY <2>1 DEF TypeOK
  <2>3. session'[s].key = k
    BY <2>1 DEF TypeOK, Call
  <2>4. k \notin tainted.keys => credits[k] = 0
    BY <2>1 DEF CreditedOnce
  <2>5. ASSUME NEW t \in Session
        PROVE  \/ session'[t].key \in {session[t].key, None}
               \/ \A j \in Key \ tainted.keys : session'[t].key = j => credits[j] = 0
    BY <2>2, <2>3, <2>4
  <2> QED
    BY <1>0, <2>1, <2>5, KeysKept DEF TaintedMore
<1>3. ASSUME NEW s \in Session, NEW a \in Sums, Credit(s, a)
      PROVE  KeyInNoHand' /\ CreditedOnce'
  <2> DEFINE key == session[s].key
  <2>1. /\ keys' = keys \cup ({key} \ {None})
        /\ credits' = [k \in Key |-> IF k = key THEN credits[k] + 1 ELSE credits[k]]
        /\ Taint(StaleWallet(s), {}, SharedKeys(s))
        /\ Done(s)
    BY <1>3 DEF Credit
  <2>2. tainted'.keys = tainted.keys \cup SharedKeys(s)
    <3>1. /\ StaleWallet(s) \in BOOLEAN /\ {} \in SUBSET Request
          /\ SharedKeys(s) \in SUBSET Key
      BY TaintedKinds
    <3>2. Taint(StaleWallet(s), {}, SharedKeys(s))
      BY <2>1
    <3> QED
      BY <3>1, <3>2, TaintGrows
  <2>3. /\ session'[s].key = None
        /\ \A t \in Session \ {s} : session'[t].key = session[t].key
    BY <2>1, DoneCall DEF Idle
  <2>4. ASSUME NEW k \in Key, k \notin tainted'.keys, credits'[k] > 0,
               NEW t \in Session, session'[t].key = k
        PROVE  FALSE
    <3>1. k # None /\ k \notin tainted.keys /\ credits[k] \in Nat
      BY <2>2, <2>4, NoneAssumption DEF TypeOK
    <3>2. t # s /\ session[t].key = k
      BY <2>3, <2>4, <3>1
    <3>3. credits[k] = 0
      BY <3>1, <3>2 DEF KeyInNoHand
    <3>4. k = key
      BY <2>1, <2>4, <3>3
    <3>5. k \in SharedKeys(s)
      BY <3>1, <3>2, <3>4 DEF SharedKeys
    <3> QED
      BY <2>2, <2>4, <3>5
  <2>5. ASSUME NEW k \in Key, k \notin tainted'.keys
        PROVE  credits'[k] \in {0, 1} /\ (credits'[k] = 1 => k \in keys')
    <3>1. /\ k \notin tainted.keys /\ k # None
          /\ credits[k] \in {0, 1} /\ (credits[k] = 1 => k \in keys)
      BY <2>2, <2>5, NoneAssumption DEF CreditedOnce
    <3>2. CASE k = key
      <4>1. credits[k] = 0
        BY <3>1, <3>2 DEF KeyInNoHand
      <4> QED
        BY <2>1, <3>1, <3>2, <4>1
    <3>3. CASE k # key
      BY <2>1, <3>1, <3>3
    <3> QED
      BY <3>2, <3>3
  <2> QED
    BY <2>4, <2>5 DEF KeyInNoHand, CreditedOnce
<1>4. ASSUME NEW s \in Session, NEW a \in Sums, InstantPayout(s, a)
      PROVE  KeyInNoHand' /\ CreditedOnce'
  <2>1. Done(s) /\ keys' = keys /\ credits' = credits
    BY <1>4 DEF InstantPayout, Debit
  <2>2. \A t \in Session : session'[t].key \in {session[t].key, None}
    BY <2>1, DoneCall DEF Idle
  <2> QED
    BY <1>0, <2>1, <2>2, KeysKept DEF TaintedMore
<1>5. ASSUME NEW s \in Session, NEW a \in Sums, Transfer(s, a)
      PROVE  KeyInNoHand' /\ CreditedOnce'
  <2>1. Done(s) /\ keys' = keys /\ credits' = credits
    BY <1>5 DEF Transfer, Debit
  <2>2. \A t \in Session : session'[t].key \in {session[t].key, None}
    BY <2>1, DoneCall DEF Idle
  <2> QED
    BY <1>0, <2>1, <2>2, KeysKept DEF TaintedMore
<1>6. ASSUME NEW s \in Session, NEW a \in Sums, AdminDebit(s, a)
      PROVE  KeyInNoHand' /\ CreditedOnce'
  <2>1. Done(s) /\ keys' = keys /\ credits' = credits
    BY <1>6 DEF AdminDebit, Debit
  <2>2. \A t \in Session : session'[t].key \in {session[t].key, None}
    BY <2>1, DoneCall DEF Idle
  <2> QED
    BY <1>0, <2>1, <2>2, KeysKept DEF TaintedMore
<1>7. ASSUME NEW s \in Session, NEW a \in Sums, Freeze(s, a)
      PROVE  KeyInNoHand' /\ CreditedOnce'
  <2>1. Done(s) /\ keys' = keys /\ credits' = credits
    BY <1>7 DEF Freeze
  <2>2. \A t \in Session : session'[t].key \in {session[t].key, None}
    BY <2>1, DoneCall DEF Idle
  <2> QED
    BY <1>0, <2>1, <2>2, KeysKept DEF TaintedMore
<1>8. ASSUME NEW s \in Session, NEW a \in Sums, Unfreeze(s, a)
      PROVE  KeyInNoHand' /\ CreditedOnce'
  <2>1. Done(s) /\ keys' = keys /\ credits' = credits
    BY <1>8 DEF Unfreeze
  <2>2. \A t \in Session : session'[t].key \in {session[t].key, None}
    BY <2>1, DoneCall DEF Idle
  <2> QED
    BY <1>0, <2>1, <2>2, KeysKept DEF TaintedMore
<1>9. ASSUME NEW s \in Session, NEW r \in Request, Withdraw(s, r)
      PROVE  KeyInNoHand' /\ CreditedOnce'
  <2>1. Done(s) /\ keys' = keys /\ credits' = credits
    BY <1>9 DEF Withdraw
  <2>2. \A t \in Session : session'[t].key \in {session[t].key, None}
    BY <2>1, DoneCall DEF Idle
  <2> QED
    BY <1>0, <2>1, <2>2, KeysKept DEF TaintedMore
<1>10. ASSUME NEW s \in Session, NEW r \in Request, ReadRequest(s, r)
       PROVE  KeyInNoHand' /\ CreditedOnce'
  <2>1. /\ session' = [session EXCEPT ![s] =
              [Idle EXCEPT !.has = "request", !.on = {r}, !.seen = request[r].status]]
        /\ keys' = keys /\ credits' = credits
    BY <1>10 DEF ReadRequest, Reads, rows, history
  <2>2. session'[s].key = None
    BY <2>1, <1>0 DEF TypeOK, Idle
  <2>3. \A t \in Session \ {s} : session'[t] = session[t]
    BY <2>1 DEF TypeOK
  <2> QED
    BY <1>0, <2>1, <2>2, <2>3, KeysKept DEF TaintedMore
<1>11. ASSUME NEW s \in Session, NEW r \in Request, FetchRelated(s, r)
       PROVE  KeyInNoHand' /\ CreditedOnce'
  <2>1. /\ session' = [session EXCEPT ![s].has = "related", ![s].txn = request[r].txn,
                                       ![s].reversed = request[r].reversed, ![s].copy = wallet]
        /\ keys' = keys /\ credits' = credits
    BY <1>11 DEF FetchRelated, rows, history
  <2>2. \A t \in Session \ {s} : session'[t] = session[t]
    BY <2>1 DEF TypeOK
  <2>3. session'[s].key = session[s].key
    BY <2>1 DEF TypeOK, Call
  <2> QED
    BY <1>0, <2>1, <2>2, <2>3, KeysKept DEF TaintedMore
<1>12. ASSUME NEW s \in Session, Approve(s) PROVE KeyInNoHand' /\ CreditedOnce'
  <2>1. Done(s) /\ keys' = keys /\ credits' = credits
    BY <1>12 DEF Approve
  <2>2. \A t \in Session : session'[t].key \in {session[t].key, None}
    BY <2>1, DoneCall DEF Idle
  <2> QED
    BY <1>0, <2>1, <2>2, KeysKept DEF TaintedMore
<1>13. ASSUME NEW s \in Session, Reject(s) PROVE KeyInNoHand' /\ CreditedOnce'
  <2>1. Done(s) /\ keys' = keys /\ credits' = credits
    BY <1>13 DEF Reject
  <2>2. \A t \in Session : session'[t].key \in {session[t].key, None}
    BY <2>1, DoneCall DEF Idle
  <2> QED
    BY <1>0, <2>1, <2>2, KeysKept DEF TaintedMore
<1>14. ASSUME NEW s \in Session, Cancel(s) PROVE KeyInNoHand' /\ CreditedOnce'
  <2>1. Done(s) /\ keys' = keys /\ credits' = credits
    BY <1>14 DEF Cancel
  <2>2. \A t \in Session : session'[t].key \in {session[t].key, None}
    BY <2>1, DoneCall DEF Idle
  <2> QED
    BY <1>0, <2>1, <2>2, KeysKept DEF TaintedMore
<1>15. ASSUME NEW s \in Session, Complete(s) PROVE KeyInNoHand' /\ CreditedOnce'
  <2>1. Done(s) /\ keys' = keys /\ credits' = credits
    BY <1>15 DEF Complete
  <2>2. \A t \in Session : session'[t].key \in {session[t].key, None}
    BY <2>1, DoneCall DEF Idle
  <2> QED
    BY <1>0, <2>1, <2>2, KeysKept DEF TaintedMore
<1>16. ASSUME NEW s \in Session, DispatchFails(s) PROVE KeyInNoHand' /\ CreditedOnce'
  <2>1. Done(s) /\ keys' = keys /\ credits' = credits
    BY <1>16 DEF DispatchFails
  <2>2. \A t \in Session : session'[t].key \in {session[t].key, None}
    BY <2>1, DoneCall DEF Idle
  <2> QED
    BY <1>0, <2>1, <2>2, KeysKept DEF TaintedMore
<1>17. ASSUME NEW s \in Session, Refused(s) PROVE KeyInNoHand' /\ CreditedOnce'
  <2>1. Done(s) /\ keys' = keys /\ credits' = credits
    BY <1>17 DEF Refused, rows, history
  <2>2. \A t \in Session : session'[t].key \in {session[t].key, None}
    BY <2>1, DoneCall DEF Idle
  <2> QED
    BY <1>0, <2>1, <2>2, KeysKept DEF TaintedMore
<1>18. ASSUME NEW s \in Session, NEW b \in Batch, ReadBatch(s, b)
       PROVE  KeyInNoHand' /\ CreditedOnce'
  <2>1. /\ session' = [session EXCEPT ![s] =
              [Idle EXCEPT !.has = "batch", !.batch = b, !.seen = "BATCHED",
                           !.on = {r \in Request : request[r].batch = b
                                                     /\ request[r].status = "BATCHED"}]]
        /\ keys' = keys /\ credits' = credits
    BY <1>18 DEF ReadBatch, Reads, rows, history
  <2>2. session'[s].key = None
    BY <2>1, <1>0 DEF TypeOK, Idle
  <2>3. \A t \in Session \ {s} : session'[t] = session[t]
    BY <2>1 DEF TypeOK
  <2> QED
    BY <1>0, <2>1, <2>2, <2>3, KeysKept DEF TaintedMore
<1>19. ASSUME NEW s \in Session, ProcessBatch(s) PROVE KeyInNoHand' /\ CreditedOnce'
  <2>1. Done(s) /\ keys' = keys /\ credits' = credits
    BY <1>19 DEF ProcessBatch
  <2>2. \A t \in Session : session'[t].key \in {session[t].key, None}
    BY <2>1, DoneCall DEF Idle
  <2> QED
    BY <1>0, <2>1, <2>2, KeysKept DEF TaintedMore
<1>20. ASSUME NEW k \in Key, ExpireKey(k) PROVE KeyInNoHand' /\ CreditedOnce'
  <2>1. /\ keys' = keys \ {k} /\ credits' = credits /\ session' = session
        /\ tainted'.keys = tainted.keys \cup {k}
    BY <1>20 DEF ExpireKey, TypeOK
  <2> QED
    BY <2>1 DEF KeyInNoHand, CreditedOnce
<1>21. ASSUME NEW locked \in BOOLEAN, SetLocked(locked) PROVE KeyInNoHand' /\ CreditedOnce'
  <2>1. keys' = keys /\ credits' = credits /\ session' = session
    BY <1>21 DEF SetLocked, history
  <2> QED
    BY <1>0, <2>1, KeysKept DEF TaintedMore
<1>22. ASSUME NEW b \in Batch, NEW ids \in SUBSET Request, CreateBatch(b, ids)
       PROVE  KeyInNoHand' /\ CreditedOnce'
  <2>1. keys' = keys /\ credits' = credits /\ session' = session
    BY <1>22 DEF CreateBatch, history
  <2> QED
    BY <1>0, <2>1, KeysKept DEF TaintedMore
<1>23. CASE UNCHANGED vars
  BY <1>23 DEF vars, rows, history, KeyInNoHand, CreditedOnce
<1>24. ASSUME NEW s \in Session, NEW row \in others, Reverse(s, row[1])
       PROVE  KeyInNoHand' /\ CreditedOnce'
  <2>1. Done(s) /\ keys' = keys /\ credits' = credits
    BY <1>24 DEF Reverse
  <2>2. \A t \in Session : session'[t].key \in {session[t].key, None}
    BY <2>1, DoneCall DEF Idle
  <2> QED
    BY <1>0, <2>1, <2>2, KeysKept DEF TaintedMore
<1>25. ASSUME NEW s \in Session, NEW status \in Endings, EndTransaction(s, status)
       PROVE  KeyInNoHand' /\ CreditedOnce'
  <2>1. Done(s) /\ keys' = keys /\ credits' = credits
    BY <1>25 DEF EndTransaction, history
  <2>2. \A t \in Session : session'[t].key \in {session[t].key, None}
    BY <2>1, DoneCall DEF Idle
  <2> QED
    BY <1>0, <2>1, <2>2, KeysKept DEF TaintedMore
<1>26. ASSUME NEW s \in Session, ReverseWithdrawal(s) PROVE KeyInNoHand' /\ CreditedOnce'
  <2>1. /\ session' = [session EXCEPT ![s] =
                            [Idle EXCEPT !.has = "reversal", !.on = session[s].on]]
        /\ keys' = keys /\ credits' = credits
    BY <1>26 DEF ReverseWithdrawal
  <2>2. session'[s].key = None
    BY <2>1 DEF TypeOK, Idle
  <2>3. \A t \in Session \ {s} : session'[t] = session[t]
    BY <2>1 DEF TypeOK
  <2> QED
    BY <1>0, <2>1, <2>2, <2>3, KeysKept DEF TaintedMore
<1>27. ASSUME NEW s \in Session, MarkReversed(s) PROVE KeyInNoHand' /\ CreditedOnce'
  <2>1. Done(s) /\ keys' = keys /\ credits' = credits
    BY <1>27 DEF MarkReversed, history
  <2>2. \A t \in Session : session'[t].key \in {session[t].key, None}
    BY <2>1, DoneCall DEF Idle
  <2> QED
    BY <1>0, <2>1, <2>2, KeysKept DEF TaintedMore
<1>28. ASSUME NEW a \in Sums, ReserveBalance(a) PROVE KeyInNoHand' /\ CreditedOnce'
  <2>1. keys' = keys /\ credits' = credits /\ session' = session
    BY <1>28 DEF ReserveBalance, history
  <2> QED
    BY <1>0, <2>1, KeysKept DEF TaintedMore
<1>29. ASSUME NEW a \in Sums, ReleaseReserve(a) PROVE KeyInNoHand' /\ CreditedOnce'
  <2>1. keys' = keys /\ credits' = credits /\ session' = session
    BY <1>29 DEF ReleaseReserve, history
  <2> QED
    BY <1>0, <2>1, KeysKept DEF TaintedMore
<1>30. ASSUME NEW k \in Key, RecordKey(k) PROVE KeyInNoHand' /\ CreditedOnce'
  <2>1. keys \subseteq keys' /\ credits' = credits /\ session' = session
    BY <1>30 DEF RecordKey, history
  <2> QED
    BY <1>0, <2>1, KeysKept DEF TaintedMore
<1>31. ASSUME NEW row \in others, ApproveOther(row) PROVE KeyInNoHand' /\ CreditedOnce'
  <2>1. keys' = keys /\ credits' = credits /\ session' = session
    BY <1>31 DEF ApproveOther, history
  <2> QED
    BY <1>0, <2>1, KeysKept DEF TaintedMore
<1>32. ASSUME NEW s \in Session, SaveWallet(s) PROVE KeyInNoHand' /\ CreditedOnce'
  <2>1. Done(s) /\ keys' = keys /\ credits' = credits
    BY <1>32 DEF SaveWallet
  <2>2. \A t \in Session : session'[t].key \in {session[t].key, None}
    BY <2>1, DoneCall DEF Idle
  <2> QED
    BY <1>0, <2>1, <2>2, KeysKept DEF TaintedMore
<1>33. ASSUME NEW rs \in SUBSET Request, reject_requests(rs) \/ process_withdrawals(rs)
       PROVE  KeyInNoHand' /\ CreditedOnce'
  <2>1. keys' = keys /\ credits' = credits /\ session' = session
    BY <1>33, ByHandFacts
  <2> QED
    BY <1>0, <2>1, KeysKept DEF TaintedMore
<1> QED
  BY <1>1, <1>2, <1>3, <1>4, <1>5, <1>6, <1>7, <1>8, <1>9, <1>10, <1>11, <1>12, <1>13,
     <1>14, <1>15, <1>16, <1>17, <1>18, <1>19, <1>20, <1>21, <1>22, <1>23, <1>24, <1>25,
     <1>26, <1>27, <1>28, <1>29, <1>30, <1>31, <1>32, <1>33
  DEF Next, WalletStep, RequestStep, TransactionStep, BatchStep

-----------------------------------------------------------------------------
(* Settlements *)

\* A request written from a copy that was up to date is settled once.
LEMMA SettledStep ==
    ASSUME TypeOK, Copies, SettledOnce, [Next]_vars
    PROVE  SettledOnce'
<1>0. TaintedMore
  BY TaintStep
<1>1. ASSUME NEW s \in Session, ReadWallet(s) PROVE SettledOnce'
  <2>1. settled' = settled /\ request' = request /\ byHand' = byHand
    BY <1>1 DEF ReadWallet, rows, history
  <2> QED
    BY <1>0, <2>1 DEF SettledOnce, TaintedMore
<1>2. ASSUME NEW s \in Session, NEW k \in Key, CheckKey(s, k) PROVE SettledOnce'
  <2>1. settled' = settled /\ request' = request /\ byHand' = byHand
    BY <1>2 DEF CheckKey, rows, history
  <2> QED
    BY <1>0, <2>1 DEF SettledOnce, TaintedMore
<1>3. ASSUME NEW s \in Session, NEW a \in Sums, Credit(s, a) PROVE SettledOnce'
  <2>1. settled' = settled /\ request' = request /\ byHand' = byHand
    BY <1>3 DEF Credit
  <2> QED
    BY <1>0, <2>1 DEF SettledOnce, TaintedMore
<1>4. ASSUME NEW s \in Session, NEW a \in Sums, InstantPayout(s, a) PROVE SettledOnce'
  <2>1. settled' = settled /\ request' = request /\ byHand' = byHand
    BY <1>4 DEF InstantPayout, Debit
  <2> QED
    BY <1>0, <2>1 DEF SettledOnce, TaintedMore
<1>5. ASSUME NEW s \in Session, NEW a \in Sums, Transfer(s, a) PROVE SettledOnce'
  <2>1. settled' = settled /\ request' = request /\ byHand' = byHand
    BY <1>5 DEF Transfer, Debit
  <2> QED
    BY <1>0, <2>1 DEF SettledOnce, TaintedMore
<1>6. ASSUME NEW s \in Session, NEW a \in Sums, AdminDebit(s, a) PROVE SettledOnce'
  <2>1. settled' = settled /\ request' = request /\ byHand' = byHand
    BY <1>6 DEF AdminDebit, Debit
  <2> QED
    BY <1>0, <2>1 DEF SettledOnce, TaintedMore
<1>7. ASSUME NEW s \in Session, NEW a \in Sums, Freeze(s, a) PROVE SettledOnce'
  <2>1. settled' = settled /\ request' = request /\ byHand' = byHand
    BY <1>7 DEF Freeze
  <2> QED
    BY <1>0, <2>1 DEF SettledOnce, TaintedMore
<1>8. ASSUME NEW s \in Session, NEW a \in Sums, Unfreeze(s, a) PROVE SettledOnce'
  <2>1. settled' = settled /\ request' = request /\ byHand' = byHand
    BY <1>8 DEF Unfreeze
  <2> QED
    BY <1>0, <2>1 DEF SettledOnce, TaintedMore
<1>9. ASSUME NEW s \in Session, NEW r \in Request, Withdraw(s, r) PROVE SettledOnce'
  <2>1. /\ request[r].status = "ABSENT" /\ settled' = settled /\ byHand' = byHand
        /\ request' = SetRow({r}, "PENDING", "PENDING")
    BY <1>9 DEF Withdraw
  <2>2. \A q \in Request : request'[q].status = IF q = r THEN "PENDING" ELSE request[q].status
    BY <2>1, RequestRows DEF Status, TransactionStatus
  <2> QED
    BY <1>0, <2>1, <2>2 DEF SettledOnce, TaintedMore
<1>10. ASSUME NEW s \in Session, NEW r \in Request, ReadRequest(s, r) PROVE SettledOnce'
  <2>1. settled' = settled /\ request' = request /\ byHand' = byHand
    BY <1>10 DEF ReadRequest, rows, history
  <2> QED
    BY <1>0, <2>1 DEF SettledOnce, TaintedMore
<1>11. ASSUME NEW s \in Session, NEW r \in Request, FetchRelated(s, r) PROVE SettledOnce'
  <2>1. settled' = settled /\ request' = request /\ byHand' = byHand
    BY <1>11 DEF FetchRelated, rows, history
  <2> QED
    BY <1>0, <2>1 DEF SettledOnce, TaintedMore
<1>12. ASSUME NEW s \in Session, Approve(s) PROVE SettledOnce'
  <2> DEFINE on == session[s].on
  <2>1. /\ Taint(FALSE, StaleRequests(s), {})
        /\ request' = SetRow(on, "APPROVED", "APPROVED")
        /\ settled' = settled /\ byHand' = byHand
        /\ session[s].seen = "PENDING"
    BY <1>12 DEF Approve
  <2>2. on \in SUBSET Request
    BY DEF TypeOK, Call
  <2>3. tainted'.requests = tainted.requests \cup StaleRequests(s)
    <3>1. /\ FALSE \in BOOLEAN /\ StaleRequests(s) \in SUBSET Request
          /\ {} \in SUBSET Key
      BY TaintedKinds
    <3>2. Taint(FALSE, StaleRequests(s), {})
      BY <2>1
    <3> QED
      BY <3>1, <3>2, TaintGrows
  <2>4. \A r \in on \ tainted'.requests : request[r].status = session[s].seen
    BY <2>3 DEF StaleRequests
  <2>5. \A r \in Request : request'[r].status = IF r \in on THEN "APPROVED" ELSE request[r].status
    BY <2>1, <2>2, RequestRows DEF Status, TransactionStatus
  <2>6. \A r \in Request \ tainted'.requests :
            settled[r].paid \in Nat /\ settled[r].returned \in Nat /\ r \notin tainted.requests
    BY <2>3 DEF TypeOK
  <2> QED
    BY <2>1, <2>4, <2>5, <2>6 DEF SettledOnce
<1>13. ASSUME NEW s \in Session, Reject(s) PROVE SettledOnce'
  <2> DEFINE on == session[s].on
  <2>1. /\ Taint(StaleWallet(s), StaleRequests(s), {})
        /\ request' = SetRow(on, "REJECTED", "REJECTED")
        /\ Count(on, "returned")
        /\ byHand' = byHand
        /\ session[s].seen \in {"PENDING", "APPROVED"}
    BY <1>13 DEF Reject, Rejectable
  <2>2. on \in SUBSET Request
    BY DEF TypeOK, Call
  <2>3. tainted'.requests = tainted.requests \cup StaleRequests(s)
    <3>1. /\ StaleWallet(s) \in BOOLEAN /\ StaleRequests(s) \in SUBSET Request
          /\ {} \in SUBSET Key
      BY TaintedKinds
    <3>2. Taint(StaleWallet(s), StaleRequests(s), {})
      BY <2>1
    <3> QED
      BY <3>1, <3>2, TaintGrows
  <2>4. \A r \in on \ tainted'.requests : request[r].status = session[s].seen
    BY <2>3 DEF StaleRequests
  <2>5. \A r \in Request : request'[r].status = IF r \in on THEN "REJECTED" ELSE request[r].status
    BY <2>1, <2>2, RequestRows DEF Status, TransactionStatus
  <2>6. /\ \A r \in Request \ on : settled'[r] = settled[r]
        /\ \A r \in on : /\ settled'[r].returned = settled[r].returned + 1
                        /\ settled'[r].paid = settled[r].paid
    <3>1. /\ \A r \in Request \ on : settled'[r] = settled[r]
          /\ \A r \in on : settled'[r] = [settled[r] EXCEPT !.returned = @ + 1]
      BY <2>1, <2>2, Settlements
    <3>2. \A r \in on : settled[r] \in [paid : Nat, returned : Nat]
      BY <2>2 DEF TypeOK
    <3> QED
      BY <3>1, <3>2
  <2>7. \A r \in Request \ tainted'.requests :
            settled[r].paid \in Nat /\ settled[r].returned \in Nat /\ r \notin tainted.requests
    BY <2>3 DEF TypeOK
  <2> QED
    BY <2>1, <2>4, <2>5, <2>6, <2>7 DEF SettledOnce
<1>14. ASSUME NEW s \in Session, Cancel(s) PROVE SettledOnce'
  <2> DEFINE on    == session[s].on
             again == {r \in on : session[s].seen = "CANCELLED"}
  <2>1. /\ Taint(StaleWallet(s), StaleRequests(s) \cup again, {})
        /\ request' = SetStatus(on, "CANCELLED")
        /\ Count(on, "returned")
        /\ byHand' = byHand
        /\ session[s].seen \notin {"COMPLETED", "REJECTED"}
    BY <1>14 DEF Cancel, Cancellable
  <2>2. on \in SUBSET Request
    BY DEF TypeOK, Call
  <2>3. tainted'.requests = tainted.requests \cup (StaleRequests(s) \cup again)
    <3>1. PICK rs : rs = StaleRequests(s) \cup again
      OBVIOUS
    <3>2. StaleWallet(s) \in BOOLEAN /\ rs \in SUBSET Request /\ {} \in SUBSET Key
      BY <3>1, TaintedKinds
    <3>3. Taint(StaleWallet(s), rs, {})
      BY <2>1, <3>1
    <3>4. tainted'.requests = tainted.requests \cup rs
      BY <3>2, <3>3, TaintGrows
    <3> QED
      BY <3>1, <3>4
  <2>4. \A r \in on \ tainted'.requests :
            request[r].status = session[s].seen /\ session[s].seen # "CANCELLED"
    BY <2>3 DEF StaleRequests
  <2>5. \A r \in Request : request'[r].status = IF r \in on THEN "CANCELLED" ELSE request[r].status
    <3>1. "PENDING" \in TransactionStatus
      BY DEF TransactionStatus
    <3> QED
      BY <2>1, <2>2, <3>1, RequestRows DEF Status
  <2>6. /\ \A r \in Request \ on : settled'[r] = settled[r]
        /\ \A r \in on : /\ settled'[r].returned = settled[r].returned + 1
                        /\ settled'[r].paid = settled[r].paid
    <3>1. /\ \A r \in Request \ on : settled'[r] = settled[r]
          /\ \A r \in on : settled'[r] = [settled[r] EXCEPT !.returned = @ + 1]
      BY <2>1, <2>2, Settlements
    <3>2. \A r \in on : settled[r] \in [paid : Nat, returned : Nat]
      BY <2>2 DEF TypeOK
    <3> QED
      BY <3>1, <3>2
  <2>7. \A r \in Request \ tainted'.requests :
            settled[r].paid \in Nat /\ settled[r].returned \in Nat /\ r \notin tainted.requests
    BY <2>3 DEF TypeOK
  <2> QED
    BY <2>1, <2>4, <2>5, <2>6, <2>7 DEF SettledOnce
<1>15. ASSUME NEW s \in Session, Complete(s) PROVE SettledOnce'
  <2> DEFINE on == session[s].on
  <2>1. /\ Taint(StaleWallet(s), StaleRequests(s), {})
        /\ request' = SetRow(on, "COMPLETED", "COMPLETED")
        /\ Count(on, "paid")
        /\ byHand' = byHand
        /\ session[s].seen = "APPROVED"
    BY <1>15 DEF Complete, Completable
  <2>2. on \in SUBSET Request
    BY DEF TypeOK, Call
  <2>3. tainted'.requests = tainted.requests \cup StaleRequests(s)
    <3>1. /\ StaleWallet(s) \in BOOLEAN /\ StaleRequests(s) \in SUBSET Request
          /\ {} \in SUBSET Key
      BY TaintedKinds
    <3>2. Taint(StaleWallet(s), StaleRequests(s), {})
      BY <2>1
    <3> QED
      BY <3>1, <3>2, TaintGrows
  <2>4. \A r \in on \ tainted'.requests : request[r].status = session[s].seen
    BY <2>3 DEF StaleRequests
  <2>5. \A r \in Request : request'[r].status = IF r \in on THEN "COMPLETED" ELSE request[r].status
    BY <2>1, <2>2, RequestRows DEF Status, TransactionStatus
  <2>6. /\ \A r \in Request \ on : settled'[r] = settled[r]
        /\ \A r \in on : /\ settled'[r].paid = settled[r].paid + 1
                        /\ settled'[r].returned = settled[r].returned
    <3>1. /\ \A r \in Request \ on : settled'[r] = settled[r]
          /\ \A r \in on : settled'[r] = [settled[r] EXCEPT !.paid = @ + 1]
      BY <2>1, <2>2, Settlements
    <3>2. \A r \in on : settled[r] \in [paid : Nat, returned : Nat]
      BY <2>2 DEF TypeOK
    <3> QED
      BY <3>1, <3>2
  <2>7. \A r \in Request \ tainted'.requests :
            settled[r].paid \in Nat /\ settled[r].returned \in Nat /\ r \notin tainted.requests
    BY <2>3 DEF TypeOK
  <2> QED
    BY <2>1, <2>4, <2>5, <2>6, <2>7 DEF SettledOnce
<1>16. ASSUME NEW s \in Session, DispatchFails(s) PROVE SettledOnce'
  <2> DEFINE on == session[s].on
  <2>1. /\ Taint(FALSE, StaleRequests(s), {})
        /\ request' = SetStatus(on, "FAILED")
        /\ settled' = settled /\ byHand' = byHand
        /\ session[s].seen = "APPROVED"
    BY <1>16 DEF DispatchFails
  <2>2. on \in SUBSET Request
    BY DEF TypeOK, Call
  <2>3. tainted'.requests = tainted.requests \cup StaleRequests(s)
    <3>1. /\ FALSE \in BOOLEAN /\ StaleRequests(s) \in SUBSET Request
          /\ {} \in SUBSET Key
      BY TaintedKinds
    <3>2. Taint(FALSE, StaleRequests(s), {})
      BY <2>1
    <3> QED
      BY <3>1, <3>2, TaintGrows
  <2>4. \A r \in on \ tainted'.requests : request[r].status = session[s].seen
    BY <2>3 DEF StaleRequests
  <2>5. \A r \in Request : request'[r].status = IF r \in on THEN "FAILED" ELSE request[r].status
    <3>1. "PENDING" \in TransactionStatus
      BY DEF TransactionStatus
    <3> QED
      BY <2>1, <2>2, <3>1, RequestRows DEF Status
  <2>6. \A r \in Request \ tainted'.requests :
            settled[r].paid \in Nat /\ settled[r].returned \in Nat /\ r \notin tainted.requests
    BY <2>3 DEF TypeOK
  <2> QED
    BY <2>1, <2>4, <2>5, <2>6 DEF SettledOnce
<1>17. ASSUME NEW s \in Session, Refused(s) PROVE SettledOnce'
  <2>1. settled' = settled /\ request' = request /\ byHand' = byHand
    BY <1>17 DEF Refused, rows, history
  <2> QED
    BY <1>0, <2>1 DEF SettledOnce, TaintedMore
<1>18. ASSUME NEW s \in Session, NEW b \in Batch, ReadBatch(s, b) PROVE SettledOnce'
  <2>1. settled' = settled /\ request' = request /\ byHand' = byHand
    BY <1>18 DEF ReadBatch, rows, history
  <2> QED
    BY <1>0, <2>1 DEF SettledOnce, TaintedMore
<1>19. ASSUME NEW s \in Session, ProcessBatch(s) PROVE SettledOnce'
  <2> DEFINE on == session[s].on
  <2>1. Taint(FALSE, StaleRequests(s), {}) /\ session[s].seen = "BATCHED"
    BY <1>19 DEF ProcessBatch, Has, Copies, Sound
  <2>2. {r \in on : Completable(session[s].seen)} = {}
    BY <2>1 DEF Completable
  <2>3. /\ Count({}, "paid")
        /\ byHand' = byHand
        /\ request' = [r \in Request |-> IF r \in on THEN [request[r] EXCEPT !.status = "FAILED"]
                                                    ELSE request[r]]
    BY <1>19, <2>2 DEF ProcessBatch
  <2>4. tainted'.requests = tainted.requests \cup StaleRequests(s)
    <3>1. /\ FALSE \in BOOLEAN /\ StaleRequests(s) \in SUBSET Request
          /\ {} \in SUBSET Key
      BY TaintedKinds
    <3>2. Taint(FALSE, StaleRequests(s), {})
      BY <2>1
    <3> QED
      BY <3>1, <3>2, TaintGrows
  <2>5. \A r \in on \ tainted'.requests : request[r].status = "BATCHED"
    BY <2>1, <2>4 DEF StaleRequests
  <2>6. \A r \in Request : [request[r] EXCEPT !.status = "FAILED"].status = "FAILED"
    <3>1. \A r \in Request : request[r] \in RequestRow
      BY DEF TypeOK
    <3> QED
      BY <3>1 DEF RequestRow
  <2>7. \A r \in Request : request'[r].status = IF r \in on THEN "FAILED" ELSE request[r].status
    BY <2>3, <2>6
  <2>8. \A r \in Request : settled'[r] = settled[r]
    BY <2>3, Settlements
  <2> QED
    BY <2>3, <2>4, <2>5, <2>7, <2>8 DEF SettledOnce
<1>20. ASSUME NEW k \in Key, ExpireKey(k) PROVE SettledOnce'
  <2>1. settled' = settled /\ request' = request /\ byHand' = byHand
    BY <1>20 DEF ExpireKey
  <2> QED
    BY <1>0, <2>1 DEF SettledOnce, TaintedMore
<1>21. ASSUME NEW locked \in BOOLEAN, SetLocked(locked) PROVE SettledOnce'
  <2>1. settled' = settled /\ request' = request /\ byHand' = byHand
    BY <1>21 DEF SetLocked, history
  <2> QED
    BY <1>0, <2>1 DEF SettledOnce, TaintedMore
<1>22. ASSUME NEW b \in Batch, NEW ids \in SUBSET Request, CreateBatch(b, ids)
       PROVE  SettledOnce'
  <2> DEFINE chosen == {r \in ids : request[r].status = "APPROVED"}
  <2>1. /\ settled' = settled /\ byHand' = byHand /\ tainted' = tainted
        /\ request' = [r \in Request |-> IF r \in chosen
                                            THEN [request[r] EXCEPT !.status = "BATCHED", !.batch = b]
                                            ELSE request[r]]
    BY <1>22 DEF CreateBatch, history
  <2>2. \A r \in Request : [request[r] EXCEPT !.status = "BATCHED", !.batch = b].status = "BATCHED"
    <3>1. \A r \in Request : request[r] \in RequestRow
      BY DEF TypeOK
    <3>2. \A r \in Request :
              [request[r] EXCEPT !.status = "BATCHED"] \in RequestRow
      BY <3>1 DEF RequestRow, Status
    <3> QED
      BY <3>1, <3>2 DEF RequestRow
  <2>3. \A r \in Request : request'[r].status = IF r \in chosen THEN "BATCHED"
                                                             ELSE request[r].status
    BY <2>1, <2>2
  <2>4. \A r \in chosen : request[r].status = "APPROVED"
    OBVIOUS
  <2>5. \A r \in chosen : r \notin tainted.requests => r \notin byHand
    BY <2>4 DEF SettledOnce
  <2>6. ASSUME NEW r \in Request, r \notin tainted'.requests
        PROVE  /\ settled'[r].paid = IF request'[r].status = "COMPLETED" /\ r \notin byHand'
                                     THEN 1 ELSE 0
               /\ settled'[r].returned = IF /\ request'[r].status \in {"REJECTED", "CANCELLED"}
                                            /\ r \notin byHand'
                                         THEN 1 ELSE 0
               /\ r \in byHand' => request'[r].status \in {"COMPLETED", "REJECTED"}
    <3>1. /\ settled[r].paid = IF request[r].status = "COMPLETED" /\ r \notin byHand
                               THEN 1 ELSE 0
          /\ settled[r].returned = IF /\ request[r].status \in {"REJECTED", "CANCELLED"}
                                      /\ r \notin byHand
                                   THEN 1 ELSE 0
          /\ r \in byHand => request[r].status \in {"COMPLETED", "REJECTED"}
          /\ settled'[r] = settled[r] /\ byHand' = byHand
      BY <2>1, <2>6 DEF SettledOnce
    <3>2. CASE r \in chosen
      <4>1. request[r].status = "APPROVED" /\ request'[r].status = "BATCHED"
        BY <2>3, <2>4, <3>2
      <4>2. r \notin byHand
        BY <2>1, <2>5, <2>6, <3>2
      <4> QED
        BY <3>1, <4>1, <4>2
    <3>3. CASE r \notin chosen
      <4>1. request'[r].status = request[r].status
        BY <2>3, <3>3
      <4> QED
        BY <3>1, <4>1
    <3> QED
      BY <3>2, <3>3
  <2> QED
    BY <2>6 DEF SettledOnce
<1>23. CASE UNCHANGED vars
  BY <1>23 DEF vars, rows, history, SettledOnce
<1>24. ASSUME NEW s \in Session, NEW row \in others, Reverse(s, row[1])
       PROVE  SettledOnce'
  <2>1. settled' = settled /\ request' = request /\ byHand' = byHand
    BY <1>24 DEF Reverse
  <2> QED
    BY <1>0, <2>1 DEF SettledOnce, TaintedMore
<1>25. ASSUME NEW s \in Session, NEW status \in Endings, EndTransaction(s, status)
       PROVE  SettledOnce'
  <2>1. /\ settled' = settled /\ byHand' = byHand
        /\ \A r \in Request : request'[r].status = request[r].status
    BY <1>25, EndedRows DEF EndTransaction, history, TypeOK, Call
  <2> QED
    BY <1>0, <2>1 DEF SettledOnce, TaintedMore
<1>26. ASSUME NEW s \in Session, ReverseWithdrawal(s) PROVE SettledOnce'
  <2>1. settled' = settled /\ request' = request /\ byHand' = byHand
    BY <1>26 DEF ReverseWithdrawal, history
  <2> QED
    BY <1>0, <2>1 DEF SettledOnce, TaintedMore
<1>27. ASSUME NEW s \in Session, MarkReversed(s) PROVE SettledOnce'
  <2>1. /\ settled' = settled /\ byHand' = byHand
        /\ \A r \in Request : request'[r].status = request[r].status
    BY <1>27, MarkedRows DEF MarkReversed, history, TypeOK, Call
  <2> QED
    BY <1>0, <2>1 DEF SettledOnce, TaintedMore
<1>28. ASSUME NEW a \in Sums, ReserveBalance(a) PROVE SettledOnce'
  <2>1. settled' = settled /\ request' = request /\ byHand' = byHand
    BY <1>28 DEF ReserveBalance, history
  <2> QED
    BY <1>0, <2>1 DEF SettledOnce, TaintedMore
<1>29. ASSUME NEW a \in Sums, ReleaseReserve(a) PROVE SettledOnce'
  <2>1. settled' = settled /\ request' = request /\ byHand' = byHand
    BY <1>29 DEF ReleaseReserve, history
  <2> QED
    BY <1>0, <2>1 DEF SettledOnce, TaintedMore
<1>30. ASSUME NEW k \in Key, RecordKey(k) PROVE SettledOnce'
  <2>1. settled' = settled /\ request' = request /\ byHand' = byHand
    BY <1>30 DEF RecordKey, history
  <2> QED
    BY <1>0, <2>1 DEF SettledOnce, TaintedMore
<1>31. ASSUME NEW row \in others, ApproveOther(row) PROVE SettledOnce'
  <2>1. settled' = settled /\ request' = request /\ byHand' = byHand
    BY <1>31 DEF ApproveOther, history
  <2> QED
    BY <1>0, <2>1 DEF SettledOnce, TaintedMore
<1>32. ASSUME NEW s \in Session, SaveWallet(s) PROVE SettledOnce'
  <2>1. settled' = settled /\ request' = request /\ byHand' = byHand
    BY <1>32 DEF SaveWallet
  <2> QED
    BY <1>0, <2>1 DEF SettledOnce, TaintedMore
<1>33. ASSUME NEW rs \in SUBSET Request, reject_requests(rs) \/ process_withdrawals(rs)
       PROVE  SettledOnce'
  <2>1. \A r \in rs : request[r].status \in {"PENDING", "APPROVED"}
    BY <1>33, ByHandFacts
  <2>2. /\ \A r \in rs : request'[r].status \in {"REJECTED", "COMPLETED"}
        /\ \A r \in Request \ rs : request'[r].status = request[r].status
    <3>1. "REJECTED" \in Status /\ "COMPLETED" \in Status
      BY DEF Status
    <3>2. PICK status \in {"REJECTED", "COMPLETED"} : request' = SetStatus(rs, status)
      BY <1>33, ByHandFacts
    <3>3. status \in Status
      BY <3>1
    <3>4. \A r \in Request : SetStatus(rs, status)[r].status = IF r \in rs THEN status
                                                               ELSE request[r].status
      BY <3>3, StatusRows
    <3> QED
      BY <3>2, <3>4
  <2>3. byHand' = byHand \cup rs /\ settled' = settled /\ tainted' = tainted
    BY <1>33, ByHandFacts
  <2> QED
    BY <2>1, <2>2, <2>3 DEF SettledOnce
<1> QED
  BY <1>1, <1>2, <1>3, <1>4, <1>5, <1>6, <1>7, <1>8, <1>9, <1>10, <1>11, <1>12, <1>13,
     <1>14, <1>15, <1>16, <1>17, <1>18, <1>19, <1>20, <1>21, <1>22, <1>23, <1>24, <1>25,
     <1>26, <1>27, <1>28, <1>29, <1>30, <1>31, <1>32, <1>33
  DEF Next, WalletStep, RequestStep, TransactionStep, BatchStep

-----------------------------------------------------------------------------
(* The accounts *)

\* Sets of requests are finite, and one more request is one more Amount.
LEMMA OneMore ==
    ASSUME NEW S \in SUBSET Request, NEW r \in Request \ S
    PROVE  /\ Amount * Cardinality(S) \in Nat
           /\ Amount * Cardinality(S \cup {r}) = Amount * Cardinality(S) + Amount
<1>1. IsFiniteSet(S)
  BY RequestAssumption, FS_Subset
<1>2. Cardinality(S) \in Nat /\ Cardinality(S \cup {r}) = Cardinality(S) + 1
  BY <1>1, FS_AddElement, FS_CardinalityType
<1>3. \A n \in Nat : Amount * n \in Nat /\ Amount * (n + 1) = Amount * n + Amount
  BY AmountAssumption
<1> QED
  BY <1>2, <1>3

\* The amounts held and paid out are naturals.
LEMMA SumsHeld ==
    ASSUME TypeOK
    PROVE  Amount * Cardinality(Held) \in Nat /\ Amount * Cardinality(PaidOut) \in Nat
<1>1. \A S \in SUBSET Request : Cardinality(S) \in Nat
  BY RequestAssumption, FS_Subset, FS_CardinalityType
<1>2. \A n \in Nat : Amount * n \in Nat
  BY AmountAssumption
<1> QED
  BY <1>1, <1>2 DEF Held, PaidOut, TypeOK

\* A step whose call has tainted nothing found the rows as in its copies.
LEMMA CleanCall ==
    ASSUME TypeOK, NEW s \in Session, NEW w \in BOOLEAN, NEW rs \in SUBSET Request,
           NEW ks \in SUBSET Key, Taint(w, rs, ks), ~tainted'.wallet, tainted'.requests = {}
    PROVE  ~w /\ rs = {}
BY TaintGrows

\* Before such a step the wallet was accounted for.
LEMMA WasAccounted ==
    ASSUME TypeOK, FundsAccounted, TaintedMore, ~tainted'.wallet, tainted'.requests = {}
    PROVE  Accounted
BY DEF FundsAccounted, TaintedMore

\* What staff closed in bulk before such a step is closed.
LEMMA ClosedByHand ==
    ASSUME TypeOK, SettledOnce, TaintedMore, tainted'.requests = {}
    PROVE  \A r \in byHand : request[r].status \in {"COMPLETED", "REJECTED"}
BY DEF TypeOK, SettledOnce, TaintedMore

\* A step that keeps what each request counts for keeps the two sets.
LEMMA SameSets ==
    ASSUME byHand' = byHand,
           \A r \in Request :
              \/ request'[r].status = request[r].status
              \/ /\ request[r].status \in {"PENDING", "APPROVED", "BATCHED", "FAILED"}
                 /\ request'[r].status \in {"PENDING", "APPROVED", "BATCHED", "FAILED"}
    PROVE  Held' = Held /\ PaidOut' = PaidOut
BY DEF Held, PaidOut

\* A step that writes from rows that were up to date keeps the accounts.
LEMMA FundsStep ==
    ASSUME TypeOK, Copies, SettledOnce, FundsAccounted, [Next]_vars
    PROVE  FundsAccounted'
<1>0. TaintedMore
  BY TaintStep
<1>1. ASSUME NEW s \in Session, ReadWallet(s) PROVE FundsAccounted'
  <2> SUFFICES ASSUME ~tainted'.wallet, tainted'.requests = {} PROVE Accounted'
    BY DEF FundsAccounted
  <2>1. Accounted
    BY <1>0, WasAccounted
  <2>2. wallet' = wallet /\ request' = request /\ byHand' = byHand /\ ledger' = ledger
    BY <1>1 DEF ReadWallet, rows, history
  <2>3. Held' = Held /\ PaidOut' = PaidOut
    BY <2>2, SameSets
  <2> QED
    BY <2>1, <2>2, <2>3 DEF Accounted
<1>2. ASSUME NEW s \in Session, NEW k \in Key, CheckKey(s, k) PROVE FundsAccounted'
  <2> SUFFICES ASSUME ~tainted'.wallet, tainted'.requests = {} PROVE Accounted'
    BY DEF FundsAccounted
  <2>1. Accounted
    BY <1>0, WasAccounted
  <2>2. wallet' = wallet /\ request' = request /\ byHand' = byHand /\ ledger' = ledger
    BY <1>2 DEF CheckKey, rows, history
  <2>3. Held' = Held /\ PaidOut' = PaidOut
    BY <2>2, SameSets
  <2> QED
    BY <2>1, <2>2, <2>3 DEF Accounted
<1>3. ASSUME NEW s \in Session, NEW a \in Sums, Credit(s, a) PROVE FundsAccounted'
  <2> SUFFICES ASSUME ~tainted'.wallet, tainted'.requests = {} PROVE Accounted'
    BY DEF FundsAccounted
  <2>1. Accounted
    BY <1>0, WasAccounted
  <2>2. /\ Taint(StaleWallet(s), {}, SharedKeys(s))
        /\ wallet' = Credited(session[s].copy, a)
        /\ Booked("in", a)
        /\ request' = request /\ byHand' = byHand /\ byHand' = byHand
        /\ TRUE
    BY <1>3 DEF Credit
  <2>3. session[s].copy = wallet /\ a \in Nat /\ wallet \in WalletRow
    <3>1. StaleWallet(s) \in BOOLEAN /\ SharedKeys(s) \in SUBSET Key
      BY TaintedKinds
    <3>2. Taint(StaleWallet(s), {}, SharedKeys(s)) /\ {} \in SUBSET Request
      BY <2>2
    <3>3. ~StaleWallet(s)
      BY <3>1, <3>2, CleanCall
    <3> QED
      BY <3>3, SumsAssumption DEF StaleWallet, TypeOK
  <2>4. ledger' = [ledger EXCEPT !.in = @ + a]
        /\ ledger \in [in : Nat, out : Nat, sent : Nat, parked : Nat, restored : Nat]
    BY <2>2 DEF Booked, TypeOK
  <2>5. wallet' = Credited(wallet, a)
    BY <2>2, <2>3
  <2>6. Held' = Held /\ PaidOut' = PaidOut
    BY <2>2, SameSets
  <2>7. /\ wallet'.current = wallet.current + a /\ wallet'.pending = wallet.pending
        /\ wallet'.frozen = wallet.frozen /\ wallet'.withdrawn = wallet.withdrawn
    <3>1. TRUE
      BY <2>2, <2>3
    <3> QED
      BY <2>3, <2>5, <3>1, CreditedRow
  <2> QED
    BY <2>1, <2>2, <2>3, <2>4, <2>6, <2>7, WalletColumns, SumsHeld DEF Accounted
<1>4. ASSUME NEW s \in Session, NEW a \in Sums, InstantPayout(s, a) PROVE FundsAccounted'
  <2> SUFFICES ASSUME ~tainted'.wallet, tainted'.requests = {} PROVE Accounted'
    BY DEF FundsAccounted
  <2>1. Accounted
    BY <1>0, WasAccounted
  <2>2. /\ Taint(StaleWallet(s), {}, {})
        /\ wallet' = Debited(session[s].copy, a)
        /\ Booked("parked", a)
        /\ request' = request /\ byHand' = byHand /\ byHand' = byHand
        /\ Debitable(session[s].copy, a)
    BY <1>4 DEF InstantPayout, Debit
  <2>3. session[s].copy = wallet /\ a \in Nat /\ wallet \in WalletRow
    <3>1. StaleWallet(s) \in BOOLEAN /\ {} \in SUBSET Key
      BY TaintedKinds
    <3>2. Taint(StaleWallet(s), {}, {}) /\ {} \in SUBSET Request
      BY <2>2
    <3>3. ~StaleWallet(s)
      BY <3>1, <3>2, CleanCall
    <3> QED
      BY <3>3, SumsAssumption DEF StaleWallet, TypeOK
  <2>4. ledger' = [ledger EXCEPT !.parked = @ + a]
        /\ ledger \in [in : Nat, out : Nat, sent : Nat, parked : Nat, restored : Nat]
    BY <2>2 DEF Booked, TypeOK
  <2>5. wallet' = Debited(wallet, a)
    BY <2>2, <2>3
  <2>6. Held' = Held /\ PaidOut' = PaidOut
    BY <2>2, SameSets
  <2>7. /\ wallet'.current = wallet.current - a /\ wallet'.pending = wallet.pending + a
        /\ wallet'.frozen = wallet.frozen /\ wallet'.withdrawn = wallet.withdrawn
    <3>1. Debitable(wallet, a)
      BY <2>2, <2>3
    <3> QED
      BY <2>3, <2>5, <3>1, DebitedRow
  <2> QED
    BY <2>1, <2>2, <2>3, <2>4, <2>6, <2>7, WalletColumns, SumsHeld DEF Accounted
<1>5. ASSUME NEW s \in Session, NEW a \in Sums, Transfer(s, a) PROVE FundsAccounted'
  <2> SUFFICES ASSUME ~tainted'.wallet, tainted'.requests = {} PROVE Accounted'
    BY DEF FundsAccounted
  <2>1. Accounted
    BY <1>0, WasAccounted
  <2>2. /\ Taint(StaleWallet(s), {}, {})
        /\ wallet' = Sent(session[s].copy, a)
        /\ Booked("sent", a)
        /\ request' = request /\ byHand' = byHand /\ byHand' = byHand
        /\ Debitable(session[s].copy, a)
    BY <1>5 DEF Transfer, Debit
  <2>3. session[s].copy = wallet /\ a \in Nat /\ wallet \in WalletRow
    <3>1. StaleWallet(s) \in BOOLEAN /\ {} \in SUBSET Key
      BY TaintedKinds
    <3>2. Taint(StaleWallet(s), {}, {}) /\ {} \in SUBSET Request
      BY <2>2
    <3>3. ~StaleWallet(s)
      BY <3>1, <3>2, CleanCall
    <3> QED
      BY <3>3, SumsAssumption DEF StaleWallet, TypeOK
  <2>4. ledger' = [ledger EXCEPT !.sent = @ + a]
        /\ ledger \in [in : Nat, out : Nat, sent : Nat, parked : Nat, restored : Nat]
    BY <2>2 DEF Booked, TypeOK
  <2>5. wallet' = Sent(wallet, a)
    BY <2>2, <2>3
  <2>6. Held' = Held /\ PaidOut' = PaidOut
    BY <2>2, SameSets
  <2>7. /\ wallet'.current = wallet.current - a /\ wallet'.pending = wallet.pending
        /\ wallet'.frozen = wallet.frozen /\ wallet'.withdrawn = wallet.withdrawn + a
    <3>1. Debitable(wallet, a)
      BY <2>2, <2>3
    <3> QED
      BY <2>3, <2>5, <3>1, SentRow
  <2> QED
    BY <2>1, <2>2, <2>3, <2>4, <2>6, <2>7, WalletColumns, SumsHeld DEF Accounted
<1>6. ASSUME NEW s \in Session, NEW a \in Sums, AdminDebit(s, a) PROVE FundsAccounted'
  <2> SUFFICES ASSUME ~tainted'.wallet, tainted'.requests = {} PROVE Accounted'
    BY DEF FundsAccounted
  <2>1. Accounted
    BY <1>0, WasAccounted
  <2>2. /\ Taint(StaleWallet(s), {}, {})
        /\ wallet' = Taken(session[s].copy, a)
        /\ Booked("out", a)
        /\ request' = request /\ byHand' = byHand /\ byHand' = byHand
        /\ a <= session[s].copy.current
    BY <1>6 DEF AdminDebit, Debit
  <2>3. session[s].copy = wallet /\ a \in Nat /\ wallet \in WalletRow
    <3>1. StaleWallet(s) \in BOOLEAN /\ {} \in SUBSET Key
      BY TaintedKinds
    <3>2. Taint(StaleWallet(s), {}, {}) /\ {} \in SUBSET Request
      BY <2>2
    <3>3. ~StaleWallet(s)
      BY <3>1, <3>2, CleanCall
    <3> QED
      BY <3>3, SumsAssumption DEF StaleWallet, TypeOK
  <2>4. ledger' = [ledger EXCEPT !.out = @ + a]
        /\ ledger \in [in : Nat, out : Nat, sent : Nat, parked : Nat, restored : Nat]
    BY <2>2 DEF Booked, TypeOK
  <2>5. wallet' = Taken(wallet, a)
    BY <2>2, <2>3
  <2>6. Held' = Held /\ PaidOut' = PaidOut
    BY <2>2, SameSets
  <2>7. /\ wallet'.current = wallet.current - a /\ wallet'.pending = wallet.pending
        /\ wallet'.frozen = wallet.frozen /\ wallet'.withdrawn = wallet.withdrawn
    <3>1. a <= wallet.current
      BY <2>2, <2>3
    <3> QED
      BY <2>3, <2>5, <3>1, TakenRow
  <2> QED
    BY <2>1, <2>2, <2>3, <2>4, <2>6, <2>7, WalletColumns, SumsHeld DEF Accounted
<1>7. ASSUME NEW s \in Session, NEW a \in Sums, Freeze(s, a) PROVE FundsAccounted'
  <2> SUFFICES ASSUME ~tainted'.wallet, tainted'.requests = {} PROVE Accounted'
    BY DEF FundsAccounted
  <2>1. Accounted
    BY <1>0, WasAccounted
  <2>2. /\ Taint(StaleWallet(s), {}, {})
        /\ wallet' = Frozen(session[s].copy, a)
        /\ ledger' = ledger
        /\ request' = request /\ byHand' = byHand /\ byHand' = byHand
        /\ a <= session[s].copy.current
    BY <1>7 DEF Freeze
  <2>3. session[s].copy = wallet /\ a \in Nat /\ wallet \in WalletRow
    <3>1. StaleWallet(s) \in BOOLEAN /\ {} \in SUBSET Key
      BY TaintedKinds
    <3>2. Taint(StaleWallet(s), {}, {}) /\ {} \in SUBSET Request
      BY <2>2
    <3>3. ~StaleWallet(s)
      BY <3>1, <3>2, CleanCall
    <3> QED
      BY <3>3, SumsAssumption DEF StaleWallet, TypeOK
  <2>4. ledger' = ledger /\ ledger \in [in : Nat, out : Nat, sent : Nat, parked : Nat, restored : Nat]
    BY <2>2 DEF TypeOK
  <2>5. wallet' = Frozen(wallet, a)
    BY <2>2, <2>3
  <2>6. Held' = Held /\ PaidOut' = PaidOut
    BY <2>2, SameSets
  <2>7. /\ wallet'.current = wallet.current - a /\ wallet'.pending = wallet.pending
        /\ wallet'.frozen = wallet.frozen + a /\ wallet'.withdrawn = wallet.withdrawn
    <3>1. a <= wallet.current
      BY <2>2, <2>3
    <3> QED
      BY <2>3, <2>5, <3>1, FrozenRow
  <2> QED
    BY <2>1, <2>2, <2>3, <2>4, <2>6, <2>7, WalletColumns, SumsHeld DEF Accounted
<1>8. ASSUME NEW s \in Session, NEW a \in Sums, Unfreeze(s, a) PROVE FundsAccounted'
  <2> SUFFICES ASSUME ~tainted'.wallet, tainted'.requests = {} PROVE Accounted'
    BY DEF FundsAccounted
  <2>1. Accounted
    BY <1>0, WasAccounted
  <2>2. /\ Taint(StaleWallet(s), {}, {})
        /\ wallet' = Unfrozen(session[s].copy, a)
        /\ ledger' = ledger
        /\ request' = request /\ byHand' = byHand /\ byHand' = byHand
        /\ a <= session[s].copy.frozen
    BY <1>8 DEF Unfreeze
  <2>3. session[s].copy = wallet /\ a \in Nat /\ wallet \in WalletRow
    <3>1. StaleWallet(s) \in BOOLEAN /\ {} \in SUBSET Key
      BY TaintedKinds
    <3>2. Taint(StaleWallet(s), {}, {}) /\ {} \in SUBSET Request
      BY <2>2
    <3>3. ~StaleWallet(s)
      BY <3>1, <3>2, CleanCall
    <3> QED
      BY <3>3, SumsAssumption DEF StaleWallet, TypeOK
  <2>4. ledger' = ledger /\ ledger \in [in : Nat, out : Nat, sent : Nat, parked : Nat, restored : Nat]
    BY <2>2 DEF TypeOK
  <2>5. wallet' = Unfrozen(wallet, a)
    BY <2>2, <2>3
  <2>6. Held' = Held /\ PaidOut' = PaidOut
    BY <2>2, SameSets
  <2>7. /\ wallet'.current = wallet.current + a /\ wallet'.pending = wallet.pending
        /\ wallet'.frozen = wallet.frozen - a /\ wallet'.withdrawn = wallet.withdrawn
    <3>1. a <= wallet.frozen
      BY <2>2, <2>3
    <3> QED
      BY <2>3, <2>5, <3>1, UnfrozenRow
  <2> QED
    BY <2>1, <2>2, <2>3, <2>4, <2>6, <2>7, WalletColumns, SumsHeld DEF Accounted
<1>9. ASSUME NEW s \in Session, NEW r \in Request, Withdraw(s, r) PROVE FundsAccounted'
  <2> SUFFICES ASSUME ~tainted'.wallet, tainted'.requests = {} PROVE Accounted'
    BY DEF FundsAccounted
  <2>1. Accounted
    BY <1>0, WasAccounted
  <2>2. /\ Taint(StaleWallet(s), {}, {})
        /\ wallet' = Debited(session[s].copy, Amount)
        /\ Debitable(session[s].copy, Amount)
        /\ request' = SetRow({r}, "PENDING", "PENDING")
        /\ request[r].status = "ABSENT"
        /\ ledger' = ledger /\ byHand' = byHand
    BY <1>9 DEF Withdraw
  <2>3. session[s].copy = wallet /\ Amount \in Nat /\ wallet \in WalletRow
    <3>1. StaleWallet(s) \in BOOLEAN
      BY TaintedKinds
    <3>2. Taint(StaleWallet(s), {}, {}) /\ {} \in SUBSET Request /\ {} \in SUBSET Key
      BY <2>2
    <3>3. ~StaleWallet(s)
      BY <3>1, <3>2, CleanCall
    <3> QED
      BY <3>3, AmountAssumption DEF StaleWallet, TypeOK
  <2>4. \A q \in Request : request'[q].status = IF q = r THEN "PENDING" ELSE request[q].status
    <3>1. "PENDING" \in Status /\ "PENDING" \in TransactionStatus /\ {r} \in SUBSET Request
      BY DEF Status, TransactionStatus
    <3>2. request' = SetRow({r}, "PENDING", "PENDING")
      BY <2>2
    <3> QED
      BY <3>1, <3>2, RequestRows DEF Status, TransactionStatus
  <2>5. Held' = Held \cup {r} /\ PaidOut' = PaidOut /\ r \notin Held
    <3>1. r \notin byHand
      BY <1>0, <2>2, ClosedByHand
    <3> QED
      BY <2>2, <2>4, <3>1 DEF Held, PaidOut
  <2>6. Amount * Cardinality(Held') = Amount * Cardinality(Held) + Amount
    <3>1. Held \in SUBSET Request
      BY DEF Held, TypeOK
    <3> QED
      BY <2>5, <3>1, OneMore
  <2>7. ledger \in [in : Nat, out : Nat, sent : Nat, parked : Nat, restored : Nat] /\ wallet' = Debited(wallet, Amount)
    BY <2>2, <2>3 DEF TypeOK
  <2> QED
    BY <2>1, <2>2, <2>3, <2>5, <2>6, <2>7, WalletColumns, DebitedRow, SumsHeld DEF Accounted
<1>10. ASSUME NEW s \in Session, NEW r \in Request, ReadRequest(s, r) PROVE FundsAccounted'
  <2> SUFFICES ASSUME ~tainted'.wallet, tainted'.requests = {} PROVE Accounted'
    BY DEF FundsAccounted
  <2>1. Accounted
    BY <1>0, WasAccounted
  <2>2. wallet' = wallet /\ request' = request /\ byHand' = byHand /\ ledger' = ledger
    BY <1>10 DEF ReadRequest, rows, history
  <2>3. Held' = Held /\ PaidOut' = PaidOut
    BY <2>2, SameSets
  <2> QED
    BY <2>1, <2>2, <2>3 DEF Accounted
<1>11. ASSUME NEW s \in Session, NEW r \in Request, FetchRelated(s, r) PROVE FundsAccounted'
  <2> SUFFICES ASSUME ~tainted'.wallet, tainted'.requests = {} PROVE Accounted'
    BY DEF FundsAccounted
  <2>1. Accounted
    BY <1>0, WasAccounted
  <2>2. wallet' = wallet /\ request' = request /\ byHand' = byHand /\ ledger' = ledger
    BY <1>11 DEF FetchRelated, rows, history
  <2>3. Held' = Held /\ PaidOut' = PaidOut
    BY <2>2, SameSets
  <2> QED
    BY <2>1, <2>2, <2>3 DEF Accounted
<1>12. ASSUME NEW s \in Session, Approve(s) PROVE FundsAccounted'
  <2> DEFINE on == session[s].on
  <2> SUFFICES ASSUME ~tainted'.wallet, tainted'.requests = {} PROVE Accounted'
    BY DEF FundsAccounted
  <2>1. Accounted
    BY <1>0, WasAccounted
  <2>2. /\ Taint(FALSE, StaleRequests(s), {})
        /\ wallet' = wallet
        /\ request' = SetRow(on, "APPROVED", "APPROVED")
        /\ ledger' = ledger /\ byHand' = byHand
        /\ session[s].seen = "PENDING"
    BY <1>12 DEF Approve
  <2>3. /\ StaleRequests(s) = {} /\ wallet \in WalletRow
        /\ TRUE
    <3>1. FALSE \in BOOLEAN /\ StaleRequests(s) \in SUBSET Request
      BY TaintedKinds
    <3>2. Taint(FALSE, StaleRequests(s), {}) /\ {} \in SUBSET Key
      BY <2>2
    <3>3. ~FALSE /\ StaleRequests(s) = {}
      BY <3>1, <3>2, CleanCall
    <3> QED
      BY <3>3 DEF StaleWallet, TypeOK
  <2>4. PICK q \in Request : on = {q}
    BY <1>12 DEF Approve, Has, Copies, Sound
  <2>5. request[q].status = session[s].seen
    BY <2>3, <2>4 DEF StaleRequests
  <2>6. \A r \in Request : request'[r].status = IF r = q THEN "APPROVED" ELSE request[r].status
    <3>1. "APPROVED" \in Status /\ "APPROVED" \in TransactionStatus /\ on \in SUBSET Request
      BY <2>4 DEF Status, TransactionStatus
    <3>2. request' = SetRow(on, "APPROVED", "APPROVED")
      BY <2>2
    <3>3. \A r \in Request : request'[r].status = IF r \in on THEN "APPROVED" ELSE request[r].status
      BY <3>1, <3>2, RequestRows DEF Status, TransactionStatus
    <3> QED
      BY <2>4, <3>3
  <2>7. Held' = Held /\ PaidOut' = PaidOut
    BY <2>2, <2>5, <2>6, SameSets
  <2> QED
    BY <2>1, <2>2, <2>7 DEF Accounted
<1>13. ASSUME NEW s \in Session, Reject(s) PROVE FundsAccounted'
  <2> DEFINE on == session[s].on
  <2> SUFFICES ASSUME ~tainted'.wallet, tainted'.requests = {} PROVE Accounted'
    BY DEF FundsAccounted
  <2>1. Accounted
    BY <1>0, WasAccounted
  <2>2. /\ Taint(StaleWallet(s), StaleRequests(s), {})
        /\ wallet' = Returned(session[s].copy)
        /\ request' = SetRow(on, "REJECTED", "REJECTED")
        /\ ledger' = ledger /\ byHand' = byHand
        /\ session[s].seen \in {"PENDING", "APPROVED"}
    BY <1>13 DEF Reject, Rejectable
  <2>3. /\ StaleRequests(s) = {} /\ wallet \in WalletRow
        /\ session[s].copy = wallet
    <3>1. StaleWallet(s) \in BOOLEAN /\ StaleRequests(s) \in SUBSET Request
      BY TaintedKinds
    <3>2. Taint(StaleWallet(s), StaleRequests(s), {}) /\ {} \in SUBSET Key
      BY <2>2
    <3>3. ~StaleWallet(s) /\ StaleRequests(s) = {}
      BY <3>1, <3>2, CleanCall
    <3> QED
      BY <3>3 DEF StaleWallet, TypeOK
  <2>4. PICK q \in Request : on = {q}
    BY <1>13 DEF Reject, Has, Copies, Sound
  <2>5. request[q].status = session[s].seen
    BY <2>3, <2>4 DEF StaleRequests
  <2>6. \A r \in Request : request'[r].status = IF r = q THEN "REJECTED" ELSE request[r].status
    <3>1. "REJECTED" \in Status /\ "REJECTED" \in TransactionStatus /\ on \in SUBSET Request
      BY <2>4 DEF Status, TransactionStatus
    <3>2. request' = SetRow(on, "REJECTED", "REJECTED")
      BY <2>2
    <3>3. \A r \in Request : request'[r].status = IF r \in on THEN "REJECTED" ELSE request[r].status
      BY <3>1, <3>2, RequestRows DEF Status, TransactionStatus
    <3> QED
      BY <2>4, <3>3
  <2>7. /\ q \in Held /\ Held' = Held \ {q}
        /\ PaidOut' = PaidOut
    <3>1. q \notin byHand
      BY <1>0, <2>2, <2>5, ClosedByHand
    <3> QED
      BY <2>2, <2>5, <2>6, <3>1 DEF Held, PaidOut
  <2>8. Amount * Cardinality(Held) = Amount * Cardinality(Held') + Amount
    <3>1. Held \ {q} \in SUBSET Request /\ q \notin Held \ {q} /\ (Held \ {q}) \cup {q} = Held
      BY <2>7 DEF Held, TypeOK
    <3> QED
      BY <2>7, <3>1, OneMore
  <2>9. /\ ledger \in [in : Nat, out : Nat, sent : Nat, parked : Nat, restored : Nat]
        /\ wallet' = Returned(wallet) /\ Amount \in Nat /\ Amount * Cardinality(Held') \in Nat
    <3>1. Held \ {q} \in SUBSET Request /\ q \notin Held \ {q}
      BY DEF Held, TypeOK
    <3> QED
      BY <2>2, <2>3, <2>7, <3>1, OneMore, AmountAssumption DEF TypeOK
  <2>10. wallet.pending >= Amount /\ Less(wallet.pending, Amount) = wallet.pending - Amount
    BY <2>1, <2>3, <2>8, <2>9, WalletColumns, LessFacts DEF Accounted
  <2> QED
    BY <2>1, <2>2, <2>3, <2>7, <2>8, <2>9, <2>10, WalletColumns, ReturnedRow, SumsHeld
    DEF Accounted
<1>14. ASSUME NEW s \in Session, Cancel(s) PROVE FundsAccounted'
  <2> DEFINE on    == session[s].on
             again == {r \in on : session[s].seen = "CANCELLED"}
  <2> SUFFICES ASSUME ~tainted'.wallet, tainted'.requests = {} PROVE Accounted'
    BY DEF FundsAccounted
  <2>1. Accounted
    BY <1>0, WasAccounted
  <2>2. /\ Taint(StaleWallet(s), (StaleRequests(s) \cup again), {})
        /\ wallet' = Returned(session[s].copy)
        /\ request' = SetStatus(on, "CANCELLED")
        /\ ledger' = ledger /\ byHand' = byHand
        /\ session[s].seen \notin {"COMPLETED", "REJECTED"}
    BY <1>14 DEF Cancel, Cancellable
  <2>3. /\ (StaleRequests(s) \cup again) = {} /\ wallet \in WalletRow
        /\ session[s].copy = wallet
    <3>1. StaleWallet(s) \in BOOLEAN /\ (StaleRequests(s) \cup again) \in SUBSET Request
      BY TaintedKinds
    <3>2. Taint(StaleWallet(s), (StaleRequests(s) \cup again), {}) /\ {} \in SUBSET Key
      BY <2>2
    <3>3. ~StaleWallet(s) /\ (StaleRequests(s) \cup again) = {}
      BY <3>1, <3>2, CleanCall
    <3> QED
      BY <3>3 DEF StaleWallet, TypeOK
  <2>4. PICK q \in Request : on = {q}
    BY <1>14 DEF Cancel, Has, Copies, Sound
  <2>5. request[q].status = session[s].seen /\ session[s].seen \notin {"CANCELLED", "ABSENT"}
    BY <1>14, <2>3, <2>4 DEF StaleRequests, Cancel, Has, Copies, Sound
  <2>6. \A r \in Request : request'[r].status = IF r = q THEN "CANCELLED" ELSE request[r].status
    <3>1. "CANCELLED" \in Status /\ "PENDING" \in TransactionStatus /\ on \in SUBSET Request
      BY <2>4 DEF Status, TransactionStatus
    <3>2. request' = SetStatus(on, "CANCELLED")
      BY <2>2
    <3>3. \A r \in Request : request'[r].status = IF r \in on THEN "CANCELLED" ELSE request[r].status
      BY <3>1, <3>2, RequestRows DEF Status, TransactionStatus
    <3> QED
      BY <2>4, <3>3
  <2>7. /\ q \in Held /\ Held' = Held \ {q}
        /\ PaidOut' = PaidOut
    <3>1. q \notin byHand
      BY <1>0, <2>2, <2>5, ClosedByHand
    <3>2. request[q].status \in {"PENDING", "APPROVED", "BATCHED", "FAILED"}
      BY <2>2, <2>5 DEF TypeOK, RequestRow, Status
    <3> QED
      BY <2>2, <2>6, <3>1, <3>2 DEF Held, PaidOut
  <2>8. Amount * Cardinality(Held) = Amount * Cardinality(Held') + Amount
    <3>1. Held \ {q} \in SUBSET Request /\ q \notin Held \ {q} /\ (Held \ {q}) \cup {q} = Held
      BY <2>7 DEF Held, TypeOK
    <3> QED
      BY <2>7, <3>1, OneMore
  <2>9. /\ ledger \in [in : Nat, out : Nat, sent : Nat, parked : Nat, restored : Nat]
        /\ wallet' = Returned(wallet) /\ Amount \in Nat /\ Amount * Cardinality(Held') \in Nat
    <3>1. Held \ {q} \in SUBSET Request /\ q \notin Held \ {q}
      BY DEF Held, TypeOK
    <3> QED
      BY <2>2, <2>3, <2>7, <3>1, OneMore, AmountAssumption DEF TypeOK
  <2>10. wallet.pending >= Amount /\ Less(wallet.pending, Amount) = wallet.pending - Amount
    BY <2>1, <2>3, <2>8, <2>9, WalletColumns, LessFacts DEF Accounted
  <2> QED
    BY <2>1, <2>2, <2>3, <2>7, <2>8, <2>9, <2>10, WalletColumns, ReturnedRow, SumsHeld
    DEF Accounted
<1>15. ASSUME NEW s \in Session, Complete(s) PROVE FundsAccounted'
  <2> DEFINE on == session[s].on
  <2> SUFFICES ASSUME ~tainted'.wallet, tainted'.requests = {} PROVE Accounted'
    BY DEF FundsAccounted
  <2>1. Accounted
    BY <1>0, WasAccounted
  <2>2. /\ Taint(StaleWallet(s), StaleRequests(s), {})
        /\ wallet' = Paid(session[s].copy)
        /\ request' = SetRow(on, "COMPLETED", "COMPLETED")
        /\ ledger' = ledger /\ byHand' = byHand
        /\ session[s].seen = "APPROVED"
    BY <1>15 DEF Complete, Completable
  <2>3. /\ StaleRequests(s) = {} /\ wallet \in WalletRow
        /\ session[s].copy = wallet
    <3>1. StaleWallet(s) \in BOOLEAN /\ StaleRequests(s) \in SUBSET Request
      BY TaintedKinds
    <3>2. Taint(StaleWallet(s), StaleRequests(s), {}) /\ {} \in SUBSET Key
      BY <2>2
    <3>3. ~StaleWallet(s) /\ StaleRequests(s) = {}
      BY <3>1, <3>2, CleanCall
    <3> QED
      BY <3>3 DEF StaleWallet, TypeOK
  <2>4. PICK q \in Request : on = {q}
    BY <1>15 DEF Complete, Has, Copies, Sound
  <2>5. request[q].status = session[s].seen
    BY <2>3, <2>4 DEF StaleRequests
  <2>6. \A r \in Request : request'[r].status = IF r = q THEN "COMPLETED" ELSE request[r].status
    <3>1. "COMPLETED" \in Status /\ "COMPLETED" \in TransactionStatus /\ on \in SUBSET Request
      BY <2>4 DEF Status, TransactionStatus
    <3>2. request' = SetRow(on, "COMPLETED", "COMPLETED")
      BY <2>2
    <3>3. \A r \in Request : request'[r].status = IF r \in on THEN "COMPLETED" ELSE request[r].status
      BY <3>1, <3>2, RequestRows DEF Status, TransactionStatus
    <3> QED
      BY <2>4, <3>3
  <2>7. /\ q \in Held /\ Held' = Held \ {q}
        /\ q \notin PaidOut /\ PaidOut' = PaidOut \cup {q}
    <3>1. q \notin byHand
      BY <1>0, <2>2, <2>5, ClosedByHand
    <3> QED
      BY <2>2, <2>5, <2>6, <3>1 DEF Held, PaidOut
  <2>8. Amount * Cardinality(Held) = Amount * Cardinality(Held') + Amount
    <3>1. Held \ {q} \in SUBSET Request /\ q \notin Held \ {q} /\ (Held \ {q}) \cup {q} = Held
      BY <2>7 DEF Held, TypeOK
    <3> QED
      BY <2>7, <3>1, OneMore
  <2>9. Amount * Cardinality(PaidOut') = Amount * Cardinality(PaidOut) + Amount
    <3>1. PaidOut \in SUBSET Request
      BY DEF PaidOut
    <3> QED
      BY <2>7, <3>1, OneMore
  <2>10. /\ ledger \in [in : Nat, out : Nat, sent : Nat, parked : Nat, restored : Nat]
        /\ wallet' = Paid(wallet) /\ Amount \in Nat /\ Amount * Cardinality(Held') \in Nat
    <3>1. Held \ {q} \in SUBSET Request /\ q \notin Held \ {q}
      BY DEF Held, TypeOK
    <3> QED
      BY <2>2, <2>3, <2>7, <3>1, OneMore, AmountAssumption DEF TypeOK
  <2>11. wallet.pending >= Amount /\ Less(wallet.pending, Amount) = wallet.pending - Amount
    BY <2>1, <2>3, <2>8, <2>10, WalletColumns, LessFacts DEF Accounted
  <2> QED
    BY <2>1, <2>2, <2>3, <2>7, <2>8, <2>9, <2>10, <2>11, WalletColumns, PaidRow, SumsHeld
    DEF Accounted
<1>16. ASSUME NEW s \in Session, DispatchFails(s) PROVE FundsAccounted'
  <2> DEFINE on == session[s].on
  <2> SUFFICES ASSUME ~tainted'.wallet, tainted'.requests = {} PROVE Accounted'
    BY DEF FundsAccounted
  <2>1. Accounted
    BY <1>0, WasAccounted
  <2>2. /\ Taint(FALSE, StaleRequests(s), {})
        /\ wallet' = wallet
        /\ request' = SetStatus(on, "FAILED")
        /\ ledger' = ledger /\ byHand' = byHand
        /\ session[s].seen = "APPROVED"
    BY <1>16 DEF DispatchFails
  <2>3. /\ StaleRequests(s) = {} /\ wallet \in WalletRow
        /\ TRUE
    <3>1. FALSE \in BOOLEAN /\ StaleRequests(s) \in SUBSET Request
      BY TaintedKinds
    <3>2. Taint(FALSE, StaleRequests(s), {}) /\ {} \in SUBSET Key
      BY <2>2
    <3>3. ~FALSE /\ StaleRequests(s) = {}
      BY <3>1, <3>2, CleanCall
    <3> QED
      BY <3>3 DEF StaleWallet, TypeOK
  <2>4. PICK q \in Request : on = {q}
    BY <1>16 DEF DispatchFails, Has, Copies, Sound
  <2>5. request[q].status = session[s].seen
    BY <2>3, <2>4 DEF StaleRequests
  <2>6. \A r \in Request : request'[r].status = IF r = q THEN "FAILED" ELSE request[r].status
    <3>1. "FAILED" \in Status /\ "PENDING" \in TransactionStatus /\ on \in SUBSET Request
      BY <2>4 DEF Status, TransactionStatus
    <3>2. request' = SetStatus(on, "FAILED")
      BY <2>2
    <3>3. \A r \in Request : request'[r].status = IF r \in on THEN "FAILED" ELSE request[r].status
      BY <3>1, <3>2, RequestRows DEF Status, TransactionStatus
    <3> QED
      BY <2>4, <3>3
  <2>7. Held' = Held /\ PaidOut' = PaidOut
    BY <2>2, <2>5, <2>6, SameSets
  <2> QED
    BY <2>1, <2>2, <2>7 DEF Accounted
<1>17. ASSUME NEW s \in Session, Refused(s) PROVE FundsAccounted'
  <2> SUFFICES ASSUME ~tainted'.wallet, tainted'.requests = {} PROVE Accounted'
    BY DEF FundsAccounted
  <2>1. Accounted
    BY <1>0, WasAccounted
  <2>2. wallet' = wallet /\ request' = request /\ byHand' = byHand /\ ledger' = ledger
    BY <1>17 DEF Refused, rows, history
  <2>3. Held' = Held /\ PaidOut' = PaidOut
    BY <2>2, SameSets
  <2> QED
    BY <2>1, <2>2, <2>3 DEF Accounted
<1>18. ASSUME NEW s \in Session, NEW b \in Batch, ReadBatch(s, b) PROVE FundsAccounted'
  <2> SUFFICES ASSUME ~tainted'.wallet, tainted'.requests = {} PROVE Accounted'
    BY DEF FundsAccounted
  <2>1. Accounted
    BY <1>0, WasAccounted
  <2>2. wallet' = wallet /\ request' = request /\ byHand' = byHand /\ ledger' = ledger
    BY <1>18 DEF ReadBatch, rows, history
  <2>3. Held' = Held /\ PaidOut' = PaidOut
    BY <2>2, SameSets
  <2> QED
    BY <2>1, <2>2, <2>3 DEF Accounted
<1>19. ASSUME NEW s \in Session, ProcessBatch(s) PROVE FundsAccounted'
  <2> SUFFICES ASSUME ~tainted'.wallet, tainted'.requests = {} PROVE Accounted'
    BY DEF FundsAccounted
  <2>1. Accounted
    BY <1>0, WasAccounted
  <2>2. /\ Taint(FALSE, StaleRequests(s), {}) /\ ledger' = ledger /\ byHand' = byHand
        /\ session[s].seen = "BATCHED"
    BY <1>19 DEF ProcessBatch, Has, Copies, Sound
  <2>3. {r \in session[s].on : Completable(session[s].seen)} = {}
    BY <2>2 DEF Completable
  <2>4. request' = [r \in Request |-> IF r \in session[s].on THEN [request[r] EXCEPT !.status = "FAILED"]
                                                             ELSE request[r]]
    BY <1>19, <2>3 DEF ProcessBatch
  <2>5. StaleRequests(s) = {}
    <3>1. FALSE \in BOOLEAN /\ StaleRequests(s) \in SUBSET Request /\ {} \in SUBSET Key
      BY TaintedKinds
    <3>2. Taint(FALSE, StaleRequests(s), {})
      BY <2>2
    <3> QED
      BY <3>1, <3>2, CleanCall
  <2>6. \A r \in Request : [request[r] EXCEPT !.status = "FAILED"].status = "FAILED"
    <3>1. \A r \in Request : request[r] \in RequestRow
      BY DEF TypeOK
    <3> QED
      BY <3>1 DEF RequestRow
  <2>7. \A r \in session[s].on : request[r].status = "BATCHED"
    BY <2>2, <2>5 DEF StaleRequests
  <2>8. \A r \in Request : \/ request'[r].status = request[r].status
                           \/ request[r].status = "BATCHED" /\ request'[r].status = "FAILED"
    <3>1. ASSUME NEW r \in Request, r \in session[s].on
          PROVE  request[r].status = "BATCHED" /\ request'[r].status = "FAILED"
      BY <2>4, <2>6, <2>7, <3>1
    <3>2. ASSUME NEW r \in Request, r \notin session[s].on
          PROVE  request'[r].status = request[r].status
      BY <2>4, <3>2
    <3> QED
      BY <3>1, <3>2
  <2>9. Held' = Held /\ PaidOut' = PaidOut
    BY <2>2, <2>8, SameSets
  <2> QED
    BY <1>19, <2>1, <2>2, <2>9, BatchPaysNothing DEF Accounted
<1>20. ASSUME NEW k \in Key, ExpireKey(k) PROVE FundsAccounted'
  <2> SUFFICES ASSUME ~tainted'.wallet, tainted'.requests = {} PROVE Accounted'
    BY DEF FundsAccounted
  <2>1. Accounted
    BY <1>0, WasAccounted
  <2>2. wallet' = wallet /\ request' = request /\ byHand' = byHand /\ ledger' = ledger
    BY <1>20 DEF ExpireKey
  <2>3. Held' = Held /\ PaidOut' = PaidOut
    BY <2>2, SameSets
  <2> QED
    BY <2>1, <2>2, <2>3 DEF Accounted
<1>21. ASSUME NEW locked \in BOOLEAN, SetLocked(locked) PROVE FundsAccounted'
  <2> SUFFICES ASSUME ~tainted'.wallet, tainted'.requests = {} PROVE Accounted'
    BY DEF FundsAccounted
  <2>1. Accounted
    BY <1>0, WasAccounted
  <2>2. /\ wallet' = [wallet EXCEPT !.locked = locked]
        /\ ledger' = ledger /\ request' = request /\ byHand' = byHand
        /\ wallet \in WalletRow
    BY <1>21 DEF SetLocked, history, TypeOK
  <2>3. Held' = Held /\ PaidOut' = PaidOut
    BY <2>2, SameSets
  <2>4. /\ wallet'.current = wallet.current /\ wallet'.pending = wallet.pending
        /\ wallet'.frozen = wallet.frozen /\ wallet'.withdrawn = wallet.withdrawn
    BY <2>2 DEF WalletRow
  <2> QED
    BY <2>1, <2>2, <2>3, <2>4 DEF Accounted
<1>22. ASSUME NEW b \in Batch, NEW ids \in SUBSET Request, CreateBatch(b, ids)
       PROVE  FundsAccounted'
  <2> SUFFICES ASSUME ~tainted'.wallet, tainted'.requests = {} PROVE Accounted'
    BY DEF FundsAccounted
  <2>1. Accounted
    BY <1>0, WasAccounted
  <2>2. /\ wallet' = wallet /\ ledger' = ledger /\ byHand' = byHand
        /\ \A r \in Request : \/ request'[r] = request[r]
                              \/ /\ request[r].status = "APPROVED"
                                 /\ request'[r] = [request[r] EXCEPT !.status = "BATCHED", !.batch = b]
    BY <1>22 DEF CreateBatch, history
  <2>3. \A r \in Request : [request[r] EXCEPT !.status = "BATCHED", !.batch = b].status = "BATCHED"
    <3>1. \A r \in Request : request[r] \in RequestRow
      BY DEF TypeOK
    <3>2. \A r \in Request : [request[r] EXCEPT !.status = "BATCHED"] \in RequestRow
      BY <3>1 DEF RequestRow, Status
    <3> QED
      BY <3>1, <3>2 DEF RequestRow
  <2>4. Held' = Held /\ PaidOut' = PaidOut
    BY <2>2, <2>3, SameSets
  <2> QED
    BY <2>1, <2>2, <2>4 DEF Accounted
<1>23. CASE UNCHANGED vars
  BY <1>23 DEF vars, rows, history, FundsAccounted, Accounted, Held, PaidOut
<1>24. ASSUME NEW s \in Session, NEW row \in others, Reverse(s, row[1])
       PROVE  FundsAccounted'
  <2> SUFFICES ASSUME ~tainted'.wallet, tainted'.requests = {} PROVE Accounted'
    BY DEF FundsAccounted
  <2>1. Accounted
    BY <1>0, WasAccounted
  <2> DEFINE taken == TakenBack(wallet, row[1])
             given == -row[1]
  <2>2. Taint(StaleWallet(s), {}, {}) /\ request' = request /\ byHand' = byHand
    BY <1>24 DEF Reverse
  <2>3. session[s].copy = wallet /\ wallet \in WalletRow
    <3>1. StaleWallet(s) \in BOOLEAN /\ {} \in SUBSET Key
      BY TaintedKinds
    <3>2. Taint(StaleWallet(s), {}, {}) /\ {} \in SUBSET Request
      BY <2>2
    <3>3. ~StaleWallet(s)
      BY <3>1, <3>2, CleanCall
    <3> QED
      BY <3>3 DEF StaleWallet, TypeOK
  <2>4. \/ taken \in Nat /\ taken <= wallet.current /\ wallet' = Taken(wallet, taken)
           /\ Booked("out", taken)
        \/ given \in Nat /\ wallet' = Credited(wallet, given) /\ Booked("restored", given)
    BY <1>24, <2>3, ReverseFacts
  <2>5. Held' = Held /\ PaidOut' = PaidOut
    BY <2>2, SameSets
  <2>6. ledger \in [in : Nat, out : Nat, sent : Nat, parked : Nat, restored : Nat]
    BY DEF TypeOK
  <2> HIDE DEF taken, given
  <2>7. CASE /\ taken \in Nat /\ taken <= wallet.current /\ wallet' = Taken(wallet, taken)
             /\ Booked("out", taken)
    <3>1. ledger' = [ledger EXCEPT !.out = @ + taken]
      BY <2>7 DEF Booked
    <3>2. /\ wallet'.current = wallet.current - taken /\ wallet'.pending = wallet.pending
          /\ wallet'.frozen = wallet.frozen /\ wallet'.withdrawn = wallet.withdrawn
      BY <2>3, <2>7, TakenRow
    <3> QED
      BY <2>1, <2>3, <2>5, <2>6, <2>7, <3>1, <3>2, WalletColumns, SumsHeld DEF Accounted
  <2>8. CASE given \in Nat /\ wallet' = Credited(wallet, given) /\ Booked("restored", given)
    <3>1. ledger' = [ledger EXCEPT !.restored = @ + given]
      BY <2>8 DEF Booked
    <3>2. /\ wallet'.current = wallet.current + given /\ wallet'.pending = wallet.pending
          /\ wallet'.frozen = wallet.frozen /\ wallet'.withdrawn = wallet.withdrawn
      BY <2>3, <2>8, CreditedRow
    <3> QED
      BY <2>1, <2>3, <2>5, <2>6, <2>8, <3>1, <3>2, WalletColumns, SumsHeld DEF Accounted
  <2> QED
    BY <2>4, <2>7, <2>8
<1>25. ASSUME NEW s \in Session, NEW status \in Endings, EndTransaction(s, status)
       PROVE  FundsAccounted'
  <2> SUFFICES ASSUME ~tainted'.wallet, tainted'.requests = {} PROVE Accounted'
    BY DEF FundsAccounted
  <2>1. Accounted
    BY <1>0, WasAccounted
  <2>2. /\ wallet' = wallet /\ ledger' = ledger /\ byHand' = byHand
        /\ \A r \in Request : request'[r].status = request[r].status
    BY <1>25, EndedRows DEF EndTransaction, history, TypeOK, Call
  <2>3. Held' = Held /\ PaidOut' = PaidOut
    BY <2>2, SameSets
  <2> QED
    BY <2>1, <2>2, <2>3 DEF Accounted
<1>26. ASSUME NEW s \in Session, ReverseWithdrawal(s) PROVE FundsAccounted'
  <2> SUFFICES ASSUME ~tainted'.wallet, tainted'.requests = {} PROVE Accounted'
    BY DEF FundsAccounted
  <2>1. Accounted
    BY <1>0, WasAccounted
  <2>2. /\ Taint(StaleWallet(s), {}, {})
        /\ wallet' = Credited(session[s].copy, Amount)
        /\ Booked("restored", Amount)
        /\ request' = request /\ byHand' = byHand /\ byHand' = byHand
        /\ Amount \in Nat
    BY <1>26, AmountAssumption DEF ReverseWithdrawal
  <2>3. session[s].copy = wallet /\ wallet \in WalletRow
    <3>1. StaleWallet(s) \in BOOLEAN /\ {} \in SUBSET Key
      BY TaintedKinds
    <3>2. Taint(StaleWallet(s), {}, {}) /\ {} \in SUBSET Request
      BY <2>2
    <3>3. ~StaleWallet(s)
      BY <3>1, <3>2, CleanCall
    <3> QED
      BY <3>3 DEF StaleWallet, TypeOK
  <2>4. ledger' = [ledger EXCEPT !.restored = @ + Amount]
        /\ ledger \in [in : Nat, out : Nat, sent : Nat, parked : Nat, restored : Nat]
    BY <2>2 DEF Booked, TypeOK
  <2>5. Held' = Held /\ PaidOut' = PaidOut
    BY <2>2, SameSets
  <2>6. /\ wallet'.current = wallet.current + Amount /\ wallet'.pending = wallet.pending
        /\ wallet'.frozen = wallet.frozen /\ wallet'.withdrawn = wallet.withdrawn
    BY <2>2, <2>3, CreditedRow
  <2> QED
    BY <2>1, <2>2, <2>3, <2>4, <2>5, <2>6, WalletColumns, SumsHeld DEF Accounted
<1>27. ASSUME NEW s \in Session, MarkReversed(s) PROVE FundsAccounted'
  <2> SUFFICES ASSUME ~tainted'.wallet, tainted'.requests = {} PROVE Accounted'
    BY DEF FundsAccounted
  <2>1. Accounted
    BY <1>0, WasAccounted
  <2>2. /\ wallet' = wallet /\ ledger' = ledger /\ byHand' = byHand
        /\ \A r \in Request : request'[r].status = request[r].status
    BY <1>27, MarkedRows DEF MarkReversed, history, TypeOK, Call
  <2>3. Held' = Held /\ PaidOut' = PaidOut
    BY <2>2, SameSets
  <2> QED
    BY <2>1, <2>2, <2>3 DEF Accounted
<1>28. ASSUME NEW a \in Sums, ReserveBalance(a) PROVE FundsAccounted'
  <2> SUFFICES ASSUME ~tainted'.wallet, tainted'.requests = {} PROVE Accounted'
    BY DEF FundsAccounted
  <2>1. Accounted
    BY <1>0, WasAccounted
  <2>2. /\ wallet' = Frozen(wallet, a) /\ ledger' = ledger /\ request' = request /\ byHand' = byHand /\ byHand' = byHand
        /\ a \in Nat /\ wallet \in WalletRow /\ a <= wallet.current
    BY <1>28, SumsAssumption DEF ReserveBalance, history, TypeOK
  <2>3. Held' = Held /\ PaidOut' = PaidOut
    BY <2>2, SameSets
  <2>4. /\ wallet'.current = wallet.current - a /\ wallet'.pending = wallet.pending
        /\ wallet'.frozen = wallet.frozen + a /\ wallet'.withdrawn = wallet.withdrawn
    BY <2>2, FrozenRow
  <2> QED
    BY <2>1, <2>2, <2>3, <2>4, WalletColumns, SumsHeld DEF Accounted
<1>29. ASSUME NEW a \in Sums, ReleaseReserve(a) PROVE FundsAccounted'
  <2> SUFFICES ASSUME ~tainted'.wallet, tainted'.requests = {} PROVE Accounted'
    BY DEF FundsAccounted
  <2>1. Accounted
    BY <1>0, WasAccounted
  <2> DEFINE released == IF a <= wallet.frozen THEN a ELSE wallet.frozen
  <2>2. wallet \in WalletRow /\ released \in Nat /\ released <= wallet.frozen
    BY SumsAssumption, WalletColumns DEF TypeOK
  <2>3. wallet' = Unfrozen(wallet, released) /\ ledger' = ledger /\ request' = request /\ byHand' = byHand /\ byHand' = byHand
    BY <1>29 DEF ReleaseReserve, history
  <2>4. Held' = Held /\ PaidOut' = PaidOut
    BY <2>3, SameSets
  <2>5. /\ wallet'.current = wallet.current + released /\ wallet'.pending = wallet.pending
        /\ wallet'.frozen = wallet.frozen - released /\ wallet'.withdrawn = wallet.withdrawn
    BY <2>2, <2>3, UnfrozenRow
  <2> HIDE DEF released
  <2> QED
    BY <2>1, <2>2, <2>3, <2>4, <2>5, WalletColumns, SumsHeld DEF Accounted
<1>30. ASSUME NEW k \in Key, RecordKey(k) PROVE FundsAccounted'
  <2> SUFFICES ASSUME ~tainted'.wallet, tainted'.requests = {} PROVE Accounted'
    BY DEF FundsAccounted
  <2>1. Accounted
    BY <1>0, WasAccounted
  <2>2. wallet' = wallet /\ request' = request /\ byHand' = byHand /\ ledger' = ledger
    BY <1>30 DEF RecordKey, history
  <2>3. Held' = Held /\ PaidOut' = PaidOut
    BY <2>2, SameSets
  <2> QED
    BY <2>1, <2>2, <2>3 DEF Accounted
<1>31. ASSUME NEW row \in others, ApproveOther(row) PROVE FundsAccounted'
  <2> SUFFICES ASSUME ~tainted'.wallet, tainted'.requests = {} PROVE Accounted'
    BY DEF FundsAccounted
  <2>1. Accounted
    BY <1>0, WasAccounted
  <2>2. wallet' = wallet /\ request' = request /\ byHand' = byHand /\ ledger' = ledger
    BY <1>31 DEF ApproveOther, history
  <2>3. Held' = Held /\ PaidOut' = PaidOut
    BY <2>2, SameSets
  <2> QED
    BY <2>1, <2>2, <2>3 DEF Accounted
<1>32. ASSUME NEW s \in Session, SaveWallet(s) PROVE FundsAccounted'
  <2> SUFFICES ASSUME ~tainted'.wallet, tainted'.requests = {} PROVE Accounted'
    BY DEF FundsAccounted
  <2>1. Accounted
    BY <1>0, WasAccounted
  <2> DEFINE typed == Money(wallet') # Money(session[s].copy)
  <2>2. /\ Taint(StaleWallet(s) \/ typed, {}, {})
        /\ request' = request /\ byHand' = byHand /\ ledger' = ledger
    BY <1>32 DEF SaveWallet
  <2>3. ~(StaleWallet(s) \/ typed)
    <3>1. (StaleWallet(s) \/ typed) \in BOOLEAN /\ {} \in SUBSET Request /\ {} \in SUBSET Key
      BY DEF StaleWallet
    <3> HIDE DEF typed
    <3> QED
      BY <2>2, <3>1, CleanCall
  <2>4. Money(wallet') = Money(wallet)
    BY <2>3 DEF StaleWallet
  <2>5. /\ wallet'.current = wallet.current /\ wallet'.pending = wallet.pending
        /\ wallet'.frozen = wallet.frozen /\ wallet'.withdrawn = wallet.withdrawn
    BY <2>4 DEF Money
  <2>6. Held' = Held /\ PaidOut' = PaidOut
    BY <2>2, SameSets
  <2> QED
    BY <2>1, <2>2, <2>5, <2>6 DEF Accounted
<1>33. ASSUME NEW rs \in SUBSET Request, reject_requests(rs) \/ process_withdrawals(rs)
       PROVE  FundsAccounted'
  <2> SUFFICES ASSUME ~tainted'.wallet, tainted'.requests = {} PROVE Accounted'
    BY DEF FundsAccounted
  <2>1. Accounted
    BY <1>0, WasAccounted
  <2>2. wallet' = wallet /\ ledger' = ledger /\ byHand' = byHand \cup rs
    BY <1>33, ByHandFacts
  <2>3. PICK status \in {"REJECTED", "COMPLETED"} : request' = SetStatus(rs, status)
    BY <1>33, ByHandFacts
  <2>4. \A r \in rs : request[r].status \in {"PENDING", "APPROVED"}
    BY <1>33, ByHandFacts
  <2>5. \A r \in Request : request'[r].status = IF r \in rs THEN status ELSE request[r].status
    <3>1. status \in Status
      BY DEF Status
    <3>2. \A r \in Request : SetStatus(rs, status)[r].status = IF r \in rs THEN status
                                                               ELSE request[r].status
      BY <3>1, StatusRows
    <3> QED
      BY <2>3, <3>2
  <2>6. Held' = Held /\ PaidOut' = PaidOut
    BY <2>2, <2>4, <2>5 DEF Held, PaidOut
  <2> QED
    BY <2>1, <2>2, <2>6 DEF Accounted
<1> QED
  BY <1>1, <1>2, <1>3, <1>4, <1>5, <1>6, <1>7, <1>8, <1>9, <1>10, <1>11, <1>12, <1>13,
     <1>14, <1>15, <1>16, <1>17, <1>18, <1>19, <1>20, <1>21, <1>22, <1>23, <1>24, <1>25,
     <1>26, <1>27, <1>28, <1>29, <1>30, <1>31, <1>32, <1>33
  DEF Next, WalletStep, RequestStep, TransactionStep, BatchStep

-----------------------------------------------------------------------------
(* A request and its transaction *)

\* A transaction once approved or settled does not become pending again, and
\* no request row is deleted.
TxnMoves ==
    \A r \in Request :
        /\ request[r].status # "ABSENT" => request'[r].status # "ABSENT"
        /\ request[r].txn \notin {"ABSENT", "PENDING"} => request'[r].txn \notin {"ABSENT", "PENDING"}
        /\ request'[r].status = "ABSENT" => request'[r].txn = "ABSENT"
        /\ request'[r].status = "APPROVED" => request'[r].txn \notin {"ABSENT", "PENDING"}

\* The columns SetRow and SetStatus write.
LEMMA WrittenRows ==
    ASSUME TypeOK, NEW rs \in SUBSET Request, NEW status, NEW txn
    PROVE  \A r \in Request :
              /\ r \in rs => /\ SetRow(rs, status, txn)[r].status = status
                             /\ SetRow(rs, status, txn)[r].txn = txn
              /\ r \notin rs => SetRow(rs, status, txn)[r] = request[r]
<1>1. ASSUME NEW r \in Request
      PROVE  [request[r] EXCEPT !.status = status, !.txn = txn]
               = [status |-> status, txn |-> txn, reversed |-> request[r].reversed,
                  batch |-> request[r].batch]
  <2>1. request[r] = [status |-> request[r].status, txn |-> request[r].txn,
                      reversed |-> request[r].reversed, batch |-> request[r].batch]
    BY DEF TypeOK, RequestRow
  <2>2. [[status |-> request[r].status, txn |-> request[r].txn,
          reversed |-> request[r].reversed, batch |-> request[r].batch]
         EXCEPT !.status = status]
        = [status |-> status, txn |-> request[r].txn,
           reversed |-> request[r].reversed, batch |-> request[r].batch]
    OBVIOUS
  <2>3. [[status |-> status, txn |-> request[r].txn,
           reversed |-> request[r].reversed, batch |-> request[r].batch]
         EXCEPT !.txn = txn]
        = [status |-> status, txn |-> txn, reversed |-> request[r].reversed,
                  batch |-> request[r].batch]
    OBVIOUS
  <2> QED
    BY <2>1, <2>2, <2>3
<1> QED
  BY <1>1 DEF SetRow

LEMMA WrittenStatus ==
    ASSUME TypeOK, NEW rs \in SUBSET Request, NEW status
    PROVE  \A r \in Request :
              /\ r \in rs => /\ SetStatus(rs, status)[r].status = status
                             /\ SetStatus(rs, status)[r].txn = request[r].txn
              /\ r \notin rs => SetStatus(rs, status)[r] = request[r]
<1>1. \A r \in Request : /\ [request[r] EXCEPT !.status = status].status = status
                         /\ [request[r] EXCEPT !.status = status].txn = request[r].txn
  BY DEF TypeOK, RequestRow
<1> QED
  BY <1>1 DEF SetStatus

\* Every step moves the transactions on.
LEMMA TxnMovesOn ==
    ASSUME TypeOK, Copies, TxnApproved, [Next]_vars
    PROVE  TxnMoves
<1>1. ASSUME NEW s \in Session, ReadWallet(s) PROVE TxnMoves
  <2>1. request' = request
    BY <1>1 DEF ReadWallet, rows, history
  <2> QED
    BY <2>1 DEF TxnMoves, TxnApproved
<1>2. ASSUME NEW s \in Session, NEW k \in Key, CheckKey(s, k) PROVE TxnMoves
  <2>1. request' = request
    BY <1>2 DEF CheckKey, rows, history
  <2> QED
    BY <2>1 DEF TxnMoves, TxnApproved
<1>3. ASSUME NEW s \in Session, NEW a \in Sums, Credit(s, a) PROVE TxnMoves
  <2>1. request' = request
    BY <1>3 DEF Credit
  <2> QED
    BY <2>1 DEF TxnMoves, TxnApproved
<1>4. ASSUME NEW s \in Session, NEW a \in Sums, InstantPayout(s, a) PROVE TxnMoves
  <2>1. request' = request
    BY <1>4 DEF InstantPayout, Debit
  <2> QED
    BY <2>1 DEF TxnMoves, TxnApproved
<1>5. ASSUME NEW s \in Session, NEW a \in Sums, Transfer(s, a) PROVE TxnMoves
  <2>1. request' = request
    BY <1>5 DEF Transfer, Debit
  <2> QED
    BY <2>1 DEF TxnMoves, TxnApproved
<1>6. ASSUME NEW s \in Session, NEW a \in Sums, AdminDebit(s, a) PROVE TxnMoves
  <2>1. request' = request
    BY <1>6 DEF AdminDebit, Debit
  <2> QED
    BY <2>1 DEF TxnMoves, TxnApproved
<1>7. ASSUME NEW s \in Session, NEW a \in Sums, Freeze(s, a) PROVE TxnMoves
  <2>1. request' = request
    BY <1>7 DEF Freeze
  <2> QED
    BY <2>1 DEF TxnMoves, TxnApproved
<1>8. ASSUME NEW s \in Session, NEW a \in Sums, Unfreeze(s, a) PROVE TxnMoves
  <2>1. request' = request
    BY <1>8 DEF Unfreeze
  <2> QED
    BY <2>1 DEF TxnMoves, TxnApproved
<1>9. ASSUME NEW s \in Session, NEW r \in Request, Withdraw(s, r) PROVE TxnMoves
  <2>1. request' = SetRow({r}, "PENDING", "PENDING") /\ request[r].status = "ABSENT"
    BY <1>9 DEF Withdraw
  <2>2. {r} \in SUBSET Request
    BY DEF TypeOK, Call
  <2> QED
    BY <2>1, <2>2, WrittenRows DEF TxnMoves, TxnApproved
<1>10. ASSUME NEW s \in Session, NEW r \in Request, ReadRequest(s, r) PROVE TxnMoves
  <2>1. request' = request
    BY <1>10 DEF ReadRequest, rows, history
  <2> QED
    BY <2>1 DEF TxnMoves, TxnApproved
<1>11. ASSUME NEW s \in Session, NEW r \in Request, FetchRelated(s, r) PROVE TxnMoves
  <2>1. request' = request
    BY <1>11 DEF FetchRelated, rows, history
  <2> QED
    BY <2>1 DEF TxnMoves, TxnApproved
<1>12. ASSUME NEW s \in Session, Approve(s) PROVE TxnMoves
  <2>1. request' = SetRow(session[s].on, "APPROVED", "APPROVED")
    BY <1>12 DEF Approve
  <2>2. session[s].on \in SUBSET Request
    BY DEF TypeOK, Call
  <2> QED
    BY <2>1, <2>2, WrittenRows DEF TxnMoves, TxnApproved
<1>13. ASSUME NEW s \in Session, Reject(s) PROVE TxnMoves
  <2>1. request' = SetRow(session[s].on, "REJECTED", "REJECTED")
    BY <1>13 DEF Reject
  <2>2. session[s].on \in SUBSET Request
    BY DEF TypeOK, Call
  <2> QED
    BY <2>1, <2>2, WrittenRows DEF TxnMoves, TxnApproved
<1>14. ASSUME NEW s \in Session, Cancel(s) PROVE TxnMoves
  <2>1. request' = SetStatus(session[s].on, "CANCELLED")
    BY <1>14 DEF Cancel
  <2>2. session[s].on \in SUBSET Request
    BY DEF TypeOK, Call
  <2> QED
    BY <2>1, <2>2, WrittenStatus DEF TxnMoves, TxnApproved
<1>15. ASSUME NEW s \in Session, Complete(s) PROVE TxnMoves
  <2>1. request' = SetRow(session[s].on, "COMPLETED", "COMPLETED")
    BY <1>15 DEF Complete
  <2>2. session[s].on \in SUBSET Request
    BY DEF TypeOK, Call
  <2> QED
    BY <2>1, <2>2, WrittenRows DEF TxnMoves, TxnApproved
<1>16. ASSUME NEW s \in Session, DispatchFails(s) PROVE TxnMoves
  <2>1. request' = SetStatus(session[s].on, "FAILED")
    BY <1>16 DEF DispatchFails
  <2>2. session[s].on \in SUBSET Request
    BY DEF TypeOK, Call
  <2> QED
    BY <2>1, <2>2, WrittenStatus DEF TxnMoves, TxnApproved
<1>17. ASSUME NEW s \in Session, Refused(s) PROVE TxnMoves
  <2>1. request' = request
    BY <1>17 DEF Refused, rows, history
  <2> QED
    BY <2>1 DEF TxnMoves, TxnApproved
<1>18. ASSUME NEW s \in Session, NEW b \in Batch, ReadBatch(s, b) PROVE TxnMoves
  <2>1. request' = request
    BY <1>18 DEF ReadBatch, rows, history
  <2> QED
    BY <2>1 DEF TxnMoves, TxnApproved
<1>19. ASSUME NEW s \in Session, ProcessBatch(s) PROVE TxnMoves
  <2>1. {r \in session[s].on : Completable(session[s].seen)} = {}
    BY <1>19 DEF ProcessBatch, Has, Copies, Sound, Completable
  <2>2. \A r \in Request : \/ request'[r] = request[r]
                           \/ request'[r] = [request[r] EXCEPT !.status = "FAILED"]
    BY <1>19, <2>1 DEF ProcessBatch
  <2>3. \A r \in Request : /\ [request[r] EXCEPT !.status = "FAILED"].txn = request[r].txn
                           /\ [request[r] EXCEPT !.status = "FAILED"].status = "FAILED"
    BY DEF TypeOK, RequestRow
  <2> QED
    BY <2>2, <2>3 DEF TxnMoves, TxnApproved
<1>20. ASSUME NEW k \in Key, ExpireKey(k) PROVE TxnMoves
  <2>1. request' = request
    BY <1>20 DEF ExpireKey
  <2> QED
    BY <2>1 DEF TxnMoves, TxnApproved
<1>21. ASSUME NEW locked \in BOOLEAN, SetLocked(locked) PROVE TxnMoves
  <2>1. request' = request
    BY <1>21 DEF SetLocked, history
  <2> QED
    BY <2>1 DEF TxnMoves, TxnApproved
<1>22. ASSUME NEW b \in Batch, NEW ids \in SUBSET Request, CreateBatch(b, ids)
       PROVE  TxnMoves
  <2>1. \A r \in Request :
            \/ request'[r] = request[r]
            \/ request'[r] = [request[r] EXCEPT !.status = "BATCHED", !.batch = b]
    BY <1>22 DEF CreateBatch
  <2>2. \A r \in Request : /\ [request[r] EXCEPT !.status = "BATCHED", !.batch = b].txn = request[r].txn
                           /\ [request[r] EXCEPT !.status = "BATCHED", !.batch = b].status = "BATCHED"
    <3>1. \A r \in Request : request[r] \in RequestRow
      BY DEF TypeOK
    <3>2. \A r \in Request : [request[r] EXCEPT !.status = "BATCHED"] \in RequestRow
      BY <3>1 DEF RequestRow, Status
    <3> QED
      BY <3>1, <3>2 DEF RequestRow
  <2> QED
    BY <2>1, <2>2 DEF TxnMoves, TxnApproved
<1>23. CASE UNCHANGED vars
  BY <1>23 DEF vars, rows, history, TxnMoves, TxnApproved
<1>24. ASSUME NEW s \in Session, NEW row \in others, Reverse(s, row[1])
       PROVE  TxnMoves
  <2>1. request' = request
    BY <1>24 DEF Reverse
  <2> QED
    BY <2>1 DEF TxnMoves, TxnApproved
<1>25. ASSUME NEW s \in Session, NEW status \in Endings, EndTransaction(s, status)
       PROVE  TxnMoves
  <2>1. /\ session[s].on \in SUBSET Request /\ status \notin {"ABSENT", "PENDING"}
        /\ \A r \in session[s].on : request[r].status # "ABSENT"
    BY <1>25, EndingsAssumption DEF EndTransaction, Has, TypeOK, Call, TxnApproved
  <2>2. \A r \in Request : /\ request'[r].status = request[r].status
                           /\ request'[r].txn = IF r \in session[s].on THEN status
                                                                       ELSE request[r].txn
    BY <1>25, EndedRows
  <2> QED
    BY <2>1, <2>2 DEF TxnMoves, TxnApproved
<1>26. ASSUME NEW s \in Session, ReverseWithdrawal(s) PROVE TxnMoves
  <2>1. request' = request
    BY <1>26 DEF ReverseWithdrawal, history
  <2> QED
    BY <2>1 DEF TxnMoves, TxnApproved
<1>27. ASSUME NEW s \in Session, MarkReversed(s) PROVE TxnMoves
  <2>1. \A r \in Request : /\ request'[r].status = request[r].status
                           /\ request'[r].txn = request[r].txn
    BY <1>27, MarkedRows
  <2> QED
    BY <2>1 DEF TxnMoves, TxnApproved
<1>28. ASSUME NEW a \in Sums, ReserveBalance(a) PROVE TxnMoves
  <2>1. request' = request
    BY <1>28 DEF ReserveBalance, history
  <2> QED
    BY <2>1 DEF TxnMoves, TxnApproved
<1>29. ASSUME NEW a \in Sums, ReleaseReserve(a) PROVE TxnMoves
  <2>1. request' = request
    BY <1>29 DEF ReleaseReserve, history
  <2> QED
    BY <2>1 DEF TxnMoves, TxnApproved
<1>30. ASSUME NEW k \in Key, RecordKey(k) PROVE TxnMoves
  <2>1. request' = request
    BY <1>30 DEF RecordKey
  <2> QED
    BY <2>1 DEF TxnMoves, TxnApproved
<1>31. ASSUME NEW row \in others, ApproveOther(row) PROVE TxnMoves
  <2>1. request' = request
    BY <1>31 DEF ApproveOther
  <2> QED
    BY <2>1 DEF TxnMoves, TxnApproved
<1>32. ASSUME NEW s \in Session, SaveWallet(s) PROVE TxnMoves
  <2>1. request' = request
    BY <1>32 DEF SaveWallet
  <2> QED
    BY <2>1 DEF TxnMoves, TxnApproved
<1>33. ASSUME NEW rs \in SUBSET Request, reject_requests(rs) \/ process_withdrawals(rs)
       PROVE  TxnMoves
  <2>1. PICK status \in {"REJECTED", "COMPLETED"} :
            /\ request' = SetStatus(rs, status)
            /\ \A r \in rs : request[r].status \in {"PENDING", "APPROVED"}
    BY <1>33, ByHandFacts
  <2> QED
    BY <2>1, WrittenStatus DEF TxnMoves, TxnApproved
<1> QED
  BY <1>1, <1>2, <1>3, <1>4, <1>5, <1>6, <1>7, <1>8, <1>9, <1>10, <1>11, <1>12, <1>13,
     <1>14, <1>15, <1>16, <1>17, <1>18, <1>19, <1>20, <1>21, <1>22, <1>23, <1>24, <1>25,
     <1>26, <1>27, <1>28, <1>29, <1>30, <1>31, <1>32, <1>33
  DEF Next, WalletStep, RequestStep, TransactionStep, BatchStep

\* Such a step keeps TxnApproved if the calls it leaves are as before, hold no
\* request, or have read what is committed.
LEMMA TxnKept ==
    ASSUME TypeOK, TxnApproved, TxnMoves,
           \A s \in Session :
              \/ session'[s] = session[s]
              \/ session'[s].has \notin {"request", "related"}
              \/ /\ \A r \in session'[s].on : request'[r].status # "ABSENT"
                 /\ session'[s].seen = "APPROVED" =>
                       /\ session'[s].has = "request" =>
                             \A r \in session'[s].on : request'[r].txn \notin {"ABSENT", "PENDING"}
                       /\ session'[s].has = "related" => session'[s].txn # "PENDING"
    PROVE  TxnApproved'
<1>1. \A s \in Session : session[s].on \subseteq Request
  BY DEF TypeOK, Call
<1>2. ASSUME NEW s \in Session, session'[s].has \in {"request", "related"}
      PROVE  /\ \A r \in session'[s].on : request'[r].status # "ABSENT"
             /\ session'[s].seen = "APPROVED" =>
                   /\ session'[s].has = "request" =>
                         \A r \in session'[s].on : request'[r].txn \notin {"ABSENT", "PENDING"}
                   /\ session'[s].has = "related" => session'[s].txn # "PENDING"
  <2>1. CASE session'[s] = session[s]
    BY <1>1, <1>2, <2>1 DEF TxnApproved, TxnMoves
  <2> QED
    BY <1>2, <2>1
<1> QED
  BY <1>2 DEF TxnApproved, TxnMoves

\* Every step keeps it.
LEMMA TxnStep ==
    ASSUME TypeOK, Copies, TxnApproved, [Next]_vars
    PROVE  TxnApproved'
<1>0. TxnMoves
  BY TxnMovesOn
<1>1. ASSUME NEW s \in Session, ReadWallet(s) PROVE TxnApproved'
  <2>1. session' = [session EXCEPT ![s] = [Idle EXCEPT !.has = "wallet", !.copy = wallet]]
    BY <1>1 DEF ReadWallet, Reads
  <2>2. session'[s].has = "wallet"
    BY <2>1 DEF TypeOK, Idle
  <2>3. \A t \in Session \ {s} : session'[t] = session[t]
    BY <2>1 DEF TypeOK
  <2> QED
    BY <1>0, <2>2, <2>3, TxnKept
<1>2. ASSUME NEW s \in Session, NEW k \in Key, CheckKey(s, k) PROVE TxnApproved'
  <2>1. session' = [session EXCEPT ![s].has = "key", ![s].key = k]
    BY <1>2 DEF CheckKey
  <2>2. session'[s].has = "key"
    BY <2>1 DEF TypeOK, Call
  <2>3. \A t \in Session \ {s} : session'[t] = session[t]
    BY <2>1 DEF TypeOK
  <2> QED
    BY <1>0, <2>2, <2>3, TxnKept
<1>3. ASSUME NEW s \in Session, NEW a \in Sums, Credit(s, a) PROVE TxnApproved'
  <2>1. Done(s)
    BY <1>3 DEF Credit
  <2>2. \A t \in Session : session'[t] = session[t] \/ session'[t].has = "nothing"
    BY <2>1, DoneCall DEF Idle
  <2> QED
    BY <1>0, <2>2, TxnKept
<1>4. ASSUME NEW s \in Session, NEW a \in Sums, InstantPayout(s, a) PROVE TxnApproved'
  <2>1. Done(s)
    BY <1>4 DEF InstantPayout, Debit
  <2>2. \A t \in Session : session'[t] = session[t] \/ session'[t].has = "nothing"
    BY <2>1, DoneCall DEF Idle
  <2> QED
    BY <1>0, <2>2, TxnKept
<1>5. ASSUME NEW s \in Session, NEW a \in Sums, Transfer(s, a) PROVE TxnApproved'
  <2>1. Done(s)
    BY <1>5 DEF Transfer, Debit
  <2>2. \A t \in Session : session'[t] = session[t] \/ session'[t].has = "nothing"
    BY <2>1, DoneCall DEF Idle
  <2> QED
    BY <1>0, <2>2, TxnKept
<1>6. ASSUME NEW s \in Session, NEW a \in Sums, AdminDebit(s, a) PROVE TxnApproved'
  <2>1. Done(s)
    BY <1>6 DEF AdminDebit, Debit
  <2>2. \A t \in Session : session'[t] = session[t] \/ session'[t].has = "nothing"
    BY <2>1, DoneCall DEF Idle
  <2> QED
    BY <1>0, <2>2, TxnKept
<1>7. ASSUME NEW s \in Session, NEW a \in Sums, Freeze(s, a) PROVE TxnApproved'
  <2>1. Done(s)
    BY <1>7 DEF Freeze
  <2>2. \A t \in Session : session'[t] = session[t] \/ session'[t].has = "nothing"
    BY <2>1, DoneCall DEF Idle
  <2> QED
    BY <1>0, <2>2, TxnKept
<1>8. ASSUME NEW s \in Session, NEW a \in Sums, Unfreeze(s, a) PROVE TxnApproved'
  <2>1. Done(s)
    BY <1>8 DEF Unfreeze
  <2>2. \A t \in Session : session'[t] = session[t] \/ session'[t].has = "nothing"
    BY <2>1, DoneCall DEF Idle
  <2> QED
    BY <1>0, <2>2, TxnKept
<1>9. ASSUME NEW s \in Session, NEW r \in Request, Withdraw(s, r) PROVE TxnApproved'
  <2>1. Done(s)
    BY <1>9 DEF Withdraw
  <2>2. \A t \in Session : session'[t] = session[t] \/ session'[t].has = "nothing"
    BY <2>1, DoneCall DEF Idle
  <2> QED
    BY <1>0, <2>2, TxnKept
<1>10. ASSUME NEW s \in Session, NEW r \in Request, ReadRequest(s, r) PROVE TxnApproved'
  <2>1. /\ request' = request /\ request[r].status # "ABSENT"
        /\ session' = [session EXCEPT ![s] =
              [Idle EXCEPT !.has = "request", !.on = {r}, !.seen = request[r].status]]
    BY <1>10 DEF ReadRequest, Reads, rows
  <2>2. session'[s].has = "request" /\ session'[s].on = {r}
        /\ session'[s].seen = request[r].status
    BY <2>1 DEF TypeOK, Idle
  <2>3. \A t \in Session \ {s} : session'[t] = session[t]
    BY <2>1 DEF TypeOK
  <2>4. request[r].status = "APPROVED" => request'[r].txn \notin {"ABSENT", "PENDING"}
    BY <2>1 DEF TxnApproved
  <2> QED
    BY <1>0, <2>1, <2>2, <2>3, <2>4, TxnKept
<1>11. ASSUME NEW s \in Session, NEW r \in Request, FetchRelated(s, r) PROVE TxnApproved'
  <2>1. /\ session[s].has = "request" /\ session[s].on = {r} /\ request' = request
        /\ session' = [session EXCEPT ![s].has = "related", ![s].txn = request[r].txn,
                                       ![s].reversed = request[r].reversed, ![s].copy = wallet]
    BY <1>11 DEF FetchRelated, Has, rows
  <2>2. session'[s].has = "related" /\ session'[s].txn = request[r].txn
        /\ session'[s].seen = session[s].seen /\ session'[s].on = {r}
    BY <2>1 DEF TypeOK, Call
  <2>3. \A t \in Session \ {s} : session'[t] = session[t]
    BY <2>1 DEF TypeOK
  <2>4. /\ request'[r].status # "ABSENT"
        /\ session[s].seen = "APPROVED" => request[r].txn # "PENDING"
    BY <2>1 DEF TxnApproved
  <2> QED
    BY <1>0, <2>2, <2>3, <2>4, TxnKept
<1>12. ASSUME NEW s \in Session, Approve(s) PROVE TxnApproved'
  <2>1. Done(s)
    BY <1>12 DEF Approve
  <2>2. \A t \in Session : session'[t] = session[t] \/ session'[t].has = "nothing"
    BY <2>1, DoneCall DEF Idle
  <2> QED
    BY <1>0, <2>2, TxnKept
<1>13. ASSUME NEW s \in Session, Reject(s) PROVE TxnApproved'
  <2>1. Done(s)
    BY <1>13 DEF Reject
  <2>2. \A t \in Session : session'[t] = session[t] \/ session'[t].has = "nothing"
    BY <2>1, DoneCall DEF Idle
  <2> QED
    BY <1>0, <2>2, TxnKept
<1>14. ASSUME NEW s \in Session, Cancel(s) PROVE TxnApproved'
  <2>1. Done(s)
    BY <1>14 DEF Cancel
  <2>2. \A t \in Session : session'[t] = session[t] \/ session'[t].has = "nothing"
    BY <2>1, DoneCall DEF Idle
  <2> QED
    BY <1>0, <2>2, TxnKept
<1>15. ASSUME NEW s \in Session, Complete(s) PROVE TxnApproved'
  <2>1. Done(s)
    BY <1>15 DEF Complete
  <2>2. \A t \in Session : session'[t] = session[t] \/ session'[t].has = "nothing"
    BY <2>1, DoneCall DEF Idle
  <2> QED
    BY <1>0, <2>2, TxnKept
<1>16. ASSUME NEW s \in Session, DispatchFails(s) PROVE TxnApproved'
  <2>1. Done(s)
    BY <1>16 DEF DispatchFails
  <2>2. \A t \in Session : session'[t] = session[t] \/ session'[t].has = "nothing"
    BY <2>1, DoneCall DEF Idle
  <2> QED
    BY <1>0, <2>2, TxnKept
<1>17. ASSUME NEW s \in Session, Refused(s) PROVE TxnApproved'
  <2>1. Done(s)
    BY <1>17 DEF Refused
  <2>2. \A t \in Session : session'[t] = session[t] \/ session'[t].has = "nothing"
    BY <2>1, DoneCall DEF Idle
  <2> QED
    BY <1>0, <2>2, TxnKept
<1>18. ASSUME NEW s \in Session, NEW b \in Batch, ReadBatch(s, b) PROVE TxnApproved'
  <2>1. session' = [session EXCEPT ![s] =
            [Idle EXCEPT !.has = "batch", !.batch = b, !.seen = "BATCHED",
                         !.on = {r \in Request : request[r].batch = b
                                                   /\ request[r].status = "BATCHED"}]]
    BY <1>18 DEF ReadBatch, Reads
  <2>2. session'[s].has = "batch"
    BY <2>1 DEF TypeOK, Idle
  <2>3. \A t \in Session \ {s} : session'[t] = session[t]
    BY <2>1 DEF TypeOK
  <2> QED
    BY <1>0, <2>2, <2>3, TxnKept
<1>19. ASSUME NEW s \in Session, ProcessBatch(s) PROVE TxnApproved'
  <2>1. Done(s)
    BY <1>19 DEF ProcessBatch
  <2>2. \A t \in Session : session'[t] = session[t] \/ session'[t].has = "nothing"
    BY <2>1, DoneCall DEF Idle
  <2> QED
    BY <1>0, <2>2, TxnKept
<1>20. ASSUME NEW k \in Key, ExpireKey(k) PROVE TxnApproved'
  <2>1. session' = session
    BY <1>20 DEF ExpireKey, history
  <2> QED
    BY <1>0, <2>1, TxnKept
<1>21. ASSUME NEW locked \in BOOLEAN, SetLocked(locked) PROVE TxnApproved'
  <2>1. session' = session
    BY <1>21 DEF SetLocked, history
  <2> QED
    BY <1>0, <2>1, TxnKept
<1>22. ASSUME NEW b \in Batch, NEW ids \in SUBSET Request, CreateBatch(b, ids)
       PROVE  TxnApproved'
  <2>1. session' = session
    BY <1>22 DEF CreateBatch, history
  <2> QED
    BY <1>0, <2>1, TxnKept
<1>23. CASE UNCHANGED vars
  BY <1>23 DEF vars, rows, history, TxnApproved
<1>24. ASSUME NEW s \in Session, NEW row \in others, Reverse(s, row[1])
       PROVE  TxnApproved'
  <2>1. Done(s)
    BY <1>24 DEF Reverse
  <2>2. \A t \in Session : session'[t] = session[t] \/ session'[t].has = "nothing"
    BY <2>1, DoneCall DEF Idle
  <2> QED
    BY <1>0, <2>2, TxnKept
<1>25. ASSUME NEW s \in Session, NEW status \in Endings, EndTransaction(s, status)
       PROVE  TxnApproved'
  <2>1. Done(s)
    BY <1>25 DEF EndTransaction
  <2>2. \A t \in Session : session'[t] = session[t] \/ session'[t].has = "nothing"
    BY <2>1, DoneCall DEF Idle
  <2> QED
    BY <1>0, <2>2, TxnKept
<1>26. ASSUME NEW s \in Session, ReverseWithdrawal(s) PROVE TxnApproved'
  <2>1. session' = [session EXCEPT ![s] = [Idle EXCEPT !.has = "reversal", !.on = session[s].on]]
    BY <1>26 DEF ReverseWithdrawal
  <2>2. session'[s].has = "reversal"
    BY <2>1 DEF TypeOK, Idle
  <2>3. \A t \in Session \ {s} : session'[t] = session[t]
    BY <2>1 DEF TypeOK
  <2> QED
    BY <1>0, <2>2, <2>3, TxnKept
<1>27. ASSUME NEW s \in Session, MarkReversed(s) PROVE TxnApproved'
  <2>1. Done(s)
    BY <1>27 DEF MarkReversed
  <2>2. \A t \in Session : session'[t] = session[t] \/ session'[t].has = "nothing"
    BY <2>1, DoneCall DEF Idle
  <2> QED
    BY <1>0, <2>2, TxnKept
<1>28. ASSUME NEW a \in Sums, ReserveBalance(a) PROVE TxnApproved'
  <2>1. session' = session
    BY <1>28 DEF ReserveBalance
  <2> QED
    BY <1>0, <2>1, TxnKept
<1>29. ASSUME NEW a \in Sums, ReleaseReserve(a) PROVE TxnApproved'
  <2>1. session' = session
    BY <1>29 DEF ReleaseReserve
  <2> QED
    BY <1>0, <2>1, TxnKept
<1>30. ASSUME NEW k \in Key, RecordKey(k) PROVE TxnApproved'
  <2>1. session' = session
    BY <1>30 DEF RecordKey
  <2> QED
    BY <1>0, <2>1, TxnKept
<1>31. ASSUME NEW row \in others, ApproveOther(row) PROVE TxnApproved'
  <2>1. session' = session
    BY <1>31 DEF ApproveOther
  <2> QED
    BY <1>0, <2>1, TxnKept
<1>32. ASSUME NEW s \in Session, SaveWallet(s) PROVE TxnApproved'
  <2>1. Done(s)
    BY <1>32 DEF SaveWallet
  <2>2. \A t \in Session : session'[t] = session[t] \/ session'[t].has = "nothing"
    BY <2>1, DoneCall DEF Idle
  <2> QED
    BY <1>0, <2>2, TxnKept
<1>33. ASSUME NEW rs \in SUBSET Request, reject_requests(rs) \/ process_withdrawals(rs)
       PROVE  TxnApproved'
  <2>1. session' = session
    BY <1>33, ByHandFacts
  <2> QED
    BY <1>0, <2>1, TxnKept
<1> QED
  BY <1>1, <1>2, <1>3, <1>4, <1>5, <1>6, <1>7, <1>8, <1>9, <1>10, <1>11, <1>12, <1>13,
     <1>14, <1>15, <1>16, <1>17, <1>18, <1>19, <1>20, <1>21, <1>22, <1>23, <1>24, <1>25,
     <1>26, <1>27, <1>28, <1>29, <1>30, <1>31, <1>32, <1>33
  DEF Next, WalletStep, RequestStep, TransactionStep, BatchStep

\* What RejectedWhilePending says of one step.
RejectsPending ==
    \A r \in Request : request'[r].status = "REJECTED" /\ request[r].status # "REJECTED"
            => request[r].status = "PENDING" \/ r \in tainted'.requests

\* A rejection of a request no outdated copy wrote starts from PENDING.
LEMMA RejectsFromPending ==
    ASSUME TypeOK, Copies, TxnApproved, [Next]_vars
    PROVE  RejectsPending
<1>1. ASSUME NEW s \in Session, ReadWallet(s) PROVE RejectsPending
  <2>1. request' = request
    BY <1>1 DEF ReadWallet, rows, history
  <2> QED
    BY <2>1 DEF RejectsPending
<1>2. ASSUME NEW s \in Session, NEW k \in Key, CheckKey(s, k) PROVE RejectsPending
  <2>1. request' = request
    BY <1>2 DEF CheckKey, rows, history
  <2> QED
    BY <2>1 DEF RejectsPending
<1>3. ASSUME NEW s \in Session, NEW a \in Sums, Credit(s, a) PROVE RejectsPending
  <2>1. request' = request
    BY <1>3 DEF Credit
  <2> QED
    BY <2>1 DEF RejectsPending
<1>4. ASSUME NEW s \in Session, NEW a \in Sums, InstantPayout(s, a) PROVE RejectsPending
  <2>1. request' = request
    BY <1>4 DEF InstantPayout, Debit
  <2> QED
    BY <2>1 DEF RejectsPending
<1>5. ASSUME NEW s \in Session, NEW a \in Sums, Transfer(s, a) PROVE RejectsPending
  <2>1. request' = request
    BY <1>5 DEF Transfer, Debit
  <2> QED
    BY <2>1 DEF RejectsPending
<1>6. ASSUME NEW s \in Session, NEW a \in Sums, AdminDebit(s, a) PROVE RejectsPending
  <2>1. request' = request
    BY <1>6 DEF AdminDebit, Debit
  <2> QED
    BY <2>1 DEF RejectsPending
<1>7. ASSUME NEW s \in Session, NEW a \in Sums, Freeze(s, a) PROVE RejectsPending
  <2>1. request' = request
    BY <1>7 DEF Freeze
  <2> QED
    BY <2>1 DEF RejectsPending
<1>8. ASSUME NEW s \in Session, NEW a \in Sums, Unfreeze(s, a) PROVE RejectsPending
  <2>1. request' = request
    BY <1>8 DEF Unfreeze
  <2> QED
    BY <2>1 DEF RejectsPending
<1>9. ASSUME NEW s \in Session, NEW r \in Request, Withdraw(s, r) PROVE RejectsPending
  <2>1. request' = SetRow({r}, "PENDING", "PENDING")
    BY <1>9 DEF Withdraw
  <2>2. {r} \in SUBSET Request
    BY DEF TypeOK, Call
  <2> QED
    BY <2>1, <2>2, WrittenRows DEF RejectsPending
<1>10. ASSUME NEW s \in Session, NEW r \in Request, ReadRequest(s, r) PROVE RejectsPending
  <2>1. request' = request
    BY <1>10 DEF ReadRequest, rows, history
  <2> QED
    BY <2>1 DEF RejectsPending
<1>11. ASSUME NEW s \in Session, NEW r \in Request, FetchRelated(s, r) PROVE RejectsPending
  <2>1. request' = request
    BY <1>11 DEF FetchRelated, rows, history
  <2> QED
    BY <2>1 DEF RejectsPending
<1>12. ASSUME NEW s \in Session, Approve(s) PROVE RejectsPending
  <2>1. request' = SetRow(session[s].on, "APPROVED", "APPROVED")
    BY <1>12 DEF Approve
  <2>2. session[s].on \in SUBSET Request
    BY DEF TypeOK, Call
  <2> QED
    BY <2>1, <2>2, WrittenRows DEF RejectsPending
<1>13. ASSUME NEW s \in Session, Reject(s) PROVE RejectsPending
  <2> DEFINE on == session[s].on
  <2>1. /\ request' = SetRow(on, "REJECTED", "REJECTED") /\ on \in SUBSET Request
        /\ session[s].has = "related" /\ session[s].seen \in {"PENDING", "APPROVED"}
        /\ session[s].txn = "PENDING"
    BY <1>13 DEF Reject, Has, Rejectable, TypeOK, Call
  <2>2. session[s].seen = "PENDING"
    BY <2>1 DEF TxnApproved
  <2>3. tainted'.requests = tainted.requests \cup StaleRequests(s)
    <3>1. /\ StaleWallet(s) \in BOOLEAN /\ StaleRequests(s) \in SUBSET Request
          /\ {} \in SUBSET Key
      BY TaintedKinds
    <3>2. Taint(StaleWallet(s), StaleRequests(s), {})
      BY <1>13 DEF Reject
    <3> QED
      BY <3>1, <3>2, TaintGrows
  <2>4. \A r \in on \ tainted'.requests : request[r].status = "PENDING"
    BY <2>2, <2>3 DEF StaleRequests
  <2>5. \A r \in Request \ on : request'[r] = request[r]
    BY <2>1, WrittenRows
  <2> QED
    BY <2>4, <2>5 DEF RejectsPending
<1>14. ASSUME NEW s \in Session, Cancel(s) PROVE RejectsPending
  <2>1. request' = SetStatus(session[s].on, "CANCELLED")
    BY <1>14 DEF Cancel
  <2>2. session[s].on \in SUBSET Request
    BY DEF TypeOK, Call
  <2> QED
    BY <2>1, <2>2, WrittenStatus DEF RejectsPending
<1>15. ASSUME NEW s \in Session, Complete(s) PROVE RejectsPending
  <2>1. request' = SetRow(session[s].on, "COMPLETED", "COMPLETED")
    BY <1>15 DEF Complete
  <2>2. session[s].on \in SUBSET Request
    BY DEF TypeOK, Call
  <2> QED
    BY <2>1, <2>2, WrittenRows DEF RejectsPending
<1>16. ASSUME NEW s \in Session, DispatchFails(s) PROVE RejectsPending
  <2>1. request' = SetStatus(session[s].on, "FAILED")
    BY <1>16 DEF DispatchFails
  <2>2. session[s].on \in SUBSET Request
    BY DEF TypeOK, Call
  <2> QED
    BY <2>1, <2>2, WrittenStatus DEF RejectsPending
<1>17. ASSUME NEW s \in Session, Refused(s) PROVE RejectsPending
  <2>1. request' = request
    BY <1>17 DEF Refused, rows, history
  <2> QED
    BY <2>1 DEF RejectsPending
<1>18. ASSUME NEW s \in Session, NEW b \in Batch, ReadBatch(s, b) PROVE RejectsPending
  <2>1. request' = request
    BY <1>18 DEF ReadBatch, rows, history
  <2> QED
    BY <2>1 DEF RejectsPending
<1>19. ASSUME NEW s \in Session, ProcessBatch(s) PROVE RejectsPending
  <2>1. {r \in session[s].on : Completable(session[s].seen)} = {}
    BY <1>19 DEF ProcessBatch, Has, Copies, Sound, Completable
  <2>2. \A r \in Request : \/ request'[r] = request[r]
                           \/ request'[r] = [request[r] EXCEPT !.status = "FAILED"]
    BY <1>19, <2>1 DEF ProcessBatch
  <2>3. \A r \in Request : [request[r] EXCEPT !.status = "FAILED"].status = "FAILED"
    BY DEF TypeOK, RequestRow
  <2> QED
    BY <2>2, <2>3 DEF RejectsPending
<1>20. ASSUME NEW k \in Key, ExpireKey(k) PROVE RejectsPending
  <2>1. request' = request
    BY <1>20 DEF ExpireKey
  <2> QED
    BY <2>1 DEF RejectsPending
<1>21. ASSUME NEW locked \in BOOLEAN, SetLocked(locked) PROVE RejectsPending
  <2>1. request' = request
    BY <1>21 DEF SetLocked, history
  <2> QED
    BY <2>1 DEF RejectsPending
<1>22. ASSUME NEW b \in Batch, NEW ids \in SUBSET Request, CreateBatch(b, ids)
       PROVE  RejectsPending
  <2>1. \A r \in Request :
            \/ request'[r] = request[r]
            \/ request'[r] = [request[r] EXCEPT !.status = "BATCHED", !.batch = b]
    BY <1>22 DEF CreateBatch
  <2>2. \A r \in Request :
            [request[r] EXCEPT !.status = "BATCHED", !.batch = b].status = "BATCHED"
    <3>1. \A r \in Request : request[r] \in RequestRow
      BY DEF TypeOK
    <3>2. \A r \in Request : [request[r] EXCEPT !.status = "BATCHED"] \in RequestRow
      BY <3>1 DEF RequestRow, Status
    <3> QED
      BY <3>1, <3>2 DEF RequestRow
  <2> QED
    BY <2>1, <2>2 DEF RejectsPending
<1>23. CASE UNCHANGED vars
  BY <1>23 DEF vars, rows, history, RejectsPending
<1>24. ASSUME NEW s \in Session, NEW row \in others, Reverse(s, row[1])
       PROVE  RejectsPending
  <2>1. request' = request
    BY <1>24 DEF Reverse
  <2> QED
    BY <2>1 DEF RejectsPending
<1>25. ASSUME NEW s \in Session, NEW status \in Endings, EndTransaction(s, status)
       PROVE  RejectsPending
  <2>1. \A r \in Request : request'[r].status = request[r].status
    BY <1>25, EndedRows
  <2> QED
    BY <2>1 DEF RejectsPending
<1>26. ASSUME NEW s \in Session, ReverseWithdrawal(s) PROVE RejectsPending
  <2>1. request' = request
    BY <1>26 DEF ReverseWithdrawal
  <2> QED
    BY <2>1 DEF RejectsPending
<1>27. ASSUME NEW s \in Session, MarkReversed(s) PROVE RejectsPending
  <2>1. \A r \in Request : request'[r].status = request[r].status
    BY <1>27, MarkedRows
  <2> QED
    BY <2>1 DEF RejectsPending
<1>28. ASSUME NEW a \in Sums, ReserveBalance(a) PROVE RejectsPending
  <2>1. request' = request
    BY <1>28 DEF ReserveBalance
  <2> QED
    BY <2>1 DEF RejectsPending
<1>29. ASSUME NEW a \in Sums, ReleaseReserve(a) PROVE RejectsPending
  <2>1. request' = request
    BY <1>29 DEF ReleaseReserve
  <2> QED
    BY <2>1 DEF RejectsPending
<1>30. ASSUME NEW k \in Key, RecordKey(k) PROVE RejectsPending
  <2>1. request' = request
    BY <1>30 DEF RecordKey
  <2> QED
    BY <2>1 DEF RejectsPending
<1>31. ASSUME NEW row \in others, ApproveOther(row) PROVE RejectsPending
  <2>1. request' = request
    BY <1>31 DEF ApproveOther
  <2> QED
    BY <2>1 DEF RejectsPending
<1>32. ASSUME NEW s \in Session, SaveWallet(s) PROVE RejectsPending
  <2>1. request' = request
    BY <1>32 DEF SaveWallet
  <2> QED
    BY <2>1 DEF RejectsPending
<1>33. ASSUME NEW rs \in SUBSET Request, reject_requests(rs) \/ process_withdrawals(rs)
       PROVE  RejectsPending
  <2>1. CASE request' = SetStatus(rs, "REJECTED") /\ \A r \in rs : request[r].status = "PENDING"
    BY <2>1, WrittenStatus DEF RejectsPending
  <2>2. CASE request' = SetStatus(rs, "COMPLETED")
    BY <2>2, WrittenStatus DEF RejectsPending
  <2> QED
    BY <1>33, <2>1, <2>2, ByHandFacts
<1> QED
  BY <1>1, <1>2, <1>3, <1>4, <1>5, <1>6, <1>7, <1>8, <1>9, <1>10, <1>11, <1>12, <1>13,
     <1>14, <1>15, <1>16, <1>17, <1>18, <1>19, <1>20, <1>21, <1>22, <1>23, <1>24, <1>25,
     <1>26, <1>27, <1>28, <1>29, <1>30, <1>31, <1>32, <1>33
  DEF Next, WalletStep, RequestStep, TransactionStep, BatchStep

\* What UnlockedByHand says of one step.
UnlocksByHand ==
    wallet.locked /\ ~wallet'.locked => Money(wallet') = Money(wallet) \/ tainted'.wallet

\* A wallet saved with the lock of its copy is the wallet's, or tainted.
LEMMA LockOfCopy ==
    ASSUME TypeOK, NEW s \in Session, NEW rs \in SUBSET Request, NEW ks \in SUBSET Key,
           Taint(StaleWallet(s), rs, ks), wallet'.locked = session[s].copy.locked
    PROVE  UnlocksByHand
<1>1. ~tainted'.wallet => ~StaleWallet(s)
  BY TaintedKinds, TaintGrows
<1> QED
  BY <1>1 DEF UnlocksByHand, StaleWallet

\* A lock is undone by unlock, by the form or by a save from before it.
LEMMA UnlocksOnlyByHand ==
    ASSUME TypeOK, Copies, [Next]_vars
    PROVE  UnlocksByHand
<1>1. ASSUME NEW s \in Session, ReadWallet(s) PROVE UnlocksByHand
  BY <1>1 DEF ReadWallet, rows, history, UnlocksByHand
<1>2. ASSUME NEW s \in Session, NEW k \in Key, CheckKey(s, k) PROVE UnlocksByHand
  BY <1>2 DEF CheckKey, rows, history, UnlocksByHand
<1>3. ASSUME NEW s \in Session, NEW a \in Sums, Credit(s, a) PROVE UnlocksByHand
  <2>1. session[s].copy \in WalletRow
    BY <1>3 DEF Credit, Has, Copies, Sound
  <2>2. wallet' = Credited(session[s].copy, a) /\ a \in Nat
    BY <1>3, <2>1, SumsAssumption, AmountAssumption DEF Credit
  <2>3. wallet'.locked = session[s].copy.locked
    BY <2>1, <2>2, CreditedRow
  <2>4. Taint(StaleWallet(s), {}, SharedKeys(s))
    BY <1>3 DEF Credit
  <2>5. {} \in SUBSET Request /\ SharedKeys(s) \in SUBSET Key
    BY TaintedKinds
  <2> QED
    BY <2>3, <2>4, <2>5, LockOfCopy
<1>4. ASSUME NEW s \in Session, NEW a \in Sums, InstantPayout(s, a) PROVE UnlocksByHand
  <2>1. session[s].copy \in WalletRow
    BY <1>4 DEF InstantPayout, Debit, Has, Copies, Sound
  <2>2. wallet' = Debited(session[s].copy, a) /\ a \in Nat /\ Debitable(session[s].copy, a)
    BY <1>4, <2>1, SumsAssumption, AmountAssumption DEF InstantPayout, Debit
  <2>3. wallet'.locked = session[s].copy.locked
    BY <2>1, <2>2, DebitedRow
  <2>4. Taint(StaleWallet(s), {}, {})
    BY <1>4 DEF InstantPayout, Debit
  <2>5. {} \in SUBSET Request /\ {} \in SUBSET Key
    BY TaintedKinds
  <2> QED
    BY <2>3, <2>4, <2>5, LockOfCopy
<1>5. ASSUME NEW s \in Session, NEW a \in Sums, Transfer(s, a) PROVE UnlocksByHand
  <2>1. session[s].copy \in WalletRow
    BY <1>5 DEF Transfer, Debit, Has, Copies, Sound
  <2>2. wallet' = Sent(session[s].copy, a) /\ a \in Nat /\ Debitable(session[s].copy, a)
    BY <1>5, <2>1, SumsAssumption, AmountAssumption DEF Transfer, Debit
  <2>3. wallet'.locked = session[s].copy.locked
    BY <2>1, <2>2, SentRow
  <2>4. Taint(StaleWallet(s), {}, {})
    BY <1>5 DEF Transfer, Debit
  <2>5. {} \in SUBSET Request /\ {} \in SUBSET Key
    BY TaintedKinds
  <2> QED
    BY <2>3, <2>4, <2>5, LockOfCopy
<1>6. ASSUME NEW s \in Session, NEW a \in Sums, AdminDebit(s, a) PROVE UnlocksByHand
  <2>1. session[s].copy \in WalletRow
    BY <1>6 DEF AdminDebit, Debit, Has, Copies, Sound
  <2>2. wallet' = Taken(session[s].copy, a) /\ a \in Nat /\ a <= session[s].copy.current
    BY <1>6, <2>1, SumsAssumption, AmountAssumption DEF AdminDebit, Debit
  <2>3. wallet'.locked = session[s].copy.locked
    BY <2>1, <2>2, TakenRow
  <2>4. Taint(StaleWallet(s), {}, {})
    BY <1>6 DEF AdminDebit, Debit
  <2>5. {} \in SUBSET Request /\ {} \in SUBSET Key
    BY TaintedKinds
  <2> QED
    BY <2>3, <2>4, <2>5, LockOfCopy
<1>7. ASSUME NEW s \in Session, NEW a \in Sums, Freeze(s, a) PROVE UnlocksByHand
  <2>1. session[s].copy \in WalletRow
    BY <1>7 DEF Freeze, Has, Copies, Sound
  <2>2. wallet' = Frozen(session[s].copy, a) /\ a \in Nat /\ a <= session[s].copy.current
    BY <1>7, <2>1, SumsAssumption, AmountAssumption DEF Freeze
  <2>3. wallet'.locked = session[s].copy.locked
    BY <2>1, <2>2, FrozenRow
  <2>4. Taint(StaleWallet(s), {}, {})
    BY <1>7 DEF Freeze
  <2>5. {} \in SUBSET Request /\ {} \in SUBSET Key
    BY TaintedKinds
  <2> QED
    BY <2>3, <2>4, <2>5, LockOfCopy
<1>8. ASSUME NEW s \in Session, NEW a \in Sums, Unfreeze(s, a) PROVE UnlocksByHand
  <2>1. session[s].copy \in WalletRow
    BY <1>8 DEF Unfreeze, Has, Copies, Sound
  <2>2. wallet' = Unfrozen(session[s].copy, a) /\ a \in Nat /\ a <= session[s].copy.frozen
    BY <1>8, <2>1, SumsAssumption, AmountAssumption DEF Unfreeze
  <2>3. wallet'.locked = session[s].copy.locked
    BY <2>1, <2>2, UnfrozenRow
  <2>4. Taint(StaleWallet(s), {}, {})
    BY <1>8 DEF Unfreeze
  <2>5. {} \in SUBSET Request /\ {} \in SUBSET Key
    BY TaintedKinds
  <2> QED
    BY <2>3, <2>4, <2>5, LockOfCopy
<1>9. ASSUME NEW s \in Session, NEW r \in Request, Withdraw(s, r) PROVE UnlocksByHand
  <2>1. session[s].copy \in WalletRow
    BY <1>9 DEF Withdraw, Has, Copies, Sound
  <2>2. wallet' = Debited(session[s].copy, Amount) /\ Amount \in Nat /\ Debitable(session[s].copy, Amount)
    BY <1>9, <2>1, SumsAssumption, AmountAssumption DEF Withdraw
  <2>3. wallet'.locked = session[s].copy.locked
    BY <2>1, <2>2, DebitedRow
  <2>4. Taint(StaleWallet(s), {}, {})
    BY <1>9 DEF Withdraw
  <2>5. {} \in SUBSET Request /\ {} \in SUBSET Key
    BY TaintedKinds
  <2> QED
    BY <2>3, <2>4, <2>5, LockOfCopy
<1>10. ASSUME NEW s \in Session, NEW r \in Request, ReadRequest(s, r) PROVE UnlocksByHand
  BY <1>10 DEF ReadRequest, rows, history, UnlocksByHand
<1>11. ASSUME NEW s \in Session, NEW r \in Request, FetchRelated(s, r) PROVE UnlocksByHand
  BY <1>11 DEF FetchRelated, rows, history, UnlocksByHand
<1>12. ASSUME NEW s \in Session, Approve(s) PROVE UnlocksByHand
  BY <1>12 DEF Approve, UnlocksByHand
<1>13. ASSUME NEW s \in Session, Reject(s) PROVE UnlocksByHand
  <2>1. session[s].copy \in WalletRow
    BY <1>13 DEF Reject, Has, Copies, Sound
  <2>2. wallet' = Returned(session[s].copy) /\ TRUE
    BY <1>13, <2>1, SumsAssumption, AmountAssumption DEF Reject
  <2>3. wallet'.locked = session[s].copy.locked
    BY <2>1, <2>2, ReturnedRow
  <2>4. Taint(StaleWallet(s), StaleRequests(s), {})
    BY <1>13 DEF Reject
  <2>5. StaleRequests(s) \in SUBSET Request /\ {} \in SUBSET Key
    BY TaintedKinds
  <2> QED
    BY <2>3, <2>4, <2>5, LockOfCopy
<1>14. ASSUME NEW s \in Session, Cancel(s) PROVE UnlocksByHand
  <2>1. session[s].copy \in WalletRow
    BY <1>14 DEF Cancel, Has, Copies, Sound
  <2>2. wallet' = Returned(session[s].copy) /\ TRUE
    BY <1>14, <2>1, SumsAssumption, AmountAssumption DEF Cancel
  <2>3. wallet'.locked = session[s].copy.locked
    BY <2>1, <2>2, ReturnedRow
  <2>4. Taint(StaleWallet(s), StaleRequests(s) \cup {r \in session[s].on : session[s].seen = "CANCELLED"}, {})
    BY <1>14 DEF Cancel
  <2>5. StaleRequests(s) \cup {r \in session[s].on : session[s].seen = "CANCELLED"} \in SUBSET Request /\ {} \in SUBSET Key
    BY TaintedKinds
  <2> QED
    BY <2>3, <2>4, <2>5, LockOfCopy
<1>15. ASSUME NEW s \in Session, Complete(s) PROVE UnlocksByHand
  <2>1. session[s].copy \in WalletRow
    BY <1>15 DEF Complete, Has, Copies, Sound
  <2>2. wallet' = Paid(session[s].copy) /\ TRUE
    BY <1>15, <2>1, SumsAssumption, AmountAssumption DEF Complete
  <2>3. wallet'.locked = session[s].copy.locked
    BY <2>1, <2>2, PaidRow
  <2>4. Taint(StaleWallet(s), StaleRequests(s), {})
    BY <1>15 DEF Complete
  <2>5. StaleRequests(s) \in SUBSET Request /\ {} \in SUBSET Key
    BY TaintedKinds
  <2> QED
    BY <2>3, <2>4, <2>5, LockOfCopy
<1>16. ASSUME NEW s \in Session, DispatchFails(s) PROVE UnlocksByHand
  BY <1>16 DEF DispatchFails, UnlocksByHand
<1>17. ASSUME NEW s \in Session, Refused(s) PROVE UnlocksByHand
  BY <1>17 DEF Refused, rows, history, UnlocksByHand
<1>18. ASSUME NEW s \in Session, NEW b \in Batch, ReadBatch(s, b) PROVE UnlocksByHand
  BY <1>18 DEF ReadBatch, rows, history, UnlocksByHand
<1>19. ASSUME NEW s \in Session, ProcessBatch(s) PROVE UnlocksByHand
  BY <1>19, BatchPaysNothing DEF UnlocksByHand
<1>20. ASSUME NEW k \in Key, ExpireKey(k) PROVE UnlocksByHand
  BY <1>20 DEF ExpireKey, UnlocksByHand
<1>21. ASSUME NEW locked \in BOOLEAN, SetLocked(locked) PROVE UnlocksByHand
  <2>1. wallet' = [wallet EXCEPT !.locked = locked] /\ wallet \in WalletRow
    BY <1>21 DEF SetLocked, TypeOK
  <2>2. Money(wallet') = Money(wallet)
    BY <2>1 DEF Money, WalletRow
  <2> QED
    BY <2>2 DEF UnlocksByHand
<1>22. ASSUME NEW b \in Batch, NEW ids \in SUBSET Request, CreateBatch(b, ids)
       PROVE  UnlocksByHand
  BY <1>22 DEF CreateBatch, history, UnlocksByHand
<1>23. CASE UNCHANGED vars
  BY <1>23 DEF vars, rows, history, UnlocksByHand
<1>24. ASSUME NEW s \in Session, NEW row \in others, Reverse(s, row[1])
       PROVE  UnlocksByHand
  <2> DEFINE w == session[s].copy
             taken == TakenBack(w, row[1])
             given == -row[1]
  <2>1. w \in WalletRow /\ \/ taken \in Nat /\ taken <= w.current /\ wallet' = Taken(w, taken)
                           \/ given \in Nat /\ wallet' = Credited(w, given)
    BY <1>24, ReverseFacts
  <2>2. wallet'.locked = w.locked
    <3> HIDE DEF w, taken, given
    <3> QED
      BY <2>1, TakenRow, CreditedRow
  <2>3. Taint(StaleWallet(s), {}, {})
    BY <1>24 DEF Reverse
  <2>4. {} \in SUBSET Request /\ {} \in SUBSET Key
    BY TaintedKinds
  <2> QED
    BY <2>2, <2>3, <2>4, LockOfCopy
<1>25. ASSUME NEW s \in Session, NEW status \in Endings, EndTransaction(s, status)
       PROVE  UnlocksByHand
  BY <1>25 DEF EndTransaction, UnlocksByHand
<1>26. ASSUME NEW s \in Session, ReverseWithdrawal(s) PROVE UnlocksByHand
  <2>1. session[s].copy \in WalletRow
    BY <1>26 DEF ReverseWithdrawal, Has, Copies, Sound
  <2>2. wallet' = Credited(session[s].copy, Amount) /\ Amount \in Nat
    BY <1>26, AmountAssumption DEF ReverseWithdrawal
  <2>3. wallet'.locked = session[s].copy.locked
    BY <2>1, <2>2, CreditedRow
  <2>4. Taint(StaleWallet(s), {}, {})
    BY <1>26 DEF ReverseWithdrawal
  <2>5. {} \in SUBSET Request /\ {} \in SUBSET Key
    BY TaintedKinds
  <2> QED
    BY <2>3, <2>4, <2>5, LockOfCopy
<1>27. ASSUME NEW s \in Session, MarkReversed(s) PROVE UnlocksByHand
  BY <1>27 DEF MarkReversed, UnlocksByHand
<1>28. ASSUME NEW a \in Sums, ReserveBalance(a) PROVE UnlocksByHand
  <2>1. wallet \in WalletRow /\ a \in Nat /\ a <= wallet.current
    BY <1>28, SumsAssumption DEF ReserveBalance, TypeOK
  <2>2. wallet' = Frozen(wallet, a)
    BY <1>28 DEF ReserveBalance
  <2>3. wallet'.locked = wallet.locked
    BY <2>1, <2>2, FrozenRow
  <2> QED
    BY <2>3 DEF UnlocksByHand
<1>29. ASSUME NEW a \in Sums, ReleaseReserve(a) PROVE UnlocksByHand
  <2> DEFINE released == IF a <= wallet.frozen THEN a ELSE wallet.frozen
  <2>1. wallet \in WalletRow /\ released \in Nat /\ released <= wallet.frozen
    BY SumsAssumption, WalletColumns DEF TypeOK
  <2>2. wallet' = Unfrozen(wallet, released)
    BY <1>29 DEF ReleaseReserve
  <2>3. wallet'.locked = wallet.locked
    BY <2>1, <2>2, UnfrozenRow
  <2> QED
    BY <2>3 DEF UnlocksByHand
<1>30. ASSUME NEW k \in Key, RecordKey(k) PROVE UnlocksByHand
  BY <1>30 DEF RecordKey, UnlocksByHand
<1>31. ASSUME NEW row \in others, ApproveOther(row) PROVE UnlocksByHand
  BY <1>31 DEF ApproveOther, UnlocksByHand
<1>32. ASSUME NEW s \in Session, SaveWallet(s) PROVE UnlocksByHand
  <2> DEFINE typed == Money(wallet') # Money(session[s].copy)
  <2>1. Taint(StaleWallet(s) \/ typed, {}, {})
    BY <1>32 DEF SaveWallet
  <2>2. (StaleWallet(s) \/ typed) \in BOOLEAN /\ {} \in SUBSET Request /\ {} \in SUBSET Key
    BY DEF StaleWallet
  <2>3. ~tainted'.wallet => ~StaleWallet(s) /\ ~typed
    <3> HIDE DEF typed
    <3> QED
      BY <2>1, <2>2, TaintGrows
  <2> QED
    BY <2>3 DEF UnlocksByHand, StaleWallet
<1>33. ASSUME NEW rs \in SUBSET Request, reject_requests(rs) \/ process_withdrawals(rs)
       PROVE  UnlocksByHand
  BY <1>33, ByHandFacts DEF UnlocksByHand
<1> QED
  BY <1>1, <1>2, <1>3, <1>4, <1>5, <1>6, <1>7, <1>8, <1>9, <1>10, <1>11, <1>12, <1>13,
     <1>14, <1>15, <1>16, <1>17, <1>18, <1>19, <1>20, <1>21, <1>22, <1>23, <1>24, <1>25,
     <1>26, <1>27, <1>28, <1>29, <1>30, <1>31, <1>32, <1>33
  DEF Next, WalletStep, RequestStep, TransactionStep, BatchStep

-----------------------------------------------------------------------------
(* The theorems *)

LEMMA InitInductive == Init => Inductive
<1> SUFFICES ASSUME Init PROVE Inductive
  OBVIOUS
<1>1. TypeOK
  <2>1. wallet \in WalletRow
    BY DEF Init, WalletRow
  <2>2. request \in [Request -> RequestRow]
    BY DEF Init, RequestRow, Status, TransactionStatus
  <2>3. batch \in [Batch -> BatchRow]
    BY DEF Init, BatchRow
  <2>4. session \in [Session -> Call]
    BY IdleCall DEF Init
  <2>5. ledger \in [in : Nat, out : Nat, sent : Nat, parked : Nat, restored : Nat]
    BY DEF Init
  <2>6. settled \in [Request -> [paid : Nat, returned : Nat]]
    BY DEF Init
  <2>7. /\ keys \subseteq Key /\ credits \in [Key -> Nat]
        /\ others \subseteq OtherRow /\ byHand \subseteq Request
    BY DEF Init
  <2>8. tainted \in [calls : Nat, wallet : BOOLEAN, requests : SUBSET Request, keys : SUBSET Key]
    BY DEF Init
  <2> QED
    BY <2>1, <2>2, <2>3, <2>4, <2>5, <2>6, <2>7, <2>8 DEF TypeOK
<1>2. Copies
  BY IdleSound DEF Init, Copies
<1>3. BatchesPayNobody
  BY DEF Init, BatchesPayNobody
<1>4. KeyInNoHand /\ CreditedOnce
  BY DEF Init, KeyInNoHand, CreditedOnce
<1>5. SettledOnce
  BY DEF Init, SettledOnce
<1>6. FundsAccounted
  <2>1. Held = {} /\ PaidOut = {}
    BY DEF Init, Held, PaidOut
  <2>2. Amount * Cardinality({}) = 0
    BY FS_EmptySet, AmountAssumption
  <2> QED
    BY <2>1, <2>2 DEF Init, FundsAccounted, Accounted
<1>7. TxnApproved
  BY DEF Init, TxnApproved, Idle
<1> QED
  BY <1>1, <1>2, <1>3, <1>4, <1>5, <1>6, <1>7 DEF Inductive

\* Every step keeps the invariant.
LEMMA NextInductive == Inductive /\ [Next]_vars => Inductive'
<1> SUFFICES ASSUME Inductive, [Next]_vars PROVE Inductive'
  OBVIOUS
<1>1. /\ TypeOK /\ Copies /\ BatchesPayNobody /\ KeyInNoHand /\ CreditedOnce
      /\ SettledOnce /\ FundsAccounted /\ TxnApproved
  BY DEF Inductive
<1>2. TypeOK'
  <2>1. wallet' \in WalletRow
    BY <1>1, WalletStaysRow
  <2>2. request' \in [Request -> RequestRow]
    BY <1>1, RequestsStayRows
  <2>3. batch' \in [Batch -> BatchRow]
    BY <1>1, BatchesStayUnpaid
  <2>4. session' \in [Session -> Call]
    BY <1>1, CopiesStaySound
  <2>5. HistoryTyped'
    BY <1>1, HistoryStaysTyped
  <2>6. tainted' \in [calls : Nat, wallet : BOOLEAN, requests : SUBSET Request, keys : SUBSET Key]
    BY <1>1, TaintStep DEF TaintedMore
  <2> QED
    BY <2>1, <2>2, <2>3, <2>4, <2>5, <2>6 DEF TypeOK, HistoryTyped
<1>3. Copies'
  BY <1>1, CopiesStaySound
<1>4. BatchesPayNobody'
  BY <1>1, BatchesStayUnpaid
<1>5. KeyInNoHand' /\ CreditedOnce'
  BY <1>1, KeysStep
<1>6. SettledOnce'
  BY <1>1, SettledStep
<1>7. FundsAccounted'
  BY <1>1, FundsStep
<1>8. TxnApproved'
  BY <1>1, TxnStep
<1> QED
  BY <1>2, <1>3, <1>4, <1>5, <1>6, <1>7, <1>8 DEF Inductive

\* The invariant holds in every state, whatever the sessions, keys, batches, amounts and
\* typed balances, and for every finite set of requests.
THEOREM InductiveInvariant == Spec => []Inductive
<1>1. Init => Inductive
  BY InitInductive
<1>2. Inductive /\ [Next]_vars => Inductive'
  BY NextInductive
<1> QED
  BY <1>1, <1>2, PTL DEF Spec

\* The types, and that no balance is ever negative, although every save writes
\* back columns that were read before the transaction began.
THEOREM TypeCorrect == Spec => []TypeOK
<1>1. Inductive => TypeOK
  BY DEF Inductive
<1> QED
  BY InductiveInvariant, <1>1, PTL

\* A request that no call wrote from an outdated copy, and that was not cancelled
\* twice, is settled once; one that staff completed or rejected in bulk is neither paid
\* nor returned.
THEOREM SettledCorrect == Spec => []SettledOnce
<1>1. Inductive => SettledOnce
  BY DEF Inductive
<1> QED
  BY InductiveInvariant, <1>1, PTL

\* Until a call overtakes another, a balance is typed over or a request is cancelled
\* twice, the wallet agrees with its requests, those closed in bulk included, its
\* transfers, its credits, and what reversed debits gave back.
THEOREM FundsCorrect == Spec => []FundsAccounted
<1>1. Inductive => FundsAccounted
  BY DEF Inductive
<1> QED
  BY InductiveInvariant, <1>1, PTL

\* process_batch never completes a request.
THEOREM BatchesNeverPay == Spec => []BatchesPayNobody
<1>1. Inductive => BatchesPayNobody
  BY DEF Inductive
<1> QED
  BY InductiveInvariant, <1>1, PTL

\* A key that neither expired nor was shared by overlapping credits is credited once,
\* and stays on record, also where another wallet recorded it first.
THEOREM KeysCorrect == Spec => []CreditedOnce
<1>1. Inductive => CreditedOnce
  BY DEF Inductive
<1> QED
  BY InductiveInvariant, <1>1, PTL

\* An approved request is not rejected, unless it was written from an outdated
\* copy: its transaction refuses, and the call rolls back.
THEOREM RejectionFromPending == Spec => RejectedWhilePending
<1>1. Inductive /\ [Next]_vars => [RejectsPending]_vars
  BY RejectsFromPending DEF Inductive
<1>2. RejectsPending =>
        \A r \in Request : request'[r].status = "REJECTED" /\ request[r].status # "REJECTED"
            => request[r].status = "PENDING" \/ r \in tainted'.requests
  BY DEF RejectsPending
<1> QED
  BY InductiveInvariant, <1>1, <1>2, PTL DEF Spec, RejectedWhilePending

\* A lock is undone by unlock or the form, which move no money then, or by a save of a
\* copy from before the lock.
THEOREM UnlockCorrect == Spec => UnlockedByHand
<1>1. Inductive /\ [Next]_vars => [UnlocksByHand]_vars
  BY UnlocksOnlyByHand DEF Inductive
<1>2. UnlocksByHand =>
        (wallet.locked /\ ~wallet'.locked => Money(wallet') = Money(wallet) \/ tainted'.wallet)
  BY DEF UnlocksByHand
<1> QED
  BY InductiveInvariant, <1>1, <1>2, PTL DEF Spec, UnlockedByHand

=============================================================================
