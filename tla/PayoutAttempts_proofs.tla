----------------------- MODULE PayoutAttempts_proofs -----------------------
(***************************************************************************)
(* Theorems about what the rows of the items say of the gateway: how often *)
(* an item was sent and paid.  Neither bound holds of the code as it is;   *)
(* the theorems say under what conditions it does, for any interleaving of *)
(* sessions, and so what the violations that the runs exhibit consist of.  *)
(***************************************************************************)
EXTENDS PayoutQueue_proofs

-----------------------------------------------------------------------------
(* The row of an item, wherever it is *)

\* The row is committed and nobody writes it, or a session will commit it.
RowOf(i, row) ==
    \/ ItemFree(i) /\ row = item[i]
    \/ \E w \in Workers : i \in txn[w].held /\ row = txn[w].rows[i]

\* The rows count the same attempts and payments.
SameCount(old, row) ==
    /\ row.retry = old.retry
    /\ row.status = "SUCCESS" <=> old.status = "SUCCESS"

Carried(i, row) == \E old : RowOf(i, old) /\ SameCount(old, row)

\* Until it has an outcome, a row that a session holds counts what the committed
\* row counts; a new row counts nothing.
ClaimedAsFound ==
    /\ \A i \in Items : item[i].status = "ABSENT" => item[i].retry = 0
    /\ \A w \in Workers : \A i \in txn[w].held :
          i \in txn[w].todo \/ txn[w].at = "edit" =>
              /\ txn[w].rows[i].status # "SUCCESS"
              /\ txn[w].rows[i].retry = item[i].retry

\* A claim writes a status, and only one that is not SUCCESS.
LEMMA ClaimCounts ==
    ASSUME TypeOK, NEW S \in SUBSET Items, NEW i \in S,
           NEW s \in {"PROCESSING", "CANCELLED", "SKIPPED"}
    PROVE  Claim(S, s)[i].status # "SUCCESS" /\ Claim(S, s)[i].retry = item[i].retry
BY DEF Claim, TypeOK, ItemRow

\* ClaimedAsFound is kept.
LEMMA ClaimedStep ==
    ASSUME Inductive, ClaimedAsFound, [Next]_vars
    PROVE  ClaimedAsFound'
<1> USE DEF Inductive
<1> DEFINE Found(t) == \A i \in t.held : i \in t.todo \/ t.at = "edit" =>
                          t.rows[i].status # "SUCCESS" /\ t.rows[i].retry = item[i].retry
           NoneCounted == \A i \in Items : item'[i].status = "ABSENT" => item'[i].retry = 0
<1>0. /\ txn \in [Workers -> Txn]
      /\ \A w \in Workers : txn[w].held \in SUBSET Items /\ txn[w].todo \subseteq txn[w].held
  BY DEF TypeOK, TxnShape, Txn
<1>1. CASE UNCHANGED vars \/ \E i \in Items : LatePay(i)
  BY <1>1 DEF ClaimedAsFound, vars, LatePay
<1>2. CASE BatchStep
  <2>0. txn' = txn
    BY <1>2, BatchEffect
  <2>1. ASSUME NEW i \in Items
        PROVE  item'[i] = item[i] \/ (item[i].status = "ABSENT" /\ item'[i].retry = 0)
    BY <1>2, BatchEffect
  <2>2. NoneCounted
    BY <2>1 DEF ClaimedAsFound
  <2>3. \A w \in Workers : \A i \in txn[w].held : item'[i] = item[i]
    BY <1>0, <2>1 DEF LockedRowsKept
  <2> QED
    BY <2>0, <2>2, <2>3 DEF ClaimedAsFound
<1>3. ASSUME NEW w \in Workers, item' = item, OthersKeep(w), Found(txn'[w])
      PROVE  ClaimedAsFound'
  BY <1>3 DEF OthersKeep, ClaimedAsFound
<1>4. ASSUME NEW w \in Workers,
             \/ BeginStep(w) \/ ProcessDeduct(w) \/ ProcessSelect(w)
             \/ RecordStep(w) \/ RollbackStep(w) \/ AdvanceStep(w)
      PROVE  ClaimedAsFound'
  <2>1. CASE BeginStep(w)
    <3>1. PICK s \in {"PROCESSING", "CANCELLED", "SKIPPED"} :
             txn'[w].rows = Claim(txn'[w].held, s)
      BY <2>1, BeginEffect
    <3>2. item' = item /\ OthersKeep(w) /\ txn'[w].held \in SUBSET Items
      BY <2>1, BeginEffect
    <3>3. Found(txn'[w])
      BY <3>1, <3>2, ClaimCounts
    <3> QED
      BY <1>3, <3>2, <3>3
  <2>2. CASE ProcessDeduct(w)
    <3>1. item' = item /\ OthersKeep(w) /\ txn[w].held = {} /\ txn'[w].held = txn[w].held
      BY <2>2, DeductEffect DEF SameClaim, TxnShape, Sends
    <3> QED
      BY <1>3, <3>1
  <2>3. CASE ProcessSelect(w)
    <3>1. /\ item' = item /\ OthersKeep(w) /\ txn'[w].held \in SUBSET Items
          /\ txn'[w].rows = Claim(txn'[w].held, "PROCESSING")
      BY <2>3, SelectEffect
    <3>2. Found(txn'[w])
      BY <3>1, ClaimCounts
    <3> QED
      BY <1>3, <3>1, <3>2
  <2>4. CASE RecordStep(w)
    <3>1. /\ item' = item /\ OthersKeep(w) /\ txn'[w].held = txn[w].held
          /\ txn'[w].at = txn[w].at /\ txn[w].at \in Sends
      BY <2>4, RecordEffect DEF Committed
    <3>2. PICK i \in Items : /\ txn'[w].todo = txn[w].todo \ {i}
                             /\ \A j \in Items \ {i} : txn'[w].rows[j] = txn[w].rows[j]
      BY <2>4, RecordEffect
    <3>3. Found(txn'[w])
      BY <1>0, <3>1, <3>2 DEF ClaimedAsFound, Sends
    <3> QED
      BY <1>3, <3>1, <3>3
  <2>5. CASE RollbackStep(w)
    <3>1. item' = item /\ OthersKeep(w) /\ txn'[w].held = {}
      BY <1>0, <2>5, IdleHoldsNothing DEF RollbackStep, OthersKeep, Committed
    <3> QED
      BY <1>3, <3>1
  <2>6. CASE AdvanceStep(w)
    <3>1. /\ item' = item /\ OthersKeep(w) /\ txn[w].held = {} /\ txn'[w].held = txn[w].held
      BY <2>6, AdvanceEffect DEF SameClaim, TxnShape, Sends
    <3> QED
      BY <1>3, <3>1
  <2> QED
    BY <1>4, <2>1, <2>2, <2>3, <2>4, <2>5, <2>6
<1>5. ASSUME NEW w \in Workers, CommitStep(w)
      PROVE  ClaimedAsFound'
  <2>1. /\ OthersKeep(w) /\ txn'[w].held = {} /\ item' = ItemsSeenBy(w)
        /\ txn[w].todo = {}
    BY <1>0, <1>5, CommitEffect, IdleHoldsNothing DEF OthersKeep
  <2>2. \A i \in txn[w].held : item'[i].status # "ABSENT"
    <3>1. txn[w].held # {} => txn[w].at \in Sends \cup {"edit"}
      BY DEF TxnShape
    <3> QED
      BY <1>0, <2>1, <3>1 DEF Prepared, ItemsSeenBy
  <2>3. NoneCounted
    BY <1>0, <2>1, <2>2 DEF ItemsSeenBy, ClaimedAsFound
  <2>4. ASSUME NEW v \in Workers \ {w}, NEW i \in txn[v].held
        PROVE  item'[i] = item[i]
    <3>1. i \in Items /\ i \notin txn[w].held
      BY <1>0, <2>4 DEF RowLocksExclusive
    <3> QED
      BY <2>1, <3>1 DEF ItemsSeenBy
  <2> QED
    BY <2>1, <2>3, <2>4 DEF ClaimedAsFound, OthersKeep
<1> QED
  BY <1>1, <1>2, <1>4, <1>5, StepKinds

-----------------------------------------------------------------------------
(* Where the row of an item comes from *)

\* w recorded the outcome of one more request for i.
RecordedAs(w, i, row) ==
    /\ i \in txn[w].todo
    /\ i \in txn'[w].held /\ row = txn'[w].rows[i]
    /\ Asked(i)
    /\ row.status \in {"SUCCESS", "RETRYING"}
    /\ row.retry = txn[w].rows[i].retry + (IF row.status = "SUCCESS" THEN 0 ELSE 1)

\* w dropped what it had recorded for i, or was about to.
DroppedTo(w, i, row) == RollbackStep(w) /\ i \in txn[w].held /\ row = item[i]

\* A step leaves an item's row and its requests alone, but for their late answers,
\* unless it records an outcome for the item or drops one.
LEMMA RowOrigin ==
    ASSUME Inductive, Inductive', ClaimedAsFound, [Next]_vars,
           NEW i \in Items, NEW row, RowOf(i, row)'
    PROVE  \/ Carried(i, row) /\ (gateway'[i] = gateway[i] \/ LatePay(i))
           \/ \E w \in Workers : RecordedAs(w, i, row) \/ DroppedTo(w, i, row)
<1> USE DEF Inductive
<1>0. /\ txn \in [Workers -> Txn] /\ gateway \in [Items -> GatewayRow]
      /\ \A w \in Workers : txn[w].held \in SUBSET Items /\ txn[w].todo \subseteq txn[w].held
  BY DEF TypeOK, TxnShape, Txn
<1>1. \A old : RowOf(i, old) /\ SameCount(old, row) => Carried(i, row)
  BY DEF Carried
<1>2. RowOf(i, row) => Carried(i, row)
  BY <1>1 DEF SameCount
<1>3. ASSUME UNCHANGED <<item, txn>>
      PROVE  Carried(i, row)
  BY <1>2, <1>3 DEF RowOf, ItemFree
<1>4. CASE UNCHANGED vars
  BY <1>3, <1>4 DEF vars
<1>5. ASSUME NEW j \in Items, LatePay(j)
      PROVE  Carried(i, row) /\ (gateway'[i] = gateway[i] \/ LatePay(i))
  BY <1>0, <1>3, <1>5 DEF LatePay
<1>6. CASE BatchStep
  <2>1. /\ txn' = txn /\ gateway' = gateway
        /\ \/ item'[i] = item[i]
           \/ /\ item[i].status = "ABSENT"
              /\ item'[i].status = "QUEUED" /\ item'[i].retry = 0
    BY <1>6, BatchEffect
  <2>2. CASE item'[i] = item[i]
    BY <1>2, <2>1, <2>2 DEF RowOf, ItemFree
  <2>3. CASE item[i].status = "ABSENT" /\ item'[i].status = "QUEUED" /\ item'[i].retry = 0
    <3>1. ItemFree(i)
      BY <2>3 DEF ItemFree, LockedRowsKept
    <3>2. RowOf(i, item[i]) /\ row = item'[i]
      BY <2>1, <3>1 DEF RowOf, ItemFree
    <3> QED
      BY <1>1, <2>1, <2>3, <3>2 DEF SameCount, ClaimedAsFound
  <2> QED
    BY <2>1, <2>2, <2>3
<1>7. ASSUME NEW w \in Workers, BeginStep(w) \/ ProcessSelect(w)
      PROVE  Carried(i, row) /\ gateway'[i] = gateway[i]
  <2>1. /\ item' = item /\ gateway' = gateway /\ OthersKeep(w)
        /\ txn[w].held = {} /\ txn'[w].held \in SUBSET Items
        /\ \A j \in txn'[w].held : ItemFree(j)
    BY <1>7, BeginEffect, SelectEffect DEF TxnShape, Sends
  <2>2. CASE i \in txn'[w].held /\ row = txn'[w].rows[i]
    <3>1. PICK s \in {"PROCESSING", "CANCELLED", "SKIPPED"} :
             txn'[w].rows = Claim(txn'[w].held, s)
      BY <1>7, BeginEffect, SelectEffect
    <3>2. row.status # "SUCCESS" /\ row.retry = item[i].retry
      BY <2>1, <2>2, <3>1, ClaimCounts
    <3>3. item[i].status # "SUCCESS" /\ RowOf(i, item[i])
      <4>1. LockedRowsKept'
        OBVIOUS
      <4> QED
        BY <2>1, <2>2, <4>1 DEF LockedRowsKept, RowOf
    <3> QED
      BY <1>1, <2>1, <3>2, <3>3 DEF SameCount
  <2>3. CASE ~(i \in txn'[w].held /\ row = txn'[w].rows[i])
    BY <1>2, <2>1, <2>3 DEF RowOf, ItemFree, OthersKeep
  <2> QED
    BY <2>2, <2>3
<1>8. ASSUME NEW w \in Workers, ProcessDeduct(w) \/ AdvanceStep(w)
      PROVE  Carried(i, row) /\ gateway'[i] = gateway[i]
  BY <1>2, <1>8, DeductEffect, AdvanceEffect DEF RowOf, ItemFree, OthersKeep, SameClaim
<1>9. ASSUME NEW w \in Workers, CommitStep(w)
      PROVE  Carried(i, row) /\ gateway'[i] = gateway[i]
  <2>1. /\ OthersKeep(w) /\ txn'[w].held = {} /\ item' = ItemsSeenBy(w) /\ gateway' = gateway
    BY <1>0, <1>9, CommitEffect, IdleHoldsNothing DEF OthersKeep
  <2>2. RowOf(i, row)
    <3>1. CASE ItemFree(i)' /\ row = item'[i]
      BY <2>1, <3>1 DEF RowOf, ItemFree, ItemsSeenBy, OthersKeep
    <3>2. CASE \E v \in Workers : i \in txn'[v].held /\ row = txn'[v].rows[i]
      BY <2>1, <3>2 DEF RowOf, OthersKeep
    <3> QED
      BY <3>1, <3>2 DEF RowOf
  <2> QED
    BY <1>2, <2>1, <2>2
<1>10. ASSUME NEW w \in Workers, RecordStep(w)
       PROVE  \/ Carried(i, row) /\ gateway'[i] = gateway[i]
              \/ RecordedAs(w, i, row)
  <2>1. item' = item /\ OthersKeep(w) /\ txn'[w].held = txn[w].held
    BY <1>10, RecordEffect DEF Committed
  <2>2. PICK j \in Items :
           /\ Asked(j) /\ j \in txn[w].todo
           /\ \A k \in Items \ {j} : txn'[w].rows[k] = txn[w].rows[k]
           /\ txn'[w].rows[j].status \in {"SUCCESS", "RETRYING"}
           /\ txn'[w].rows[j].retry =
                 txn[w].rows[j].retry + (IF txn'[w].rows[j].status = "SUCCESS" THEN 0 ELSE 1)
    BY <1>10, RecordEffect
  <2>3. CASE i # j
    <3>1. gateway'[i] = gateway[i]
      BY <1>0, <2>2, <2>3 DEF Asked
    <3>2. RowOf(i, row)
      BY <2>1, <2>2, <2>3 DEF RowOf, ItemFree, OthersKeep
    <3> QED
      BY <1>2, <3>1, <3>2
  <2>4. CASE i = j
    <3>1. i \in txn'[w].held
      BY <1>0, <2>1, <2>2, <2>4
    <3>2. RowLocksExclusive'
      OBVIOUS
    <3>3. row = txn'[w].rows[i]
      BY <3>1, <3>2 DEF RowOf, ItemFree, RowLocksExclusive
    <3> QED
      BY <2>2, <2>4, <3>1, <3>3 DEF RecordedAs
  <2> QED
    BY <2>3, <2>4
<1>11. ASSUME NEW w \in Workers, RollbackStep(w)
       PROVE  \/ Carried(i, row) /\ gateway'[i] = gateway[i]
              \/ DroppedTo(w, i, row)
  <2>1. item' = item /\ OthersKeep(w) /\ txn'[w].held = {}
    BY <1>0, <1>11, IdleHoldsNothing DEF RollbackStep, OthersKeep, Committed
  <2>2. CASE i \in txn[w].held
    <3>1. \A v \in Workers : i \notin txn'[v].held
      BY <2>1, <2>2 DEF RowLocksExclusive, OthersKeep
    <3>2. row = item[i]
      BY <2>1, <3>1 DEF RowOf
    <3> QED
      BY <1>11, <2>2, <3>2 DEF DroppedTo
  <2>3. CASE i \notin txn[w].held
    <3>1. gateway'[i] = gateway[i]
      BY <1>0, <1>11, <2>3 DEF RollbackStep, Asked
    <3>2. RowOf(i, row)
      BY <2>1, <2>3 DEF RowOf, ItemFree, OthersKeep
    <3> QED
      BY <1>2, <3>1, <3>2
  <2> QED
    BY <2>2, <2>3
<1> QED
  BY <1>4, <1>5, <1>6, <1>7, <1>8, <1>9, <1>10, <1>11, <1>3, StepKinds

-----------------------------------------------------------------------------
(* Attempts *)

\* The requests that a row knows of: the failed ones, and the one that succeeded.
Attempts(row) == row.retry + (IF row.status = "SUCCESS" THEN 1 ELSE 0)

\* Every request for an item is counted by its row.
AttemptsCounted ==
    \A i \in Items : \A row \in ItemRow : RowOf(i, row) => gateway[i].sends <= Attempts(row)

\* A transaction that sends items is rolled back before its first request only.
NoAttemptForgotten ==
    \A w \in Workers : txn[w].at \in Sends /\ Rollback(w) =>
        txn[w].todo = txn[w].held /\ UNCHANGED gateway

\* Rows that exist are rows of the table.
LEMMA RowOfType ==
    ASSUME TypeOK, NEW i \in Items, NEW row, RowOf(i, row)
    PROVE  row \in ItemRow
BY DEF RowOf, TypeOK, Txn

\* Every item has a row.
LEMMA RowExists ==
    ASSUME TypeOK, NEW i \in Items
    PROVE  \E row \in ItemRow : RowOf(i, row)
BY DEF RowOf, ItemFree, TypeOK, Txn

\* A request that is answered late is not sent again.
LEMMA LateSends ==
    ASSUME TypeOK, NEW i \in Items, LatePay(i)
    PROVE  gateway'[i].sends = gateway[i].sends
<1>1. gateway[i] \in GatewayRow /\ gateway \in [Items -> GatewayRow]
  BY DEF TypeOK
<1>2. Answered(i) \in GatewayRow /\ Answered(i).sends = gateway[i].sends
  BY <1>1 DEF LatePay, Answered, GatewayRow
<1> QED
  BY <1>1, <1>2, DisburseType DEF LatePay

LEMMA AttemptsStep ==
    ASSUME Inductive, Inductive', ClaimedAsFound, AttemptsCounted, [Next]_vars,
           [NoAttemptForgotten]_vars
    PROVE  AttemptsCounted'
<1> USE DEF Inductive
<1> SUFFICES ASSUME NEW i \in Items, NEW row \in ItemRow, RowOf(i, row)'
             PROVE  gateway'[i].sends <= Attempts(row)
  BY DEF AttemptsCounted
<1>0. /\ gateway \in [Items -> GatewayRow] /\ gateway[i].sends \in Nat
      /\ txn \in [Workers -> Txn] /\ item[i] \in ItemRow /\ row.retry \in Nat
  BY DEF TypeOK, GatewayRow, ItemRow
<1>1. ASSUME NEW old, RowOf(i, old)
      PROVE  old \in ItemRow /\ old.retry \in Nat /\ gateway[i].sends <= Attempts(old)
  BY <1>1, RowOfType DEF AttemptsCounted, ItemRow
<1>2. CASE Carried(i, row) /\ (gateway'[i] = gateway[i] \/ LatePay(i))
  <2>1. gateway'[i].sends = gateway[i].sends
    BY <1>2, LateSends
  <2> QED
    BY <1>1, <1>2, <2>1 DEF Carried, SameCount, Attempts
<1>3. ASSUME NEW w \in Workers, RecordedAs(w, i, row)
      PROVE  gateway'[i].sends <= Attempts(row)
  <2>1. i \in txn[w].held
    BY <1>3 DEF RecordedAs, TxnShape
  <2>2. RowOf(i, txn[w].rows[i]) /\ txn[w].rows[i].status # "SUCCESS"
    BY <1>3, <2>1 DEF RecordedAs, RowOf, ClaimedAsFound
  <2>3. gateway[i].sends <= txn[w].rows[i].retry /\ txn[w].rows[i].retry \in Nat
    BY <1>1, <2>2 DEF Attempts
  <2>4. gateway'[i].sends = gateway[i].sends + 1
    BY <1>0, <1>3 DEF RecordedAs, Asked
  <2>5. Attempts(row) = txn[w].rows[i].retry + 1
    BY <1>3, <2>3 DEF RecordedAs, Attempts
  <2> QED
    BY <1>0, <2>3, <2>4, <2>5
<1>4. ASSUME NEW w \in Workers, DroppedTo(w, i, row)
      PROVE  gateway'[i].sends <= Attempts(row)
  <2>1. i \in txn[w].held /\ row = item[i] /\ RollbackStep(w) /\ Rollback(w)
    BY <1>4 DEF DroppedTo, RollbackStep, Rollback, Committed
  <2>2. txn' # txn
    BY <1>0, <2>1, IdleHoldsNothing DEF Rollback
  <2>3. NoAttemptForgotten
    BY <2>2 DEF vars
  <2>4. gateway' = gateway /\ (i \in txn[w].todo \/ txn[w].at = "edit")
    <3>1. CASE txn[w].at \in Sends
      BY <2>1, <2>3, <3>1 DEF NoAttemptForgotten
    <3>2. CASE txn[w].at \notin Sends
      BY <2>1, <3>2 DEF RollbackStep, TxnShape
    <3> QED
      BY <3>1, <3>2
  <2>5. RowOf(i, txn[w].rows[i])
    BY <2>1 DEF RowOf
  <2>6. txn[w].rows[i].status # "SUCCESS" /\ txn[w].rows[i].retry = item[i].retry
    BY <2>1, <2>4 DEF ClaimedAsFound
  <2>7. gateway[i].sends <= item[i].retry
    BY <1>1, <2>5, <2>6 DEF Attempts
  <2> QED
    BY <1>0, <2>1, <2>4, <2>7 DEF Attempts
<1> QED
  BY <1>2, <1>3, <1>4, RowOrigin

LEMMA InitCounted == Init => ClaimedAsFound /\ AttemptsCounted
<1> SUFFICES ASSUME Init PROVE ClaimedAsFound /\ AttemptsCounted
  OBVIOUS
<1>1. /\ item = [i \in Items |-> NoItem] /\ txn = [w \in Workers |-> Idle]
      /\ gateway = [i \in Items |-> [sends |-> 0, paid |-> 0, late |-> 0]]
  BY DEF Init
<1>2. \A i \in Items : \A row : RowOf(i, row) => row = NoItem
  BY <1>1, IdleHoldsNothing DEF RowOf
<1> QED
  BY <1>1, <1>2, IdleHoldsNothing DEF ClaimedAsFound, AttemptsCounted, Attempts, NoItem

\* An item is sent more often than MAX_RETRY_ATTEMPTS allows ("exhausts all
\* retries and reaches FAILED", signals.py:20) only because a transaction that
\* sent it was rolled back, as the count of the last failed attempt always is:
\* without that, retry_count and the row locks bound the requests, for any number
\* of sessions that process and retry together.
THEOREM AttemptsWithinBound ==
    Spec /\ [][NoAttemptForgotten]_vars => []AttemptsBounded
<1>1. Inductive /\ Inductive' /\ ClaimedAsFound /\ AttemptsCounted /\ [Next]_vars
          /\ [NoAttemptForgotten]_vars => ClaimedAsFound' /\ AttemptsCounted'
  BY ClaimedStep, AttemptsStep
<1>2. Inductive /\ AttemptsCounted => AttemptsBounded
  <2> SUFFICES ASSUME Inductive, AttemptsCounted, NEW i \in Items
               PROVE  gateway[i].sends <= MaxRetryAttempts + 1
    BY DEF AttemptsBounded
  <2>1. PICK row \in ItemRow : RowOf(i, row)
    BY RowExists DEF Inductive
  <2>2. row.retry <= MaxRetryAttempts
    BY <2>1 DEF RowOf, Inductive, TypeOK, Prepared
  <2>3. row.retry \in Nat /\ gateway[i].sends \in Nat
    BY <2>1 DEF ItemRow, Inductive, TypeOK, GatewayRow
  <2>4. gateway[i].sends <= Attempts(row)
    BY <2>1 DEF AttemptsCounted
  <2> QED
    BY <2>2, <2>3, <2>4, ConstantsAssumption DEF Attempts
<1> QED
  BY InductiveInvariance, InitCounted, <1>1, <1>2, PTL DEF Spec

-----------------------------------------------------------------------------
(* Payments *)

\* The payments that a row knows of.
Payments(row) == IF row.status = "SUCCESS" THEN 1 ELSE 0

\* Every payment of an item is known to its row.
PaymentsCounted ==
    \A i \in Items : \A row \in ItemRow : RowOf(i, row) => gateway[i].paid <= Payments(row)

\* The gateway pays only what it answers with a success in time, and no
\* transaction is rolled back with a success in it.
PaymentsAnswered ==
    /\ \A i \in Items : gateway'[i].paid # gateway[i].paid =>
          \E w \in Workers : i \in txn[w].todo /\ txn'[w].rows[i].status = "SUCCESS"
    /\ \A w \in Workers : txn[w].at \in Sends /\ Rollback(w) =>
          \A i \in txn[w].held : txn[w].rows[i].status # "SUCCESS"

\* No item is paid twice.
PaidOnce == \A i \in Items : gateway[i].paid <= 1

LEMMA PaymentsStep ==
    ASSUME Inductive, Inductive', ClaimedAsFound, PaymentsCounted, [Next]_vars,
           [PaymentsAnswered]_vars
    PROVE  PaymentsCounted'
<1> USE DEF Inductive
<1> SUFFICES ASSUME NEW i \in Items, NEW row \in ItemRow, RowOf(i, row)'
             PROVE  gateway'[i].paid <= Payments(row)
  BY DEF PaymentsCounted
<1>0. /\ gateway \in [Items -> GatewayRow] /\ gateway[i].paid \in Nat
      /\ gateway'[i].paid \in Nat /\ txn \in [Workers -> Txn]
  BY DEF TypeOK, GatewayRow
<1>1. ASSUME NEW old, RowOf(i, old)
      PROVE  gateway[i].paid <= Payments(old)
  BY <1>1, RowOfType DEF PaymentsCounted
<1>2. ASSUME gateway'[i].paid # gateway[i].paid
      PROVE  \E w \in Workers : i \in txn[w].todo /\ txn'[w].rows[i].status = "SUCCESS"
  BY <1>2 DEF PaymentsAnswered, vars
<1>3. \A w \in Workers : i \in txn[w].todo => i \in txn[w].held /\ txn[w].rows[i].status # "SUCCESS"
  BY DEF TxnShape, ClaimedAsFound
<1>4. CASE Carried(i, row) /\ (gateway'[i] = gateway[i] \/ LatePay(i))
  <2>1. gateway'[i].paid = gateway[i].paid
    BY <1>2, <1>3, <1>4 DEF LatePay
  <2> QED
    BY <1>1, <1>4, <2>1 DEF Carried, SameCount, Payments
<1>5. ASSUME NEW w \in Workers, RecordedAs(w, i, row)
      PROVE  gateway'[i].paid <= Payments(row)
  <2>1. i \in txn[w].todo /\ i \in txn[w].held /\ i \in txn'[w].held /\ row = txn'[w].rows[i]
    BY <1>3, <1>5 DEF RecordedAs
  <2>2. gateway[i].paid <= 0
    BY <1>1, <1>3, <2>1 DEF RowOf, Payments
  <2>3. gateway'[i].paid <= gateway[i].paid + 1
    BY <1>0, <1>5 DEF RecordedAs, Asked
  <2>4. CASE row.status = "SUCCESS"
    BY <1>0, <2>2, <2>3, <2>4 DEF Payments
  <2>5. CASE row.status # "SUCCESS"
    <3>1. ASSUME NEW v \in Workers, i \in txn[v].todo
          PROVE  v = w
      BY <1>3, <2>1, <3>1 DEF RowLocksExclusive
    <3>2. gateway'[i].paid = gateway[i].paid
      BY <1>2, <2>1, <2>5, <3>1
    <3> QED
      BY <2>2, <2>5, <3>2 DEF Payments
  <2> QED
    BY <2>4, <2>5
<1>6. ASSUME NEW w \in Workers, DroppedTo(w, i, row)
      PROVE  gateway'[i].paid <= Payments(row)
  <2>1. /\ i \in txn[w].held /\ Rollback(w)
        /\ txn'[w] = Idle /\ \A v \in Workers \ {w} : txn'[v] = txn[v]
    BY <1>0, <1>6 DEF DroppedTo, RollbackStep, Rollback, Committed
  <2>2. txn' # txn
    BY <2>1, IdleHoldsNothing
  <2>3. PaymentsAnswered
    BY <2>2 DEF vars
  <2>4. Idle.rows[i].status # "SUCCESS"
    BY DEF Idle, NoItem
  <2>5. gateway'[i].paid = gateway[i].paid
    BY <1>2, <1>3, <2>1, <2>4
  <2>6. txn[w].rows[i].status # "SUCCESS"
    <3>1. txn[w].at \in Sends \/ txn[w].at = "edit"
      BY <2>1 DEF TxnShape
    <3> QED
      BY <2>1, <2>3, <3>1 DEF PaymentsAnswered, ClaimedAsFound
  <2>7. gateway[i].paid <= 0
    BY <1>1, <2>1, <2>6 DEF RowOf, Payments
  <2> QED
    BY <1>0, <2>5, <2>7 DEF Payments
<1> QED
  BY <1>4, <1>5, <1>6, RowOrigin

LEMMA InitUnpaid == Init => PaymentsCounted
<1> SUFFICES ASSUME Init PROVE PaymentsCounted
  OBVIOUS
<1>1. gateway = [i \in Items |-> [sends |-> 0, paid |-> 0, late |-> 0]]
  BY DEF Init
<1> QED
  BY <1>1 DEF PaymentsCounted, Payments

\* Nobody is paid twice, and whoever was paid is recorded as paid once the run
\* that paid him is over (services.py:499), as long as the gateway pays only what
\* it answers in time and no transaction rolls a success back.  No interleaving
\* of process_batch, retry_failed_items, edits and crashes before a payment does
\* it, even if the gateway does not recognise a reference it has paid.
THEOREM PaymentsRecorded ==
    Spec /\ [][PaymentsAnswered]_vars => [](PaidOnce /\ PaidIsRecorded)
<1>1. Inductive /\ Inductive' /\ ClaimedAsFound /\ PaymentsCounted /\ [Next]_vars
          /\ [PaymentsAnswered]_vars => ClaimedAsFound' /\ PaymentsCounted'
  BY ClaimedStep, PaymentsStep
<1>2. Inductive /\ PaymentsCounted => PaidOnce /\ PaidIsRecorded
  <2> SUFFICES ASSUME Inductive, PaymentsCounted, NEW i \in Items
               PROVE  /\ gateway[i].paid <= 1
                      /\ gateway[i].paid > 0 /\ ItemFree(i) => item[i].status = "SUCCESS"
    BY DEF PaidOnce, PaidIsRecorded
  <2>1. gateway[i].paid \in Nat /\ item[i] \in ItemRow
    BY DEF Inductive, TypeOK, GatewayRow
  <2>2. PICK row \in ItemRow : RowOf(i, row)
    BY RowExists DEF Inductive
  <2>3. gateway[i].paid <= Payments(row) /\ Payments(row) \in {0, 1}
    BY <2>2 DEF PaymentsCounted, Payments
  <2>4. ItemFree(i) => gateway[i].paid <= Payments(item[i])
    BY <2>1 DEF RowOf, PaymentsCounted
  <2> QED
    BY <2>1, <2>3, <2>4 DEF Payments
<1> QED
  BY InductiveInvariance, InitCounted, InitUnpaid, <1>1, <1>2, PTL DEF Spec

=============================================================================
