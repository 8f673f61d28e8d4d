------------------------ MODULE RewardInventory_proofs ------------------------
(***************************************************************************)
(* Theorems about RewardInventory, for every number of items, codes,       *)
(* receipts, sessions and workers, every initial stock and every cap.      *)
(*                                                                         *)
(* Inductive joins the properties with what makes them inductive: the row  *)
(* locks of open awards (Locks), what these awards have checked and nobody *)
(* may change before they commit (AwardsOpen, Capped), that the delivery   *)
(* of a receipt is one chain of tasks until it fails (OneChain), and what  *)
(* a delivery under way knows (Snapshots, Spent).                          *)
(***************************************************************************)
EXTENDS RewardInventory, FiniteSetTheorems, TLAPS

\* Open awards hold different items and different codes.
Locks ==
    \A p, q \in Procs :
        Awarding(p) /\ Awarding(q) /\ p # q =>
            /\ ItemOf[tx[p].receipt] # ItemOf[tx[q].receipt]
            /\ tx[p].code # NoCode => tx[p].code # tx[q].code

\* What an open award has checked is still so when it commits.
AwardsOpen ==
    \A p \in Procs : Awarding(p) =>
        /\ receipt[tx[p].receipt].status = "ABSENT"
        /\ InStock(ItemOf[tx[p].receipt])
        /\ tx[p].code # NoCode => code[tx[p].code].status = "AVAILABLE"

\* The cap, and the room an open award has found under it.
Capped ==
    /\ CapHolds
    /\ \A p \in Procs : Awarding(p) =>
          LET r == tx[p].receipt IN
          Cardinality(Held(UserOf[r], ItemOf[r])) + 1 <= MaxPerUser

\* Which rows are there, and what their status says.
Rows ==
    /\ \A r \in Receipts :
          /\ receipt[r].status = "ABSENT" => receipt[r] = NewReceipt("ABSENT", NoCode)
          /\ receipt[r].status = "REVOKED" => receipt[r].revoked
    /\ \A p \in Procs :
          tx[p].op \in {"revoke", "claim"} => receipt[tx[p].receipt].status # "ABSENT"
    /\ \A p \in Procs : Delivering(p) => receipt[tx[p].task.receipt].status # "ABSENT"

DeliveringOf(p, r) == Delivering(p) /\ tx[p].task.receipt = r

\* One task at most is queued or executed for receipt r.
OneTask(r) ==
    /\ \A t, u \in queue : t.receipt = r /\ u.receipt = r => t = u
    /\ \A t \in queue, p \in Procs : t.receipt = r => ~DeliveringOf(p, r)
    /\ \A p, q \in Procs : DeliveringOf(p, r) /\ DeliveringOf(q, r) => p = q

\* Until a receipt has failed, its delivery is one chain of tasks.
OneChain == \A r \in Receipts : receipt[r].attempts < MaxAttempts => OneTask(r)

\* The attempts a delivery has read are those of the row, or all are used up.
Snapshots ==
    \A p \in Procs : Delivering(p) =>
        \/ tx[p].attempts = receipt[tx[p].task.receipt].attempts
        \/ tx[p].attempts >= MaxAttempts /\ receipt[tx[p].task.receipt].attempts >= MaxAttempts

\* The code of a receipt has left the pool, for this receipt alone.
OutOfPool ==
    /\ \A r \in Receipts : receipt[r].code # NoCode =>
          code[receipt[r].code].status \in {"RESERVED", "REDEEMED", "VOIDED"}
    /\ \A r, s \in Receipts : receipt[r].code = receipt[s].code /\ receipt[r].code # NoCode
          => r = s

SpentCode(r) == receipt[r].code # NoCode =>
    code[receipt[r].code].status \in {"REDEEMED", "VOIDED"}

\* Who goes by a spent code: a delivery past mark_redeemed, a claim.
Spent ==
    /\ DeliveredCodeIsSpent
    /\ \A p \in Procs : /\ Delivering(p) /\ tx[p].redeemed => SpentCode(tx[p].task.receipt)
                        /\ tx[p].op = "claim" => SpentCode(tx[p].receipt)

Inductive ==
    /\ TypeOK
    /\ Locks
    /\ AwardsOpen
    /\ Rows
    /\ OneChain
    /\ Snapshots
    /\ SweepFindsNothing
    /\ OutOfPool
    /\ Spent
    /\ Capped

-----------------------------------------------------------------------------
(* Operators *)

\* The shape of an operation follows from its name.
LEMMA OperationShapes ==
    ASSUME TypeOK, NEW p \in Procs
    PROVE  /\ Awarding(p) => tx[p] \in AwardTx
           /\ tx[p].op \in {"revoke", "claim"} => tx[p] \in CheckedTx
           /\ tx[p].op = "edit" => tx[p] \in EditTx
           /\ tx[p].op = "sync" => tx[p] \in SyncTx
           /\ tx[p].op = "counted" => tx[p] \in CountedTx
           /\ Delivering(p) => tx[p] \in DeliverTx
<1>1. tx[p] \in Operation
  BY DEF TypeOK
<1>. QED
  BY <1>1
  DEF Operation, Idle, AwardTx, CheckedTx, EditTx, SyncTx, CountedTx, DeliverTx,
      Awarding, Delivering

\* The number of codes in a set of them is a natural number.
LEMMA CodesAreFinite ==
    ASSUME NEW T \in SUBSET Codes
    PROVE  Cardinality(T) \in Nat /\ (T # {} => Cardinality(T) > 0)
<1>1. IsFiniteSet(T)
  BY FiniteAssumption, FS_Subset
<1>. QED
  BY <1>1, FS_CardinalityType, FS_EmptySet

\* A retried task is the task with one more retry, or none.
LEMMA RetriedTasks ==
    ASSUME NEW task \in Task
    PROVE  /\ Retried(task) \subseteq Task
           /\ \A t \in Retried(task) : t.receipt = task.receipt
           /\ \A t, u \in Retried(task) : t = u
<1>1. [task EXCEPT !.tries = @ + 1] \in Task
  BY DEF Task
<1>2. [task EXCEPT !.tries = @ + 1].receipt = task.receipt
  BY DEF Task
<1>. QED
  BY <1>1, <1>2 DEF Retried

\* A stock that moves stays in its column's range.
LEMMA MoveStockType ==
    ASSUME item \in [Items -> ItemRow], NEW i \in Items, NEW n \in Int, MoveStock(i, n),
           is_unlimited(i) \/ item[i].stock + n >= 0
    PROVE  item' \in [Items -> ItemRow]
<1>. DEFINE new == IF is_unlimited(i) THEN item[i].stock ELSE item[i].stock + n
<1>1. new \in Nat \cup {UNLIMITED_STOCK}
  BY DEF ItemRow, is_unlimited, UNLIMITED_STOCK
<1>2. item' = [item EXCEPT ![i].stock = new]
  BY DEF MoveStock
<1>. HIDE DEF new
<1>3. [item[i] EXCEPT !.stock = new] \in ItemRow
  BY <1>1 DEF ItemRow
<1>. QED
  BY <1>2, <1>3

\* Codes that change their status are still codes.
LEMMA CodeStatusType ==
    ASSUME code \in [Codes -> CodeRow], NEW c \in Codes, NEW s \in CodeStatus
    PROVE  [code EXCEPT ![c].status = s] \in [Codes -> CodeRow]
<1>1. [code[c] EXCEPT !.status = s] \in CodeRow
  BY DEF CodeRow
<1>. QED
  BY <1>1

\* Receipts that change their status are still receipts.
LEMMA ReceiptStatusType ==
    ASSUME receipt \in [Receipts -> ReceiptRow], NEW r \in Receipts, NEW s \in InventoryStatus
    PROVE  [receipt EXCEPT ![r].status = s] \in [Receipts -> ReceiptRow]
<1>1. [receipt[r] EXCEPT !.status = s] \in ReceiptRow
  BY DEF ReceiptRow
<1>. QED
  BY <1>1

\* A process that finishes is idle.
LEMMA FinishType ==
    ASSUME tx \in [Procs -> Operation], NEW p \in Procs, Finish(p)
    PROVE  tx' \in [Procs -> Operation]
  BY DEF Finish, Operation

\* What a failed execution changes.
Failed(w, r) ==
    /\ Delivering(w) /\ tx[w] \in DeliverTx /\ r \in Receipts
    /\ tx' = [tx EXCEPT ![w] = Idle]
    /\ \A s \in Receipts \ {r} : receipt'[s] = receipt[s]
    /\ receipt'[r].attempts = tx[w].attempts + 1
    /\ receipt'[r].status = IF Exhausted(tx[w].attempts + 1) THEN "FAILED"
                                                             ELSE receipt[r].status
    /\ receipt'[r].code = receipt[r].code
    /\ receipt'[r].revoked = receipt[r].revoked

LEMMA FailEffect ==
    ASSUME TypeOK, NEW w \in Workers, DeliverFail(w)
    PROVE  Failed(w, tx[w].task.receipt)
<1>. DEFINE r == tx[w].task.receipt
<1>1. tx[w] \in DeliverTx
  BY OperationShapes DEF DeliverFail, Procs
<1>2. r \in Receipts
  BY <1>1 DEF DeliverTx, Task
<1>3. receipt[r] \in ReceiptRow /\ DOMAIN receipt = Receipts
  BY <1>2 DEF TypeOK
<1>4. receipt' = [receipt EXCEPT
            ![r].attempts = tx[w].attempts + 1,
            ![r].status   = IF Exhausted(tx[w].attempts + 1) THEN "FAILED" ELSE @]
  BY DEF DeliverFail
<1>5. \A s \in Receipts \ {r} : receipt'[s] = receipt[s]
  BY <1>2, <1>3, <1>4
<1>6. receipt'[r] = [receipt[r] EXCEPT
            !.attempts = tx[w].attempts + 1,
            !.status   = IF Exhausted(tx[w].attempts + 1) THEN "FAILED" ELSE @]
  BY <1>2, <1>3, <1>4
<1>7. /\ receipt'[r].attempts = tx[w].attempts + 1
      /\ receipt'[r].status = IF Exhausted(tx[w].attempts + 1) THEN "FAILED"
                                                               ELSE receipt[r].status
      /\ receipt'[r].code = receipt[r].code
      /\ receipt'[r].revoked = receipt[r].revoked
  BY <1>3, <1>6 DEF ReceiptRow
<1>. QED
  BY <1>1, <1>2, <1>5, <1>7 DEF DeliverFail, Finish, Failed

\* What a revocation changes of the receipts and the codes.
Revoked(p, r) ==
    /\ tx[p].op = "revoke" /\ tx[p] \in CheckedTx /\ r \in Receipts
    /\ tx' = [tx EXCEPT ![p] = Idle]
    /\ \A s \in Receipts \ {r} : receipt'[s] = receipt[s]
    /\ receipt'[r].attempts = receipt[r].attempts
    /\ receipt'[r].status = "REVOKED"
    /\ receipt'[r].code = receipt[r].code
    /\ receipt'[r].revoked
    /\ \A c \in Codes : \/ code'[c].status = code[c].status
                        \/ code[c].status = "REDEEMED" /\ code'[c].status = "VOIDED"

LEMMA RevokeEffect ==
    ASSUME TypeOK, NEW p \in Sessions, RevokeCommit(p)
    PROVE  Revoked(p, tx[p].receipt)
<1>. DEFINE r == tx[p].receipt
<1>1. tx[p] \in CheckedTx
  BY OperationShapes DEF RevokeCommit, Procs
<1>2. r \in Receipts
  BY <1>1 DEF CheckedTx
<1>3. receipt[r] \in ReceiptRow /\ DOMAIN receipt = Receipts
  BY <1>2 DEF TypeOK
<1>4. receipt' = [receipt EXCEPT ![r].status = "REVOKED", ![r].revoked = TRUE]
  BY DEF RevokeCommit
<1>5. \A s \in Receipts \ {r} : receipt'[s] = receipt[s]
  BY <1>2, <1>3, <1>4
<1>6. receipt'[r] = [receipt[r] EXCEPT !.status = "REVOKED", !.revoked = TRUE]
  BY <1>2, <1>3, <1>4
<1>7. /\ receipt'[r].attempts = receipt[r].attempts
      /\ receipt'[r].status = "REVOKED"
      /\ receipt'[r].code = receipt[r].code
      /\ receipt'[r].revoked
  BY <1>3, <1>6 DEF ReceiptRow
<1>8. \/ UNCHANGED code
      \/ \E c \in Codes : /\ code[c].status = "REDEEMED"
                          /\ code' = [code EXCEPT ![c].status = "VOIDED"]
  <2>1. receipt[r].code \in Codes \cup {NoCode}
    BY <1>3 DEF ReceiptRow
  <2>. QED
    BY <2>1 DEF RevokeCommit
<1>9. \A c \in Codes : \/ code'[c].status = code[c].status
                       \/ code[c].status = "REDEEMED" /\ code'[c].status = "VOIDED"
  BY <1>8 DEF TypeOK, CodeRow
<1>. QED
  BY <1>1, <1>2, <1>5, <1>7, <1>9 DEF RevokeCommit, Finish, Revoked

\* What an award changes of the receipts and the codes.
Awarded(p, r) ==
    /\ Awarding(p) /\ tx[p] \in AwardTx /\ r \in Receipts
    /\ tx' = [tx EXCEPT ![p] = Idle]
    /\ \A s \in Receipts \ {r} : receipt'[s] = receipt[s]
    /\ receipt'[r] = NewReceipt("PENDING", tx[p].code)
    /\ code' = IF tx[p].code = NoCode
               THEN code ELSE [code EXCEPT ![tx[p].code].status = "RESERVED"]

LEMMA AwardEffect ==
    ASSUME TypeOK, NEW p \in Sessions, AwardCommit(p)
    PROVE  Awarded(p, tx[p].receipt)
<1>. DEFINE r == tx[p].receipt
<1>1. tx[p] \in AwardTx
  BY OperationShapes DEF AwardCommit, Procs
<1>2. r \in Receipts /\ DOMAIN receipt = Receipts
  BY <1>1 DEF AwardTx, TypeOK
<1>. QED
  BY <1>1, <1>2 DEF AwardCommit, Finish, Awarded

\* No request writes a receipt before it completes, and only imports write codes.
LEMMA RequestsKeepReceipts ==
    ASSUME NEW p \in Sessions, Request(p)
    PROVE  /\ UNCHANGED receipt
           /\ \/ UNCHANGED code
              \/ \E i \in Items, T \in SUBSET Codes : bulk_import_codes(p, i, T)
<1>1. ASSUME NEW i \in Items, NEW n \in Deltas, restock_item(p, i, n) \/ adjust_stock(p, i, n)
      PROVE  UNCHANGED <<receipt, code>>
  BY <1>1 DEF restock_item, adjust_stock
<1>2. ASSUME NEW i \in Items, NEW T \in SUBSET Codes, bulk_import_codes(p, i, T)
      PROVE  UNCHANGED receipt
  BY <1>2 DEF bulk_import_codes
<1>3. ASSUME NEW i \in Items, EditLoad(p, i) \/ SyncRead(p, i)
      PROVE  UNCHANGED <<receipt, code>>
  BY <1>3 DEF EditLoad, SyncRead, rows
<1>4. ASSUME NEW r \in Receipts, NEW c \in Codes \cup {NoCode}, AwardBegin(p, r, c)
      PROVE  UNCHANGED <<receipt, code>>
  BY <1>4 DEF AwardBegin, rows
<1>5. ASSUME NEW r \in Receipts, RevokeRead(p, r) \/ ClaimRead(p, r)
      PROVE  UNCHANGED <<receipt, code>>
  BY <1>5 DEF RevokeRead, ClaimRead, rows
<1>. QED
  BY <1>1, <1>2, <1>3, <1>4, <1>5 DEF Request

\* A stock that moves, item by item.
LEMMA MoveStockEffect ==
    ASSUME item \in [Items -> ItemRow], NEW i \in Items, NEW n \in Int, MoveStock(i, n)
    PROVE  /\ \A j \in Items \ {i} : item'[j] = item[j]
           /\ item'[i].stock = IF item[i].stock = UNLIMITED_STOCK
                               THEN UNLIMITED_STOCK ELSE item[i].stock + n
  BY DEF MoveStock, is_unlimited, ItemRow

-----------------------------------------------------------------------------
(* Each part of Inductive is kept by every step *)

\* A step keeps the types of all rows, tasks and operations.
LEMMA TypeStep ==
    ASSUME TypeOK, AwardsOpen, [Next]_vars
    PROVE  TypeOK'
<1>1. ASSUME NEW p \in Sessions, NEW i \in Items, NEW n \in Deltas,
           restock_item(p, i, n)
      PROVE  TypeOK'
  <2>1. n \in Int /\ n > 0
    BY <1>1, ConstantsAssumption DEF restock_item
  <2>2. item' \in [Items -> ItemRow]
    BY <1>1, <2>1, MoveStockType DEF restock_item, TypeOK, ItemRow, is_unlimited, UNLIMITED_STOCK
  <2>3. recorded' \in [Items -> Int]
    BY <1>1, <2>1 DEF restock_item, Record, TypeOK
  <2>. QED
    BY <1>1, <2>1, <2>2, <2>3 DEF TypeOK, restock_item
<1>2. ASSUME NEW p \in Sessions, NEW i \in Items, NEW n \in Deltas,
           adjust_stock(p, i, n)
      PROVE  TypeOK'
  BY <1>2, ConstantsAssumption, OperationShapes
  DEF adjust_stock, Record, WithinBounds, is_unlimited, TypeOK, Operation, Idle,
      AwardTx, CheckedTx, EditTx, SyncTx, CountedTx, DeliverTx, ItemRow, CodeRow,
      CodeStatus, ReceiptRow, InventoryStatus, Task, Procs, UNLIMITED_STOCK
<1>3. ASSUME NEW p \in Sessions, NEW i \in Items, NEW T \in SUBSET Codes,
           bulk_import_codes(p, i, T)
      PROVE  TypeOK'
  <2>1. Cardinality(T) \in Nat /\ Cardinality(T) > 0
    BY <1>3, CodesAreFinite DEF bulk_import_codes
  <2>2. item' \in [Items -> ItemRow]
    BY <1>3, <2>1, MoveStockType
    DEF bulk_import_codes, TypeOK, ItemRow, is_unlimited, UNLIMITED_STOCK
  <2>3. recorded' \in [Items -> Int]
    BY <1>3, <2>1 DEF bulk_import_codes, Record, TypeOK
  <2>4. code' \in [Codes -> CodeRow]
    BY <1>3 DEF bulk_import_codes, TypeOK, CodeRow, CodeStatus
  <2>. QED
    BY <1>3, <2>1, <2>2, <2>3, <2>4 DEF TypeOK, bulk_import_codes
<1>4. ASSUME NEW p \in Sessions, NEW i \in Items, EditLoad(p, i)
      PROVE  TypeOK'
  BY <1>4, ConstantsAssumption, OperationShapes
  DEF EditLoad, Start, rows, TypeOK, Operation, Idle, AwardTx, CheckedTx, EditTx,
      SyncTx, CountedTx, DeliverTx, ItemRow, CodeRow, CodeStatus, ReceiptRow,
      InventoryStatus, Task, Procs, UNLIMITED_STOCK
<1>5. ASSUME NEW p \in Sessions, NEW i \in Items, SyncRead(p, i)
      PROVE  TypeOK'
  BY <1>5, ConstantsAssumption, OperationShapes
  DEF SyncRead, Start, is_unlimited, rows, TypeOK, Operation, Idle, AwardTx, CheckedTx,
      EditTx, SyncTx, CountedTx, DeliverTx, ItemRow, CodeRow, CodeStatus, ReceiptRow,
      InventoryStatus, Task, Procs, UNLIMITED_STOCK
<1>6. ASSUME NEW p \in Sessions, NEW r \in Receipts, NEW c \in Codes \cup {NoCode},
           AwardBegin(p, r, c)
      PROVE  TypeOK'
  BY <1>6, ConstantsAssumption, OperationShapes
  DEF AwardBegin, Start, rows, TypeOK, Operation, Idle, AwardTx, CheckedTx, EditTx,
      SyncTx, CountedTx, DeliverTx, ItemRow, CodeRow, CodeStatus, ReceiptRow,
      InventoryStatus, Task, Procs, UNLIMITED_STOCK
<1>7. ASSUME NEW p \in Sessions, NEW r \in Receipts, RevokeRead(p, r)
      PROVE  TypeOK'
  BY <1>7, ConstantsAssumption, OperationShapes
  DEF RevokeRead, Start, rows, TypeOK, Operation, Idle, AwardTx, CheckedTx, EditTx,
      SyncTx, CountedTx, DeliverTx, ItemRow, CodeRow, CodeStatus, ReceiptRow,
      InventoryStatus, Task, Procs, UNLIMITED_STOCK
<1>8. ASSUME NEW p \in Sessions, NEW r \in Receipts, ClaimRead(p, r)
      PROVE  TypeOK'
  BY <1>8, ConstantsAssumption, OperationShapes
  DEF ClaimRead, Start, rows, TypeOK, Operation, Idle, AwardTx, CheckedTx, EditTx,
      SyncTx, CountedTx, DeliverTx, ItemRow, CodeRow, CodeStatus, ReceiptRow,
      InventoryStatus, Task, Procs, UNLIMITED_STOCK
<1>9. ASSUME NEW p \in Sessions, AwardCommit(p)
      PROVE  TypeOK'
  <2>1. tx[p] \in AwardTx
    BY <1>9, OperationShapes DEF AwardCommit, Procs
  <2>2. ItemOf[tx[p].receipt] \in Items
    BY <2>1, ConstantsAssumption DEF AwardTx
  <2>3. item' \in [Items -> ItemRow]
    <3>1. is_unlimited(ItemOf[tx[p].receipt]) \/ item[ItemOf[tx[p].receipt]].stock + (-1) >= 0
      BY <1>9, <2>2 DEF AwardCommit, TypeOK, ItemRow, UNLIMITED_STOCK, AwardsOpen, InStock, Procs
    <3>. QED
      BY <1>9, <2>2, <3>1, MoveStockType DEF AwardCommit, TypeOK
  <2>4. recorded' \in [Items -> Int]
    BY <1>9, <2>2 DEF AwardCommit, Record, TypeOK
  <2>5. code' \in [Codes -> CodeRow]
    BY <1>9, <2>1, CodeStatusType DEF AwardCommit, TypeOK, AwardTx, CodeStatus
  <2>6. receipt' \in [Receipts -> ReceiptRow]
    BY <1>9, <2>1
    DEF AwardCommit, TypeOK, AwardTx, NewReceipt, ReceiptRow, InventoryStatus
  <2>7. tx' \in [Procs -> Operation]
    BY <1>9, FinishType DEF TypeOK, Procs, AwardCommit
  <2>. QED
    BY <1>9, <2>1, <2>2, <2>3, <2>4, <2>5, <2>6, <2>7 DEF TypeOK, AwardCommit
<1>10. ASSUME NEW p \in Sessions, RevokeCommit(p)
      PROVE  TypeOK'
  <2>1. tx[p] \in CheckedTx
    BY <1>10, OperationShapes DEF RevokeCommit, Procs
  <2>2. tx[p].receipt \in Receipts /\ ItemOf[tx[p].receipt] \in Items
    BY <2>1, ConstantsAssumption DEF CheckedTx
  <2>3. item' \in [Items -> ItemRow]
    <3>1. is_unlimited(ItemOf[tx[p].receipt]) \/ item[ItemOf[tx[p].receipt]].stock + 1 >= 0
      BY <2>2 DEF TypeOK, ItemRow, is_unlimited, UNLIMITED_STOCK
    <3>2. MoveStock(ItemOf[tx[p].receipt], 1) /\ item \in [Items -> ItemRow]
      BY <1>10 DEF RevokeCommit, TypeOK
    <3>. QED
      BY <2>2, <3>1, <3>2, MoveStockType
  <2>4. recorded' \in [Items -> Int]
    <3>1. UNCHANGED recorded \/ Record(ItemOf[tx[p].receipt], 1)
      BY <1>10 DEF RevokeCommit
    <3>. QED
      BY <2>2, <3>1 DEF Record, TypeOK
  <2>5. receipt[tx[p].receipt].code \in Codes \cup {NoCode}
    BY <2>2 DEF TypeOK, ReceiptRow
  <2>6. code' \in [Codes -> CodeRow]
    BY <1>10, <2>5, CodeStatusType DEF RevokeCommit, TypeOK, CodeStatus
  <2>7. receipt[tx[p].receipt] \in ReceiptRow /\ "REVOKED" \in InventoryStatus
    BY <2>2 DEF TypeOK, InventoryStatus
  <2>8. [receipt[tx[p].receipt] EXCEPT !.status = "REVOKED", !.revoked = TRUE] \in ReceiptRow
    BY <2>7 DEF ReceiptRow
  <2>9. receipt' \in [Receipts -> ReceiptRow]
    BY <1>10, <2>2, <2>8 DEF RevokeCommit, TypeOK
  <2>10. tx' \in [Procs -> Operation]
    BY <1>10, FinishType DEF TypeOK, Procs, RevokeCommit
  <2>. QED
    BY <1>10, <2>1, <2>2, <2>3, <2>4, <2>5, <2>6, <2>7, <2>8, <2>9, <2>10
    DEF TypeOK, RevokeCommit
<1>11. ASSUME NEW p \in Sessions, ClaimWrite(p)
      PROVE  TypeOK'
  <2>1. tx[p].receipt \in Receipts
    BY <1>11, OperationShapes DEF ClaimWrite, CheckedTx, Procs
  <2>2. receipt' \in [Receipts -> ReceiptRow]
    BY <1>11, <2>1, ReceiptStatusType DEF ClaimWrite, TypeOK, InventoryStatus
  <2>3. tx' \in [Procs -> Operation]
    BY <1>11, FinishType DEF TypeOK, Procs, ClaimWrite
  <2>. QED
    BY <1>11, <2>1, <2>2, <2>3 DEF TypeOK, ClaimWrite
<1>12. ASSUME NEW p \in Sessions, tx[p].op = "edit", Edit(p)
      PROVE  TypeOK'
  <2>1. tx[p] \in EditTx
    BY <1>12, OperationShapes DEF Procs
  <2>2. tx[p].item \in Items /\ tx[p].row.stock \in Nat \cup {UNLIMITED_STOCK}
    BY <2>1 DEF EditTx, ItemRow
  <2>3. \E row \in ItemRow : item' = [item EXCEPT ![tx[p].item] = row]
    BY <1>12, <2>2, ConstantsAssumption DEF Edit, EditSave, ItemRow
  <2>4. item' \in [Items -> ItemRow]
    BY <1>12, <2>2, <2>3 DEF TypeOK
  <2>5. tx' \in [Procs -> Operation]
    BY <1>12, FinishType DEF TypeOK, Procs, Edit, EditSave
  <2>. QED
    BY <1>12, <2>1, <2>2, <2>3, <2>4, <2>5 DEF TypeOK, Edit, EditSave
<1>13. ASSUME NEW p \in Sessions, SyncCount(p)
      PROVE  TypeOK'
  BY <1>13, ConstantsAssumption, OperationShapes, CodesAreFinite
  DEF SyncCount, rows, TypeOK, Operation, Idle, AwardTx, CheckedTx, EditTx, SyncTx,
      CountedTx, DeliverTx, ItemRow, CodeRow, CodeStatus, ReceiptRow, InventoryStatus,
      Task, Procs, UNLIMITED_STOCK, AvailableCodes
<1>14. ASSUME NEW p \in Sessions, SyncWrite(p)
      PROVE  TypeOK'
  <2>1. tx[p] \in CountedTx
    BY <1>14, OperationShapes DEF SyncWrite, Procs
  <2>2. [item[tx[p].item] EXCEPT !.stock = tx[p].count] \in ItemRow
    BY <2>1 DEF CountedTx, TypeOK, ItemRow
  <2>3. item' \in [Items -> ItemRow]
    BY <1>14, <2>1, <2>2 DEF SyncWrite, CountedTx, TypeOK
  <2>4. tx' \in [Procs -> Operation]
    BY <1>14, FinishType DEF TypeOK, Procs, SyncWrite
  <2>. QED
    BY <1>14, <2>1, <2>2, <2>3, <2>4 DEF TypeOK, SyncWrite
<1>15. ASSUME NEW p \in Sessions, Abort(p)
      PROVE  TypeOK'
  BY <1>15, ConstantsAssumption, OperationShapes
  DEF Abort, Finish, rows, TypeOK, Operation, Idle, AwardTx, CheckedTx, EditTx, SyncTx,
      CountedTx, DeliverTx, ItemRow, CodeRow, CodeStatus, ReceiptRow, InventoryStatus,
      Task, Procs, UNLIMITED_STOCK
<1>16. ASSUME NEW w \in Workers, DeliverRedeem(w)
      PROVE  TypeOK'
  <2>1. tx[w] \in DeliverTx
    BY <1>16, OperationShapes DEF DeliverRedeem, Procs
  <2>2. CodeOf(w) \in Codes
    BY <1>16, <2>1 DEF DeliverRedeem, CodeOf, CodeSaved, TypeOK, DeliverTx, Task, ReceiptRow
  <2>3. code' \in [Codes -> CodeRow]
    BY <1>16, <2>2, CodeStatusType DEF DeliverRedeem, TypeOK, CodeStatus
  <2>4. [tx[w] EXCEPT !.redeemed = TRUE] \in Operation
    BY <2>1 DEF DeliverTx, Operation
  <2>5. tx' \in [Procs -> Operation]
    BY <1>16, <2>4 DEF DeliverRedeem, TypeOK
  <2>. QED
    BY <1>16, <2>1, <2>2, <2>3, <2>4, <2>5 DEF TypeOK, DeliverRedeem
<1>17. ASSUME NEW w \in Workers, DeliverMark(w)
      PROVE  TypeOK'
  <2>1. tx[w] \in DeliverTx
    BY <1>17, OperationShapes DEF DeliverMark, Procs
  <2>2. receipt' \in [Receipts -> ReceiptRow]
    BY <1>17, <2>1, ReceiptStatusType DEF DeliverMark, TypeOK, DeliverTx, Task, InventoryStatus
  <2>3. tx' \in [Procs -> Operation]
    BY <1>17, FinishType DEF TypeOK, Procs, DeliverMark
  <2>. QED
    BY <1>17, <2>1, <2>2, <2>3 DEF TypeOK, DeliverMark
<1>18. ASSUME NEW w \in Workers, DeliverFail(w)
      PROVE  TypeOK'
  <2>1. tx[w] \in DeliverTx
    BY <1>18, OperationShapes DEF DeliverFail, Procs
  <2>2. tx[w].task \in Task /\ tx[w].task.receipt \in Receipts
    BY <2>1 DEF DeliverTx, Task
  <2>3. queue' \subseteq Task
    BY <1>18, <2>2, RetriedTasks DEF DeliverFail, TypeOK
  <2>4. receipt[tx[w].task.receipt] \in ReceiptRow /\ tx[w].attempts + 1 \in Nat
    BY <2>1, <2>2 DEF TypeOK, DeliverTx
  <2>5. \A s \in InventoryStatus :
           [receipt[tx[w].task.receipt] EXCEPT !.attempts = tx[w].attempts + 1, !.status = s]
             \in ReceiptRow
    BY <2>4 DEF ReceiptRow
  <2>6. receipt[tx[w].task.receipt].status \in InventoryStatus
    BY <2>2 DEF TypeOK, ReceiptRow
  <2>7. receipt' \in [Receipts -> ReceiptRow]
    BY <1>18, <2>2, <2>5, <2>6 DEF DeliverFail, TypeOK, InventoryStatus
  <2>8. tx' \in [Procs -> Operation]
    BY <1>18, FinishType DEF TypeOK, Procs, DeliverFail
  <2>. QED
    BY <1>18, <2>1, <2>2, <2>3, <2>4, <2>5, <2>6, <2>7, <2>8 DEF TypeOK, DeliverFail
<1>19. ASSUME NEW w \in Workers, WorkerDies(w)
      PROVE  TypeOK'
  <2>1. tx[w] \in DeliverTx
    BY <1>19, OperationShapes DEF WorkerDies, Procs
  <2>2. queue' \subseteq Task
    BY <1>19, <2>1 DEF WorkerDies, TypeOK, DeliverTx
  <2>3. mishap' \in [Receipts -> {"none", "redelivered", "lost"}]
    BY <1>19 DEF WorkerDies, TypeOK
  <2>4. tx' \in [Procs -> Operation]
    BY <1>19, FinishType DEF TypeOK, Procs, WorkerDies
  <2>. QED
    BY <1>19, <2>1, <2>2, <2>3, <2>4 DEF TypeOK, WorkerDies, rows
<1>20. ASSUME NEW w \in Workers, NEW r \in Receipts, NEW task \in queue,
           task.receipt = r, DeliverNotFound(w, task)
      PROVE  TypeOK'
  BY <1>20, ConstantsAssumption, OperationShapes, RetriedTasks
  DEF DeliverNotFound, rows, TypeOK, Operation, Idle, AwardTx, CheckedTx, EditTx,
      SyncTx, CountedTx, DeliverTx, ItemRow, CodeRow, CodeStatus, ReceiptRow,
      InventoryStatus, Task, Procs, UNLIMITED_STOCK
<1>21. ASSUME NEW w \in Workers, NEW r \in Receipts, NEW task \in queue,
           task.receipt = r, DeliverSkip(w, task)
      PROVE  TypeOK'
  BY <1>21, ConstantsAssumption, OperationShapes
  DEF DeliverSkip, rows, TypeOK, Operation, Idle, AwardTx, CheckedTx, EditTx, SyncTx,
      CountedTx, DeliverTx, ItemRow, CodeRow, CodeStatus, ReceiptRow, InventoryStatus,
      Task, Procs, UNLIMITED_STOCK
<1>22. ASSUME NEW w \in Workers, NEW r \in Receipts, NEW task \in queue,
           task.receipt = r, DeliverLoad(w, task)
      PROVE  TypeOK'
  BY <1>22, ConstantsAssumption, OperationShapes
  DEF DeliverLoad, Start, rows, TypeOK, Operation, Idle, AwardTx, CheckedTx, EditTx,
      SyncTx, CountedTx, DeliverTx, ItemRow, CodeRow, CodeStatus, ReceiptRow,
      InventoryStatus, Task, Procs, UNLIMITED_STOCK
<1>23. ASSUME NEW r \in Receipts, retry_delivery(r)
      PROVE  TypeOK'
  BY <1>23, ConstantsAssumption, OperationShapes
  DEF retry_delivery, rows, TypeOK, Operation, Idle, AwardTx, CheckedTx, EditTx, SyncTx,
      CountedTx, DeliverTx, ItemRow, CodeRow, CodeStatus, ReceiptRow, InventoryStatus,
      Task, Procs, UNLIMITED_STOCK
<1>24. ASSUME NEW c \in Codes, void(c)
      PROVE  TypeOK'
  <2>1. code' \in [Codes -> CodeRow]
    BY <1>24, CodeStatusType DEF void, TypeOK, CodeStatus
  <2>. QED
    BY <1>24, <2>1 DEF TypeOK, void
<1>25. ASSUME NEW T \in SUBSET Codes, expire_redemption_codes(T)
      PROVE  TypeOK'
  <2>1. \A c \in Codes : [code[c] EXCEPT !.status = "EXPIRED"] \in CodeRow
    BY DEF TypeOK, CodeRow, CodeStatus
  <2>2. code' \in [Codes -> CodeRow]
    BY <1>25, <2>1 DEF expire_redemption_codes, TypeOK
  <2>. QED
    BY <1>25, <2>1, <2>2 DEF TypeOK, expire_redemption_codes
<1>26. ASSUME UNCHANGED <<item, code, receipt, recorded, queue, mishap, asked, tx>>
      PROVE  TypeOK'
  BY <1>26, ConstantsAssumption, OperationShapes
  DEF TypeOK, Operation, Idle, AwardTx, CheckedTx, EditTx, SyncTx, CountedTx, DeliverTx,
          ItemRow, CodeRow, CodeStatus, ReceiptRow, InventoryStatus, Task, Procs,
          UNLIMITED_STOCK
<1>. QED
  BY <1>1, <1>2, <1>3, <1>4, <1>5, <1>6, <1>7, <1>8, <1>9, <1>10, <1>11, <1>12, <1>13,
      <1>14, <1>15, <1>16, <1>17, <1>18, <1>19, <1>20, <1>21, <1>22, <1>23, <1>24,
      <1>25, <1>26
  DEF Next, Request, Complete, Take, Deliver, vars, rows

\* No other award locks the item or the code of an open award.
LEMMA LocksStep ==
    ASSUME TypeOK, Locks, [Next]_vars
    PROVE  Locks'
<1>1. ASSUME NEW p \in Sessions, NEW i \in Items, EditLoad(p, i)
      PROVE  Locks'
  BY <1>1 DEF EditLoad, Start, rows, Locks, Awarding, TypeOK, Idle, Procs
<1>2. ASSUME NEW p \in Sessions, NEW i \in Items, SyncRead(p, i)
      PROVE  Locks'
  BY <1>2 DEF SyncRead, Start, is_unlimited, rows, Locks, Awarding, TypeOK, Idle, Procs
<1>3. ASSUME NEW p \in Sessions, NEW r \in Receipts, NEW c \in Codes \cup {NoCode},
           AwardBegin(p, r, c)
      PROVE  Locks'
  BY <1>3
  DEF AwardBegin, Start, rows, Locks, Awarding, TypeOK, Idle, Procs, ItemLocked,
      CodeLocked, AvailableCodes
<1>4. ASSUME NEW p \in Sessions, NEW r \in Receipts, RevokeRead(p, r)
      PROVE  Locks'
  BY <1>4 DEF RevokeRead, Start, rows, Locks, Awarding, TypeOK, Idle, Procs
<1>5. ASSUME NEW p \in Sessions, NEW r \in Receipts, ClaimRead(p, r)
      PROVE  Locks'
  BY <1>5 DEF ClaimRead, Start, rows, Locks, Awarding, TypeOK, Idle, Procs
<1>6. ASSUME NEW p \in Sessions, AwardCommit(p)
      PROVE  Locks'
  BY <1>6
  DEF AwardCommit, MoveStock, Record, Finish, NewReceipt, is_unlimited, Locks, Awarding,
      TypeOK, Idle, Procs
<1>7. ASSUME NEW p \in Sessions, RevokeCommit(p)
      PROVE  Locks'
  BY <1>7
  DEF RevokeCommit, MoveStock, Record, Finish, is_unlimited, Locks, Awarding, TypeOK,
      Idle, Procs
<1>8. ASSUME NEW p \in Sessions, ClaimWrite(p)
      PROVE  Locks'
  BY <1>8 DEF ClaimWrite, Finish, Locks, Awarding, TypeOK, Idle, Procs
<1>9. ASSUME NEW p \in Sessions, tx[p].op = "edit", Edit(p)
      PROVE  Locks'
  BY <1>9 DEF Edit, EditSave, Finish, Locks, Awarding, TypeOK, Idle, Procs
<1>10. ASSUME NEW p \in Sessions, SyncCount(p)
      PROVE  Locks'
  BY <1>10 DEF SyncCount, rows, Locks, Awarding, TypeOK, Idle, Procs
<1>11. ASSUME NEW p \in Sessions, SyncWrite(p)
      PROVE  Locks'
  BY <1>11 DEF SyncWrite, Finish, Locks, Awarding, TypeOK, Idle, Procs
<1>12. ASSUME NEW p \in Sessions, Abort(p)
      PROVE  Locks'
  BY <1>12 DEF Abort, Finish, rows, Locks, Awarding, TypeOK, Idle, Procs
<1>13. ASSUME NEW w \in Workers, DeliverRedeem(w)
      PROVE  Locks'
  BY <1>13, OperationShapes
  DEF DeliverRedeem, Delivering, CodeOf, CodeSaved, Locks, Awarding, TypeOK, Idle,
      Procs, DeliverTx
<1>14. ASSUME NEW w \in Workers, DeliverMark(w)
      PROVE  Locks'
  BY <1>14
  DEF DeliverMark, Delivering, CodeOf, CodeSaved, Finish, Locks, Awarding, TypeOK, Idle,
      Procs
<1>15. ASSUME NEW w \in Workers, DeliverFail(w)
      PROVE  Locks'
  BY <1>15
  DEF DeliverFail, Delivering, Exhausted, Finish, Locks, Awarding, TypeOK, Idle, Procs
<1>16. ASSUME NEW w \in Workers, WorkerDies(w)
      PROVE  Locks'
  BY <1>16 DEF WorkerDies, Delivering, Finish, rows, Locks, Awarding, TypeOK, Idle, Procs
<1>17. ASSUME NEW w \in Workers, NEW r \in Receipts, NEW task \in queue,
           task.receipt = r, DeliverLoad(w, task)
      PROVE  Locks'
  BY <1>17 DEF DeliverLoad, Start, rows, Locks, Awarding, TypeOK, Idle, Procs
<1>18. ASSUME UNCHANGED tx
      PROVE  Locks'
  BY <1>18 DEF Locks, Awarding, TypeOK, Idle, Procs
<1>. QED
  BY <1>1, <1>2, <1>3, <1>4, <1>5, <1>6, <1>7, <1>8, <1>9, <1>10, <1>11, <1>12, <1>13,
      <1>14, <1>15, <1>16, <1>17, <1>18
  DEF Next, Request, Complete, Take, Deliver, vars, rows, restock_item, adjust_stock,
      bulk_import_codes, DeliverNotFound, DeliverSkip, retry_delivery, void,
      expire_redemption_codes

\* A receipt that fails has used up its attempts.
LEMMA SweepStep ==
    ASSUME TypeOK, Rows, Snapshots, SweepFindsNothing, [Next]_vars
    PROVE  SweepFindsNothing'
<1>1. ASSUME NEW p \in Sessions, AwardCommit(p)
      PROVE  SweepFindsNothing'
  <2>1. Awarded(p, tx[p].receipt)
    BY <1>1, AwardEffect
  <2>. QED
    BY <1>1, <2>1 DEF SweepFindsNothing, Awarded, NewReceipt
<1>2. ASSUME NEW p \in Sessions, RevokeCommit(p)
      PROVE  SweepFindsNothing'
  <2>1. Revoked(p, tx[p].receipt)
    BY <1>2, RevokeEffect
  <2>. QED
    BY <1>2, <2>1 DEF SweepFindsNothing, Revoked
<1>3. ASSUME NEW p \in Sessions, ClaimWrite(p)
      PROVE  SweepFindsNothing'
  BY <1>3, OperationShapes
  DEF ClaimWrite, Finish, SweepFindsNothing, TypeOK, Procs, CheckedTx, ReceiptRow
<1>4. ASSUME NEW w \in Workers, DeliverMark(w)
      PROVE  SweepFindsNothing'
  BY <1>4, OperationShapes
  DEF DeliverMark, Delivering, CodeOf, CodeSaved, Finish, SweepFindsNothing, TypeOK,
      Procs, DeliverTx, Task, ReceiptRow
<1>5. ASSUME NEW w \in Workers, DeliverFail(w)
      PROVE  SweepFindsNothing'
  <2>1. Failed(w, tx[w].task.receipt)
    BY <1>5, FailEffect
  <2>. QED
    BY <1>5, <2>1, ConstantsAssumption
    DEF SweepFindsNothing, Failed, Snapshots, DeliverTx, Exhausted, Procs, TypeOK,
        ReceiptRow
<1>6. ASSUME UNCHANGED receipt
      PROVE  SweepFindsNothing'
  BY <1>6 DEF SweepFindsNothing, TypeOK, Procs
<1>8. CASE \E p \in Sessions : Request(p)
  BY <1>8, <1>6, RequestsKeepReceipts
<1>9. CASE \E p \in Sessions : Complete(p) \/ Abort(p)
  BY <1>9, <1>1, <1>2, <1>3, <1>6
  DEF Complete, rows, Edit, EditSave, SyncCount, SyncWrite, Abort
<1>10. CASE \E w \in Workers : Deliver(w) \/ WorkerDies(w)
  BY <1>10, <1>4, <1>5, <1>6 DEF Deliver, rows, DeliverRedeem, WorkerDies
<1>11. CASE \E r \in Receipts : retry_delivery(r) \/ \E w \in Workers : Take(w, r)
  BY <1>11, <1>6 DEF Take, rows, retry_delivery, DeliverNotFound, DeliverSkip, DeliverLoad
<1>12. CASE (\E c \in Codes : void(c)) \/ \E T \in SUBSET Codes : expire_redemption_codes(T)
  BY <1>12, <1>6 DEF rows, void, expire_redemption_codes
<1>13. CASE UNCHANGED vars
  BY <1>13, <1>6 DEF vars, rows
<1>. QED
  BY <1>8, <1>9, <1>10, <1>11, <1>12, <1>13 DEF Next

\* What a delivery has read of the attempts stays so while nobody else delivers.
LEMMA SnapshotsStep ==
    ASSUME TypeOK, AwardsOpen, Rows, OneChain, Snapshots, [Next]_vars
    PROVE  Snapshots'
<1>1. ASSUME NEW p \in Sessions, NEW i \in Items, EditLoad(p, i)
      PROVE  Snapshots'
  BY <1>1 DEF EditLoad, Start, rows, Snapshots, TypeOK, Delivering, Idle, Procs
<1>2. ASSUME NEW p \in Sessions, NEW i \in Items, SyncRead(p, i)
      PROVE  Snapshots'
  BY <1>2
  DEF SyncRead, Start, is_unlimited, rows, Snapshots, TypeOK, Delivering, Idle, Procs
<1>3. ASSUME NEW p \in Sessions, NEW r \in Receipts, NEW c \in Codes \cup {NoCode},
           AwardBegin(p, r, c)
      PROVE  Snapshots'
  BY <1>3 DEF AwardBegin, Start, rows, Snapshots, TypeOK, Delivering, Idle, Procs
<1>4. ASSUME NEW p \in Sessions, NEW r \in Receipts, RevokeRead(p, r)
      PROVE  Snapshots'
  BY <1>4 DEF RevokeRead, Start, rows, Snapshots, TypeOK, Delivering, Idle, Procs
<1>5. ASSUME NEW p \in Sessions, NEW r \in Receipts, ClaimRead(p, r)
      PROVE  Snapshots'
  BY <1>5 DEF ClaimRead, Start, rows, Snapshots, TypeOK, Delivering, Idle, Procs
<1>6. ASSUME NEW p \in Sessions, AwardCommit(p)
      PROVE  Snapshots'
  <2>1. Awarded(p, tx[p].receipt)
    BY <1>6, AwardEffect
  <2>. QED
    BY <1>6, <2>1, OperationShapes
    DEF Snapshots, Delivering, Idle, Procs, TypeOK, Awarded, DeliverTx, Task,
        AwardsOpen, Rows, NewReceipt
<1>7. ASSUME NEW p \in Sessions, RevokeCommit(p)
      PROVE  Snapshots'
  <2>1. Revoked(p, tx[p].receipt)
    BY <1>7, RevokeEffect
  <2>. QED
    BY <1>7, <2>1, OperationShapes
    DEF Snapshots, Delivering, Idle, Procs, TypeOK, Revoked, DeliverTx, Task
<1>8. ASSUME NEW p \in Sessions, ClaimWrite(p)
      PROVE  Snapshots'
  BY <1>8, OperationShapes
  DEF ClaimWrite, Finish, Snapshots, TypeOK, Delivering, Idle, Procs, CheckedTx,
      ReceiptRow
<1>9. ASSUME NEW p \in Sessions, tx[p].op = "edit", Edit(p)
      PROVE  Snapshots'
  BY <1>9 DEF Edit, EditSave, Finish, Snapshots, TypeOK, Delivering, Idle, Procs
<1>10. ASSUME NEW p \in Sessions, SyncCount(p)
      PROVE  Snapshots'
  BY <1>10 DEF SyncCount, rows, Snapshots, TypeOK, Delivering, Idle, Procs
<1>11. ASSUME NEW p \in Sessions, SyncWrite(p)
      PROVE  Snapshots'
  BY <1>11 DEF SyncWrite, Finish, Snapshots, TypeOK, Delivering, Idle, Procs
<1>12. ASSUME NEW p \in Sessions, Abort(p)
      PROVE  Snapshots'
  BY <1>12 DEF Abort, Finish, rows, Snapshots, TypeOK, Delivering, Idle, Procs
<1>13. ASSUME NEW w \in Workers, DeliverRedeem(w)
      PROVE  Snapshots'
  BY <1>13, OperationShapes
  DEF DeliverRedeem, Delivering, CodeOf, CodeSaved, Snapshots, TypeOK, Idle, Procs,
      DeliverTx
<1>14. ASSUME NEW w \in Workers, DeliverMark(w)
      PROVE  Snapshots'
  BY <1>14, OperationShapes
  DEF DeliverMark, Delivering, CodeOf, CodeSaved, Finish, Snapshots, TypeOK, Idle,
      Procs, DeliverTx, Task, ReceiptRow
<1>15. ASSUME NEW w \in Workers, DeliverFail(w)
      PROVE  Snapshots'
  <2>1. Failed(w, tx[w].task.receipt)
    BY <1>15, FailEffect
  <2>. QED
    BY <1>15, <2>1, ConstantsAssumption, OperationShapes
    DEF Snapshots, Delivering, Idle, Procs, TypeOK, Failed, OneChain, OneTask,
        DeliveringOf, DeliverTx, Task, ReceiptRow
<1>16. ASSUME NEW w \in Workers, WorkerDies(w)
      PROVE  Snapshots'
  BY <1>16 DEF WorkerDies, Delivering, Finish, rows, Snapshots, TypeOK, Idle, Procs
<1>17. ASSUME NEW w \in Workers, NEW r \in Receipts, NEW task \in queue,
           task.receipt = r, DeliverLoad(w, task)
      PROVE  Snapshots'
  BY <1>17
  DEF DeliverLoad, Start, rows, Snapshots, TypeOK, Delivering, Idle, Procs, Task,
      ReceiptRow
<1>18. ASSUME UNCHANGED <<tx, receipt>>
      PROVE  Snapshots'
  BY <1>18 DEF Snapshots, TypeOK, Delivering, Idle, Procs
<1>. QED
  BY <1>1, <1>2, <1>3, <1>4, <1>5, <1>6, <1>7, <1>8, <1>9, <1>10, <1>11, <1>12, <1>13,
      <1>14, <1>15, <1>16, <1>17, <1>18
  DEF Next, Request, Complete, Take, Deliver, vars, rows, restock_item, adjust_stock,
      bulk_import_codes, DeliverNotFound, DeliverSkip, retry_delivery, void,
      expire_redemption_codes

\* A row once inserted stays; a revoked receipt is marked so.
LEMMA RowsStep ==
    ASSUME TypeOK, AwardsOpen, Rows, [Next]_vars
    PROVE  Rows'
<1>1. ASSUME NEW p \in Sessions, NEW i \in Items, EditLoad(p, i)
      PROVE  Rows'
  BY <1>1 DEF EditLoad, Start, rows, Rows, TypeOK, Delivering, Idle, Procs, NewReceipt
<1>2. ASSUME NEW p \in Sessions, NEW i \in Items, SyncRead(p, i)
      PROVE  Rows'
  BY <1>2
  DEF SyncRead, Start, is_unlimited, rows, Rows, TypeOK, Delivering, Idle, Procs,
      NewReceipt
<1>3. ASSUME NEW p \in Sessions, NEW r \in Receipts, NEW c \in Codes \cup {NoCode},
           AwardBegin(p, r, c)
      PROVE  Rows'
  BY <1>3 DEF AwardBegin, Start, rows, Rows, TypeOK, Delivering, Idle, Procs, NewReceipt
<1>4. ASSUME NEW p \in Sessions, NEW r \in Receipts, RevokeRead(p, r)
      PROVE  Rows'
  BY <1>4 DEF RevokeRead, Start, rows, Rows, TypeOK, Delivering, Idle, Procs, NewReceipt
<1>5. ASSUME NEW p \in Sessions, NEW r \in Receipts, ClaimRead(p, r)
      PROVE  Rows'
  BY <1>5 DEF ClaimRead, Start, rows, Rows, TypeOK, Delivering, Idle, Procs, NewReceipt
<1>6. ASSUME NEW p \in Sessions, AwardCommit(p)
      PROVE  Rows'
  <2>1. Awarded(p, tx[p].receipt)
    BY <1>6, AwardEffect
  <2>2. receipt'[tx[p].receipt].status = "PENDING"
    BY <2>1 DEF Awarded, NewReceipt, Rows, Delivering, Procs
  <2>3. \A s \in Receipts \ {tx[p].receipt} : receipt'[s] = receipt[s]
    BY <2>1 DEF Awarded
  <2>4. \A s \in Receipts :
           /\ receipt'[s].status = "ABSENT" => receipt'[s] = NewReceipt("ABSENT", NoCode)
           /\ receipt'[s].status = "REVOKED" => receipt'[s].revoked
    BY <2>2, <2>3 DEF Rows
  <2>5. \A q \in Procs : tx'[q] = tx[q] \/ tx'[q] = Idle
    BY <2>1 DEF Awarded, TypeOK, Procs
  <2>6. \A s \in Receipts : receipt[s].status # "ABSENT" => receipt'[s].status # "ABSENT"
    BY <2>2, <2>3
  <2>. QED
    BY <2>4, <2>5, <2>6, OperationShapes
    DEF Rows, Idle, Delivering, DeliverTx, Task, CheckedTx
<1>7. ASSUME NEW p \in Sessions, RevokeCommit(p)
      PROVE  Rows'
  <2>1. Revoked(p, tx[p].receipt)
    BY <1>7, RevokeEffect
  <2>2. receipt'[tx[p].receipt].status = "REVOKED" /\ receipt'[tx[p].receipt].revoked
    BY <2>1 DEF Revoked, Rows, Delivering, Procs
  <2>3. \A s \in Receipts \ {tx[p].receipt} : receipt'[s] = receipt[s]
    BY <2>1 DEF Revoked
  <2>4. \A s \in Receipts :
           /\ receipt'[s].status = "ABSENT" => receipt'[s] = NewReceipt("ABSENT", NoCode)
           /\ receipt'[s].status = "REVOKED" => receipt'[s].revoked
    BY <2>2, <2>3 DEF Rows
  <2>5. \A q \in Procs : tx'[q] = tx[q] \/ tx'[q] = Idle
    BY <2>1 DEF Revoked, TypeOK, Procs
  <2>6. \A s \in Receipts : receipt[s].status # "ABSENT" => receipt'[s].status # "ABSENT"
    BY <2>2, <2>3
  <2>. QED
    BY <2>4, <2>5, <2>6, OperationShapes
    DEF Rows, Idle, Delivering, DeliverTx, Task, CheckedTx
<1>8. ASSUME NEW p \in Sessions, ClaimWrite(p)
      PROVE  Rows'
  BY <1>8, OperationShapes
  DEF ClaimWrite, Finish, Rows, TypeOK, Delivering, Idle, Procs, NewReceipt, CheckedTx,
      ReceiptRow
<1>9. ASSUME NEW p \in Sessions, tx[p].op = "edit", Edit(p)
      PROVE  Rows'
  BY <1>9 DEF Edit, EditSave, Finish, Rows, TypeOK, Delivering, Idle, Procs, NewReceipt
<1>10. ASSUME NEW p \in Sessions, SyncCount(p)
      PROVE  Rows'
  BY <1>10 DEF SyncCount, rows, Rows, TypeOK, Delivering, Idle, Procs, NewReceipt
<1>11. ASSUME NEW p \in Sessions, SyncWrite(p)
      PROVE  Rows'
  BY <1>11 DEF SyncWrite, Finish, Rows, TypeOK, Delivering, Idle, Procs, NewReceipt
<1>12. ASSUME NEW p \in Sessions, Abort(p)
      PROVE  Rows'
  BY <1>12 DEF Abort, Finish, rows, Rows, TypeOK, Delivering, Idle, Procs, NewReceipt
<1>13. ASSUME NEW w \in Workers, DeliverRedeem(w)
      PROVE  Rows'
  BY <1>13, OperationShapes
  DEF DeliverRedeem, Delivering, CodeOf, CodeSaved, Rows, TypeOK, Idle, Procs,
      NewReceipt, DeliverTx
<1>14. ASSUME NEW w \in Workers, DeliverMark(w)
      PROVE  Rows'
  BY <1>14, OperationShapes
  DEF DeliverMark, Delivering, CodeOf, CodeSaved, Finish, Rows, TypeOK, Idle, Procs,
      NewReceipt, DeliverTx, Task, ReceiptRow
<1>15. ASSUME NEW w \in Workers, DeliverFail(w)
      PROVE  Rows'
  <2>1. Failed(w, tx[w].task.receipt)
    BY <1>15, FailEffect
  <2>2. /\ receipt'[tx[w].task.receipt].status # "ABSENT"
        /\ receipt'[tx[w].task.receipt].status = "REVOKED" => receipt'[tx[w].task.receipt].revoked
    BY <2>1 DEF Failed, Rows, Delivering, Procs
  <2>3. \A s \in Receipts \ {tx[w].task.receipt} : receipt'[s] = receipt[s]
    BY <2>1 DEF Failed
  <2>4. \A s \in Receipts :
           /\ receipt'[s].status = "ABSENT" => receipt'[s] = NewReceipt("ABSENT", NoCode)
           /\ receipt'[s].status = "REVOKED" => receipt'[s].revoked
    BY <2>2, <2>3 DEF Rows
  <2>5. \A q \in Procs : tx'[q] = tx[q] \/ tx'[q] = Idle
    BY <2>1 DEF Failed, TypeOK, Procs
  <2>6. \A s \in Receipts : receipt[s].status # "ABSENT" => receipt'[s].status # "ABSENT"
    BY <2>2, <2>3
  <2>. QED
    BY <2>4, <2>5, <2>6, OperationShapes
    DEF Rows, Idle, Delivering, DeliverTx, Task, CheckedTx
<1>16. ASSUME NEW w \in Workers, WorkerDies(w)
      PROVE  Rows'
  BY <1>16 DEF WorkerDies, Delivering, Finish, rows, Rows, TypeOK, Idle, Procs, NewReceipt
<1>17. ASSUME NEW w \in Workers, NEW r \in Receipts, NEW task \in queue,
           task.receipt = r, DeliverLoad(w, task)
      PROVE  Rows'
  BY <1>17
  DEF DeliverLoad, Start, rows, Rows, TypeOK, Delivering, Idle, Procs, NewReceipt, Task,
      ReceiptRow
<1>18. ASSUME UNCHANGED <<tx, receipt>>
      PROVE  Rows'
  BY <1>18 DEF Rows, TypeOK, Delivering, Idle, Procs, NewReceipt
<1>. QED
  BY <1>1, <1>2, <1>3, <1>4, <1>5, <1>6, <1>7, <1>8, <1>9, <1>10, <1>11, <1>12, <1>13,
      <1>14, <1>15, <1>16, <1>17, <1>18
  DEF Next, Request, Complete, Take, Deliver, vars, rows, restock_item, adjust_stock,
      bulk_import_codes, DeliverNotFound, DeliverSkip, retry_delivery, void,
      expire_redemption_codes

\* What an open award has checked stays so: it holds the item and the code.
LEMMA AwardsOpenStep ==
    ASSUME TypeOK, Locks, Rows, OutOfPool, AwardsOpen, [Next]_vars
    PROVE  AwardsOpen'
<1>1. ASSUME NEW p \in Sessions, NEW i \in Items, NEW n \in Deltas,
           restock_item(p, i, n)
      PROVE  AwardsOpen'
  BY <1>1, OperationShapes, ConstantsAssumption
  DEF restock_item, MoveStock, Record, WithinBounds, is_unlimited, AwardsOpen, Awarding,
      InStock, TypeOK, Idle, Procs, ItemLocked, ItemRow, AwardTx
<1>2. ASSUME NEW p \in Sessions, NEW i \in Items, NEW n \in Deltas,
           adjust_stock(p, i, n)
      PROVE  AwardsOpen'
  BY <1>2, OperationShapes, ConstantsAssumption
  DEF adjust_stock, Record, WithinBounds, is_unlimited, AwardsOpen, Awarding, InStock,
      TypeOK, Idle, Procs, ItemLocked, ItemRow, AwardTx
<1>3. ASSUME NEW p \in Sessions, NEW i \in Items, NEW T \in SUBSET Codes,
           bulk_import_codes(p, i, T)
      PROVE  AwardsOpen'
  <2>1. \A c \in Codes : code[c].status = "AVAILABLE" => code'[c] = code[c]
    BY <1>3 DEF bulk_import_codes
  <2>2. Cardinality(T) \in Nat /\ Cardinality(T) > 0
    BY <1>3, CodesAreFinite DEF bulk_import_codes
  <2>3. \A j \in Items : InStock(j) => InStock(j)'
    BY <1>3, <2>2
    DEF bulk_import_codes, MoveStock, InStock, is_unlimited, TypeOK, ItemRow,
        UNLIMITED_STOCK
  <2>4. UNCHANGED <<receipt, tx>>
    BY <1>3 DEF bulk_import_codes
  <2>. QED
    BY <2>1, <2>3, <2>4, OperationShapes, ConstantsAssumption
    DEF AwardsOpen, Awarding, AwardTx
<1>4. ASSUME NEW p \in Sessions, NEW i \in Items, EditLoad(p, i)
      PROVE  AwardsOpen'
  BY <1>4
  DEF EditLoad, Start, rows, AwardsOpen, Awarding, InStock, is_unlimited, TypeOK, Idle,
      Procs
<1>5. ASSUME NEW p \in Sessions, NEW i \in Items, SyncRead(p, i)
      PROVE  AwardsOpen'
  BY <1>5
  DEF SyncRead, Start, is_unlimited, rows, AwardsOpen, Awarding, InStock, TypeOK, Idle,
      Procs
<1>6. ASSUME NEW p \in Sessions, NEW r \in Receipts, NEW c \in Codes \cup {NoCode},
           AwardBegin(p, r, c)
      PROVE  AwardsOpen'
  BY <1>6, OperationShapes, ConstantsAssumption
  DEF AwardBegin, Start, rows, AwardsOpen, Awarding, InStock, is_unlimited, TypeOK,
      Idle, Procs, AvailableCodes, CodeLocked
<1>7. ASSUME NEW p \in Sessions, NEW r \in Receipts, RevokeRead(p, r)
      PROVE  AwardsOpen'
  BY <1>7
  DEF RevokeRead, Start, rows, AwardsOpen, Awarding, InStock, is_unlimited, TypeOK,
      Idle, Procs
<1>8. ASSUME NEW p \in Sessions, NEW r \in Receipts, ClaimRead(p, r)
      PROVE  AwardsOpen'
  BY <1>8
  DEF ClaimRead, Start, rows, AwardsOpen, Awarding, InStock, is_unlimited, TypeOK, Idle,
      Procs
<1>9. ASSUME NEW p \in Sessions, AwardCommit(p)
      PROVE  AwardsOpen'
  <2>1. Awarded(p, tx[p].receipt)
    BY <1>9, AwardEffect
  <2>2. \A q \in Procs : Awarding(q)' => Awarding(q) /\ tx'[q] = tx[q] /\ q # p
    BY <2>1 DEF Awarded, Awarding, TypeOK, Procs, Idle
  <2>3. \A q \in Procs : Awarding(q) /\ q # p =>
           /\ ItemOf[tx[q].receipt] # ItemOf[tx[p].receipt]
           /\ tx[q].code # NoCode => tx[q].code # tx[p].code
    BY <2>1 DEF Awarded, Locks, Procs
  <2>4. \A j \in Items \ {ItemOf[tx[p].receipt]} : item'[j] = item[j]
    BY <1>9 DEF AwardCommit, MoveStock, TypeOK
  <2>5. \A c \in Codes : c # tx[p].code => code'[c] = code[c]
    BY <2>1 DEF Awarded, TypeOK
  <2>6. \A s \in Receipts \ {tx[p].receipt} : receipt'[s] = receipt[s]
    BY <2>1 DEF Awarded
  <2>7. \A q \in Procs : Awarding(q) =>
           /\ tx[q].receipt \in Receipts /\ ItemOf[tx[q].receipt] \in Items
           /\ tx[q].code \in Codes \cup {NoCode}
    BY OperationShapes, ConstantsAssumption DEF AwardTx
  <2>. QED
    BY <2>2, <2>3, <2>4, <2>5, <2>6, <2>7 DEF AwardsOpen, InStock, is_unlimited
<1>10. ASSUME NEW p \in Sessions, RevokeCommit(p)
      PROVE  AwardsOpen'
  <2>1. Revoked(p, tx[p].receipt)
    BY <1>10, RevokeEffect
  <2>2. \A q \in Procs : Awarding(q)' => Awarding(q) /\ tx'[q] = tx[q]
    BY <2>1 DEF Revoked, Awarding, TypeOK, Procs, Idle
  <2>3. \A q \in Procs : Awarding(q) => ItemOf[tx[q].receipt] # ItemOf[tx[p].receipt]
    BY <1>10 DEF RevokeCommit, ItemLocked
  <2>4. \A j \in Items \ {ItemOf[tx[p].receipt]} : item'[j] = item[j]
    BY <1>10 DEF RevokeCommit, MoveStock, TypeOK
  <2>5. \A c \in Codes : code[c].status = "AVAILABLE" => code'[c].status = "AVAILABLE"
    BY <2>1 DEF Revoked
  <2>6. \A s \in Receipts : receipt[s].status = "ABSENT" => receipt'[s].status = "ABSENT"
    BY <2>1 DEF Revoked, Rows, Procs
  <2>7. \A q \in Procs : Awarding(q) =>
           /\ tx[q].receipt \in Receipts /\ ItemOf[tx[q].receipt] \in Items
           /\ tx[q].code \in Codes \cup {NoCode}
    BY OperationShapes, ConstantsAssumption DEF AwardTx
  <2>. QED
    BY <2>2, <2>3, <2>4, <2>5, <2>6, <2>7 DEF AwardsOpen, InStock, is_unlimited
<1>11. ASSUME NEW p \in Sessions, ClaimWrite(p)
      PROVE  AwardsOpen'
  BY <1>11, OperationShapes, ConstantsAssumption
  DEF ClaimWrite, Finish, AwardsOpen, Awarding, InStock, is_unlimited, TypeOK, Idle,
      Procs, AwardTx, CheckedTx, Rows
<1>12. ASSUME NEW p \in Sessions, tx[p].op = "edit", Edit(p)
      PROVE  AwardsOpen'
  BY <1>12, OperationShapes, ConstantsAssumption
  DEF Edit, EditSave, Finish, AwardsOpen, Awarding, InStock, is_unlimited, TypeOK, Idle,
      Procs, AwardTx, ItemLocked
<1>13. ASSUME NEW p \in Sessions, SyncCount(p)
      PROVE  AwardsOpen'
  BY <1>13
  DEF SyncCount, rows, AwardsOpen, Awarding, InStock, is_unlimited, TypeOK, Idle, Procs
<1>14. ASSUME NEW p \in Sessions, SyncWrite(p)
      PROVE  AwardsOpen'
  BY <1>14, OperationShapes, ConstantsAssumption
  DEF SyncWrite, Finish, AwardsOpen, Awarding, InStock, is_unlimited, TypeOK, Idle,
      Procs, AwardTx, ItemLocked, CountedTx
<1>15. ASSUME NEW p \in Sessions, Abort(p)
      PROVE  AwardsOpen'
  BY <1>15
  DEF Abort, Finish, rows, AwardsOpen, Awarding, InStock, is_unlimited, TypeOK, Idle,
      Procs
<1>16. ASSUME NEW w \in Workers, DeliverRedeem(w)
      PROVE  AwardsOpen'
  <2>1. tx[w] \in DeliverTx /\ tx[w].task.receipt \in Receipts
    BY <1>16, OperationShapes DEF DeliverRedeem, Procs, DeliverTx, Task
  <2>2. CodeOf(w) # NoCode /\ code[CodeOf(w)].status # "AVAILABLE"
    BY <1>16, <2>1 DEF DeliverRedeem, CodeSaved, CodeOf, OutOfPool
  <2>3. \A q \in Procs : Awarding(q)' => Awarding(q) /\ tx'[q] = tx[q]
    BY <1>16, <2>1 DEF DeliverRedeem, Awarding, TypeOK, Procs, DeliverTx
  <2>4. \A c \in Codes : code[c].status = "AVAILABLE" => code'[c] = code[c]
    BY <1>16, <2>2 DEF DeliverRedeem, TypeOK
  <2>5. UNCHANGED <<item, receipt>>
    BY <1>16 DEF DeliverRedeem
  <2>. QED
    BY <2>3, <2>4, <2>5, OperationShapes DEF AwardsOpen, AwardTx, InStock, is_unlimited
<1>17. ASSUME NEW w \in Workers, DeliverMark(w)
      PROVE  AwardsOpen'
  <2>1. tx[w].task.receipt \in Receipts /\ receipt[tx[w].task.receipt].status # "ABSENT"
    BY <1>17, OperationShapes DEF DeliverMark, DeliverTx, Task, Procs, Rows
  <2>2. UNCHANGED <<item, code>> /\ tx' = [tx EXCEPT ![w] = Idle]
    BY <1>17 DEF DeliverMark, Finish
  <2>3. \A q \in Procs : Awarding(q)' => Awarding(q) /\ tx'[q] = tx[q]
    BY <2>2 DEF Awarding, TypeOK, Procs, Idle
  <2>4. \A s \in Receipts : receipt[s].status = "ABSENT" => receipt'[s] = receipt[s]
    BY <1>17, <2>1 DEF DeliverMark, TypeOK
  <2>5. \A q \in Procs : Awarding(q) =>
           /\ tx[q].receipt \in Receipts /\ ItemOf[tx[q].receipt] \in Items
           /\ tx[q].code \in Codes \cup {NoCode}
    BY OperationShapes, ConstantsAssumption DEF AwardTx
  <2>. QED
    BY <2>2, <2>3, <2>4, <2>5 DEF AwardsOpen, InStock, is_unlimited
<1>18. ASSUME NEW w \in Workers, DeliverFail(w)
      PROVE  AwardsOpen'
  <2>1. Failed(w, tx[w].task.receipt)
    BY <1>18, FailEffect
  <2>2. \A q \in Procs : Awarding(q)' => Awarding(q) /\ tx'[q] = tx[q]
    BY <2>1 DEF Failed, Awarding, TypeOK, Procs, Idle
  <2>3. UNCHANGED <<item, code>>
    BY <1>18 DEF DeliverFail
  <2>4. \A s \in Receipts : receipt[s].status = "ABSENT" => receipt'[s].status = "ABSENT"
    BY <2>1 DEF Failed, Rows, Procs
  <2>5. \A q \in Procs : Awarding(q) =>
           /\ tx[q].receipt \in Receipts /\ ItemOf[tx[q].receipt] \in Items
           /\ tx[q].code \in Codes \cup {NoCode}
    BY OperationShapes, ConstantsAssumption DEF AwardTx
  <2>. QED
    BY <2>2, <2>3, <2>4, <2>5 DEF AwardsOpen, InStock, is_unlimited
<1>19. ASSUME NEW w \in Workers, WorkerDies(w)
      PROVE  AwardsOpen'
  BY <1>19
  DEF WorkerDies, Delivering, Finish, rows, AwardsOpen, Awarding, InStock, is_unlimited,
      TypeOK, Idle, Procs
<1>20. ASSUME NEW w \in Workers, NEW r \in Receipts, NEW task \in queue,
           task.receipt = r, DeliverLoad(w, task)
      PROVE  AwardsOpen'
  BY <1>20
  DEF DeliverLoad, Start, rows, AwardsOpen, Awarding, InStock, is_unlimited, TypeOK,
      Idle, Procs
<1>21. ASSUME NEW c \in Codes, void(c)
      PROVE  AwardsOpen'
  BY <1>21, OperationShapes, ConstantsAssumption
  DEF void, AwardsOpen, Awarding, InStock, is_unlimited, TypeOK, Idle, Procs, AwardTx,
      CodeLocked
<1>22. ASSUME NEW T \in SUBSET Codes, expire_redemption_codes(T)
      PROVE  AwardsOpen'
  BY <1>22, OperationShapes, ConstantsAssumption
  DEF expire_redemption_codes, AwardsOpen, Awarding, InStock, is_unlimited, TypeOK,
      Idle, Procs, AwardTx, CodeLocked
<1>23. ASSUME UNCHANGED <<item, code, receipt, tx>>
      PROVE  AwardsOpen'
  BY <1>23 DEF AwardsOpen, Awarding, InStock, is_unlimited, TypeOK, Idle, Procs
<1>. QED
  BY <1>1, <1>2, <1>3, <1>4, <1>5, <1>6, <1>7, <1>8, <1>9, <1>10, <1>11, <1>12, <1>13,
      <1>14, <1>15, <1>16, <1>17, <1>18, <1>19, <1>20, <1>21, <1>22, <1>23
  DEF Next, Request, Complete, Take, Deliver, vars, rows, DeliverNotFound, DeliverSkip,
      retry_delivery

\* An award takes its code from the pool, and no code returns to it.
LEMMA OutOfPoolStep ==
    ASSUME TypeOK, AwardsOpen, Rows, OutOfPool, [Next]_vars
    PROVE  OutOfPool'
<1>1. ASSUME NEW p \in Sessions, NEW i \in Items, NEW T \in SUBSET Codes,
           bulk_import_codes(p, i, T)
      PROVE  OutOfPool'
  BY <1>1, OperationShapes
  DEF bulk_import_codes, MoveStock, Record, WithinBounds, is_unlimited, OutOfPool,
      TypeOK, Procs, ReceiptRow
<1>2. ASSUME NEW p \in Sessions, AwardCommit(p)
      PROVE  OutOfPool'
  <2>1. Awarded(p, tx[p].receipt)
    BY <1>2, AwardEffect
  <2>2. receipt'[tx[p].receipt].code = tx[p].code
    BY <2>1 DEF Awarded, NewReceipt
  <2>3. tx[p].code # NoCode => code[tx[p].code].status = "AVAILABLE"
    BY <2>1 DEF Awarded, AwardsOpen, Procs
  <2>4. \A s \in Receipts : receipt[s].code # NoCode =>
          s # tx[p].receipt /\ receipt[s].code # tx[p].code
    BY <2>1, <2>3 DEF Awarded, AwardsOpen, Procs, Rows, NewReceipt, OutOfPool
  <2>5. /\ \A c \in Codes : c # tx[p].code => code'[c] = code[c]
        /\ tx[p].code # NoCode => code'[tx[p].code].status = "RESERVED"
    BY <2>1 DEF Awarded, TypeOK, AwardTx, CodeRow
  <2>6. \A s \in Receipts \ {tx[p].receipt} : receipt'[s] = receipt[s]
    BY <2>1 DEF Awarded
  <2>. QED
    BY <2>2, <2>4, <2>5, <2>6 DEF OutOfPool, TypeOK, ReceiptRow
<1>3. ASSUME NEW p \in Sessions, RevokeCommit(p)
      PROVE  OutOfPool'
  <2>1. Revoked(p, tx[p].receipt)
    BY <1>3, RevokeEffect
  <2>2. \A s \in Receipts : receipt'[s].code = receipt[s].code
    BY <2>1 DEF Revoked
  <2>3. \A c \in Codes : code'[c].status = code[c].status \/ code'[c].status = "VOIDED"
    BY <2>1 DEF Revoked
  <2>. QED
    BY <2>2, <2>3 DEF OutOfPool, TypeOK, ReceiptRow
<1>4. ASSUME NEW p \in Sessions, ClaimWrite(p)
      PROVE  OutOfPool'
  <2>1. \A s \in Receipts : receipt'[s].code = receipt[s].code
    BY <1>4 DEF ClaimWrite, TypeOK, ReceiptRow
  <2>2. UNCHANGED code
    BY <1>4 DEF ClaimWrite
  <2>. QED
    BY <2>1, <2>2 DEF OutOfPool
<1>5. ASSUME NEW w \in Workers, DeliverRedeem(w)
      PROVE  OutOfPool'
  <2>1. tx[w].task.receipt \in Receipts
    BY <1>5, OperationShapes DEF DeliverRedeem, Procs, DeliverTx, Task
  <2>2. code' = [code EXCEPT ![CodeOf(w)].status = "REDEEMED"] /\ UNCHANGED receipt
    BY <1>5 DEF DeliverRedeem
  <2>3. /\ \A c \in Codes \ {CodeOf(w)} : code'[c] = code[c]
        /\ CodeOf(w) \in Codes => code'[CodeOf(w)].status = "REDEEMED"
    BY <2>2 DEF TypeOK, CodeRow
  <2>. QED
    BY <2>2, <2>3 DEF OutOfPool, TypeOK, ReceiptRow
<1>6. ASSUME NEW w \in Workers, DeliverMark(w)
      PROVE  OutOfPool'
  <2>1. \A s \in Receipts : receipt'[s].code = receipt[s].code
    BY <1>6 DEF DeliverMark, TypeOK, ReceiptRow
  <2>2. UNCHANGED code
    BY <1>6 DEF DeliverMark
  <2>. QED
    BY <2>1, <2>2 DEF OutOfPool
<1>7. ASSUME NEW w \in Workers, DeliverFail(w)
      PROVE  OutOfPool'
  <2>1. Failed(w, tx[w].task.receipt)
    BY <1>7, FailEffect
  <2>2. \A s \in Receipts : receipt'[s].code = receipt[s].code
    BY <2>1 DEF Failed
  <2>3. UNCHANGED code
    BY <1>7 DEF DeliverFail
  <2>. QED
    BY <2>2, <2>3 DEF OutOfPool
<1>8. ASSUME NEW c \in Codes, void(c)
      PROVE  OutOfPool'
  BY <1>8, OperationShapes DEF void, OutOfPool, TypeOK, Procs, CodeRow
<1>9. ASSUME NEW T \in SUBSET Codes, expire_redemption_codes(T)
      PROVE  OutOfPool'
  BY <1>9, OperationShapes
  DEF expire_redemption_codes, OutOfPool, TypeOK, Procs, ReceiptRow
<1>10. ASSUME UNCHANGED <<receipt, code>>
      PROVE  OutOfPool'
  BY <1>10, OperationShapes DEF OutOfPool, TypeOK, Procs
<1>12. CASE \E p \in Sessions : Request(p)
  BY <1>12, <1>1, <1>10, RequestsKeepReceipts
<1>13. CASE \E p \in Sessions : Complete(p) \/ Abort(p)
  BY <1>13, <1>2, <1>3, <1>4, <1>10
  DEF Complete, rows, Edit, EditSave, SyncCount, SyncWrite, Abort
<1>14. CASE \E w \in Workers : Deliver(w) \/ WorkerDies(w)
  BY <1>14, <1>5, <1>6, <1>7, <1>10 DEF Deliver, rows, WorkerDies
<1>15. CASE \E r \in Receipts : retry_delivery(r) \/ \E w \in Workers : Take(w, r)
  BY <1>15, <1>10
  DEF Take, rows, retry_delivery, DeliverNotFound, DeliverSkip, DeliverLoad
<1>16. CASE (\E c \in Codes : void(c)) \/ \E T \in SUBSET Codes : expire_redemption_codes(T)
  BY <1>16, <1>8, <1>9
<1>17. CASE UNCHANGED vars
  BY <1>17, <1>10 DEF vars, rows
<1>. QED
  BY <1>12, <1>13, <1>14, <1>15, <1>16, <1>17 DEF Next

\* Spent is kept when spent codes stay spent, no operation begins, and only
\* receipts with a spent code are delivered or claimed.
LEMMA SpentKept ==
    ASSUME TypeOK, Spent,
           \A q \in Procs : tx'[q] = tx[q] \/ tx'[q] = Idle,
           \A s \in Receipts : SpentCode(s) /\ receipt[s].status # "ABSENT" => SpentCode(s)',
           \A q \in Procs :
              /\ tx[q].op = "claim" => receipt[tx[q].receipt].status # "ABSENT"
              /\ Delivering(q) => receipt[tx[q].task.receipt].status # "ABSENT",
           \A s \in Receipts : receipt'[s].status \in {"DELIVERED", "CLAIMED"} =>
              receipt[s].status \in {"DELIVERED", "CLAIMED"} \/ SpentCode(s)'
    PROVE  Spent'
<1>1. DeliveredCodeIsSpent'
  BY DEF Spent, DeliveredCodeIsSpent, SpentCode
<1>2. ASSUME NEW q \in Procs
      PROVE  /\ (Delivering(q) /\ tx[q].redeemed => SpentCode(tx[q].task.receipt))'
             /\ (tx[q].op = "claim" => SpentCode(tx[q].receipt))'
  <2>1. CASE tx'[q] = tx[q]
    <3>1. Delivering(q) => tx[q].task.receipt \in Receipts
      BY OperationShapes DEF DeliverTx, Task
    <3>2. tx[q].op = "claim" => tx[q].receipt \in Receipts
      BY OperationShapes DEF CheckedTx
    <3>. QED
      BY <2>1, <3>1, <3>2 DEF Spent, Delivering, SpentCode
  <2>2. CASE tx'[q] = Idle
    BY <2>2 DEF Idle, Delivering
  <2>. QED
    BY <2>1, <2>2
<1>. QED
  BY <1>1, <1>2 DEF Spent

\* A receipt is delivered or claimed by whoever knows its code to be spent.
LEMMA SpentStep ==
    ASSUME TypeOK, AwardsOpen, Rows, OutOfPool, Spent, [Next]_vars
    PROVE  Spent'
<1>1. ASSUME NEW p \in Sessions, NEW i \in Items, NEW T \in SUBSET Codes,
           bulk_import_codes(p, i, T)
      PROVE  Spent'
  <2>1. UNCHANGED <<receipt, tx>>
    BY <1>1 DEF bulk_import_codes
  <2>2. \A c \in Codes :
          code[c].status \in {"REDEEMED", "VOIDED"} => code'[c].status \in {"REDEEMED", "VOIDED"}
    BY <1>1 DEF bulk_import_codes, TypeOK, CodeRow
  <2>3. \A s \in Receipts : SpentCode(s) /\ receipt[s].status # "ABSENT" => SpentCode(s)'
    BY <2>1, <2>2 DEF SpentCode, TypeOK, ReceiptRow
  <2>4. \A q \in Procs : tx'[q] = tx[q] \/ tx'[q] = Idle
    BY <2>1
  <2>5. \A s \in Receipts : receipt'[s].status \in {"DELIVERED", "CLAIMED"} =>
          receipt[s].status \in {"DELIVERED", "CLAIMED"} \/ SpentCode(s)'
    BY <2>1
  <2>. QED
    BY <2>3, <2>4, <2>5, SpentKept DEF Rows
<1>2. ASSUME NEW p \in Sessions, NEW i \in Items, EditLoad(p, i)
      PROVE  Spent'
  BY <1>2, OperationShapes
  DEF EditLoad, Start, rows, Spent, DeliveredCodeIsSpent, SpentCode, TypeOK, Procs,
      Idle, Delivering
<1>3. ASSUME NEW p \in Sessions, NEW i \in Items, SyncRead(p, i)
      PROVE  Spent'
  BY <1>3, OperationShapes
  DEF SyncRead, Start, is_unlimited, rows, Spent, DeliveredCodeIsSpent, SpentCode,
      TypeOK, Procs, Idle, Delivering
<1>4. ASSUME NEW p \in Sessions, NEW r \in Receipts, NEW c \in Codes \cup {NoCode},
           AwardBegin(p, r, c)
      PROVE  Spent'
  BY <1>4, OperationShapes
  DEF AwardBegin, Start, rows, Spent, DeliveredCodeIsSpent, SpentCode, TypeOK, Procs,
      Idle, Delivering
<1>5. ASSUME NEW p \in Sessions, NEW r \in Receipts, RevokeRead(p, r)
      PROVE  Spent'
  BY <1>5, OperationShapes
  DEF RevokeRead, Start, rows, Spent, DeliveredCodeIsSpent, SpentCode, TypeOK, Procs,
      Idle, Delivering
<1>6. ASSUME NEW p \in Sessions, NEW r \in Receipts, ClaimRead(p, r)
      PROVE  Spent'
  BY <1>6, OperationShapes
  DEF ClaimRead, Start, rows, Spent, DeliveredCodeIsSpent, SpentCode, TypeOK, Procs,
      Idle, Delivering, ReceiptRow
<1>7. ASSUME NEW p \in Sessions, AwardCommit(p)
      PROVE  Spent'
  <2>1. Awarded(p, tx[p].receipt)
    BY <1>7, AwardEffect
  <2>2. receipt'[tx[p].receipt].status = "PENDING" /\ receipt[tx[p].receipt].status = "ABSENT"
    BY <2>1 DEF Awarded, NewReceipt, AwardsOpen, Procs
  <2>3. tx[p].code # NoCode => code[tx[p].code].status = "AVAILABLE"
    BY <2>1 DEF Awarded, AwardsOpen, Procs
  <2>4. \A c \in Codes : c # tx[p].code => code'[c] = code[c]
    BY <2>1 DEF Awarded, TypeOK
  <2>5. \A s \in Receipts \ {tx[p].receipt} : receipt'[s] = receipt[s]
    BY <2>1 DEF Awarded
  <2>6. \A s \in Receipts : SpentCode(s) /\ receipt[s].status # "ABSENT" => SpentCode(s)'
    BY <2>2, <2>3, <2>4, <2>5 DEF SpentCode, TypeOK, ReceiptRow
  <2>7. \A q \in Procs : tx'[q] = tx[q] \/ tx'[q] = Idle
    BY <2>1 DEF Awarded, TypeOK, Procs
  <2>8. \A s \in Receipts : receipt'[s].status \in {"DELIVERED", "CLAIMED"} =>
          receipt[s].status \in {"DELIVERED", "CLAIMED"} \/ SpentCode(s)'
    BY <2>2, <2>5
  <2>. QED
    BY <2>6, <2>7, <2>8, SpentKept DEF Rows
<1>8. ASSUME NEW p \in Sessions, RevokeCommit(p)
      PROVE  Spent'
  <2>1. Revoked(p, tx[p].receipt)
    BY <1>8, RevokeEffect
  <2>2. \A s \in Receipts :
           /\ receipt'[s].code = receipt[s].code
           /\ receipt'[s].status = receipt[s].status \/ receipt'[s].status = "REVOKED"
    BY <2>1 DEF Revoked
  <2>3. \A c \in Codes :
          code[c].status \in {"REDEEMED", "VOIDED"} => code'[c].status \in {"REDEEMED", "VOIDED"}
    BY <2>1 DEF Revoked
  <2>4. \A s \in Receipts : SpentCode(s) /\ receipt[s].status # "ABSENT" => SpentCode(s)'
    BY <2>2, <2>3 DEF SpentCode, TypeOK, ReceiptRow
  <2>5. \A q \in Procs : tx'[q] = tx[q] \/ tx'[q] = Idle
    BY <2>1 DEF Revoked, TypeOK, Procs
  <2>6. \A s \in Receipts : receipt'[s].status \in {"DELIVERED", "CLAIMED"} =>
          receipt[s].status \in {"DELIVERED", "CLAIMED"} \/ SpentCode(s)'
    BY <2>2
  <2>. QED
    BY <2>4, <2>5, <2>6, SpentKept DEF Rows
<1>9. ASSUME NEW p \in Sessions, ClaimWrite(p)
      PROVE  Spent'
  <2>1. tx[p].receipt \in Receipts /\ SpentCode(tx[p].receipt)
    BY <1>9, OperationShapes DEF ClaimWrite, CheckedTx, Spent, Procs
  <2>2. /\ \A s \in Receipts : receipt'[s].code = receipt[s].code
        /\ \A s \in Receipts \ {tx[p].receipt} : receipt'[s] = receipt[s]
    BY <1>9, <2>1 DEF ClaimWrite, TypeOK, ReceiptRow
  <2>3. UNCHANGED code
    BY <1>9 DEF ClaimWrite
  <2>4. \A s \in Receipts : SpentCode(s) /\ receipt[s].status # "ABSENT" => SpentCode(s)'
    BY <2>2, <2>3 DEF SpentCode
  <2>5. \A q \in Procs : tx'[q] = tx[q] \/ tx'[q] = Idle
    BY <1>9 DEF ClaimWrite, Finish, TypeOK, Procs
  <2>6. \A s \in Receipts : receipt'[s].status \in {"DELIVERED", "CLAIMED"} =>
          receipt[s].status \in {"DELIVERED", "CLAIMED"} \/ SpentCode(s)'
    BY <2>1, <2>2, <2>3 DEF SpentCode
  <2>. QED
    BY <2>4, <2>5, <2>6, SpentKept DEF Rows
<1>10. ASSUME NEW p \in Sessions, tx[p].op = "edit", Edit(p)
      PROVE  Spent'
  <2>1. UNCHANGED <<receipt, code>>
    BY <1>10 DEF Edit, EditSave
  <2>2. tx' = [tx EXCEPT ![p] = Idle]
    BY <1>10 DEF Edit, EditSave, Finish
  <2>3. \A s \in Receipts : SpentCode(s) /\ receipt[s].status # "ABSENT" => SpentCode(s)'
    BY <2>1 DEF SpentCode
  <2>4. \A q \in Procs : tx'[q] = tx[q] \/ tx'[q] = Idle
    BY <2>2 DEF TypeOK, Procs
  <2>5. \A s \in Receipts : receipt'[s].status \in {"DELIVERED", "CLAIMED"} =>
          receipt[s].status \in {"DELIVERED", "CLAIMED"} \/ SpentCode(s)'
    BY <2>1
  <2>. QED
    BY <2>3, <2>4, <2>5, SpentKept DEF Rows
<1>11. ASSUME NEW p \in Sessions, SyncCount(p)
      PROVE  Spent'
  BY <1>11, OperationShapes
  DEF SyncCount, rows, Spent, DeliveredCodeIsSpent, SpentCode, TypeOK, Procs, Idle,
      Delivering
<1>12. ASSUME NEW p \in Sessions, SyncWrite(p)
      PROVE  Spent'
  BY <1>12, OperationShapes
  DEF SyncWrite, Finish, Spent, DeliveredCodeIsSpent, SpentCode, TypeOK, Procs, Idle,
      Delivering
<1>13. ASSUME NEW p \in Sessions, Abort(p)
      PROVE  Spent'
  BY <1>13, OperationShapes
  DEF Abort, Finish, rows, Spent, DeliveredCodeIsSpent, SpentCode, TypeOK, Procs, Idle,
      Delivering
<1>14. ASSUME NEW w \in Workers, DeliverRedeem(w)
      PROVE  Spent'
  <2>1. tx[w] \in DeliverTx /\ tx[w].task.receipt \in Receipts
    BY <1>14, OperationShapes DEF DeliverRedeem, Procs, DeliverTx, Task
  <2>2. CodeOf(w) \in Codes
    BY <1>14, <2>1 DEF DeliverRedeem, CodeSaved, CodeOf, TypeOK, ReceiptRow
  <2>3. /\ \A c \in Codes :
          code[c].status \in {"REDEEMED", "VOIDED"} => code'[c].status \in {"REDEEMED", "VOIDED"}
        /\ code'[CodeOf(w)].status = "REDEEMED"
    BY <1>14, <2>2 DEF DeliverRedeem, TypeOK, CodeRow
  <2>4. UNCHANGED receipt
    BY <1>14 DEF DeliverRedeem
  <2>5. /\ \A q \in Procs \ {w} : tx'[q] = tx[q]
        /\ tx'[w].op = "deliver" /\ tx'[w].task = tx[w].task
    BY <1>14, <2>1 DEF DeliverRedeem, Delivering, TypeOK, Procs, DeliverTx
  <2>6. \A s \in Receipts : SpentCode(s) => SpentCode(s)'
    BY <2>3, <2>4 DEF SpentCode, TypeOK, ReceiptRow
  <2>7. \A s \in Receipts : s = tx[w].task.receipt => SpentCode(s)'
    BY <2>3, <2>4 DEF SpentCode, CodeOf
  <2>8. DeliveredCodeIsSpent'
    BY <2>4, <2>6 DEF Spent, DeliveredCodeIsSpent, SpentCode
  <2>9. ASSUME NEW q \in Procs, q # w
        PROVE  /\ (Delivering(q) /\ tx[q].redeemed => SpentCode(tx[q].task.receipt))'
               /\ (tx[q].op = "claim" => SpentCode(tx[q].receipt))'
    <3>1. tx'[q] = tx[q]
      BY <2>5, <2>9
    <3>2. /\ Delivering(q) => tx[q].task.receipt \in Receipts
          /\ tx[q].op = "claim" => tx[q].receipt \in Receipts
      BY OperationShapes DEF DeliverTx, Task, CheckedTx
    <3>3. /\ Delivering(q) /\ tx[q].redeemed => SpentCode(tx[q].task.receipt)
          /\ tx[q].op = "claim" => SpentCode(tx[q].receipt)
      BY DEF Spent
    <3>. QED
      BY <3>1, <3>2, <3>3, <2>6 DEF Delivering, SpentCode
  <2>10. /\ (Delivering(w) /\ tx[w].redeemed => SpentCode(tx[w].task.receipt))'
         /\ tx'[w].op # "claim"
    BY <2>1, <2>5, <2>7 DEF SpentCode
  <2>. QED
    BY <2>8, <2>9, <2>10 DEF Spent
<1>15. ASSUME NEW w \in Workers, DeliverMark(w)
      PROVE  Spent'
  <2>1. tx[w] \in DeliverTx /\ tx[w].task.receipt \in Receipts
    BY <1>15, OperationShapes DEF DeliverMark, Procs, DeliverTx, Task
  <2>2. SpentCode(tx[w].task.receipt)
    BY <1>15 DEF DeliverMark, CodeSaved, CodeOf, Spent, SpentCode, Procs
  <2>3. /\ \A s \in Receipts : receipt'[s].code = receipt[s].code
        /\ \A s \in Receipts \ {tx[w].task.receipt} : receipt'[s] = receipt[s]
    BY <1>15, <2>1 DEF DeliverMark, TypeOK, ReceiptRow
  <2>4. UNCHANGED code
    BY <1>15 DEF DeliverMark
  <2>5. \A s \in Receipts : SpentCode(s) /\ receipt[s].status # "ABSENT" => SpentCode(s)'
    BY <2>3, <2>4 DEF SpentCode
  <2>6. \A q \in Procs : tx'[q] = tx[q] \/ tx'[q] = Idle
    BY <1>15 DEF DeliverMark, Finish, TypeOK, Procs
  <2>7. \A s \in Receipts : receipt'[s].status \in {"DELIVERED", "CLAIMED"} =>
          receipt[s].status \in {"DELIVERED", "CLAIMED"} \/ SpentCode(s)'
    BY <2>2, <2>3, <2>4 DEF SpentCode
  <2>. QED
    BY <2>5, <2>6, <2>7, SpentKept DEF Rows
<1>16. ASSUME NEW w \in Workers, DeliverFail(w)
      PROVE  Spent'
  <2>1. Failed(w, tx[w].task.receipt)
    BY <1>16, FailEffect
  <2>2. \A s \in Receipts :
           /\ receipt'[s].code = receipt[s].code
           /\ receipt'[s].status = receipt[s].status \/ receipt'[s].status = "FAILED"
    BY <2>1 DEF Failed
  <2>3. UNCHANGED code
    BY <1>16 DEF DeliverFail
  <2>4. \A s \in Receipts : SpentCode(s) /\ receipt[s].status # "ABSENT" => SpentCode(s)'
    BY <2>2, <2>3 DEF SpentCode
  <2>5. \A q \in Procs : tx'[q] = tx[q] \/ tx'[q] = Idle
    BY <2>1 DEF Failed, TypeOK, Procs
  <2>6. \A s \in Receipts : receipt'[s].status \in {"DELIVERED", "CLAIMED"} =>
          receipt[s].status \in {"DELIVERED", "CLAIMED"} \/ SpentCode(s)'
    BY <2>2
  <2>. QED
    BY <2>4, <2>5, <2>6, SpentKept DEF Rows
<1>17. ASSUME NEW w \in Workers, WorkerDies(w)
      PROVE  Spent'
  BY <1>17, OperationShapes
  DEF WorkerDies, Delivering, Finish, rows, Spent, DeliveredCodeIsSpent, SpentCode,
      TypeOK, Procs, Idle
<1>18. ASSUME NEW w \in Workers, NEW r \in Receipts, NEW task \in queue,
           task.receipt = r, DeliverLoad(w, task)
      PROVE  Spent'
  BY <1>18, OperationShapes
  DEF DeliverLoad, Start, rows, Spent, DeliveredCodeIsSpent, SpentCode, TypeOK, Procs,
      Idle, Delivering, Task, ReceiptRow
<1>19. ASSUME NEW c \in Codes, void(c)
      PROVE  Spent'
  <2>1. UNCHANGED <<receipt, tx>>
    BY <1>19 DEF void
  <2>2. \A d \in Codes :
          code[d].status \in {"REDEEMED", "VOIDED"} => code'[d].status \in {"REDEEMED", "VOIDED"}
    BY <1>19 DEF void, TypeOK, CodeRow
  <2>3. \A s \in Receipts : SpentCode(s) /\ receipt[s].status # "ABSENT" => SpentCode(s)'
    BY <2>1, <2>2 DEF SpentCode, TypeOK, ReceiptRow
  <2>4. \A q \in Procs : tx'[q] = tx[q] \/ tx'[q] = Idle
    BY <2>1
  <2>5. \A s \in Receipts : receipt'[s].status \in {"DELIVERED", "CLAIMED"} =>
          receipt[s].status \in {"DELIVERED", "CLAIMED"} \/ SpentCode(s)'
    BY <2>1
  <2>. QED
    BY <2>3, <2>4, <2>5, SpentKept DEF Rows
<1>20. ASSUME NEW T \in SUBSET Codes, expire_redemption_codes(T)
      PROVE  Spent'
  <2>1. UNCHANGED <<receipt, tx>>
    BY <1>20 DEF expire_redemption_codes
  <2>2. \A c \in Codes :
          code[c].status \in {"REDEEMED", "VOIDED"} => code'[c].status \in {"REDEEMED", "VOIDED"}
    BY <1>20 DEF expire_redemption_codes, TypeOK, CodeRow
  <2>3. \A s \in Receipts : SpentCode(s) /\ receipt[s].status # "ABSENT" => SpentCode(s)'
    BY <2>1, <2>2 DEF SpentCode, TypeOK, ReceiptRow
  <2>4. \A q \in Procs : tx'[q] = tx[q] \/ tx'[q] = Idle
    BY <2>1
  <2>5. \A s \in Receipts : receipt'[s].status \in {"DELIVERED", "CLAIMED"} =>
          receipt[s].status \in {"DELIVERED", "CLAIMED"} \/ SpentCode(s)'
    BY <2>1
  <2>. QED
    BY <2>3, <2>4, <2>5, SpentKept DEF Rows
<1>21. ASSUME UNCHANGED <<tx, receipt, code>>
      PROVE  Spent'
  BY <1>21, OperationShapes
  DEF Spent, DeliveredCodeIsSpent, SpentCode, TypeOK, Procs, Idle, Delivering
<1>. QED
  BY <1>1, <1>2, <1>3, <1>4, <1>5, <1>6, <1>7, <1>8, <1>9, <1>10, <1>11, <1>12, <1>13,
      <1>14, <1>15, <1>16, <1>17, <1>18, <1>19, <1>20, <1>21
  DEF Next, Request, Complete, Take, Deliver, vars, rows, restock_item, adjust_stock,
      DeliverNotFound, DeliverSkip, retry_delivery

\* A step that queues nothing and begins no delivery keeps OneChain.
LEMMA ChainKept ==
    ASSUME OneChain,
           \A r \in Receipts :
              receipt'[r].attempts < MaxAttempts => receipt[r].attempts < MaxAttempts,
           queue' \subseteq queue,
           \A q \in Procs : \A r : DeliveringOf(q, r)' => DeliveringOf(q, r)
    PROVE  OneChain'
<1>1. ASSUME NEW r \in Receipts, OneTask(r)
      PROVE  OneTask(r)'
  BY <1>1 DEF OneTask
<1>. QED
  BY <1>1 DEF OneChain

\* A task is queued for a receipt only when none is queued or executed for it.
LEMMA OneChainStep ==
    ASSUME TypeOK, AwardsOpen, Rows, Snapshots, SweepFindsNothing, OneChain, [Next]_vars
    PROVE  OneChain'
<1>1. ASSUME NEW p \in Sessions, NEW i \in Items, EditLoad(p, i)
      PROVE  OneChain'
  <2>1. UNCHANGED <<receipt, queue>>
    BY <1>1 DEF EditLoad, rows
  <2>2. \E o : o.op = "edit" /\ tx' = [tx EXCEPT ![p] = o]
    BY <1>1 DEF EditLoad, Start
  <2>3. \A q \in Procs : \A r : DeliveringOf(q, r)' => DeliveringOf(q, r)
    BY <2>2 DEF DeliveringOf, Delivering, TypeOK, Procs
  <2>. QED
    BY <2>1, <2>3, ChainKept DEF OneChain
<1>2. ASSUME NEW p \in Sessions, NEW i \in Items, SyncRead(p, i)
      PROVE  OneChain'
  <2>1. UNCHANGED <<receipt, queue>>
    BY <1>2 DEF SyncRead, rows
  <2>2. \E o : o.op = "sync" /\ tx' = [tx EXCEPT ![p] = o]
    BY <1>2 DEF SyncRead, Start
  <2>3. \A q \in Procs : \A r : DeliveringOf(q, r)' => DeliveringOf(q, r)
    BY <2>2 DEF DeliveringOf, Delivering, TypeOK, Procs
  <2>. QED
    BY <2>1, <2>3, ChainKept DEF OneChain
<1>3. ASSUME NEW p \in Sessions, NEW r \in Receipts, NEW c \in Codes \cup {NoCode},
           AwardBegin(p, r, c)
      PROVE  OneChain'
  <2>1. queue' = queue \cup {[receipt |-> r, origin |-> "award", tries |-> 0]} /\ UNCHANGED receipt
    BY <1>3 DEF AwardBegin, rows
  <2>2. \A t \in queue : t.receipt # r
    BY <1>3 DEF AwardBegin
  <2>3. \A q \in Procs : ~DeliveringOf(q, r)
    BY <1>3 DEF AwardBegin, DeliveringOf, Rows
  <2>4. \E o : o.op = "award" /\ tx' = [tx EXCEPT ![p] = o]
    BY <1>3 DEF AwardBegin, Start
  <2>5. \A q \in Procs : \A s : DeliveringOf(q, s)' => DeliveringOf(q, s)
    BY <2>4 DEF DeliveringOf, Delivering, TypeOK, Procs
  <2>6. \A s \in Receipts : OneTask(s) => OneTask(s)'
    BY <2>1, <2>2, <2>3, <2>5 DEF OneTask
  <2>. QED
    BY <2>1, <2>6 DEF OneChain
<1>4. ASSUME NEW p \in Sessions, NEW r \in Receipts, RevokeRead(p, r)
      PROVE  OneChain'
  <2>1. UNCHANGED <<receipt, queue>>
    BY <1>4 DEF RevokeRead, rows
  <2>2. \E o : o.op = "revoke" /\ tx' = [tx EXCEPT ![p] = o]
    BY <1>4 DEF RevokeRead, Start
  <2>3. \A q \in Procs : \A s : DeliveringOf(q, s)' => DeliveringOf(q, s)
    BY <2>2 DEF DeliveringOf, Delivering, TypeOK, Procs
  <2>. QED
    BY <2>1, <2>3, ChainKept DEF OneChain
<1>5. ASSUME NEW p \in Sessions, NEW r \in Receipts, ClaimRead(p, r)
      PROVE  OneChain'
  <2>1. UNCHANGED <<receipt, queue>>
    BY <1>5 DEF ClaimRead, rows
  <2>2. \E o : o.op = "claim" /\ tx' = [tx EXCEPT ![p] = o]
    BY <1>5 DEF ClaimRead, Start
  <2>3. \A q \in Procs : \A s : DeliveringOf(q, s)' => DeliveringOf(q, s)
    BY <2>2 DEF DeliveringOf, Delivering, TypeOK, Procs
  <2>. QED
    BY <2>1, <2>3, ChainKept DEF OneChain
<1>6. ASSUME NEW p \in Sessions, AwardCommit(p)
      PROVE  OneChain'
  <2>1. Awarded(p, tx[p].receipt)
    BY <1>6, AwardEffect
  <2>2. \A s \in Receipts :
           receipt'[s].attempts < MaxAttempts => receipt[s].attempts < MaxAttempts
    BY <2>1 DEF Awarded, AwardsOpen, Rows, NewReceipt, Procs
  <2>3. queue' \subseteq queue
    BY <1>6 DEF AwardCommit
  <2>4. tx' = [tx EXCEPT ![p] = Idle]
    BY <1>6 DEF AwardCommit, Finish
  <2>5. \A q \in Procs : \A r : DeliveringOf(q, r)' => DeliveringOf(q, r)
    BY <2>4 DEF DeliveringOf, Delivering, TypeOK, Procs, Idle
  <2>. QED
    BY <2>2, <2>3, <2>5, ChainKept DEF OneChain
<1>7. ASSUME NEW p \in Sessions, RevokeCommit(p)
      PROVE  OneChain'
  <2>1. Revoked(p, tx[p].receipt)
    BY <1>7, RevokeEffect
  <2>2. \A s \in Receipts :
           receipt'[s].attempts < MaxAttempts => receipt[s].attempts < MaxAttempts
    BY <2>1 DEF Revoked
  <2>3. queue' \subseteq queue
    BY <1>7 DEF RevokeCommit
  <2>4. tx' = [tx EXCEPT ![p] = Idle]
    BY <1>7 DEF RevokeCommit, Finish
  <2>5. \A q \in Procs : \A r : DeliveringOf(q, r)' => DeliveringOf(q, r)
    BY <2>4 DEF DeliveringOf, Delivering, TypeOK, Procs, Idle
  <2>. QED
    BY <2>2, <2>3, <2>5, ChainKept DEF OneChain
<1>8. ASSUME NEW p \in Sessions, ClaimWrite(p)
      PROVE  OneChain'
  <2>1. tx[p].receipt \in Receipts
    BY <1>8, OperationShapes DEF ClaimWrite, Procs, CheckedTx
  <2>2. \A s \in Receipts :
           receipt'[s].attempts < MaxAttempts => receipt[s].attempts < MaxAttempts
    BY <2>1, <1>8 DEF ClaimWrite, TypeOK, ReceiptRow
  <2>3. queue' \subseteq queue
    BY <1>8 DEF ClaimWrite
  <2>4. tx' = [tx EXCEPT ![p] = Idle]
    BY <1>8 DEF ClaimWrite, Finish
  <2>5. \A q \in Procs : \A r : DeliveringOf(q, r)' => DeliveringOf(q, r)
    BY <2>4 DEF DeliveringOf, Delivering, TypeOK, Procs, Idle
  <2>. QED
    BY <2>2, <2>3, <2>5, ChainKept DEF OneChain
<1>9. ASSUME NEW p \in Sessions, tx[p].op = "edit", Edit(p)
      PROVE  OneChain'
  <2>1. \A s \in Receipts :
           receipt'[s].attempts < MaxAttempts => receipt[s].attempts < MaxAttempts
    BY <1>9 DEF Edit, EditSave, rows
  <2>2. queue' \subseteq queue
    BY <1>9 DEF Edit, EditSave
  <2>3. tx' = [tx EXCEPT ![p] = Idle]
    BY <1>9 DEF Edit, EditSave, Finish
  <2>4. \A q \in Procs : \A r : DeliveringOf(q, r)' => DeliveringOf(q, r)
    BY <2>3 DEF DeliveringOf, Delivering, TypeOK, Procs, Idle
  <2>. QED
    BY <2>1, <2>2, <2>4, ChainKept DEF OneChain
<1>10. ASSUME NEW p \in Sessions, SyncCount(p)
      PROVE  OneChain'
  <2>1. UNCHANGED <<receipt, queue>>
    BY <1>10 DEF SyncCount, rows
  <2>2. /\ tx'[p].op \in {"idle", "counted"}
        /\ \A q \in Procs \ {p} : tx'[q] = tx[q]
    BY <1>10 DEF SyncCount, Idle, TypeOK, Procs
  <2>3. \A q \in Procs : \A r : DeliveringOf(q, r)' => DeliveringOf(q, r)
    BY <2>2 DEF DeliveringOf, Delivering, Procs
  <2>. QED
    BY <2>1, <2>3, ChainKept DEF OneChain
<1>11. ASSUME NEW p \in Sessions, SyncWrite(p)
      PROVE  OneChain'
  <2>1. \A s \in Receipts :
           receipt'[s].attempts < MaxAttempts => receipt[s].attempts < MaxAttempts
    BY <1>11 DEF SyncWrite, rows
  <2>2. queue' \subseteq queue
    BY <1>11 DEF SyncWrite
  <2>3. tx' = [tx EXCEPT ![p] = Idle]
    BY <1>11 DEF SyncWrite, Finish
  <2>4. \A q \in Procs : \A r : DeliveringOf(q, r)' => DeliveringOf(q, r)
    BY <2>3 DEF DeliveringOf, Delivering, TypeOK, Procs, Idle
  <2>. QED
    BY <2>1, <2>2, <2>4, ChainKept DEF OneChain
<1>12. ASSUME NEW p \in Sessions, Abort(p)
      PROVE  OneChain'
  <2>1. \A s \in Receipts :
           receipt'[s].attempts < MaxAttempts => receipt[s].attempts < MaxAttempts
    BY <1>12 DEF Abort, rows
  <2>2. queue' \subseteq queue
    BY <1>12 DEF Abort
  <2>3. tx' = [tx EXCEPT ![p] = Idle]
    BY <1>12 DEF Abort, Finish
  <2>4. \A q \in Procs : \A r : DeliveringOf(q, r)' => DeliveringOf(q, r)
    BY <2>3 DEF DeliveringOf, Delivering, TypeOK, Procs, Idle
  <2>. QED
    BY <2>1, <2>2, <2>4, ChainKept DEF OneChain
<1>13. ASSUME NEW w \in Workers, DeliverRedeem(w)
      PROVE  OneChain'
  <2>1. UNCHANGED <<receipt, queue>>
    BY <1>13 DEF DeliverRedeem
  <2>2. tx[w] \in DeliverTx
    BY <1>13, OperationShapes DEF DeliverRedeem, Procs
  <2>3. \A q \in Procs : \A r : DeliveringOf(q, r)' => DeliveringOf(q, r)
    BY <1>13, <2>2 DEF DeliverRedeem, DeliveringOf, Delivering, TypeOK, Procs, DeliverTx
  <2>. QED
    BY <2>1, <2>3, ChainKept DEF OneChain
<1>14. ASSUME NEW w \in Workers, DeliverMark(w)
      PROVE  OneChain'
  <2>1. tx[w].task.receipt \in Receipts
    BY <1>14, OperationShapes DEF DeliverMark, Procs, DeliverTx, Task
  <2>2. \A s \in Receipts :
           receipt'[s].attempts < MaxAttempts => receipt[s].attempts < MaxAttempts
    BY <2>1, <1>14 DEF DeliverMark, TypeOK, ReceiptRow
  <2>3. queue' \subseteq queue
    BY <1>14 DEF DeliverMark
  <2>4. tx' = [tx EXCEPT ![w] = Idle]
    BY <1>14 DEF DeliverMark, Finish
  <2>5. \A q \in Procs : \A r : DeliveringOf(q, r)' => DeliveringOf(q, r)
    BY <2>4 DEF DeliveringOf, Delivering, TypeOK, Procs, Idle
  <2>. QED
    BY <2>2, <2>3, <2>5, ChainKept DEF OneChain
<1>15. ASSUME NEW w \in Workers, DeliverFail(w)
      PROVE  OneChain'
  <2>1. Failed(w, tx[w].task.receipt)
    BY <1>15, FailEffect
  <2>2. tx[w].task \in Task /\ w \in Procs
    BY <2>1 DEF Failed, DeliverTx, Procs
  <2>3. queue' = queue \cup Retried(tx[w].task)
    BY <1>15 DEF DeliverFail
  <2>4. \A q \in Procs : \A s :
           DeliveringOf(q, s)' => DeliveringOf(q, s) /\ q # w
    BY <2>1 DEF Failed, DeliveringOf, Delivering, TypeOK, Procs, Idle
  <2>5. DeliveringOf(w, tx[w].task.receipt)
    BY <2>1 DEF Failed, DeliveringOf
  <2>6. \A s \in Receipts : OneTask(s) => OneTask(s)'
    BY <2>2, <2>3, <2>4, <2>5, RetriedTasks DEF OneTask
  <2>7. \A s \in Receipts :
           receipt'[s].attempts < MaxAttempts => receipt[s].attempts < MaxAttempts
    BY <2>1, ConstantsAssumption DEF Failed, Snapshots, DeliverTx, Procs
  <2>. QED
    BY <2>6, <2>7 DEF OneChain
<1>16. ASSUME NEW w \in Workers, WorkerDies(w)
      PROVE  OneChain'
  <2>1. tx[w] \in DeliverTx /\ w \in Procs
    BY <1>16, OperationShapes DEF WorkerDies, Procs
  <2>2. queue' \subseteq queue \cup {tx[w].task} /\ UNCHANGED receipt
    BY <1>16 DEF WorkerDies, rows
  <2>3. tx' = [tx EXCEPT ![w] = Idle]
    BY <1>16 DEF WorkerDies, Finish
  <2>4. \A q \in Procs : \A s :
           DeliveringOf(q, s)' => DeliveringOf(q, s) /\ q # w
    BY <2>1, <2>3 DEF DeliveringOf, Delivering, TypeOK, Procs, Idle
  <2>5. DeliveringOf(w, tx[w].task.receipt)
    BY <1>16 DEF WorkerDies, DeliveringOf
  <2>6. \A s \in Receipts : OneTask(s) => OneTask(s)'
    BY <2>1, <2>2, <2>4, <2>5 DEF OneTask
  <2>. QED
    BY <2>2, <2>6 DEF OneChain
<1>17. ASSUME NEW w \in Workers, NEW r \in Receipts, NEW task \in queue,
           task.receipt = r, DeliverNotFound(w, task)
      PROVE  OneChain'
  <2>1. task \in Task
    BY <1>17 DEF TypeOK
  <2>2. queue' = (queue \ {task}) \cup Retried(task) /\ task \in queue /\ UNCHANGED <<receipt, tx>>
    BY <1>17 DEF DeliverNotFound, rows
  <2>3. \A q \in Procs : \A s : DeliveringOf(q, s)' = DeliveringOf(q, s)
    BY <2>2 DEF DeliveringOf, Delivering
  <2>4. \A s \in Receipts : OneTask(s) => OneTask(s)'
    BY <2>1, <2>2, <2>3, RetriedTasks DEF OneTask
  <2>. QED
    BY <2>2, <2>4 DEF OneChain
<1>18. ASSUME NEW w \in Workers, NEW r \in Receipts, NEW task \in queue,
           task.receipt = r, DeliverSkip(w, task)
      PROVE  OneChain'
  <2>1. UNCHANGED <<receipt, tx>> /\ queue' \subseteq queue
    BY <1>18 DEF DeliverSkip, rows
  <2>2. \A q \in Procs : \A s : DeliveringOf(q, s)' => DeliveringOf(q, s)
    BY <2>1 DEF DeliveringOf, Delivering
  <2>. QED
    BY <2>1, <2>2, ChainKept DEF OneChain
<1>19. ASSUME NEW w \in Workers, NEW r \in Receipts, NEW task \in queue,
           task.receipt = r, DeliverLoad(w, task)
      PROVE  OneChain'
  <2>1. task \in Task /\ w \in Procs
    BY <1>19 DEF TypeOK, Procs
  <2>2. queue' = queue \ {task} /\ task \in queue /\ UNCHANGED receipt
    BY <1>19 DEF DeliverLoad, rows
  <2>3. /\ tx'[w].task = task
        /\ \A q \in Procs \ {w} : tx'[q] = tx[q]
    BY <1>19, <2>1 DEF DeliverLoad, Start, TypeOK
  <2>4. \A q \in Procs \ {w} : \A s : DeliveringOf(q, s)' => DeliveringOf(q, s)
    BY <2>1, <2>3 DEF DeliveringOf, Delivering
  <2>5. \A s : DeliveringOf(w, s)' => s = task.receipt
    BY <2>1, <2>3 DEF DeliveringOf, Delivering
  <2>6. \A s \in Receipts : OneTask(s) => OneTask(s)'
    BY <2>1, <2>2, <2>4, <2>5 DEF OneTask
  <2>. QED
    BY <2>2, <2>6 DEF OneChain
<1>20. ASSUME NEW r \in Receipts, retry_delivery(r)
      PROVE  OneChain'
  <2>1. UNCHANGED <<receipt, tx>>
    BY <1>20 DEF retry_delivery, rows
  <2>2. queue' = queue \cup {[receipt |-> r, origin |-> "admin", tries |-> 0]}
    BY <1>20 DEF retry_delivery
  <2>3. ~(receipt[r].attempts < MaxAttempts)
    BY <1>20 DEF retry_delivery, SweepFindsNothing
  <2>4. \A s \in Receipts \ {r} : OneTask(s) => OneTask(s)'
    BY <2>1, <2>2 DEF OneTask, DeliveringOf, Delivering
  <2>. QED
    BY <2>1, <2>3, <2>4 DEF OneChain
<1>21. ASSUME UNCHANGED <<queue, tx, receipt>>
      PROVE  OneChain'
  BY <1>21, ChainKept DEF OneChain, DeliveringOf, Delivering
<1>. QED
  BY <1>1, <1>2, <1>3, <1>4, <1>5, <1>6, <1>7, <1>8, <1>9, <1>10, <1>11, <1>12, <1>13,
      <1>14, <1>15, <1>16, <1>17, <1>18, <1>19, <1>20, <1>21
  DEF Next, Request, Complete, Take, Deliver, vars, rows, restock_item, adjust_stock,
      bulk_import_codes, void, expire_redemption_codes

\* A set of receipts has a number of elements, a subset has no more.
LEMMA ReceiptsAreFinite ==
    ASSUME NEW A \in SUBSET Receipts, NEW B \in SUBSET A
    PROVE  /\ IsFiniteSet(A)
           /\ Cardinality(A) \in Nat
           /\ Cardinality(B) \in Nat
           /\ Cardinality(B) <= Cardinality(A)
<1>1. IsFiniteSet(A)
  BY FiniteAssumption, FS_Subset
<1>2. IsFiniteSet(B) /\ Cardinality(B) <= Cardinality(A)
  BY <1>1, FS_Subset
<1>. QED
  BY <1>1, <1>2, FS_CardinalityType

\* Capped is kept when no receipt comes to be held and no award opens.
LEMMA HeldKept ==
    ASSUME TypeOK, Capped,
           \A s \in Receipts : receipt'[s].status \in ActiveStatus /\ FirstLife(s)' =>
              receipt[s].status \in ActiveStatus /\ FirstLife(s),
           \A q \in Procs : Awarding(q)' => Awarding(q) /\ tx'[q] = tx[q]
    PROVE  Capped'
<1>1. \A u \in Users, i \in Items :
         Held(u, i)' \subseteq Held(u, i) /\ Held(u, i) \subseteq Receipts
  BY DEF Held, Active, FirstLife
<1>2. \A u \in Users, i \in Items :
         /\ Cardinality(Held(u, i)') <= Cardinality(Held(u, i))
         /\ Cardinality(Held(u, i)') \in Nat
         /\ Cardinality(Held(u, i)) \in Nat
  BY <1>1, ReceiptsAreFinite
<1>3. CapHolds'
  BY <1>2, ConstantsAssumption DEF Capped, CapHolds
<1>4. ASSUME NEW q \in Procs, Awarding(q)'
      PROVE  Cardinality(Held(UserOf[tx[q].receipt], ItemOf[tx[q].receipt]))' + 1 <= MaxPerUser
  <2>1. Awarding(q) /\ tx'[q] = tx[q] /\ tx[q].receipt \in Receipts
    BY <1>4, OperationShapes DEF AwardTx
  <2>2. /\ UserOf[tx[q].receipt] \in Users /\ ItemOf[tx[q].receipt] \in Items
        /\ Cardinality(Held(UserOf[tx[q].receipt], ItemOf[tx[q].receipt])) + 1 <= MaxPerUser
    BY <2>1, ConstantsAssumption DEF Capped
  <2>. QED
    BY <1>2, <2>1, <2>2, ConstantsAssumption
<1>5. \A q \in Procs : Awarding(q)' =>
         Cardinality(Held(UserOf[tx[q].receipt], ItemOf[tx[q].receipt]))' + 1 <= MaxPerUser
  BY <1>4
<1>. QED
  BY <1>3, <1>5 DEF Capped

\* A receipt that was inserted, never failed and never was revoked is active.
LEMMA FirstLivesAreActive ==
    ASSUME TypeOK, Rows, SweepFindsNothing, NEW r \in Receipts,
           receipt[r].status # "ABSENT", FirstLife(r)
    PROVE  receipt[r].status \in ActiveStatus
<1>1. receipt[r] \in ReceiptRow
  BY DEF TypeOK
<1>. QED
  BY <1>1 DEF ReceiptRow, InventoryStatus, ActiveStatus, FirstLife, Rows, SweepFindsNothing

\* One receipt more makes a set of receipts larger by one at most.
LEMMA OneMoreReceipt ==
    ASSUME NEW A \in SUBSET Receipts, NEW r \in Receipts, NEW B, B \subseteq A \cup {r}
    PROVE  /\ Cardinality(A) \in Nat
           /\ Cardinality(B) \in Nat
           /\ Cardinality(B) <= Cardinality(A) + 1
           /\ B \subseteq A => Cardinality(B) <= Cardinality(A)
<1>1. IsFiniteSet(A) /\ Cardinality(A) \in Nat
  BY ReceiptsAreFinite
<1>2. /\ IsFiniteSet(A \cup {r})
      /\ Cardinality(A \cup {r}) = IF r \in A THEN Cardinality(A) ELSE Cardinality(A) + 1
  BY <1>1, FS_AddElement
<1>3. /\ A \cup {r} \in SUBSET Receipts /\ B \in SUBSET (A \cup {r})
      /\ B \subseteq A => B \in SUBSET A
  OBVIOUS
<1>4. Cardinality(B) \in Nat /\ Cardinality(B) <= Cardinality(A \cup {r})
  BY <1>3, ReceiptsAreFinite
<1>5. B \subseteq A => Cardinality(B) <= Cardinality(A)
  BY <1>3, ReceiptsAreFinite
<1>. QED
  BY <1>1, <1>2, <1>4, <1>5

\* An award opens under the cap, and no other award counts for its item before it commits.
LEMMA CappedStep ==
    ASSUME TypeOK, Locks, AwardsOpen, Rows, OneChain, Snapshots, SweepFindsNothing,
           Capped, [Next]_vars
    PROVE  Capped'
<1>1. ASSUME NEW p \in Sessions, NEW i \in Items, EditLoad(p, i)
      PROVE  Capped'
  <2>1. UNCHANGED receipt
    BY <1>1 DEF EditLoad, rows
  <2>2. \E o : o.op # "award" /\ tx' = [tx EXCEPT ![p] = o]
    BY <1>1 DEF EditLoad, Start
  <2>3. \A s \in Receipts : receipt'[s].status \in ActiveStatus /\ FirstLife(s)' =>
          receipt[s].status \in ActiveStatus /\ FirstLife(s)
    BY <2>1 DEF FirstLife
  <2>4. \A q \in Procs : Awarding(q)' => Awarding(q) /\ tx'[q] = tx[q]
    BY <2>2 DEF Awarding, TypeOK, Procs
  <2>. QED
    BY <2>3, <2>4, HeldKept DEF Capped
<1>2. ASSUME NEW p \in Sessions, NEW i \in Items, SyncRead(p, i)
      PROVE  Capped'
  <2>1. UNCHANGED receipt
    BY <1>2 DEF SyncRead, rows
  <2>2. \E o : o.op # "award" /\ tx' = [tx EXCEPT ![p] = o]
    BY <1>2 DEF SyncRead, Start
  <2>3. \A s \in Receipts : receipt'[s].status \in ActiveStatus /\ FirstLife(s)' =>
          receipt[s].status \in ActiveStatus /\ FirstLife(s)
    BY <2>1 DEF FirstLife
  <2>4. \A q \in Procs : Awarding(q)' => Awarding(q) /\ tx'[q] = tx[q]
    BY <2>2 DEF Awarding, TypeOK, Procs
  <2>. QED
    BY <2>3, <2>4, HeldKept DEF Capped
<1>3. ASSUME NEW p \in Sessions, NEW r \in Receipts, NEW c \in Codes \cup {NoCode},
           AwardBegin(p, r, c)
      PROVE  Capped'
  <2>1. UNCHANGED receipt
    BY <1>3 DEF AwardBegin, rows
  <2>2. \A u \in Users, i \in Items : Held(u, i)' = Held(u, i)
    BY <2>1 DEF Held, Active, FirstLife
  <2>3. Held(UserOf[r], ItemOf[r]) \subseteq Active(UserOf[r], ItemOf[r])
        /\ Active(UserOf[r], ItemOf[r]) \subseteq Receipts
    BY DEF Held, Active
  <2>4. Cardinality(Active(UserOf[r], ItemOf[r])) + 1 <= MaxPerUser
    BY <1>3 DEF AwardBegin
  <2>5. Cardinality(Held(UserOf[r], ItemOf[r])) + 1 <= MaxPerUser
    BY <2>3, <2>4, ReceiptsAreFinite, ConstantsAssumption
  <2>6. /\ tx'[p].receipt = r
        /\ \A q \in Procs \ {p} : tx'[q] = tx[q]
    BY <1>3 DEF AwardBegin, Start, TypeOK, Procs
  <2>7. UserOf[r] \in Users /\ ItemOf[r] \in Items
    BY ConstantsAssumption
  <2>8. CapHolds'
    BY <2>2 DEF Capped, CapHolds
  <2>9. \A q \in Procs : Awarding(q)' => tx'[q].receipt \in Receipts /\
          Cardinality(Held(UserOf[tx'[q].receipt], ItemOf[tx'[q].receipt])) + 1 <= MaxPerUser
    BY <2>5, <2>6, OperationShapes DEF Capped, Awarding, AwardTx
  <2>10. \A q \in Procs : Awarding(q)' =>
          Cardinality(Held(UserOf[tx[q].receipt], ItemOf[tx[q].receipt]))' + 1 <= MaxPerUser
    BY <2>2, <2>9, ConstantsAssumption
  <2>. QED
    BY <2>8, <2>10 DEF Capped
<1>4. ASSUME NEW p \in Sessions, NEW r \in Receipts, RevokeRead(p, r)
      PROVE  Capped'
  <2>1. UNCHANGED receipt
    BY <1>4 DEF RevokeRead, rows
  <2>2. \E o : o.op # "award" /\ tx' = [tx EXCEPT ![p] = o]
    BY <1>4 DEF RevokeRead, Start
  <2>3. \A s \in Receipts : receipt'[s].status \in ActiveStatus /\ FirstLife(s)' =>
          receipt[s].status \in ActiveStatus /\ FirstLife(s)
    BY <2>1 DEF FirstLife
  <2>4. \A q \in Procs : Awarding(q)' => Awarding(q) /\ tx'[q] = tx[q]
    BY <2>2 DEF Awarding, TypeOK, Procs
  <2>. QED
    BY <2>3, <2>4, HeldKept DEF Capped
<1>5. ASSUME NEW p \in Sessions, NEW r \in Receipts, ClaimRead(p, r)
      PROVE  Capped'
  <2>1. UNCHANGED receipt
    BY <1>5 DEF ClaimRead, rows
  <2>2. \E o : o.op # "award" /\ tx' = [tx EXCEPT ![p] = o]
    BY <1>5 DEF ClaimRead, Start
  <2>3. \A s \in Receipts : receipt'[s].status \in ActiveStatus /\ FirstLife(s)' =>
          receipt[s].status \in ActiveStatus /\ FirstLife(s)
    BY <2>1 DEF FirstLife
  <2>4. \A q \in Procs : Awarding(q)' => Awarding(q) /\ tx'[q] = tx[q]
    BY <2>2 DEF Awarding, TypeOK, Procs
  <2>. QED
    BY <2>3, <2>4, HeldKept DEF Capped
<1>6. ASSUME NEW p \in Sessions, AwardCommit(p)
      PROVE  Capped'
  <2>1. Awarded(p, tx[p].receipt)
    BY <1>6, AwardEffect
  <2>2. /\ tx[p].receipt \in Receipts
        /\ \A s \in Receipts \ {tx[p].receipt} : receipt'[s] = receipt[s]
    BY <2>1 DEF Awarded
  <2>3. \A u \in Users, i \in Items :
           /\ Held(u, i) \subseteq Receipts
           /\ Held(u, i)' \subseteq Held(u, i) \cup {tx[p].receipt}
           /\ u # UserOf[tx[p].receipt] \/ i # ItemOf[tx[p].receipt] =>
                 Held(u, i)' \subseteq Held(u, i)
    BY <2>2 DEF Held, Active, FirstLife
  <2>4. \A u \in Users, i \in Items :
           /\ Cardinality(Held(u, i)) \in Nat /\ Cardinality(Held(u, i)') \in Nat
           /\ Cardinality(Held(u, i)') <= Cardinality(Held(u, i)) + 1
           /\ u # UserOf[tx[p].receipt] \/ i # ItemOf[tx[p].receipt] =>
                 Cardinality(Held(u, i)') <= Cardinality(Held(u, i))
    BY <2>2, <2>3, OneMoreReceipt
  <2>5. Cardinality(Held(UserOf[tx[p].receipt], ItemOf[tx[p].receipt])) + 1 <= MaxPerUser
    BY <2>1 DEF Awarded, Capped, Procs
  <2>6. CapHolds'
    BY <2>2, <2>4, <2>5, ConstantsAssumption DEF Capped, CapHolds
  <2>7. \A q \in Procs : Awarding(q)' =>
           /\ Awarding(q) /\ tx'[q] = tx[q] /\ tx[q].receipt \in Receipts
           /\ ItemOf[tx[q].receipt] # ItemOf[tx[p].receipt]
    BY <2>1, OperationShapes DEF Awarded, Awarding, TypeOK, Procs, Idle, Locks, AwardTx
  <2>8. \A q \in Procs : Awarding(q)' =>
           /\ UserOf[tx[q].receipt] \in Users /\ ItemOf[tx[q].receipt] \in Items
           /\ Cardinality(Held(UserOf[tx[q].receipt], ItemOf[tx[q].receipt])) + 1 <= MaxPerUser
    BY <2>7, ConstantsAssumption DEF Capped
  <2>9. \A q \in Procs : Awarding(q)' =>
          Cardinality(Held(UserOf[tx[q].receipt], ItemOf[tx[q].receipt])') + 1 <= MaxPerUser
    BY <2>4, <2>7, <2>8, ConstantsAssumption
  <2>. QED
    BY <2>6, <2>7, <2>9 DEF Capped
<1>7. ASSUME NEW p \in Sessions, RevokeCommit(p)
      PROVE  Capped'
  <2>1. Revoked(p, tx[p].receipt)
    BY <1>7, RevokeEffect
  <2>2. \A s \in Receipts : receipt'[s].status \in ActiveStatus /\ FirstLife(s)' =>
          receipt[s].status \in ActiveStatus /\ FirstLife(s)
    BY <2>1 DEF Revoked, FirstLife
  <2>3. \A q \in Procs : Awarding(q)' => Awarding(q) /\ tx'[q] = tx[q]
    BY <2>1 DEF Revoked, Awarding, TypeOK, Procs, Idle
  <2>. QED
    BY <2>2, <2>3, HeldKept DEF Capped
<1>8. ASSUME NEW p \in Sessions, ClaimWrite(p)
      PROVE  Capped'
  <2>1. tx[p].receipt \in Receipts /\ receipt[tx[p].receipt].status # "ABSENT"
    BY <1>8, OperationShapes DEF ClaimWrite, CheckedTx, Procs, Rows
  <2>2. /\ \A s \in Receipts \ {tx[p].receipt} : receipt'[s] = receipt[s]
        /\ receipt'[tx[p].receipt].attempts = receipt[tx[p].receipt].attempts
        /\ receipt'[tx[p].receipt].revoked = receipt[tx[p].receipt].revoked
    BY <1>8, <2>1 DEF ClaimWrite, TypeOK, ReceiptRow
  <2>3. FirstLife(tx[p].receipt) => receipt[tx[p].receipt].status \in ActiveStatus
    BY <2>1, FirstLivesAreActive
  <2>4. \A s \in Receipts : receipt'[s].status \in ActiveStatus /\ FirstLife(s)' =>
          receipt[s].status \in ActiveStatus /\ FirstLife(s)
    BY <2>1, <2>2, <2>3 DEF FirstLife
  <2>5. \A q \in Procs : Awarding(q)' => Awarding(q) /\ tx'[q] = tx[q]
    BY <1>8 DEF ClaimWrite, Finish, Awarding, TypeOK, Procs, Idle
  <2>. QED
    BY <2>4, <2>5, HeldKept DEF Capped
<1>9. ASSUME NEW p \in Sessions, tx[p].op = "edit", Edit(p)
      PROVE  Capped'
  <2>1. UNCHANGED receipt
    BY <1>9 DEF Edit, EditSave, rows
  <2>2. tx' = [tx EXCEPT ![p] = Idle]
    BY <1>9 DEF Edit, EditSave, Finish
  <2>3. \A s \in Receipts : receipt'[s].status \in ActiveStatus /\ FirstLife(s)' =>
          receipt[s].status \in ActiveStatus /\ FirstLife(s)
    BY <2>1 DEF FirstLife
  <2>4. \A q \in Procs : Awarding(q)' => Awarding(q) /\ tx'[q] = tx[q]
    BY <2>2 DEF Awarding, TypeOK, Procs, Idle
  <2>. QED
    BY <2>3, <2>4, HeldKept DEF Capped
<1>10. ASSUME NEW p \in Sessions, SyncCount(p)
      PROVE  Capped'
  <2>1. UNCHANGED receipt
    BY <1>10 DEF SyncCount, rows
  <2>2. tx'[p].op # "award" /\ \A q \in Procs \ {p} : tx'[q] = tx[q]
    BY <1>10 DEF SyncCount, Idle, TypeOK, Procs
  <2>3. \A s \in Receipts : receipt'[s].status \in ActiveStatus /\ FirstLife(s)' =>
          receipt[s].status \in ActiveStatus /\ FirstLife(s)
    BY <2>1 DEF FirstLife
  <2>4. \A q \in Procs : Awarding(q)' => Awarding(q) /\ tx'[q] = tx[q]
    BY <2>2 DEF Awarding
  <2>. QED
    BY <2>3, <2>4, HeldKept DEF Capped
<1>11. ASSUME NEW p \in Sessions, SyncWrite(p)
      PROVE  Capped'
  <2>1. UNCHANGED receipt
    BY <1>11 DEF SyncWrite, rows
  <2>2. tx' = [tx EXCEPT ![p] = Idle]
    BY <1>11 DEF SyncWrite, Finish
  <2>3. \A s \in Receipts : receipt'[s].status \in ActiveStatus /\ FirstLife(s)' =>
          receipt[s].status \in ActiveStatus /\ FirstLife(s)
    BY <2>1 DEF FirstLife
  <2>4. \A q \in Procs : Awarding(q)' => Awarding(q) /\ tx'[q] = tx[q]
    BY <2>2 DEF Awarding, TypeOK, Procs, Idle
  <2>. QED
    BY <2>3, <2>4, HeldKept DEF Capped
<1>12. ASSUME NEW p \in Sessions, Abort(p)
      PROVE  Capped'
  <2>1. UNCHANGED receipt
    BY <1>12 DEF Abort, rows
  <2>2. tx' = [tx EXCEPT ![p] = Idle]
    BY <1>12 DEF Abort, Finish
  <2>3. \A s \in Receipts : receipt'[s].status \in ActiveStatus /\ FirstLife(s)' =>
          receipt[s].status \in ActiveStatus /\ FirstLife(s)
    BY <2>1 DEF FirstLife
  <2>4. \A q \in Procs : Awarding(q)' => Awarding(q) /\ tx'[q] = tx[q]
    BY <2>2 DEF Awarding, TypeOK, Procs, Idle
  <2>. QED
    BY <2>3, <2>4, HeldKept DEF Capped
<1>13. ASSUME NEW w \in Workers, DeliverRedeem(w)
      PROVE  Capped'
  <2>1. UNCHANGED receipt
    BY <1>13 DEF DeliverRedeem
  <2>2. tx[w] \in DeliverTx
    BY <1>13, OperationShapes DEF DeliverRedeem, Procs
  <2>3. \A s \in Receipts : receipt'[s].status \in ActiveStatus /\ FirstLife(s)' =>
          receipt[s].status \in ActiveStatus /\ FirstLife(s)
    BY <2>1 DEF FirstLife
  <2>4. \A q \in Procs : Awarding(q)' => Awarding(q) /\ tx'[q] = tx[q]
    BY <1>13, <2>2 DEF DeliverRedeem, Delivering, Awarding, TypeOK, Procs, DeliverTx
  <2>. QED
    BY <2>3, <2>4, HeldKept DEF Capped
<1>14. ASSUME NEW w \in Workers, DeliverMark(w)
      PROVE  Capped'
  <2>1. tx[w].task.receipt \in Receipts /\ receipt[tx[w].task.receipt].status # "ABSENT"
    BY <1>14, OperationShapes DEF DeliverMark, DeliverTx, Task, Procs, Rows
  <2>2. /\ \A s \in Receipts \ {tx[w].task.receipt} : receipt'[s] = receipt[s]
        /\ receipt'[tx[w].task.receipt].attempts = receipt[tx[w].task.receipt].attempts
        /\ receipt'[tx[w].task.receipt].revoked = receipt[tx[w].task.receipt].revoked
    BY <1>14, <2>1 DEF DeliverMark, TypeOK, ReceiptRow
  <2>3. FirstLife(tx[w].task.receipt) => receipt[tx[w].task.receipt].status \in ActiveStatus
    BY <2>1, FirstLivesAreActive
  <2>4. \A s \in Receipts : receipt'[s].status \in ActiveStatus /\ FirstLife(s)' =>
          receipt[s].status \in ActiveStatus /\ FirstLife(s)
    BY <2>1, <2>2, <2>3 DEF FirstLife
  <2>5. \A q \in Procs : Awarding(q)' => Awarding(q) /\ tx'[q] = tx[q]
    BY <1>14 DEF DeliverMark, Finish, Awarding, TypeOK, Procs, Idle
  <2>. QED
    BY <2>4, <2>5, HeldKept DEF Capped
<1>15. ASSUME NEW w \in Workers, DeliverFail(w)
      PROVE  Capped'
  <2>1. Failed(w, tx[w].task.receipt)
    BY <1>15, FailEffect
  <2>2. LET r == tx[w].task.receipt IN receipt'[r].attempts < MaxAttempts =>
          receipt'[r].status = receipt[r].status /\ receipt[r].attempts < MaxAttempts
    BY <2>1, ConstantsAssumption DEF Failed, Snapshots, DeliverTx, Exhausted, Procs
  <2>3. \A s \in Receipts : receipt'[s].status \in ActiveStatus /\ FirstLife(s)' =>
          receipt[s].status \in ActiveStatus /\ FirstLife(s)
    BY <2>1, <2>2 DEF Failed, FirstLife
  <2>4. \A q \in Procs : Awarding(q)' => Awarding(q) /\ tx'[q] = tx[q]
    BY <2>1 DEF Failed, Awarding, TypeOK, Procs, Idle
  <2>. QED
    BY <2>3, <2>4, HeldKept DEF Capped
<1>16. ASSUME NEW w \in Workers, WorkerDies(w)
      PROVE  Capped'
  <2>1. UNCHANGED receipt
    BY <1>16 DEF WorkerDies, rows
  <2>2. tx' = [tx EXCEPT ![w] = Idle]
    BY <1>16 DEF WorkerDies, Finish
  <2>3. \A s \in Receipts : receipt'[s].status \in ActiveStatus /\ FirstLife(s)' =>
          receipt[s].status \in ActiveStatus /\ FirstLife(s)
    BY <2>1 DEF FirstLife
  <2>4. \A q \in Procs : Awarding(q)' => Awarding(q) /\ tx'[q] = tx[q]
    BY <2>2 DEF Awarding, TypeOK, Procs, Idle
  <2>. QED
    BY <2>3, <2>4, HeldKept DEF Capped
<1>17. ASSUME NEW w \in Workers, NEW r \in Receipts, NEW task \in queue,
           task.receipt = r, DeliverLoad(w, task)
      PROVE  Capped'
  <2>1. UNCHANGED receipt
    BY <1>17 DEF DeliverLoad, rows
  <2>2. \E o : o.op # "award" /\ tx' = [tx EXCEPT ![w] = o]
    BY <1>17 DEF DeliverLoad, Start
  <2>3. \A s \in Receipts : receipt'[s].status \in ActiveStatus /\ FirstLife(s)' =>
          receipt[s].status \in ActiveStatus /\ FirstLife(s)
    BY <2>1 DEF FirstLife
  <2>4. \A q \in Procs : Awarding(q)' => Awarding(q) /\ tx'[q] = tx[q]
    BY <2>2 DEF Awarding, TypeOK, Procs
  <2>. QED
    BY <2>3, <2>4, HeldKept DEF Capped
<1>18. ASSUME UNCHANGED <<tx, receipt>>
      PROVE  Capped'
  BY <1>18 DEF Capped, CapHolds, Held, Active, FirstLife, Awarding
<1>. QED
  BY <1>1, <1>2, <1>3, <1>4, <1>5, <1>6, <1>7, <1>8, <1>9, <1>10, <1>11, <1>12, <1>13,
      <1>14, <1>15, <1>16, <1>17, <1>18
  DEF Next, Request, Complete, Take, Deliver, vars, rows, restock_item, adjust_stock,
      bulk_import_codes, DeliverNotFound, DeliverSkip, retry_delivery, void,
      expire_redemption_codes

-----------------------------------------------------------------------------
(* The inductive invariant *)

LEMMA InitInductive == Init => Inductive
<1>. SUFFICES ASSUME Init PROVE Inductive
  OBVIOUS
<1>1. TypeOK
  <2>1. item \in [Items -> ItemRow]
    BY ConstantsAssumption DEF Init, ItemRow
  <2>2. code \in [Codes -> CodeRow]
    BY DEF Init, CodeRow, CodeStatus
  <2>3. receipt \in [Receipts -> ReceiptRow]
    BY DEF Init, ReceiptRow, NewReceipt, InventoryStatus
  <2>. QED
    BY <2>1, <2>2, <2>3 DEF Init, TypeOK, Operation
<1>2. \A p \in Procs : tx[p] = Idle
  BY DEF Init
<1>3. \A r \in Receipts : receipt[r] = NewReceipt("ABSENT", NoCode)
  BY DEF Init
<1>4. Locks /\ AwardsOpen
  BY <1>2 DEF Locks, AwardsOpen, Awarding, Idle
<1>5. Rows
  <2>1. \A r \in Receipts : receipt[r].status = "ABSENT"
    BY <1>3 DEF NewReceipt
  <2>. QED
    BY <1>2, <1>3, <2>1 DEF Rows, Delivering, Idle
<1>6. OneChain
  BY <1>2 DEF Init, OneChain, OneTask, DeliveringOf, Delivering, Idle
<1>7. SweepFindsNothing /\ OutOfPool /\ Snapshots
  BY <1>2, <1>3 DEF SweepFindsNothing, OutOfPool, NewReceipt, Snapshots, Delivering, Idle
<1>8. Spent
  BY <1>2, <1>3 DEF Spent, DeliveredCodeIsSpent, Delivering, Idle, NewReceipt
<1>9. Capped
  <2>1. \A u \in Users, i \in Items : Held(u, i) = {}
    BY <1>3 DEF Held, Active, ActiveStatus, NewReceipt
  <2>2. Cardinality({}) = 0 /\ MaxPerUser >= 0
    BY FS_EmptySet, ConstantsAssumption
  <2>3. CapHolds
    BY <2>1, <2>2 DEF CapHolds
  <2>. QED
    BY <1>2, <2>3 DEF Capped, Awarding, Idle
<1>. QED
  BY <1>1, <1>4, <1>5, <1>6, <1>7, <1>8, <1>9 DEF Inductive

\* What every step keeps, and every execution of api/inventory has.
THEOREM InductiveInvariant == Spec => []Inductive
<1>1. Init => Inductive
  BY InitInductive
<1>2. Inductive /\ [Next]_vars => Inductive'
  <2>. SUFFICES ASSUME Inductive, [Next]_vars
                PROVE  Inductive'
    OBVIOUS
  <2>1. TypeOK' /\ Locks' /\ Rows'
    BY TypeStep, LocksStep, RowsStep DEF Inductive
  <2>2. AwardsOpen' /\ OutOfPool' /\ Spent'
    BY AwardsOpenStep, OutOfPoolStep, SpentStep DEF Inductive
  <2>3. OneChain' /\ Snapshots' /\ SweepFindsNothing'
    BY OneChainStep, SnapshotsStep, SweepStep DEF Inductive
  <2>4. Capped'
    BY CappedStep DEF Inductive
  <2>. QED
    BY <2>1, <2>2, <2>3, <2>4 DEF Inductive
<1>. QED
  BY <1>1, <1>2, PTL DEF Spec

-----------------------------------------------------------------------------
(* Invariants *)

\* The rows, the queue and the operations keep the types the models declare.
THEOREM TypeCorrect == Spec => []TypeOK
<1>1. Inductive => TypeOK
  BY DEF Inductive
<1>. QED
  BY <1>1, InductiveInvariant, PTL

\* No user holds more receipts of an item than award_item_to_user allows, among
\* those that never failed and never were revoked, for any number of requests.
THEOREM CapCorrect == Spec => []CapHolds
<1>1. Inductive => CapHolds
  BY DEF Inductive, Capped
<1>. QED
  BY <1>1, InductiveInvariant, PTL

\* A delivered or claimed receipt never goes by a code that can be given again.
THEOREM DeliveredCodesAreSpent == Spec => []DeliveredCodeIsSpent
<1>1. Inductive => DeliveredCodeIsSpent
  BY DEF Inductive, Spent
<1>. QED
  BY <1>1, InductiveInvariant, PTL

\* The hourly retry_failed_deliveries never has a receipt to retry.
THEOREM SweepNeverActs == Spec => []SweepFindsNothing
<1>1. Inductive => SweepFindsNothing
  BY DEF Inductive
<1>. QED
  BY <1>1, InductiveInvariant, PTL

-----------------------------------------------------------------------------
(* What a step may do to a stock *)

UnlimitedByEdit == \A i \in Items :
    (item[i].stock # UNLIMITED_STOCK /\ item'[i].stock = UNLIMITED_STOCK)
    => \E p \in Sessions : tx[p].op = "edit" /\ tx'[p] = Idle

Accounted == \A i \in Items :
    \/ item[i].stock = UNLIMITED_STOCK
    \/ \E p \in Sessions : /\ tx[p].op \in {"edit", "counted"} /\ tx'[p] = Idle
                           /\ recorded' = recorded
    \/ item'[i].stock - item[i].stock = recorded'[i] - recorded[i]

\* No sale, return or correction of a finite stock makes it the sentinel.
LEMMA UnlimitedStep ==
    ASSUME TypeOK, AwardsOpen, [Next]_vars
    PROVE  UnlimitedByEdit
<1>1. ASSUME NEW p \in Sessions, NEW i \in Items, NEW n \in Deltas,
           restock_item(p, i, n)
      PROVE  UnlimitedByEdit
  BY <1>1, ConstantsAssumption
  DEF restock_item, MoveStock, Record, WithinBounds, is_unlimited, UnlimitedByEdit,
      TypeOK, ItemRow, UNLIMITED_STOCK, Procs
<1>2. ASSUME NEW p \in Sessions, NEW i \in Items, NEW n \in Deltas,
           adjust_stock(p, i, n)
      PROVE  UnlimitedByEdit
  BY <1>2, ConstantsAssumption
  DEF adjust_stock, Record, WithinBounds, is_unlimited, UnlimitedByEdit, TypeOK,
      ItemRow, UNLIMITED_STOCK, Procs
<1>3. ASSUME NEW p \in Sessions, NEW i \in Items, NEW T \in SUBSET Codes,
           bulk_import_codes(p, i, T)
      PROVE  UnlimitedByEdit
  BY <1>3, CodesAreFinite
  DEF bulk_import_codes, MoveStock, Record, WithinBounds, is_unlimited, UnlimitedByEdit,
      TypeOK, ItemRow, UNLIMITED_STOCK, Procs
<1>4. ASSUME NEW p \in Sessions, AwardCommit(p)
      PROVE  UnlimitedByEdit
  <2>1. Awarded(p, tx[p].receipt)
    BY <1>4, AwardEffect
  <2>2. ItemOf[tx[p].receipt] \in Items
    BY <2>1, ConstantsAssumption DEF Awarded, AwardTx, CheckedTx
  <2>3. MoveStock(ItemOf[tx[p].receipt], -1)
    BY <1>4 DEF AwardCommit
  <2>4. /\ \A j \in Items \ {ItemOf[tx[p].receipt]} : item'[j] = item[j]
        /\ item'[ItemOf[tx[p].receipt]].stock =
              IF item[ItemOf[tx[p].receipt]].stock = UNLIMITED_STOCK
              THEN UNLIMITED_STOCK ELSE item[ItemOf[tx[p].receipt]].stock + (-1)
    BY <2>2, <2>3, MoveStockEffect DEF TypeOK
  <2>5. /\ item[ItemOf[tx[p].receipt]].stock \in Nat \cup {UNLIMITED_STOCK}
        /\ InStock(ItemOf[tx[p].receipt])
    BY <2>1, <2>2 DEF TypeOK, ItemRow, AwardsOpen, Awarded, Procs
  <2>. QED
    BY <2>2, <2>4, <2>5 DEF UnlimitedByEdit, UNLIMITED_STOCK, InStock, is_unlimited
<1>5. ASSUME NEW p \in Sessions, RevokeCommit(p)
      PROVE  UnlimitedByEdit
  <2>1. Revoked(p, tx[p].receipt)
    BY <1>5, RevokeEffect
  <2>2. ItemOf[tx[p].receipt] \in Items
    BY <2>1, ConstantsAssumption DEF Revoked, AwardTx, CheckedTx
  <2>3. MoveStock(ItemOf[tx[p].receipt], 1)
    BY <1>5 DEF RevokeCommit
  <2>4. /\ \A j \in Items \ {ItemOf[tx[p].receipt]} : item'[j] = item[j]
        /\ item'[ItemOf[tx[p].receipt]].stock =
              IF item[ItemOf[tx[p].receipt]].stock = UNLIMITED_STOCK
              THEN UNLIMITED_STOCK ELSE item[ItemOf[tx[p].receipt]].stock + (1)
    BY <2>2, <2>3, MoveStockEffect DEF TypeOK
  <2>5. item[ItemOf[tx[p].receipt]].stock \in Nat \cup {UNLIMITED_STOCK}
    BY <2>1, <2>2 DEF TypeOK, ItemRow, AwardsOpen, Awarded, Procs
  <2>. QED
    BY <2>2, <2>4, <2>5 DEF UnlimitedByEdit, UNLIMITED_STOCK, InStock, is_unlimited
<1>6. ASSUME NEW p \in Sessions, tx[p].op = "edit", Edit(p)
      PROVE  UnlimitedByEdit
  <2>1. tx'[p] = Idle
    BY <1>6 DEF Edit, EditSave, Finish, TypeOK, Procs
  <2>. QED
    BY <1>6, <2>1 DEF UnlimitedByEdit
<1>7. ASSUME NEW p \in Sessions, SyncWrite(p)
      PROVE  UnlimitedByEdit
  BY <1>7, OperationShapes
  DEF SyncWrite, Finish, UnlimitedByEdit, TypeOK, ItemRow, UNLIMITED_STOCK, Procs,
      CountedTx
<1>8. ASSUME UNCHANGED item
      PROVE  UnlimitedByEdit
  BY <1>8 DEF UnlimitedByEdit, TypeOK, ItemRow, UNLIMITED_STOCK, Procs
<1>10. CASE \E p \in Sessions : Request(p)
  BY <1>10, <1>1, <1>2, <1>3, <1>8
  DEF Request, rows, EditLoad, SyncRead, AwardBegin, RevokeRead, ClaimRead
<1>11. CASE \E p \in Sessions : Complete(p) \/ Abort(p)
  BY <1>11, <1>4, <1>5, <1>6, <1>7, <1>8 DEF Complete, rows, ClaimWrite, SyncCount, Abort
<1>12. CASE \E w \in Workers : Deliver(w) \/ WorkerDies(w)
  BY <1>12, <1>8 DEF Deliver, rows, DeliverRedeem, DeliverMark, DeliverFail, WorkerDies
<1>13. CASE \E r \in Receipts : retry_delivery(r) \/ \E w \in Workers : Take(w, r)
  BY <1>13, <1>8 DEF Take, rows, retry_delivery, DeliverNotFound, DeliverSkip, DeliverLoad
<1>14. CASE (\E c \in Codes : void(c)) \/ \E T \in SUBSET Codes : expire_redemption_codes(T)
  BY <1>14, <1>8 DEF rows, void, expire_redemption_codes
<1>15. CASE UNCHANGED vars
  BY <1>15, <1>8 DEF vars, rows
<1>. QED
  BY <1>10, <1>11, <1>12, <1>13, <1>14, <1>15 DEF Next

\* The trail records what a step does to a finite stock.
LEMMA AccountedStep ==
    ASSUME TypeOK, [Next]_vars
    PROVE  Accounted
<1>1. ASSUME NEW p \in Sessions, NEW i \in Items, NEW n \in Deltas,
           restock_item(p, i, n)
      PROVE  Accounted
  BY <1>1, ConstantsAssumption
  DEF restock_item, MoveStock, Record, WithinBounds, is_unlimited, Accounted, TypeOK,
      ItemRow, UNLIMITED_STOCK, Procs
<1>2. ASSUME NEW p \in Sessions, NEW i \in Items, NEW n \in Deltas,
           adjust_stock(p, i, n)
      PROVE  Accounted
  BY <1>2, ConstantsAssumption
  DEF adjust_stock, Record, WithinBounds, is_unlimited, Accounted, TypeOK, ItemRow,
      UNLIMITED_STOCK, Procs
<1>3. ASSUME NEW p \in Sessions, NEW i \in Items, NEW T \in SUBSET Codes,
           bulk_import_codes(p, i, T)
      PROVE  Accounted
  BY <1>3, CodesAreFinite
  DEF bulk_import_codes, MoveStock, Record, WithinBounds, is_unlimited, Accounted,
      TypeOK, ItemRow, UNLIMITED_STOCK, Procs
<1>4. ASSUME NEW p \in Sessions, AwardCommit(p)
      PROVE  Accounted
  <2>1. Awarded(p, tx[p].receipt)
    BY <1>4, AwardEffect
  <2>2. ItemOf[tx[p].receipt] \in Items
    BY <2>1, ConstantsAssumption DEF Awarded, AwardTx, CheckedTx
  <2>3. MoveStock(ItemOf[tx[p].receipt], -1)
    BY <1>4 DEF AwardCommit
  <2>4. /\ \A j \in Items \ {ItemOf[tx[p].receipt]} : item'[j] = item[j]
        /\ item'[ItemOf[tx[p].receipt]].stock =
              IF item[ItemOf[tx[p].receipt]].stock = UNLIMITED_STOCK
              THEN UNLIMITED_STOCK ELSE item[ItemOf[tx[p].receipt]].stock + (-1)
    BY <2>2, <2>3, MoveStockEffect DEF TypeOK
  <2>5. /\ item[ItemOf[tx[p].receipt]].stock \in Int
        /\ \A j \in Items : recorded[j] \in Int /\ item[j].stock - item[j].stock = 0
    BY <2>2 DEF TypeOK, ItemRow, UNLIMITED_STOCK
  <2>6. /\ \A j \in Items \ {ItemOf[tx[p].receipt]} : recorded'[j] = recorded[j]
        /\ item[ItemOf[tx[p].receipt]].stock # UNLIMITED_STOCK =>
              recorded'[ItemOf[tx[p].receipt]] = recorded[ItemOf[tx[p].receipt]] + (-1)
    BY <1>4, <2>2 DEF AwardCommit, Record, TypeOK, is_unlimited
  <2>. QED
    BY <2>2, <2>4, <2>5, <2>6 DEF Accounted
<1>5. ASSUME NEW p \in Sessions, RevokeCommit(p)
      PROVE  Accounted
  <2>1. Revoked(p, tx[p].receipt)
    BY <1>5, RevokeEffect
  <2>2. ItemOf[tx[p].receipt] \in Items
    BY <2>1, ConstantsAssumption DEF Revoked, AwardTx, CheckedTx
  <2>3. MoveStock(ItemOf[tx[p].receipt], 1)
    BY <1>5 DEF RevokeCommit
  <2>4. /\ \A j \in Items \ {ItemOf[tx[p].receipt]} : item'[j] = item[j]
        /\ item'[ItemOf[tx[p].receipt]].stock =
              IF item[ItemOf[tx[p].receipt]].stock = UNLIMITED_STOCK
              THEN UNLIMITED_STOCK ELSE item[ItemOf[tx[p].receipt]].stock + (1)
    BY <2>2, <2>3, MoveStockEffect DEF TypeOK
  <2>5. /\ item[ItemOf[tx[p].receipt]].stock \in Int
        /\ \A j \in Items : recorded[j] \in Int /\ item[j].stock - item[j].stock = 0
    BY <2>2 DEF TypeOK, ItemRow, UNLIMITED_STOCK
  <2>6. /\ \A j \in Items \ {ItemOf[tx[p].receipt]} : recorded'[j] = recorded[j]
        /\ item[ItemOf[tx[p].receipt]].stock # UNLIMITED_STOCK =>
              recorded'[ItemOf[tx[p].receipt]] = recorded[ItemOf[tx[p].receipt]] + (1)
    BY <1>5, <2>2 DEF RevokeCommit, Record, TypeOK, is_unlimited
  <2>. QED
    BY <2>2, <2>4, <2>5, <2>6 DEF Accounted
<1>6. ASSUME NEW p \in Sessions, tx[p].op = "edit", Edit(p)
      PROVE  Accounted
  <2>1. tx'[p] = Idle /\ recorded' = recorded
    BY <1>6 DEF Edit, EditSave, Finish, TypeOK, Procs
  <2>. QED
    BY <1>6, <2>1 DEF Accounted
<1>7. ASSUME NEW p \in Sessions, SyncWrite(p)
      PROVE  Accounted
  <2>1. tx'[p] = Idle /\ tx[p].op = "counted" /\ recorded' = recorded
    BY <1>7 DEF SyncWrite, Finish, TypeOK, Procs
  <2>. QED
    BY <2>1 DEF Accounted
<1>8. ASSUME UNCHANGED <<item, recorded>>
      PROVE  Accounted
  BY <1>8 DEF Accounted, TypeOK, ItemRow, UNLIMITED_STOCK, Procs
<1>10. CASE \E p \in Sessions : Request(p)
  BY <1>10, <1>1, <1>2, <1>3, <1>8
  DEF Request, rows, EditLoad, SyncRead, AwardBegin, RevokeRead, ClaimRead
<1>11. CASE \E p \in Sessions : Complete(p) \/ Abort(p)
  BY <1>11, <1>4, <1>5, <1>6, <1>7, <1>8 DEF Complete, rows, ClaimWrite, SyncCount, Abort
<1>12. CASE \E w \in Workers : Deliver(w) \/ WorkerDies(w)
  BY <1>12, <1>8 DEF Deliver, rows, DeliverRedeem, DeliverMark, DeliverFail, WorkerDies
<1>13. CASE \E r \in Receipts : retry_delivery(r) \/ \E w \in Workers : Take(w, r)
  BY <1>13, <1>8 DEF Take, rows, retry_delivery, DeliverNotFound, DeliverSkip, DeliverLoad
<1>14. CASE (\E c \in Codes : void(c)) \/ \E T \in SUBSET Codes : expire_redemption_codes(T)
  BY <1>14, <1>8 DEF rows, void, expire_redemption_codes
<1>15. CASE UNCHANGED vars
  BY <1>15, <1>8 DEF vars, rows
<1>. QED
  BY <1>10, <1>11, <1>12, <1>13, <1>14, <1>15 DEF Next

\* A limited item becomes unlimited by an edit of its row only.
THEOREM UnlimitedByEditOnly == Spec => BecomesUnlimitedByEditOnly
<1>1. Inductive /\ [Next]_vars => UnlimitedByEdit
  BY UnlimitedStep DEF Inductive
<1>2. Inductive /\ [Next]_vars => [UnlimitedByEdit]_vars
  BY <1>1
<1>. QED
  BY <1>2, InductiveInvariant, PTL DEF Spec, BecomesUnlimitedByEditOnly, UnlimitedByEdit

\* The trail of stock events accounts for every change of a finite stock, edits
\* and corrections apart.
THEOREM TrailIsComplete == Spec => TrailAccountsForStock
<1> DEFINE OnTrail == \A i \in Items :
              \/ item[i].stock = UNLIMITED_STOCK
              \/ \E p \in Sessions : tx[p].op \in {"edit", "counted"} /\ tx'[p] = Idle
              \/ item'[i].stock - item[i].stock = recorded'[i] - recorded[i]
<1>1. Inductive /\ [Next]_vars => OnTrail
  BY AccountedStep DEF Inductive, Accounted
<1>2. Inductive /\ [Next]_vars => [OnTrail]_vars
  BY <1>1
<1>. QED
  BY <1>2, InductiveInvariant, PTL DEF Spec, TrailAccountsForStock

-----------------------------------------------------------------------------
(* Under which conditions no more is sold than supplied, and what was revoked *)
(* is not delivered                                                           *)

\* No edit of an item's row and no correction ends with a changed stock.
StockUntouched ==
    \A p \in Sessions : tx[p].op \in {"edit", "counted"} /\ tx'[p] = Idle =>
        \A i \in Items : item'[i].stock = item[i].stock

\* A finite stock is what it was at the start, plus all that was recorded.
StockOnTrail ==
    \A i \in Items : InitialStock[i] # UNLIMITED_STOCK =>
        /\ item[i].stock # UNLIMITED_STOCK
        /\ item[i].stock = InitialStock[i] + recorded[i]

LEMMA StockStep ==
    ASSUME Inductive, Inductive', StockOnTrail, [Next]_vars, [StockUntouched]_vars
    PROVE  StockOnTrail'
<1>0. TypeOK /\ TypeOK' /\ AwardsOpen
  BY DEF Inductive
<1>1. CASE UNCHANGED vars
  BY <1>1 DEF vars, StockOnTrail
<1>2. CASE StockUntouched
  <2> SUFFICES ASSUME NEW i \in Items, InitialStock[i] # UNLIMITED_STOCK
               PROVE  /\ item'[i].stock # UNLIMITED_STOCK
                      /\ item'[i].stock = InitialStock[i] + recorded'[i]
    BY DEF StockOnTrail
  <2>1. /\ item[i].stock \in Int /\ item'[i].stock \in Int
        /\ recorded[i] \in Int /\ recorded'[i] \in Int /\ InitialStock[i] \in Int
    BY <1>0, ConstantsAssumption DEF TypeOK, ItemRow, UNLIMITED_STOCK
  <2>2. item[i].stock # UNLIMITED_STOCK /\ item[i].stock = InitialStock[i] + recorded[i]
    BY DEF StockOnTrail
  <2>3. item'[i].stock # UNLIMITED_STOCK
    BY <1>0, <1>2, <2>2, UnlimitedStep DEF UnlimitedByEdit, StockUntouched
  <2>4. \/ item'[i].stock = item[i].stock /\ recorded' = recorded
        \/ item'[i].stock - item[i].stock = recorded'[i] - recorded[i]
    BY <1>0, <1>2, <2>2, AccountedStep DEF Accounted, StockUntouched
  <2>5. item'[i].stock = InitialStock[i] + recorded'[i]
    <3>1. CASE item'[i].stock = item[i].stock /\ recorded' = recorded
      BY <2>2, <3>1
    <3>2. CASE item'[i].stock - item[i].stock = recorded'[i] - recorded[i]
      <4> DEFINE a == item[i].stock  b == item'[i].stock  x == recorded[i]  y == recorded'[i]
                 k == InitialStock[i]
      <4>1. a \in Int /\ b \in Int /\ x \in Int /\ y \in Int /\ k \in Int
        BY <2>1
      <4>2. a = k + x /\ b - a = y - x
        BY <2>2, <3>2
      <4> HIDE DEF a, b, x, y, k
      <4>3. b = k + y
        BY <4>1, <4>2
      <4> QED
        BY <4>3 DEF b, k, y
    <3> QED
      BY <2>4, <3>1, <3>2
  <2> QED
    BY <2>3, <2>5
<1> QED
  BY <1>1, <1>2

\* More is sold than was ever supplied (against services.py's "prevent oversell")
\* only through a row that was edited, or a count that was corrected, while
\* awards were sold: the lock of the award alone prevents it otherwise, for any
\* number of concurrent awards, adjustments, imports and revocations.
THEOREM OversellByEditOnly == Spec /\ [][StockUntouched]_vars => []NoOversell
<1>1. Init => StockOnTrail
  <2> SUFFICES ASSUME Init, NEW i \in Items, InitialStock[i] # UNLIMITED_STOCK
               PROVE  /\ item[i].stock # UNLIMITED_STOCK
                      /\ item[i].stock = InitialStock[i] + recorded[i]
    BY DEF StockOnTrail
  <2>1. InitialStock[i] \in Int
    BY ConstantsAssumption DEF UNLIMITED_STOCK
  <2>2. item[i].stock = InitialStock[i] /\ recorded[i] = 0
    BY DEF Init
  <2> QED
    BY <2>1, <2>2
<1>2. Inductive /\ Inductive' /\ StockOnTrail /\ [Next]_vars /\ [StockUntouched]_vars => StockOnTrail'
  BY StockStep
<1>3. Inductive /\ StockOnTrail => NoOversell
  BY DEF Inductive, TypeOK, ItemRow, StockOnTrail, NoOversell, UNLIMITED_STOCK
<1>. QED
  BY <1>1, <1>2, <1>3, InductiveInvariant, PTL DEF Spec

\* Receipt r is about to be handed to its user: its delivery is queued or under
\* way, or a claim has seen it delivered.
OutForDelivery(r) ==
    \/ \E t \in queue : t.receipt = r
    \/ \E p \in Procs : DeliveringOf(p, r)
    \/ \E p \in Procs : tx[p].op = "claim" /\ tx[p].receipt = r

\* No receipt is revoked while it is about to be handed over.
RevokedAtRest == \A p \in Sessions : RevokeCommit(p) => ~OutForDelivery(tx[p].receipt)

AtRest(r) == receipt[r].revoked /\ receipt[r].status = "REVOKED" /\ ~OutForDelivery(r)

RevokedStays == \A r \in Receipts : receipt[r].revoked => AtRest(r)

\* Nothing that is queued or begun for other receipts disturbs r.
LEMMA RestKept ==
    ASSUME NEW r \in Receipts, AtRest(r),
           receipt'[r].revoked /\ receipt'[r].status = "REVOKED",
           \A t \in queue' : t \in queue \/ t.receipt # r,
           \A q \in Procs : \/ tx'[q] = tx[q] \/ tx'[q].op \notin {"deliver", "claim"}
                            \/ tx'[q].op = "deliver" /\ tx'[q].task.receipt # r
                            \/ tx'[q].op = "claim" /\ tx'[q].receipt # r
    PROVE  AtRest(r)'
BY DEF AtRest, OutForDelivery, DeliveringOf, Delivering

\* A receipt that was revoked at rest stays so.
LEMMA RestStep ==
    ASSUME Inductive, NEW r \in Receipts, AtRest(r), [Next]_vars
    PROVE  AtRest(r)'
<1>0. /\ TypeOK /\ AwardsOpen /\ receipt \in [Receipts -> ReceiptRow]
      /\ tx \in [Procs -> Operation] /\ Idle.op = "idle"
  BY DEF Inductive, TypeOK, Idle
<1>1. /\ receipt[r].revoked /\ receipt[r].status = "REVOKED"
      /\ \A t \in queue : t.receipt # r
      /\ \A q \in Procs : /\ Delivering(q) => tx[q].task.receipt # r
                          /\ tx[q].op = "claim" => tx[q].receipt # r
  BY DEF AtRest, OutForDelivery, DeliveringOf
<1>2. ASSUME NEW p \in Procs, receipt'[r] = receipt[r], queue' = queue,
             \A q \in Procs \ {p} : tx'[q] = tx[q],
             tx'[p] = tx[p] \/ tx'[p].op \notin {"deliver", "claim"}
      PROVE  AtRest(r)'
  BY <1>1, <1>2, RestKept
<1>3. ASSUME UNCHANGED <<receipt, queue, tx>>
      PROVE  AtRest(r)'
  BY <1>1, <1>3, RestKept
<1>4. ASSUME NEW p \in Sessions, NEW i \in Items, EditLoad(p, i) \/ SyncRead(p, i)
      PROVE  AtRest(r)'
  <2>1. /\ UNCHANGED <<receipt, queue>> /\ tx'[p].op \in {"edit", "sync"}
        /\ \A q \in Procs \ {p} : tx'[q] = tx[q]
    BY <1>0, <1>4 DEF EditLoad, SyncRead, Start, rows, Procs
  <2> QED
    BY <1>2, <2>1 DEF Procs
<1>5. ASSUME NEW p \in Sessions, NEW s \in Receipts, NEW c \in Codes \cup {NoCode},
             AwardBegin(p, s, c)
      PROVE  AtRest(r)'
  <2>1. /\ receipt' = receipt /\ s # r
        /\ queue' = queue \cup {[receipt |-> s, origin |-> "award", tries |-> 0]}
        /\ tx'[p].op = "award" /\ \A q \in Procs \ {p} : tx'[q] = tx[q]
    BY <1>0, <1>1, <1>5 DEF AwardBegin, Start, rows, Procs
  <2> QED
    BY <1>1, <2>1, RestKept
<1>6. ASSUME NEW p \in Sessions, NEW s \in Receipts, RevokeRead(p, s)
      PROVE  AtRest(r)'
  <2>1. /\ UNCHANGED <<receipt, queue>> /\ tx'[p].op = "revoke"
        /\ \A q \in Procs \ {p} : tx'[q] = tx[q]
    BY <1>0, <1>6 DEF RevokeRead, Start, rows, Procs
  <2> QED
    BY <1>2, <2>1 DEF Procs
<1>7. ASSUME NEW p \in Sessions, NEW s \in Receipts, ClaimRead(p, s)
      PROVE  AtRest(r)'
  <2>1. /\ UNCHANGED <<receipt, queue>> /\ s # r
        /\ tx'[p].op = "claim" /\ tx'[p].receipt = s
        /\ \A q \in Procs \ {p} : tx'[q] = tx[q]
    BY <1>0, <1>1, <1>7 DEF ClaimRead, Start, rows, Procs
  <2> QED
    BY <1>1, <2>1, RestKept
<1>8. ASSUME NEW p \in Sessions, AwardCommit(p)
      PROVE  AtRest(r)'
  <2>1. Awarded(p, tx[p].receipt) /\ queue' = queue
    BY <1>0, <1>8, AwardEffect DEF AwardCommit
  <2>2. receipt[tx[p].receipt].status = "ABSENT" /\ p \in Procs
    BY <1>0, <2>1 DEF Awarded, AwardsOpen, Procs
  <2>3. receipt'[r] = receipt[r] /\ tx'[p] = Idle /\ \A q \in Procs \ {p} : tx'[q] = tx[q]
    BY <1>0, <1>1, <2>1, <2>2 DEF Awarded
  <2> QED
    BY <1>0, <1>2, <2>1, <2>2, <2>3
<1>9. ASSUME NEW p \in Sessions, RevokeCommit(p)
      PROVE  AtRest(r)'
  <2>1. Revoked(p, tx[p].receipt) /\ queue' = queue
    BY <1>0, <1>9, RevokeEffect DEF RevokeCommit
  <2>2. receipt'[r].revoked /\ receipt'[r].status = "REVOKED"
    BY <1>1, <2>1 DEF Revoked
  <2>3. \A q \in Procs : tx'[q] = tx[q] \/ tx'[q] = Idle
    BY <1>0, <2>1 DEF Revoked
  <2> QED
    BY <1>0, <2>1, <2>2, <2>3, RestKept
<1>10. ASSUME NEW p \in Sessions, ClaimWrite(p)
       PROVE  AtRest(r)'
  <2>1. p \in Procs /\ tx[p].receipt # r /\ queue' = queue
    BY <1>1, <1>10 DEF ClaimWrite, Procs
  <2>2. receipt'[r] = receipt[r] /\ tx'[p] = Idle /\ \A q \in Procs \ {p} : tx'[q] = tx[q]
    BY <1>0, <1>10, <2>1 DEF ClaimWrite, Finish
  <2> QED
    BY <1>0, <1>2, <2>1, <2>2
<1>11. ASSUME NEW p \in Sessions,
              (tx[p].op = "edit" /\ Edit(p)) \/ SyncCount(p) \/ SyncWrite(p) \/ Abort(p)
       PROVE  AtRest(r)'
  <2>1. UNCHANGED <<receipt, queue>> /\ p \in Procs
    BY <1>11 DEF Edit, EditSave, SyncCount, SyncWrite, Abort, rows, Procs
  <2>2. \/ tx' = [tx EXCEPT ![p] = Idle]
        \/ \E operation : /\ tx' = [tx EXCEPT ![p] = operation]
                          /\ operation = Idle \/ operation.op = "counted"
    <3>1. CASE tx[p].op = "edit" /\ Edit(p)
      BY <3>1 DEF Edit, EditSave, Finish
    <3>2. CASE SyncCount(p)
      <4> DEFINE count == Cardinality(AvailableCodes(tx[p].item))
                 operation == IF count = tx[p].stock THEN Idle
                              ELSE [op |-> "counted", item |-> tx[p].item, count |-> count]
      <4>1. tx' = [tx EXCEPT ![p] = operation]
        BY <3>2 DEF SyncCount
      <4>2. operation = Idle \/ operation.op = "counted"
        OBVIOUS
      <4> QED
        BY <4>1, <4>2
    <3>3. CASE SyncWrite(p) \/ Abort(p)
      BY <3>3 DEF SyncWrite, Abort, Finish
    <3> QED
      BY <1>11, <3>1, <3>2, <3>3
  <2>3. /\ \A q \in Procs \ {p} : tx'[q] = tx[q]
        /\ tx'[p] = Idle \/ tx'[p].op = "counted"
    BY <1>0, <2>1, <2>2
  <2> QED
    BY <1>0, <1>2, <2>1, <2>3
<1>12. ASSUME NEW w \in Workers, Deliver(w)
       PROVE  AtRest(r)'
  <2>1. w \in Procs /\ Delivering(w) /\ tx[w] \in DeliverTx
    BY <1>0, <1>12, OperationShapes DEF Deliver, DeliverRedeem, DeliverMark, DeliverFail, Procs
  <2>2. tx[w].task.receipt # r /\ tx[w].task \in Task
    BY <1>1, <2>1 DEF DeliverTx
  <2>3. CASE DeliverRedeem(w)
    <3>1. /\ UNCHANGED <<receipt, queue>> /\ tx'[w].op = "deliver" /\ tx'[w].task = tx[w].task
          /\ \A q \in Procs \ {w} : tx'[q] = tx[q]
      BY <1>0, <2>1, <2>3 DEF DeliverRedeem, DeliverTx
    <3> QED
      BY <1>1, <2>2, <3>1, RestKept
  <2>4. CASE DeliverMark(w)
    <3>1. /\ receipt'[r] = receipt[r] /\ queue' = queue /\ tx'[w] = Idle
          /\ \A q \in Procs \ {w} : tx'[q] = tx[q]
      BY <1>0, <2>1, <2>2, <2>4 DEF DeliverMark, Finish
    <3> QED
      BY <1>0, <1>2, <2>1, <3>1
  <2>5. CASE DeliverFail(w)
    <3>1. Failed(w, tx[w].task.receipt) /\ queue' = queue \cup Retried(tx[w].task)
      BY <1>0, <2>5, FailEffect DEF DeliverFail
    <3>2. receipt'[r] = receipt[r] /\ \A q \in Procs : tx'[q] = tx[q] \/ tx'[q] = Idle
      BY <1>0, <2>2, <3>1 DEF Failed
    <3>3. \A t \in queue' : t \in queue \/ t.receipt # r
      BY <2>2, <3>1, RetriedTasks
    <3> QED
      BY <1>0, <1>1, <3>2, <3>3, RestKept
  <2> QED
    BY <1>12, <2>3, <2>4, <2>5 DEF Deliver
<1>13. ASSUME NEW w \in Workers, WorkerDies(w)
       PROVE  AtRest(r)'
  <2>1. /\ w \in Procs /\ Delivering(w) /\ receipt' = receipt
        /\ tx' = [tx EXCEPT ![w] = Idle]
        /\ queue' = queue \/ queue' = queue \cup {tx[w].task}
    BY <1>13 DEF WorkerDies, Finish, rows, Procs
  <2>2. \A q \in Procs : tx'[q] = tx[q] \/ tx'[q] = Idle
    BY <1>0, <2>1
  <2> QED
    BY <1>0, <1>1, <2>1, <2>2, RestKept
<1>14. ASSUME NEW w \in Workers, NEW task \in queue,
              DeliverNotFound(w, task) \/ DeliverSkip(w, task) \/ DeliverLoad(w, task)
       PROVE  AtRest(r)'
  <2>1. task \in Task /\ task.receipt # r /\ receipt' = receipt /\ w \in Procs
    BY <1>0, <1>1, <1>14 DEF DeliverNotFound, DeliverSkip, DeliverLoad, rows, TypeOK, Procs
  <2>2. \A t \in queue' : t \in queue \/ t.receipt # r
    BY <1>14, <2>1, RetriedTasks DEF DeliverNotFound, DeliverSkip, DeliverLoad
  <2>3. \A q \in Procs : tx'[q] = tx[q] \/ (tx'[q].op = "deliver" /\ tx'[q].task = task)
    BY <1>0, <1>14 DEF DeliverNotFound, DeliverSkip, DeliverLoad, Start
  <2> QED
    BY <1>1, <2>1, <2>2, <2>3, RestKept
<1>15. ASSUME NEW s \in Receipts, retry_delivery(s)
       PROVE  AtRest(r)'
  <2>1. /\ UNCHANGED <<receipt, tx>> /\ s # r
        /\ queue' = queue \cup {[receipt |-> s, origin |-> "admin", tries |-> 0]}
    BY <1>1, <1>15 DEF retry_delivery, rows
  <2> QED
    BY <1>1, <2>1, RestKept
<1>16. CASE \E p \in Sessions : Request(p)
  BY <1>3, <1>4, <1>5, <1>6, <1>7, <1>16
  DEF Request, restock_item, adjust_stock, bulk_import_codes
<1>17. CASE \E p \in Sessions : Complete(p) \/ Abort(p)
  BY <1>8, <1>9, <1>10, <1>11, <1>17 DEF Complete
<1>18. CASE \E s \in Receipts : retry_delivery(s) \/ \E w \in Workers : Take(w, s)
  BY <1>14, <1>15, <1>18 DEF Take
<1>19. CASE (\E c \in Codes : void(c)) \/ \E T \in SUBSET Codes : expire_redemption_codes(T)
  BY <1>3, <1>19 DEF void, expire_redemption_codes
<1>20. CASE UNCHANGED vars
  BY <1>3, <1>20 DEF vars, rows
<1> QED
  BY <1>12, <1>13, <1>16, <1>17, <1>18, <1>19, <1>20 DEF Next

\* Only a revocation that commits makes a receipt a revoked one.
LEMMA WhoRevokes ==
    ASSUME Inductive, [Next]_vars, NEW r \in Receipts, ~receipt[r].revoked, receipt'[r].revoked
    PROVE  \E p \in Sessions : RevokeCommit(p) /\ tx[p].receipt = r
<1>0. TypeOK /\ receipt \in [Receipts -> ReceiptRow]
  BY DEF Inductive, TypeOK
<1> SUFFICES ASSUME \A p \in Sessions : RevokeCommit(p) => tx[p].receipt # r
             PROVE  FALSE
  OBVIOUS
<1>1. receipt' # receipt
  OBVIOUS
<1>2. ASSUME NEW p \in Sessions, AwardCommit(p)
      PROVE  FALSE
  <2>1. Awarded(p, tx[p].receipt)
    BY <1>0, <1>2, AwardEffect
  <2> QED
    BY <2>1 DEF Awarded, NewReceipt
<1>3. ASSUME NEW p \in Sessions, RevokeCommit(p)
      PROVE  FALSE
  <2>1. Revoked(p, tx[p].receipt) /\ tx[p].receipt # r
    BY <1>0, <1>3, RevokeEffect
  <2> QED
    BY <2>1 DEF Revoked
<1>4. ASSUME NEW p \in Sessions, ClaimWrite(p)
      PROVE  FALSE
  BY <1>0, <1>4 DEF ClaimWrite, ReceiptRow
<1>5. ASSUME NEW w \in Workers, DeliverMark(w)
      PROVE  FALSE
  BY <1>0, <1>5 DEF DeliverMark, ReceiptRow
<1>6. ASSUME NEW w \in Workers, DeliverFail(w)
      PROVE  FALSE
  <2>1. Failed(w, tx[w].task.receipt)
    BY <1>0, <1>6, FailEffect
  <2> QED
    BY <2>1 DEF Failed
<1>7. CASE \E p \in Sessions : Request(p)
  BY <1>1, <1>7, RequestsKeepReceipts
<1>8. CASE \E p \in Sessions : Complete(p) \/ Abort(p)
  BY <1>8, <1>1, <1>2, <1>3, <1>4
  DEF Complete, rows, Edit, EditSave, SyncCount, SyncWrite, Abort
<1>9. CASE \E w \in Workers : Deliver(w) \/ WorkerDies(w)
  BY <1>9, <1>1, <1>5, <1>6 DEF Deliver, rows, DeliverRedeem, WorkerDies
<1>10. CASE \E s \in Receipts : retry_delivery(s) \/ \E w \in Workers : Take(w, s)
  BY <1>10, <1>1 DEF Take, rows, retry_delivery, DeliverNotFound, DeliverSkip, DeliverLoad
<1>11. CASE (\E c \in Codes : void(c)) \/ \E T \in SUBSET Codes : expire_redemption_codes(T)
  BY <1>11, <1>1 DEF rows, void, expire_redemption_codes
<1>12. CASE UNCHANGED vars
  BY <1>12, <1>1 DEF vars, rows
<1> QED
  BY <1>7, <1>8, <1>9, <1>10, <1>11, <1>12 DEF Next

\* So all revoked receipts are at rest, if each is revoked at rest.
LEMMA RevokedStep ==
    ASSUME Inductive, RevokedStays, [Next]_vars, [RevokedAtRest]_vars
    PROVE  RevokedStays'
<1> SUFFICES ASSUME NEW r \in Receipts, receipt'[r].revoked
             PROVE  AtRest(r)'
  BY DEF RevokedStays
<1>1. CASE receipt[r].revoked
  BY <1>1, RestStep DEF RevokedStays
<1>2. CASE ~receipt[r].revoked
  <2>1. PICK p \in Sessions : RevokeCommit(p) /\ tx[p].receipt = r
    BY <1>2, WhoRevokes
  <2>2. TypeOK /\ tx \in [Procs -> Operation] /\ Idle.op = "idle"
    BY DEF Inductive, TypeOK, Idle
  <2>3. vars' # vars
    BY <1>2 DEF vars, rows
  <2>4. ~OutForDelivery(r)
    BY <2>1, <2>3 DEF RevokedAtRest
  <2>5. Revoked(p, r) /\ queue' = queue
    BY <2>1, <2>2, RevokeEffect DEF RevokeCommit
  <2>6. \A q \in Procs : tx'[q] = tx[q] \/ tx'[q].op = "idle"
    BY <2>2, <2>5 DEF Revoked
  <2>7. ~OutForDelivery(r)'
    BY <2>4, <2>5, <2>6 DEF OutForDelivery, DeliveringOf, Delivering
  <2> QED
    BY <2>5, <2>7 DEF Revoked, AtRest
<1> QED
  BY <1>1, <1>2

\* A revoked receipt is handed to its user (against revoke_inventory's "return
\* the stock unit") only when it is revoked while its delivery is queued or
\* under way or while a claim of it is: receipts revoked at any other time, of
\* any number, stay REVOKED for good, whatever is retried, redelivered or lost.
THEOREM RevokedAtRestStays == Spec /\ [][RevokedAtRest]_vars => []RevokedIsNotDelivered
<1>1. Init => RevokedStays
  BY DEF Init, NewReceipt, RevokedStays
<1>2. Inductive /\ RevokedStays /\ [Next]_vars /\ [RevokedAtRest]_vars => RevokedStays'
  BY RevokedStep
<1>3. RevokedStays => RevokedIsNotDelivered
  BY DEF RevokedStays, AtRest, RevokedIsNotDelivered
<1>. QED
  BY <1>1, <1>2, <1>3, InductiveInvariant, PTL DEF Spec

-----------------------------------------------------------------------------
(* The codes implement single-use codes *)

CodeHeld(c) == \E r \in Receipts : receipt[r].code = c

\* HolderOf over any state rc of the receipts.
HolderIn(rc, c) == IF \E r \in Receipts : rc[r].code = c
                   THEN CHOOSE r \in Receipts : rc[r].code = c ELSE NoCode

\* A code that one receipt alone holds has this receipt as its holder.
LEMMA OneHolder ==
    ASSUME NEW rc, NEW c, NEW r \in Receipts, rc[r].code = c,
           \A s \in Receipts : rc[s].code = c => s = r
    PROVE  HolderIn(rc, c) = r
  BY DEF HolderIn

\* A code that no receipt holds has no holder, and every holder is a receipt.
LEMMA HolderReceipt ==
    ASSUME NEW rc, NEW c
    PROVE  /\ (\A r \in Receipts : rc[r].code # c) => HolderIn(rc, c) = NoCode
           /\ (\E r \in Receipts : rc[r].code = c) =>
                 HolderIn(rc, c) \in Receipts /\ rc[HolderIn(rc, c)].code = c
<1>1. (\E r \in Receipts : rc[r].code = c) =>
         /\ (CHOOSE r \in Receipts : rc[r].code = c) \in Receipts
         /\ rc[CHOOSE r \in Receipts : rc[r].code = c].code = c
  OBVIOUS
<1>. QED
  BY <1>1 DEF HolderIn

\* The same receipts hold the same codes: the holders are the same.
LEMMA SameHolders ==
    ASSUME NEW rc, NEW sc, NEW c,
           \A r \in Receipts : rc[r].code = c <=> sc[r].code = c,
           \A r, s \in Receipts : rc[r].code = c /\ rc[s].code = c => r = s
    PROVE  HolderIn(sc, c) = HolderIn(rc, c)
<1>1. CASE \E r \in Receipts : rc[r].code = c
  <2>1. PICK r \in Receipts : rc[r].code = c
    BY <1>1
  <2>2. HolderIn(rc, c) = r
    BY <2>1, OneHolder
  <2>3. HolderIn(sc, c) = r
    BY <2>1, OneHolder
  <2>. QED
    BY <2>2, <2>3
<1>2. CASE \A r \in Receipts : rc[r].code # c
  BY <1>2, HolderReceipt
<1>. QED
  BY <1>1, <1>2

stages == [c \in Codes |-> StageOf(c)]
holders == [c \in Codes |-> HolderOf(c)]

\* A step that leaves the codes of the receipts alone leaves the holders alone.
LEMMA HoldersKept ==
    ASSUME TypeOK, OutOfPool, \A s \in Receipts : receipt'[s].code = receipt[s].code
    PROVE  /\ UNCHANGED holders
           /\ \A c \in Codes : CodeHeld(c)' <=> CodeHeld(c)
<1>1. \A c \in Codes : \A r, s \in Receipts : receipt[r].code = c /\ receipt[s].code = c => r = s
  BY ConstantsAssumption DEF OutOfPool
<1>2. ASSUME NEW c \in Codes
      PROVE  HolderIn(receipt', c) = HolderIn(receipt, c)
  BY <1>1, SameHolders
<1>3. \A c \in Codes : HolderOf(c)' = HolderOf(c)
  BY <1>2 DEF HolderOf, HolderIn
<1>. QED
  BY <1>3 DEF holders, CodeHeld

\* Where a code is on its way.
LEMMA StageOfCode ==
    ASSUME TypeOK, OutOfPool, NEW c \in Codes
    PROVE  /\ code[c].status = "ABSENT" => StageOf(c) = "unloaded" /\ ~CodeHeld(c)
           /\ code[c].status = "AVAILABLE" => StageOf(c) = "pool" /\ ~CodeHeld(c)
           /\ code[c].status \notin {"ABSENT", "AVAILABLE"} =>
                 StageOf(c) = IF CodeHeld(c) THEN "held" ELSE "withdrawn"
<1>1. CodeHeld(c) => code[c].status \notin {"ABSENT", "AVAILABLE"}
  BY ConstantsAssumption DEF OutOfPool, CodeHeld
<1>. QED
  BY <1>1 DEF StageOf, CodeHeld

\* A step keeps the stages when no code leaves or enters the pool.
LEMMA StagesKept ==
    ASSUME TypeOK, OutOfPool, TypeOK', OutOfPool',
           \A s \in Receipts : receipt'[s].code = receipt[s].code,
           \A c \in Codes : \/ code'[c].status = code[c].status
                            \/ /\ code[c].status \notin {"ABSENT", "AVAILABLE"}
                               /\ code'[c].status \notin {"ABSENT", "AVAILABLE"}
    PROVE  UNCHANGED <<stages, holders>>
<1>1. \A c \in Codes : CodeHeld(c)' <=> CodeHeld(c)
  BY HoldersKept
<1>2. \A c \in Codes : StageOf(c)' = StageOf(c)
  BY <1>1 DEF StageOf, CodeHeld
<1>3. UNCHANGED stages
  BY <1>2 DEF stages
<1>. QED
  BY <1>3, HoldersKept

\* A step of the codes, as SingleUseCodes sees it.
CodeStep == [SingleUse!Next]_(SingleUse!codeVars)

LEMMA CodeStutter ==
    ASSUME UNCHANGED <<stages, holders>>
    PROVE  CodeStep
  BY DEF stages, holders, CodeStep, SingleUse!codeVars

\* The codes of T move from one stage to another, the others stay.
LEMMA MovedCodes ==
    ASSUME NEW T \in SUBSET Codes, NEW from, NEW to,
           \A c \in T : StageOf(c) = from /\ StageOf(c)' = to,
           \A c \in Codes \ T : StageOf(c)' = StageOf(c)
    PROVE  SingleUse!MoveAll(T, from, to)
<1>1. [c \in Codes |-> StageOf(c)'] = [c \in Codes |-> IF c \in T THEN to ELSE StageOf(c)]
  OBVIOUS
<1>. QED
  BY <1>1 DEF SingleUse!MoveAll

\* Codes that leave the pool for nobody are withdrawn.
LEMMA WithdrawnCodes ==
    ASSUME TypeOK, OutOfPool, NEW T \in SUBSET Codes, UNCHANGED receipt,
           \A c \in T : code[c].status = "AVAILABLE"
                        /\ code'[c].status \notin {"ABSENT", "AVAILABLE"},
           \A c \in Codes \ T : code'[c].status = code[c].status
    PROVE  CodeStep
<1>1. UNCHANGED holders /\ \A c \in Codes : CodeHeld(c)' <=> CodeHeld(c)
  BY HoldersKept
<1>2. \A c \in T : StageOf(c) = "pool" /\ StageOf(c)' = "withdrawn"
  <2>1. \A c \in T : StageOf(c) = "pool" /\ ~CodeHeld(c)
    BY StageOfCode
  <2>. QED
    BY <1>1, <2>1 DEF StageOf, CodeHeld
<1>3. \A c \in Codes \ T : StageOf(c)' = StageOf(c)
  BY <1>1 DEF StageOf, CodeHeld
<1>4. SingleUse!MoveAll(T, "pool", "withdrawn")
  BY <1>2, <1>3, MovedCodes
<1>5. SingleUse!Withdraw(T)
  BY <1>1, <1>4 DEF SingleUse!Withdraw, holders
<1>. QED
  BY <1>5 DEF CodeStep, SingleUse!Next

\* Codes that enter the table are loaded into the pool.
LEMMA LoadedCodes ==
    ASSUME TypeOK, OutOfPool, NEW p \in Sessions, NEW i \in Items, NEW T \in SUBSET Codes,
           bulk_import_codes(p, i, T)
    PROVE  CodeStep
<1>1. UNCHANGED receipt /\ \A c \in T : code[c].status = "ABSENT"
  BY DEF bulk_import_codes
<1>2. /\ \A c \in T : code'[c].status = "AVAILABLE"
      /\ \A c \in Codes \ T : code'[c].status = code[c].status
  BY DEF bulk_import_codes
<1>3. UNCHANGED holders /\ \A c \in Codes : CodeHeld(c)' <=> CodeHeld(c)
  BY <1>1, HoldersKept
<1>4. \A c \in T : StageOf(c) = "unloaded" /\ StageOf(c)' = "pool"
  BY <1>1, <1>2 DEF StageOf
<1>5. \A c \in Codes \ T : StageOf(c)' = StageOf(c)
  BY <1>2, <1>3 DEF StageOf, CodeHeld
<1>6. SingleUse!MoveAll(T, "unloaded", "pool")
  BY <1>4, <1>5, MovedCodes
<1>7. SingleUse!Load(T)
  BY <1>3, <1>6 DEF SingleUse!Load, holders
<1>. QED
  BY <1>7 DEF CodeStep, SingleUse!Next

\* An award assigns its code.
LEMMA AwardedCode ==
    ASSUME TypeOK, AwardsOpen, Rows, OutOfPool, TypeOK', OutOfPool',
           NEW p \in Sessions, AwardCommit(p)
    PROVE  CodeStep
<1>1. Awarded(p, tx[p].receipt)
  BY AwardEffect
<1>0. PICK r \in Receipts, k \in Codes \cup {NoCode} : r = tx[p].receipt /\ k = tx[p].code
  BY <1>1 DEF Awarded, AwardTx
<1>2. /\ receipt'[r].code = k /\ receipt[r].code = NoCode
      /\ \A s \in Receipts \ {r} : receipt'[s] = receipt[s]
  BY <1>0, <1>1 DEF Awarded, NewReceipt, AwardsOpen, Rows, Procs
<1>3. CASE k = NoCode
  <2>1. \A s \in Receipts : receipt'[s].code = receipt[s].code
    BY <1>2, <1>3
  <2>2. UNCHANGED code
    BY <1>0, <1>1, <1>3 DEF Awarded
  <2>. QED
    BY <2>1, <2>2, StagesKept, CodeStutter
<1>4. CASE k \in Codes
  <2>1. k # NoCode
    BY <1>4, ConstantsAssumption
  <2>2. code[k].status = "AVAILABLE"
    BY <1>0, <1>1, <2>1 DEF Awarded, AwardsOpen, Procs
  <2>3. /\ code'[k].status = "RESERVED"
        /\ \A c \in Codes \ {k} : code'[c] = code[c]
    BY <1>0, <1>1, <1>4, <2>1 DEF Awarded, TypeOK, CodeRow
  <2>4. StageOf(k) = "pool" /\ ~CodeHeld(k)
    BY <1>4, <2>2, StageOfCode
  <2>5. CodeHeld(k)' /\ \A c \in Codes \ {k} : CodeHeld(c)' <=> CodeHeld(c)
    BY <1>2, <2>1, ConstantsAssumption DEF CodeHeld
  <2>6. StageOf(k)' = "held"
    BY <2>3, <2>5 DEF StageOf, CodeHeld
  <2>7. \A c \in Codes \ {k} : StageOf(c)' = StageOf(c)
    BY <2>3, <2>5 DEF StageOf, CodeHeld
  <2>8. SingleUse!MoveAll({k}, "pool", "held")
    BY <1>4, <2>4, <2>6, <2>7, MovedCodes
  <2>9. \A d \in Codes : HolderOf(d) # r
    <3>1. \A d \in Codes : HolderIn(receipt, d) # r
      BY <1>2, HolderReceipt, ConstantsAssumption
    <3>. QED
      BY <3>1 DEF HolderOf, HolderIn
  <2>10. HolderOf(k)' = r
    <3>1. \A s \in Receipts : receipt'[s].code = k => s = r
      BY <1>2, <2>4 DEF CodeHeld
    <3>2. HolderIn(receipt', k) = r
      BY <1>2, <3>1, OneHolder
    <3>. QED
      BY <3>2 DEF HolderOf, HolderIn
  <2>11. \A c \in Codes \ {k} : HolderOf(c)' = HolderOf(c)
    <3>1. ASSUME NEW c \in Codes \ {k}
          PROVE  HolderIn(receipt', c) = HolderIn(receipt, c)
      <4>1. \A s \in Receipts : receipt[s].code = c <=> receipt'[s].code = c
        BY <1>2, ConstantsAssumption
      <4>2. \A s, u \in Receipts : receipt[s].code = c /\ receipt[u].code = c => s = u
        BY ConstantsAssumption DEF OutOfPool
      <4>. QED
        BY <4>1, <4>2, SameHolders
    <3>. QED
      BY <3>1 DEF HolderOf, HolderIn
  <2>12. [c \in Codes |-> HolderOf(c)'] = [[c \in Codes |-> HolderOf(c)] EXCEPT ![k] = r]
    BY <1>4, <2>10, <2>11
  <2>13. SingleUse!Assign(k, r)
    BY <2>8, <2>9, <2>12 DEF SingleUse!Assign
  <2>. QED
    BY <1>2, <1>4, <2>13 DEF CodeStep, SingleUse!Next
<1>. QED
  BY <1>2, <1>3, <1>4

\* Every step is a step of single-use codes, or leaves the codes alone.
LEMMA RefinementStep ==
    ASSUME TypeOK, AwardsOpen, Rows, OutOfPool, TypeOK', OutOfPool', [Next]_vars
    PROVE  CodeStep
<1>1. ASSUME NEW p \in Sessions, NEW i \in Items, NEW T \in SUBSET Codes,
           bulk_import_codes(p, i, T)
      PROVE  CodeStep
  BY <1>1, LoadedCodes
<1>2. ASSUME NEW p \in Sessions, AwardCommit(p)
      PROVE  CodeStep
  BY <1>2, AwardedCode
<1>3. ASSUME NEW p \in Sessions, RevokeCommit(p)
      PROVE  CodeStep
  <2>1. Revoked(p, tx[p].receipt)
    BY <1>3, RevokeEffect
  <2>2. \A s \in Receipts : receipt'[s].code = receipt[s].code
    BY <2>1 DEF Revoked
  <2>3. \A c \in Codes : \/ code'[c].status = code[c].status
                         \/ /\ code[c].status \notin {"ABSENT", "AVAILABLE"}
                            /\ code'[c].status \notin {"ABSENT", "AVAILABLE"}
    BY <2>1 DEF Revoked
  <2>. QED
    BY <2>2, <2>3, StagesKept, CodeStutter
<1>4. ASSUME NEW p \in Sessions, ClaimWrite(p)
      PROVE  CodeStep
  <2>1. tx[p].receipt \in Receipts
    BY <1>4, OperationShapes DEF ClaimWrite, CheckedTx, Procs
  <2>2. \A s \in Receipts : receipt'[s].code = receipt[s].code
    BY <1>4, <2>1 DEF ClaimWrite, TypeOK, ReceiptRow
  <2>3. \A c \in Codes : \/ code'[c].status = code[c].status
                         \/ /\ code[c].status \notin {"ABSENT", "AVAILABLE"}
                            /\ code'[c].status \notin {"ABSENT", "AVAILABLE"}
    BY <1>4 DEF ClaimWrite
  <2>. QED
    BY <2>2, <2>3, StagesKept, CodeStutter
<1>5. ASSUME NEW w \in Workers, DeliverRedeem(w)
      PROVE  CodeStep
  <2>1. tx[w].task.receipt \in Receipts
    BY <1>5, OperationShapes DEF DeliverRedeem, DeliverTx, Task, Procs
  <2>2. code[CodeOf(w)].status \notin {"ABSENT", "AVAILABLE"}
    BY <1>5, <2>1 DEF DeliverRedeem, CodeSaved, CodeOf, OutOfPool
  <2>3. \A s \in Receipts : receipt'[s].code = receipt[s].code
    BY <1>5 DEF DeliverRedeem
  <2>4. \A c \in Codes : \/ code'[c].status = code[c].status
                         \/ /\ code[c].status \notin {"ABSENT", "AVAILABLE"}
                            /\ code'[c].status \notin {"ABSENT", "AVAILABLE"}
    BY <1>5, <2>2 DEF DeliverRedeem, TypeOK, CodeRow
  <2>. QED
    BY <2>3, <2>4, StagesKept, CodeStutter
<1>6. ASSUME NEW w \in Workers, DeliverMark(w)
      PROVE  CodeStep
  <2>1. tx[w].task.receipt \in Receipts
    BY <1>6, OperationShapes DEF DeliverMark, DeliverTx, Task, Procs
  <2>2. \A s \in Receipts : receipt'[s].code = receipt[s].code
    BY <1>6, <2>1 DEF DeliverMark, TypeOK, ReceiptRow
  <2>3. \A c \in Codes : \/ code'[c].status = code[c].status
                         \/ /\ code[c].status \notin {"ABSENT", "AVAILABLE"}
                            /\ code'[c].status \notin {"ABSENT", "AVAILABLE"}
    BY <1>6 DEF DeliverMark
  <2>. QED
    BY <2>2, <2>3, StagesKept, CodeStutter
<1>7. ASSUME NEW w \in Workers, DeliverFail(w)
      PROVE  CodeStep
  <2>1. Failed(w, tx[w].task.receipt)
    BY <1>7, FailEffect
  <2>2. \A s \in Receipts : receipt'[s].code = receipt[s].code
    BY <2>1 DEF Failed
  <2>3. \A c \in Codes : \/ code'[c].status = code[c].status
                         \/ /\ code[c].status \notin {"ABSENT", "AVAILABLE"}
                            /\ code'[c].status \notin {"ABSENT", "AVAILABLE"}
    BY <1>7 DEF DeliverFail
  <2>. QED
    BY <2>2, <2>3, StagesKept, CodeStutter
<1>8. ASSUME NEW c \in Codes, void(c)
      PROVE  CodeStep
  <2>1. /\ UNCHANGED receipt /\ code[c].status # "ABSENT"
        /\ code'[c].status = "VOIDED" /\ \A d \in Codes \ {c} : code'[d] = code[d]
    BY <1>8 DEF void, TypeOK, CodeRow
  <2>2. CASE code[c].status = "AVAILABLE"
    BY <2>1, <2>2, WithdrawnCodes
  <2>3. CASE code[c].status # "AVAILABLE"
    BY <2>1, <2>3, StagesKept, CodeStutter
  <2>. QED
    BY <2>2, <2>3
<1>9. ASSUME NEW T \in SUBSET Codes, expire_redemption_codes(T)
      PROVE  CodeStep
  <2>1. /\ UNCHANGED receipt /\ \A c \in T : code[c].status = "AVAILABLE"
        /\ \A c \in T : code'[c].status = "EXPIRED"
        /\ \A c \in Codes \ T : code'[c] = code[c]
    BY <1>9 DEF expire_redemption_codes, TypeOK, CodeRow
  <2>. QED
    BY <2>1, WithdrawnCodes
<1>10. ASSUME UNCHANGED <<receipt, code>>
      PROVE  CodeStep
  BY <1>10, StagesKept, CodeStutter
<1>12. CASE \E p \in Sessions : Request(p)
  BY <1>12, <1>1, <1>10, RequestsKeepReceipts
<1>13. CASE \E p \in Sessions : Complete(p) \/ Abort(p)
  BY <1>13, <1>2, <1>3, <1>4, <1>10
  DEF Complete, rows, Edit, EditSave, SyncCount, SyncWrite, Abort
<1>14. CASE \E w \in Workers : Deliver(w) \/ WorkerDies(w)
  BY <1>14, <1>5, <1>6, <1>7, <1>10 DEF Deliver, rows, WorkerDies
<1>15. CASE \E r \in Receipts : retry_delivery(r) \/ \E w \in Workers : Take(w, r)
  BY <1>15, <1>10
  DEF Take, rows, retry_delivery, DeliverNotFound, DeliverSkip, DeliverLoad
<1>16. CASE (\E c \in Codes : void(c)) \/ \E T \in SUBSET Codes : expire_redemption_codes(T)
  BY <1>16, <1>8, <1>9
<1>17. CASE UNCHANGED vars
  BY <1>17, <1>10 DEF vars, rows
<1>. QED
  BY <1>12, <1>13, <1>14, <1>15, <1>16, <1>17 DEF Next

\* Redemption codes are single-use: loaded once, taken from the pool once, by one
\* receipt or by nobody, through every interleaving of the operations.
THEOREM CodesImplementSingleUse == Spec => CodesAreSingleUse
<1>1. Init => SingleUse!Init
  <2>. SUFFICES ASSUME Init PROVE SingleUse!Init
    OBVIOUS
  <2>1. /\ \A c \in Codes : code[c].status = "ABSENT"
        /\ \A r \in Receipts : receipt[r].code = NoCode
    BY DEF Init, NewReceipt
  <2>2. \A c \in Codes : StageOf(c) = "unloaded" /\ HolderOf(c) = NoCode
    BY <2>1, ConstantsAssumption DEF StageOf, HolderOf
  <2>. QED
    BY <2>2 DEF SingleUse!Init
<1>2. Inductive /\ Inductive' /\ [Next]_vars => [SingleUse!Next]_(SingleUse!codeVars)
  BY RefinementStep DEF Inductive, CodeStep
<1>. QED
  BY <1>1, <1>2, InductiveInvariant, PTL DEF Spec, CodesAreSingleUse, SingleUse!Spec
===============================================================================
