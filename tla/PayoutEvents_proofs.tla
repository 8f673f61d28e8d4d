------------------------ MODULE PayoutEvents_proofs ------------------------
(***************************************************************************)
(* Theorems about PayoutEvents, for every number of batches, items,        *)
(* sessions, calls and retries.  The webhooks only watch: EventsSpec is    *)
(* Spec with messages (EventsWatchTheQueue), so the invariant of the queue *)
(* holds here too, and the properties of the webhooks rest on it.          *)
(***************************************************************************)
EXTENDS PayoutEvents, PayoutQueue_proofs

\* An item that is QUEUED, or taken QUEUED and not yet sent, is at its first
\* attempt; one that is RETRYING, or about to be, is not.
FirstAttempt ==
    /\ \A i \in Items :
          /\ item[i].status = "QUEUED" => item[i].retry = 0
          /\ item[i].status = "RETRYING" => item[i].retry > 0
    /\ \A w \in Workers :
          /\ txn[w].at = "send" => \A i \in txn[w].todo : txn[w].rows[i].retry = 0
          /\ txn[w].at = "retry" => \A i \in txn[w].todo : txn[w].rows[i].retry > 0
          /\ \A i \in txn[w].held :
                txn[w].rows[i].status = "RETRYING" => txn[w].rows[i].retry > 0

\* A first success that a session is about to commit was announced by it.
FirstSuccessTold ==
    \A w \in Workers : \A i \in txn[w].held :
        txn[w].rows[i].status = "SUCCESS" /\ txn[w].rows[i].retry = 0
            => Announced(<<"payout_item_succeeded", i>>)

\* A copy of a batch row that a PUT or PATCH may save has an outcome that was
\* announced.
CopiesTold ==
    \A w \in Workers :
        txn[w].at \in {"update", "save"} /\ txn[w].row.status \in Finished
            => Announced(BatchEvent(txn[w].batch, txn[w].row.status))

EventsInductive ==
    /\ Inductive
    /\ FirstAttempt
    /\ EventsTypeOK
    /\ SuccessEventsPaid
    /\ FirstSuccessTold
    /\ FirstSuccessIsAnnounced
    /\ OutcomeIsAnnounced
    /\ CopiesTold
    /\ NoCallIsLost

-----------------------------------------------------------------------------
(* The queue underneath *)

\* Every step of PayoutEvents is a step of the queue or leaves it alone.
LEMMA EventsAreQueueSteps ==
    ASSUME [EventsNext]_<<queue, events>>
    PROVE  [Next]_vars
<1>1. ASSUME SilentStep
      PROVE  Next
  BY <1>1 DEF SilentStep, Next, Step
<1>2. ASSUME NEW w \in Workers, NEW i \in Items,
             AnnouncedSuccess(w, i) \/ AnnouncedRefusal(w, i) \/ SilentSend(w, i)
      PROVE  Next
  <2>1. Send(w, i)
    BY <1>2 DEF AnnouncedSuccess, AnnouncedRefusal, SilentSend, Send
  <2> QED
    BY <2>1 DEF Next, Step
<1>3. ASSUME NEW w \in Workers, AnnouncedCommit(w)
      PROVE  Next
  BY <1>3 DEF AnnouncedCommit, Next, Step
<1>4. ASSUME NEW w \in Workers, AnnouncedAbort(w)
      PROVE  Next
  <2>1. Abort(w)
    BY <1>4 DEF AnnouncedAbort, Abort
  <2> QED
    BY <2>1 DEF Next
<1>5. ASSUME NEW m, Conclude(m) \/ WorkerLost(m)
      PROVE  UNCHANGED vars
  BY <1>5 DEF Conclude, WorkerLost, queue, vars
<1>6. UNCHANGED <<queue, events>> => UNCHANGED vars
  BY DEF queue, vars
<1> QED
  BY <1>1, <1>2, <1>3, <1>4, <1>5, <1>6 DEF EventsNext, QueueStep

\* The webhooks change nothing about the queue: what is proved of it stays true.
THEOREM EventsWatchTheQueue == EventsSpec => Spec
<1>1. EventsInit => Init
  BY DEF EventsInit
<1>2. [EventsNext]_<<queue, events>> => [Next]_vars
  BY EventsAreQueueSteps
<1> QED
  BY <1>1, <1>2, PTL DEF EventsSpec, Spec

-----------------------------------------------------------------------------
(* First attempts *)

\* An item is QUEUED once, when it is inserted; nothing returns it there.
LEMMA FirstAttemptStep ==
    ASSUME Inductive, FirstAttempt, [Next]_vars
    PROVE  FirstAttempt'
<1> USE DEF Inductive
<1>0. /\ txn \in [Workers -> Txn] /\ item \in [Items -> ItemRow]
      /\ \A w \in Workers : txn[w].held \in SUBSET Items /\ txn[w].todo \in SUBSET Items
      /\ \A w \in Workers : txn[w].todo \subseteq txn[w].held
  BY DEF TypeOK, Txn, TxnShape
<1> DEFINE Known(row) == /\ row.status = "QUEUED" => row.retry = 0
                         /\ row.status = "RETRYING" => row.retry > 0
           Fresh(t) == /\ t.at = "send" => \A i \in t.todo : t.rows[i].retry = 0
                       /\ t.at = "retry" => \A i \in t.todo : t.rows[i].retry > 0
                       /\ \A i \in t.held : t.rows[i].status = "RETRYING" => t.rows[i].retry > 0
<1>1. CASE UNCHANGED vars \/ \E i \in Items : LatePay(i)
  <2>1. UNCHANGED <<item, txn>>
    BY <1>1 DEF vars, LatePay
  <2> QED
    BY <2>1 DEF FirstAttempt
<1>2. CASE BatchStep
  <2>1. txn' = txn
    BY <1>2, BatchEffect
  <2>2. \A i \in Items : item'[i] = item[i] \/ (item'[i].retry = 0 /\ item'[i].status = "QUEUED")
    <3>1. ASSUME NEW b \in Batches, NEW S \in SUBSET Items, AddItems(b, S)
          PROVE  \A i \in Items :
                    item'[i] = item[i] \/ (item'[i].retry = 0 /\ item'[i].status = "QUEUED")
      BY <3>1 DEF AddItems, NoItem
    <3>2. ASSUME NEW b \in Batches, CreateBatch(b) \/ Hold(b) \/ Resume(b) \/ ReleaseLock(b)
          PROVE  item' = item
      BY <3>2 DEF CreateBatch, Hold, Resume, ReleaseLock, DoTransition
    <3> QED
      BY <1>2, <3>1, <3>2 DEF BatchStep
  <2> QED
    BY <2>1, <2>2 DEF FirstAttempt
<1>3. ASSUME NEW w \in Workers,
             \/ BeginStep(w) \/ ProcessDeduct(w) \/ ProcessSelect(w)
             \/ CommitStep(w) \/ RecordStep(w) \/ RollbackStep(w) \/ AdvanceStep(w)
      PROVE  FirstAttempt'
  <2>0. ASSUME \A i \in Items : Known(item'[i]), OthersKeep(w), Fresh(txn'[w])
        PROVE  FirstAttempt'
    BY <2>0 DEF FirstAttempt, OthersKeep
  <2>10. \A i \in Items : Known(item[i])
    BY DEF FirstAttempt
  <2>1. CASE BeginStep(w)
    <3>1. item' = item /\ OthersKeep(w) /\ txn'[w].held \in SUBSET Items
      BY <2>1, BeginEffect
    <3>2. PICK s \in {"PROCESSING", "CANCELLED", "SKIPPED"} :
             txn'[w].rows = Claim(txn'[w].held, s)
      BY <2>1, BeginEffect
    <3>3. \A i \in txn'[w].held : txn'[w].rows[i].status # "RETRYING"
      BY <3>1, <3>2, ClaimType DEF ItemStatus
    <3>4. ASSUME txn'[w].at = "retry", NEW i \in txn'[w].todo
          PROVE  txn'[w].rows[i].retry > 0
      <4>1. i \in txn'[w].held /\ item[i].status = "RETRYING"
        BY <2>1, <3>4, BeginEffect
      <4>2. txn'[w].rows[i] = [item[i] EXCEPT !.status = s]
        BY <3>1, <3>2, <4>1 DEF Claim
      <4> QED
        BY <1>0, <2>10, <3>1, <4>1, <4>2 DEF ItemRow
    <3>5. txn'[w].at # "send"
      BY <2>1, BeginEffect
    <3> QED
      BY <2>0, <2>10, <3>1, <3>3, <3>4, <3>5
  <2>2. CASE ProcessDeduct(w)
    <3>1. item' = item /\ OthersKeep(w) /\ txn'[w].at = "select" /\ SameClaim(w)
      BY <2>2, DeductEffect
    <3>2. Fresh(txn'[w])
      BY <3>1 DEF FirstAttempt, SameClaim
    <3> QED
      BY <2>0, <2>10, <3>1, <3>2
  <2>3. CASE ProcessSelect(w)
    <3> DEFINE S == {i \in Available("QUEUED") : BatchOf[i] = txn[w].batch}
    <3>1. /\ item' = item /\ OthersKeep(w) /\ txn'[w].at = "send"
          /\ txn'[w].todo = S /\ txn'[w].held = S /\ txn'[w].rows = Claim(S, "PROCESSING")
      BY <2>3, <1>0 DEF ProcessSelect, OthersKeep, Txn
    <3>2. ASSUME NEW i \in S
          PROVE  /\ Claim(S, "PROCESSING")[i].retry = 0
                 /\ Claim(S, "PROCESSING")[i].status = "PROCESSING"
      <4>1. i \in Items /\ item[i].status = "QUEUED"
        BY DEF Available
      <4>2. Claim(S, "PROCESSING")[i] = [item[i] EXCEPT !.status = "PROCESSING"]
        BY <4>1 DEF Claim
      <4> QED
        BY <4>1, <4>2, <1>0 DEF FirstAttempt, ItemRow
    <3> HIDE DEF S
    <3>3. Fresh(txn'[w])
      BY <3>1, <3>2
    <3> QED
      BY <2>0, <2>10, <3>1, <3>3
  <2>4. CASE CommitStep(w)
    <3>1. /\ txn' = [txn EXCEPT ![w] = Idle] /\ item' = ItemsSeenBy(w)
          /\ txn[w].todo = {}
      BY <2>4, CommitEffect
    <3>2. \A i \in txn[w].held : Known(txn[w].rows[i])
      <4>1. \A i \in txn[w].held : txn[w].rows[i].status # "QUEUED"
        BY <3>1, <1>0 DEF Prepared, TxnShape, Sends
      <4> QED
        BY <4>1 DEF FirstAttempt
    <3>3. \A i \in Items : Known(item'[i])
      BY <2>10, <3>1, <3>2 DEF ItemsSeenBy
    <3>4. OthersKeep(w) /\ Fresh(txn'[w])
      BY <3>1, <1>0 DEF OthersKeep, Idle
    <3> QED
      BY <2>0, <3>3, <3>4
  <2>5. CASE RecordStep(w)
    <3> PICK i \in Items : Recorded(w, i)
      BY <2>5 DEF RecordStep
    <3> PICK row \in ItemRow, ok \in Nat, bad \in Nat : Outcome(w, i, row, ok, bad)
      BY DEF Recorded
    <3>1. item' = item
      BY <2>5 DEF RecordStep, Committed
    <3>2. /\ OthersKeep(w)
          /\ txn'[w].at = txn[w].at /\ txn'[w].held = txn[w].held
          /\ txn'[w].todo = txn[w].todo \ {i}
          /\ \A j \in Items \ {i} : txn'[w].rows[j] = txn[w].rows[j]
          /\ txn'[w].rows[i] = row
      BY <1>0 DEF Outcome, OthersKeep, Txn
    <3>3. row.status = "RETRYING" => row.retry > 0
      BY DEF Outcome
    <3>4. Fresh(txn'[w])
      BY <1>0, <3>2, <3>3 DEF FirstAttempt
    <3> QED
      BY <2>0, <2>10, <3>1, <3>2, <3>4
  <2>6. CASE RollbackStep(w)
    <3>1. item' = item /\ txn' = [txn EXCEPT ![w] = Idle]
      BY <2>6 DEF RollbackStep, Committed
    <3>2. OthersKeep(w) /\ Fresh(txn'[w])
      BY <3>1, <1>0 DEF OthersKeep, Idle
    <3> QED
      BY <2>0, <2>10, <3>1, <3>2
  <2>7. CASE AdvanceStep(w)
    <3>1. /\ item' = item /\ OthersKeep(w) /\ SameClaim(w)
          /\ txn'[w].at \in {"select", "save"}
      BY <2>7, AdvanceEffect
    <3>2. Fresh(txn'[w])
      BY <3>1 DEF FirstAttempt, SameClaim
    <3> QED
      BY <2>0, <2>10, <3>1, <3>2
  <2> QED
    BY <1>3, <2>1, <2>2, <2>3, <2>4, <2>5, <2>6, <2>7
<1> QED
  BY <1>1, <1>2, <1>3, StepKinds

-----------------------------------------------------------------------------
(* Calls *)

\* Every call of _emit_webhook_event names an event, and is with the broker or
\* in the logs.
LEMMA AnnounceEffect ==
    ASSUME EventsTypeOK, NoCallIsLost, NEW e \in Event, Announce(e)
    PROVE  /\ EventsTypeOK'
           /\ NoCallIsLost'
           /\ calls'[e] > 0
           /\ \A f \in Event \ {e} : calls'[f] = calls[f]
<1> USE EventsAssumption
<1> DEFINE c == [event |-> e, nth |-> calls[e] + 1]
           m == [call |-> c, retries |-> 0]
<1>1. /\ calls \in [Event -> 0..MaxCalls]
      /\ broker \subseteq Message /\ ended \subseteq Call
      /\ \A k \in ended \cup {n.call : n \in broker} : k.nth <= calls[k.event]
  BY DEF EventsTypeOK
<1>2. /\ calls[e] \in 0..MaxCalls /\ calls[e] < MaxCalls
      /\ calls' = [calls EXCEPT ![e] = calls[e] + 1]
      /\ \/ broker' = broker \cup {m} /\ ended' = ended
         \/ broker' = broker /\ ended' = ended \cup {c}
  BY <1>1 DEF Announce
<1>3. c \in Call /\ c.event = e /\ c.nth = calls[e] + 1
  BY <1>2 DEF Call
<1>4. m \in Message /\ m.call = c
  BY <1>3 DEF Message
<1> HIDE DEF c, m
<1>5. /\ calls' \in [Event -> 0..MaxCalls]
      /\ calls'[e] = calls[e] + 1
      /\ \A f \in Event \ {e} : calls'[f] = calls[f]
      /\ \A f \in Event : calls[f] <= calls'[f]
  BY <1>1, <1>2
<1>6. \A k \in Call : k.event \in Event /\ k.nth \in Nat
  BY DEF Call
<1>7. \A n \in Message : n.call \in Call
  BY DEF Message
<1>8. EventsTypeOK'
  <2>1. broker' \subseteq Message /\ ended' \subseteq Call
    BY <1>1, <1>2, <1>3, <1>4
  <2>2. ASSUME NEW k \in ended' \cup {n.call : n \in broker'}
        PROVE  k.nth <= calls'[k.event]
    <3>1. k = c \/ k \in ended \cup {n.call : n \in broker}
      BY <1>2, <1>4
    <3>2. k \in Call
      BY <2>1, <1>7
    <3>3. calls[k.event] \in Nat /\ calls'[k.event] \in Nat /\ k.nth \in Nat
      BY <3>2, <1>1, <1>5, <1>6
    <3>4. CASE k = c
      BY <3>4, <1>3, <1>5, <3>3
    <3>5. CASE k \in ended \cup {n.call : n \in broker}
      BY <3>5, <3>2, <3>3, <1>1, <1>5, <1>6
    <3> QED
      BY <3>1, <3>4, <3>5
  <2> QED
    BY <1>5, <2>1, <2>2 DEF EventsTypeOK
<1>9. NoCallIsLost'
  <2> SUFFICES ASSUME NEW f \in Event, NEW n \in 1..calls'[f]
               PROVE  \/ [event |-> f, nth |-> n] \in ended'
                      \/ \E k \in broker' : k.call = [event |-> f, nth |-> n]
    BY DEF NoCallIsLost
  <2>1. CASE n \in 1..calls[f]
    BY <2>1, <1>2 DEF NoCallIsLost
  <2>2. CASE n \notin 1..calls[f]
    <3>1. f = e /\ n = calls[e] + 1
      BY <2>2, <1>1, <1>2, <1>5
    <3> QED
      BY <3>1, <1>2, <1>4 DEF c
  <2> QED
    BY <2>1, <2>2
<1> QED
  BY <1>2, <1>5, <1>8, <1>9

\* A worker that takes a message, or dies over it, keeps every call in sight.
LEMMA DeliveryEffect ==
    ASSUME EventsTypeOK, NoCallIsLost, NEW m, Conclude(m) \/ WorkerLost(m)
    PROVE  EventsTypeOK' /\ NoCallIsLost' /\ UNCHANGED <<queue, calls>>
<1> USE EventsAssumption
<1>1. /\ calls \in [Event -> 0..MaxCalls]
      /\ broker \subseteq Message /\ ended \subseteq Call
      /\ \A k \in ended \cup {n.call : n \in broker} : k.nth <= calls[k.event]
  BY DEF EventsTypeOK
<1>2. m \in broker /\ m \in Message /\ m.call \in Call /\ UNCHANGED <<queue, calls>>
  BY <1>1 DEF Conclude, WorkerLost, Message
<1>3. m.retries < MaxDeliveryRetries =>
         RetryOf(m) \in Message /\ RetryOf(m).call = m.call
  BY <1>2 DEF RetryOf, Message
<1>4. /\ broker' \subseteq Message /\ ended' \subseteq Call
      /\ ended \subseteq ended'
      /\ \A n \in broker \ {m} : n \in broker'
      /\ m.call \in ended' \/ \E n \in broker' : n.call = m.call
      /\ \A k \in ended' : k \in ended \/ k = m.call
      /\ \A n \in broker' : n \in broker \/ n.call = m.call
  BY <1>1, <1>2, <1>3 DEF Conclude, WorkerLost, Finish, Retry, Acknowledge
<1>5. EventsTypeOK'
  <2>1. \A k \in ended' \cup {n.call : n \in broker'} :
           k \in ended \cup {n.call : n \in broker}
    BY <1>2, <1>4
  <2> QED
    BY <1>1, <1>2, <1>4, <2>1 DEF EventsTypeOK
<1>6. NoCallIsLost'
  BY <1>2, <1>4 DEF NoCallIsLost
<1> QED
  BY <1>2, <1>5, <1>6

-----------------------------------------------------------------------------
(* Which events a step announces *)

SuccessEvent(i) == <<"payout_item_succeeded", i>>
FailureEvent(i) == <<"payout_item_permanently_failed", i>>

\* The events of items and of batches are events, and differ.
LEMMA EventNames ==
    /\ \A i \in Items : SuccessEvent(i) \in Event /\ FailureEvent(i) \in Event
    /\ \A b \in Batches : \A s : BatchEvent(b, s) \in Event
    /\ \A b, s, i : BatchEvent(b, s) # SuccessEvent(i) /\ BatchEvent(b, s) # FailureEvent(i)
    /\ \A i, j : SuccessEvent(i) # FailureEvent(j)
    /\ \A i, j : SuccessEvent(i) = SuccessEvent(j) => i = j
<1>1. \A i \in Items : SuccessEvent(i) \in Event /\ FailureEvent(i) \in Event
  BY DEF SuccessEvent, FailureEvent, Event
<1>2. \A b \in Batches : \A s : BatchEvent(b, s) \in Event
  BY DEF BatchEvent, Event
<1>3. \A b, s, i : BatchEvent(b, s) # SuccessEvent(i) /\ BatchEvent(b, s) # FailureEvent(i)
  BY DEF BatchEvent, SuccessEvent, FailureEvent
<1>4. \A i, j : SuccessEvent(i) # FailureEvent(j)
  BY DEF SuccessEvent, FailureEvent
<1>5. \A i, j : SuccessEvent(i) = SuccessEvent(j) => i = j
  BY DEF SuccessEvent
<1> QED
  BY <1>1, <1>2, <1>3, <1>4, <1>5

\* A step announces nothing, or works on a message, or announces one event: a
\* success that the gateway has paid, or an outcome, and no permanent failure
\* as long as the first attempt has a retry.
LEMMA EventKinds ==
    ASSUME Inductive, FirstAttempt, [EventsNext]_<<queue, events>>
    PROVE  \/ UNCHANGED events
           \/ \E m : Conclude(m) \/ WorkerLost(m)
           \/ \E e \in Event :
                 /\ Announce(e)
                 /\ \A i \in Items : e = SuccessEvent(i) => gateway'[i].paid > 0
                 /\ MaxRetryAttempts > 0 => \A i \in Items : e # FailureEvent(i)
<1> USE DEF Inductive
<1>0. /\ txn \in [Workers -> Txn] /\ gateway \in [Items -> GatewayRow]
      /\ \A w \in Workers : txn[w].rows \in [Items -> ItemRow]
  BY DEF TypeOK, Txn
<1>1. ASSUME NEW w \in Workers, NEW i \in Items, AnnouncedSuccess(w, i)
      PROVE  Announce(SuccessEvent(i)) /\ gateway'[i].paid > 0
  <2>1. Disburse(Sent(i)).paid > 0
    BY SentType, DisburseType
  <2> QED
    BY <1>0, <1>1, <2>1 DEF AnnouncedSuccess, SendSuccess, SuccessEvent
<1>2. ASSUME NEW w \in Workers, NEW i \in Items, AnnouncedRefusal(w, i)
      PROVE  UNCHANGED events \/ (Announce(FailureEvent(i)) /\ ~(MaxRetryAttempts > 0))
  <2>1. i \in txn[w].todo /\ txn[w].at = "send"
    BY <1>2 DEF AnnouncedRefusal, SendError, Sending
  <2>2. txn[w].rows[i].retry = 0
    BY <2>1 DEF FirstAttempt
  <2>3. MaxRetryAttempts \in Nat /\ txn[w].rows[i] \in ItemRow
    BY <1>0, ConstantsAssumption
  <2>4. CASE MaxRetryAttempts > 0
    <3> DEFINE row == txn[w].rows[i]
    <3>1. row \in ItemRow /\ row.retry + 1 <= MaxRetryAttempts
      BY <2>2, <2>3, <2>4
    <3>2. MarkFailed(row).status = "RETRYING"
      BY <3>1 DEF MarkFailed, ItemRow
    <3> QED
      BY <1>2, <3>2 DEF AnnouncedRefusal
  <2>5. CASE ~(MaxRetryAttempts > 0)
    BY <1>2, <2>5 DEF AnnouncedRefusal, FailureEvent
  <2> QED
    BY <2>4, <2>5
<1>3. ASSUME NEW w \in Workers, AnnouncedCommit(w) \/ AnnouncedAbort(w)
      PROVE  \E b \in Batches : \E s : Announce(BatchEvent(b, s))
  <2>1. txn[w].at = "send" /\ Announce(AnnouncedOutcome(w))
    BY <1>3 DEF AnnouncedCommit, AnnouncedAbort, ProcessCommit
  <2>2. txn[w].batch \in Batches
    BY <2>1 DEF TxnShape
  <2> QED
    BY <2>1, <2>2 DEF AnnouncedOutcome
<1>4. ASSUME NEW w \in Workers, NEW i \in Items, SilentSend(w, i)
      PROVE  UNCHANGED events
  BY <1>4 DEF SilentSend
<1>5. ASSUME QueueStep
      PROVE  \/ UNCHANGED events
             \/ \E w \in Workers :
                   \/ \E i \in Items : AnnouncedSuccess(w, i) \/ AnnouncedRefusal(w, i)
                   \/ AnnouncedCommit(w) \/ AnnouncedAbort(w)
  BY <1>4, <1>5 DEF QueueStep
<1>6. CASE QueueStep
  BY <1>1, <1>2, <1>3, <1>5, <1>6, EventNames
<1>7. CASE UNCHANGED <<queue, events>> \/ \E m \in broker : Conclude(m) \/ WorkerLost(m)
  BY <1>7
<1> QED
  BY <1>6, <1>7 DEF EventsNext

\* Apart from the commit of process_batch and a copy that is saved back, no step
\* gives a batch an outcome.
LEMMA OutcomesComeFromCommits ==
    ASSUME Inductive, [EventsNext]_<<queue, events>>, NEW b \in Batches,
           batch'[b].status \in Finished
    PROVE  \/ batch'[b].status = batch[b].status
           \/ \E w \in Workers : /\ AnnouncedCommit(w)
                                 /\ AnnouncedOutcome(w) = BatchEvent(b, batch'[b].status)
           \/ \E w \in Workers : Saves(w, b) /\ batch'[b] = txn[w].row
<1> USE DEF Inductive
<1>0. txn \in [Workers -> Txn] /\ batch \in [Batches -> BatchRow]
  BY DEF TypeOK
<1>1. CASE BatchStep
  BY <1>1, BatchEffect DEF Finished
<1>2. CASE UNCHANGED batch
  BY <1>2
<1>3. ASSUME NEW w \in Workers, CancelCommit(w)
      PROVE  batch'[b].status = batch[b].status
  <2>1. txn[w].row.status = "CANCELLED"
    BY <1>3 DEF CancelCommit, Prepared
  <2> QED
    BY <1>0, <1>3, <2>1 DEF CancelCommit, Finished
<1>4. ASSUME NEW w \in Workers, RefreshWrite(w)
      PROVE  batch'[b].status = batch[b].status
  BY <1>0, <1>4 DEF RefreshWrite, BatchRow
<1>4a. ASSUME NEW w \in Workers, UpdateSave(w)
       PROVE  \/ batch'[b].status = batch[b].status
              \/ Saves(w, b) /\ batch'[b] = txn[w].row
  BY <1>0, <1>4a DEF UpdateSave, Saves
<1>5. ASSUME NEW w \in Workers, AnnouncedCommit(w)
      PROVE  \/ batch'[b].status = batch[b].status
             \/ AnnouncedOutcome(w) = BatchEvent(b, batch'[b].status)
  <2> DEFINE s == FinalStatus(txn[w].ok, txn[w].bad)
             row == TransitionTo(txn[w].row, s)
             total == TotalAmount(txn[w].batch, ItemsSeenBy(w))
  <2>1. batch' = [batch EXCEPT ![txn[w].batch] = [row EXCEPT !.total = total]]
    BY <1>5 DEF AnnouncedCommit, ProcessCommit
  <2>2. txn[w].row \in BatchRow /\ txn[w].ok \in Nat /\ txn[w].bad \in Nat
    BY <1>0 DEF Txn
  <2>3. s \in BatchStatus
    BY <2>2, FinalStatusType DEF Finished, BatchStatus
  <2>4. row \in BatchRow /\ row.status = s
    BY <2>2, <2>3, TransitionToType
  <2>5. AnnouncedOutcome(w) = BatchEvent(txn[w].batch, s)
    BY DEF AnnouncedOutcome
  <2> HIDE DEF s, row, total
  <2>6. CASE b = txn[w].batch
    <3>1. batch'[b] = [row EXCEPT !.total = total]
      BY <1>0, <2>1, <2>6
    <3>2. batch'[b].status = s
      BY <2>4, <3>1 DEF BatchRow
    <3> QED
      BY <2>5, <2>6, <3>2
  <2>7. CASE b # txn[w].batch
    BY <1>0, <2>1, <2>7
  <2> QED
    BY <2>6, <2>7
<1>6. ASSUME SilentStep
      PROVE  \/ BatchStep \/ UNCHANGED batch
             \/ \E w \in Workers : CancelCommit(w) \/ RefreshWrite(w) \/ UpdateSave(w)
  <2>1. Admin => BatchStep \/ \E w \in Workers : BeginStep(w)
    BY DEF Admin, BatchStep, BeginStep
  <2>2. \A w \in Workers : BeginStep(w) => UNCHANGED batch
    BY BeginEffect
  <2>3. \A w \in Workers :
           (\E c \in Batches : ProcessBegin(w, c)) \/ (\E S \in SUBSET Items : RetryBegin(w, S))
              => BeginStep(w)
    BY DEF BeginStep
  <2>4. ASSUME NEW w \in Workers,
               \/ ProcessDeduct(w) \/ ProcessUnreserved(w) \/ ProcessDeductFails(w)
               \/ ProcessSelect(w) \/ ItemsCommit(w) \/ UpdateClean(w) \/ Abort(w)
        PROVE  UNCHANGED batch
    BY <2>4 DEF ProcessDeduct, ProcessUnreserved, ProcessDeductFails, UpdateClean,
                ProcessSelect, ItemsCommit, Abort, Rollback
  <2>5. \A i \in Items : LatePay(i) => UNCHANGED batch
    BY DEF LatePay
  <2>6. ASSUME NEW w \in Workers,
               \/ \E c \in Batches : ProcessBegin(w, c)
               \/ \E S \in SUBSET Items : RetryBegin(w, S)
               \/ ProcessDeduct(w) \/ ProcessUnreserved(w) \/ ProcessDeductFails(w)
               \/ ProcessSelect(w) \/ ItemsCommit(w) \/ CancelCommit(w) \/ RefreshWrite(w)
               \/ UpdateClean(w) \/ UpdateSave(w) \/ Abort(w)
        PROVE  UNCHANGED batch \/ CancelCommit(w) \/ RefreshWrite(w) \/ UpdateSave(w)
    BY <2>2, <2>3, <2>4, <2>6
  <2> QED
    BY <1>6, <2>1, <2>2, <2>5, <2>6 DEF SilentStep
<1>7. ASSUME NEW w \in Workers, NEW i \in Items,
             AnnouncedSuccess(w, i) \/ AnnouncedRefusal(w, i) \/ SilentSend(w, i)
      PROVE  UNCHANGED batch
  <2>1. Send(w, i)
    BY <1>7 DEF AnnouncedSuccess, AnnouncedRefusal, SilentSend, Send
  <2> QED
    BY <2>1, SendEffect DEF Committed
<1>8. \A w \in Workers : AnnouncedAbort(w) => UNCHANGED batch
  BY DEF AnnouncedAbort, Rollback
<1>9. \A m : Conclude(m) \/ WorkerLost(m) => UNCHANGED batch
  BY DEF Conclude, WorkerLost, queue
<1>10. UNCHANGED <<queue, events>> => UNCHANGED batch
  BY DEF queue
<1> QED
  BY <1>1, <1>2, <1>3, <1>4, <1>4a, <1>5, <1>6, <1>7, <1>8, <1>9, <1>10
     DEF EventsNext, QueueStep

\* A copy is loaded from a row whose outcome was announced.
LEMMA CopiesToldStep ==
    ASSUME Inductive, OutcomeIsAnnounced, CopiesTold, [Next]_vars,
           \A e \in Event : Announced(e) => Announced(e)'
    PROVE  CopiesTold'
<1> USE DEF Inductive
<1>0. txn \in [Workers -> Txn]
  BY DEF TypeOK
<1> DEFINE Told(t) == t.at \in {"update", "save"} /\ t.row.status \in Finished =>
                         calls'[BatchEvent(t.batch, t.row.status)] > 0
<1>1. \A w \in Workers : Told(txn[w])
  <2> SUFFICES ASSUME NEW w \in Workers,
                      txn[w].at \in {"update", "save"}, txn[w].row.status \in Finished
               PROVE  calls'[BatchEvent(txn[w].batch, txn[w].row.status)] > 0
    OBVIOUS
  <2>1. BatchEvent(txn[w].batch, txn[w].row.status) \in Event
    BY EventNames DEF TxnShape
  <2> QED
    BY <2>1 DEF CopiesTold, Announced
<1>2. CASE UNCHANGED vars \/ BatchStep \/ \E i \in Items : LatePay(i)
  <2>1. txn' = txn
    BY <1>2, BatchEffect DEF vars, LatePay
  <2> QED
    BY <1>1, <2>1 DEF CopiesTold, Announced
<1>3. ASSUME NEW w \in Workers, OthersKeep(w), Told(txn'[w])
      PROVE  CopiesTold'
  BY <1>1, <1>3 DEF OthersKeep, CopiesTold, Announced
<1>4. ASSUME NEW w \in Workers, BeginStep(w)
      PROVE  CopiesTold'
  <2>1. OthersKeep(w) /\ txn'[w].at # "save"
    BY <1>4, BeginEffect
  <2>2. txn'[w].at = "update" => txn'[w].batch \in Batches /\ txn'[w].row = batch[txn'[w].batch]
    BY <1>4, BeginEffect
  <2>3. ASSUME NEW b \in Batches, batch[b].status \in Finished
        PROVE  calls'[BatchEvent(b, batch[b].status)] > 0
    <3>1. BatchEvent(b, batch[b].status) \in Event
      BY EventNames
    <3> QED
      BY <2>3, <3>1 DEF OutcomeIsAnnounced, Announced
  <2>4. Told(txn'[w])
    BY <2>1, <2>2, <2>3
  <2> QED
    BY <1>3, <2>1, <2>4
<1>5. ASSUME NEW w \in Workers,
             \/ ProcessDeduct(w) \/ ProcessSelect(w) \/ RecordStep(w) \/ AdvanceStep(w)
      PROVE  CopiesTold'
  <2>1. /\ OthersKeep(w) /\ txn'[w].batch = txn[w].batch /\ txn'[w].row = txn[w].row
        /\ txn'[w].at \in {"update", "save"} => txn[w].at \in {"update", "save"}
    BY <1>5, DeductEffect, SelectEffect, RecordEffect, AdvanceEffect DEF SameClaim, Sends
  <2>2. Told(txn'[w])
    BY <1>1, <2>1
  <2> QED
    BY <1>3, <2>1, <2>2
<1>6. ASSUME NEW w \in Workers, CommitStep(w) \/ RollbackStep(w)
      PROVE  CopiesTold'
  <2>1. txn' = [txn EXCEPT ![w] = Idle]
    BY <1>6, CommitEffect DEF RollbackStep
  <2>2. OthersKeep(w) /\ txn'[w].at = "idle"
    BY <1>0, <2>1, IdleHoldsNothing DEF OthersKeep
  <2> QED
    BY <1>3, <2>2
<1> QED
  BY <1>2, <1>4, <1>5, <1>6, StepKinds

\* An item becomes SUCCESS with the commit of a session that wrote it so.
LEMMA SuccessesComeFromCommits ==
    ASSUME Inductive, [Next]_vars, NEW i \in Items,
           item'[i] # item[i], item'[i].status = "SUCCESS"
    PROVE  \E w \in Workers : i \in txn[w].held /\ item'[i] = txn[w].rows[i]
<1> USE DEF Inductive
<1>1. ~BatchStep
  BY BatchEffect
<1>2. ASSUME NEW w \in Workers, CommitStep(w)
      PROVE  i \in txn[w].held /\ item'[i] = txn[w].rows[i]
  BY <1>2, CommitEffect DEF ItemsSeenBy
<1>3. ASSUME NEW w \in Workers,
             \/ BeginStep(w) \/ ProcessDeduct(w) \/ ProcessSelect(w)
             \/ RecordStep(w) \/ RollbackStep(w) \/ AdvanceStep(w)
      PROVE  item' = item
  BY <1>3, BeginEffect, DeductEffect, SelectEffect
     DEF RecordStep, RollbackStep, AdvanceStep, Committed
<1>4. UNCHANGED vars \/ (\E j \in Items : LatePay(j)) => item' = item
  BY DEF vars, LatePay
<1> QED
  BY <1>1, <1>2, <1>3, <1>4, StepKinds

\* A step without a signal opens, closes or carries on a transaction; it records
\* nothing that the gateway said.
LEMMA SilentKinds ==
    ASSUME TypeOK, SilentStep
    PROVE  \/ BatchStep
           \/ \E i \in Items : LatePay(i)
           \/ \E w \in Workers :
                 \/ BeginStep(w) \/ ProcessDeduct(w) \/ ProcessSelect(w) \/ AdvanceStep(w)
                 \/ txn' = [txn EXCEPT ![w] = Idle]
<1>1. Admin => BatchStep \/ \E w \in Workers : BeginStep(w)
  BY DEF Admin, BatchStep, BeginStep
<1>2. ASSUME NEW w \in Workers,
             (\E b \in Batches : ProcessBegin(w, b)) \/ (\E S \in SUBSET Items : RetryBegin(w, S))
      PROVE  BeginStep(w)
  BY <1>2 DEF BeginStep
<1>3. ASSUME NEW w \in Workers,
             \/ ProcessDeductFails(w) \/ ItemsCommit(w) \/ CancelCommit(w)
             \/ RefreshWrite(w) \/ UpdateSave(w) \/ Abort(w)
      PROVE  txn' = [txn EXCEPT ![w] = Idle]
  BY <1>3 DEF ProcessDeductFails, ItemsCommit, CancelCommit, RefreshWrite, UpdateSave, Abort,
              Rollback
<1>4. ASSUME NEW w \in Workers, ProcessUnreserved(w) \/ UpdateClean(w)
      PROVE  AdvanceStep(w) \/ txn' = [txn EXCEPT ![w] = Idle]
  BY <1>4, AdvanceOrRollback DEF RollbackStep
<1> QED
  BY <1>1, <1>2, <1>3, <1>4 DEF SilentStep

\* What a call of the gateway that is not announced as a success records: one
\* more attempt, or a success of the retry loop.
Unannounced(w, i, row, ok, bad) ==
    /\ txn' = [txn EXCEPT ![w].todo    = @ \ {i},
                          ![w].rows[i] = row,
                          ![w].ok      = ok,
                          ![w].bad     = bad]
    /\ \/ row.status = "RETRYING"
       \/ txn[w].at = "retry" /\ row.retry = txn[w].rows[i].retry

\* Such a call has no other effect on its session than a rollback.
LEMMA UnannouncedOutcome ==
    ASSUME Inductive, NEW w \in Workers, NEW i \in Items,
           AnnouncedRefusal(w, i) \/ SilentSend(w, i)
    PROVE  /\ i \in txn[w].todo
           /\ \/ txn' = [txn EXCEPT ![w] = Idle]
              \/ \E row \in ItemRow, ok \in Nat, bad \in Nat : Unannounced(w, i, row, ok, bad)
<1> USE DEF Inductive
<1>0. /\ txn \in [Workers -> Txn] /\ txn[w].rows[i] \in ItemRow
      /\ txn[w].ok \in Nat /\ txn[w].bad \in Nat
  BY DEF TypeOK, Txn
<1>1. ASSUME RecordFailure(w, i), txn[w].at \in Sends, i \in txn[w].todo
      PROVE  \/ txn' = [txn EXCEPT ![w] = Idle]
             \/ \E row \in ItemRow, ok \in Nat, bad \in Nat :
                   Outcome(w, i, row, ok, bad) /\ row.status = "RETRYING"
  BY <1>1, FailureEffect
<1>2. ASSUME \/ SendNoReference(w, i) \/ SendTimeout(w, i)
             \/ SendError(w, i) \/ SendInsufficient(w, i)
      PROVE  /\ txn[w].at \in Sends /\ i \in txn[w].todo
             /\ Rollback(w) \/ RecordFailure(w, i)
  BY <1>2 DEF SendNoReference, SendTimeout, SendError, SendInsufficient, Sending, Sends
<1>3. CASE txn[w].at = "retry" /\ SendSuccess(w, i)
  <2> DEFINE row == MarkSuccess(txn[w].rows[i])
  <2>1. row \in ItemRow /\ row.retry = txn[w].rows[i].retry
    BY <1>0 DEF MarkSuccess, ItemRow, ItemStatus
  <2>2. /\ i \in txn[w].todo
        /\ txn' = [txn EXCEPT ![w].todo    = @ \ {i},
                              ![w].rows[i] = row,
                              ![w].ok      = @ + 1]
    BY <1>3 DEF SendSuccess, Sending
  <2> HIDE DEF row
  <2>3. txn' = [txn EXCEPT ![w].todo    = @ \ {i},
                           ![w].rows[i] = row,
                           ![w].ok      = txn[w].ok + 1,
                           ![w].bad     = txn[w].bad]
    BY <1>0, <2>2 DEF Txn
  <2>4. txn[w].ok + 1 \in Nat
    BY <1>0
  <2>5. Unannounced(w, i, row, txn[w].ok + 1, txn[w].bad)
    BY <1>3, <2>1, <2>3 DEF Unannounced
  <2> QED
    BY <1>0, <2>1, <2>2, <2>4, <2>5
<1>4. CASE \/ SendNoReference(w, i) \/ SendTimeout(w, i)
           \/ SendError(w, i) \/ SendInsufficient(w, i)
  <2>1. \A row \in ItemRow, ok \in Nat, bad \in Nat :
           Outcome(w, i, row, ok, bad) /\ row.status = "RETRYING" => Unannounced(w, i, row, ok, bad)
    BY DEF Outcome, Unannounced
  <2> QED
    BY <1>1, <1>2, <1>4, <2>1 DEF Rollback
<1> QED
  BY <1>3, <1>4 DEF AnnouncedRefusal, SilentSend

\* A session holds a first success only once that is announced: in process_batch
\* the signal comes with mark_success, and the retry loop has no first attempts.
LEMMA SuccessesAreTold ==
    ASSUME EventsInductive, [EventsNext]_<<queue, events>>,
           NEW v \in Workers, NEW i \in txn'[v].held,
           txn'[v].rows[i].status = "SUCCESS", txn'[v].rows[i].retry = 0,
           ~(i \in txn[v].held /\ txn'[v].rows[i] = txn[v].rows[i])
    PROVE  calls'[SuccessEvent(i)] > 0
<1> USE DEF EventsInductive
<1>0. /\ TypeOK /\ txn \in [Workers -> Txn]
      /\ txn[v].held \in SUBSET Items /\ txn[v].todo \subseteq txn[v].held
  BY DEF Inductive, TypeOK, Txn, TxnShape
<1>1. txn' # txn
  OBVIOUS
<1>2. \A w \in Workers : txn' # [txn EXCEPT ![w] = Idle]
  <2>1. Idle.held = {}
    BY IdleHoldsNothing
  <2> QED
    BY <1>0, <2>1
<1>3. ASSUME NEW w \in Workers,
             BeginStep(w) \/ ProcessDeduct(w) \/ ProcessSelect(w) \/ AdvanceStep(w)
      PROVE  FALSE
  <2>1. OthersKeep(w)
    BY <1>0, <1>3, BeginEffect, DeductEffect, SelectEffect, AdvanceEffect
  <2>2. v = w
    BY <2>1 DEF OthersKeep
  <2>3. CASE ProcessDeduct(w) \/ AdvanceStep(w)
    BY <1>0, <2>2, <2>3, DeductEffect, AdvanceEffect DEF SameClaim
  <2>4. CASE BeginStep(w) \/ ProcessSelect(w)
    <3>1. /\ txn'[w].held \in SUBSET Items
          /\ \E s \in {"PROCESSING", "CANCELLED", "SKIPPED"} :
                txn'[w].rows = Claim(txn'[w].held, s)
      BY <1>0, <2>4, BeginEffect, SelectEffect
    <3>2. txn'[w].rows[i].status # "SUCCESS"
      BY <1>0, <2>2, <3>1, ClaimType DEF ItemStatus
    <3> QED
      BY <2>2, <3>2
  <2> QED
    BY <1>3, <2>3, <2>4
<1>4. ~SilentStep
  <2>1. BatchStep \/ (\E j \in Items : LatePay(j)) => txn' = txn
    BY <1>0, BatchEffect DEF LatePay
  <2> QED
    BY <1>0, <1>1, <1>2, <1>3, <2>1, SilentKinds
<1>5. \A m : ~(Conclude(m) \/ WorkerLost(m))
  BY <1>1 DEF Conclude, WorkerLost, queue
<1>6. ~UNCHANGED <<queue, events>>
  BY <1>1 DEF queue
<1>7. \A w \in Workers : ~AnnouncedCommit(w) /\ ~AnnouncedAbort(w)
  BY <1>2 DEF AnnouncedCommit, ProcessCommit, AnnouncedAbort, Rollback
<1>8. ASSUME NEW w \in Workers, NEW j \in Items, AnnouncedRefusal(w, j) \/ SilentSend(w, j)
      PROVE  FALSE
  <2>0. PICK row \in ItemRow, ok \in Nat, bad \in Nat : Unannounced(w, j, row, ok, bad)
    BY <1>2, <1>8, UnannouncedOutcome
  <2>1. /\ txn' = [txn EXCEPT ![w].todo    = @ \ {j},
                              ![w].rows[j] = row,
                              ![w].ok      = ok,
                              ![w].bad     = bad]
        /\ \/ row.status = "RETRYING"
           \/ txn[w].at = "retry" /\ row.retry = txn[w].rows[j].retry
    BY <2>0 DEF Unannounced
  <2>2. j \in txn[w].todo
    BY <1>8, UnannouncedOutcome
  <2>3. w = v
    BY <1>0, <2>1
  <2>4. /\ txn'[v].held = txn[v].held
        /\ \A k \in Items \ {j} : txn'[v].rows[k] = txn[v].rows[k]
        /\ txn'[v].rows[j] = row
    BY <1>0, <2>1, <2>3 DEF Txn
  <2>5. i = j /\ row.status = "SUCCESS" /\ row.retry = 0
    BY <1>0, <2>4
  <2>6. txn[v].at = "retry" => txn[v].rows[j].retry > 0
    BY <2>2, <2>3 DEF FirstAttempt
  <2> QED
    BY <2>1, <2>3, <2>5, <2>6
<1>9. ASSUME NEW w \in Workers, NEW j \in Items, AnnouncedSuccess(w, j)
      PROVE  calls'[SuccessEvent(i)] > 0
  <2>1. /\ txn' = [txn EXCEPT ![w].todo    = @ \ {j},
                              ![w].rows[j] = MarkSuccess(@),
                              ![w].ok      = @ + 1]
        /\ Announce(SuccessEvent(j))
    BY <1>9 DEF AnnouncedSuccess, SendSuccess, SuccessEvent
  <2>2. i = j
    BY <1>0, <2>1 DEF Txn
  <2> QED
    BY <2>1, <2>2, AnnounceEffect, EventNames
<1> QED
  BY <1>4, <1>5, <1>6, <1>7, <1>8, <1>9 DEF EventsNext, QueueStep

-----------------------------------------------------------------------------
(* The invariant *)

LEMMA EventsInitInductive == EventsInit => EventsInductive
<1> SUFFICES ASSUME EventsInit PROVE EventsInductive
  OBVIOUS
<1> USE EventsAssumption
<1>1. Init /\ calls = [e \in Event |-> 0] /\ broker = {} /\ ended = {}
  BY DEF EventsInit
<1>2. Inductive
  BY <1>1, InitInductive
<1>3. /\ \A i \in Items : item[i].status = "ABSENT"
      /\ \A w \in Workers : txn[w].at = "idle" /\ txn[w].held = {}
      /\ \A b \in Batches : batch[b].status = "ABSENT"
  BY <1>1 DEF Init, NoItem, NoRow, Idle
<1>4. FirstAttempt /\ FirstSuccessTold /\ FirstSuccessIsAnnounced
  BY <1>3 DEF FirstAttempt, FirstSuccessTold, FirstSuccessIsAnnounced
<1>5. EventsTypeOK /\ NoCallIsLost
  BY <1>1 DEF EventsTypeOK, NoCallIsLost
<1>6. SuccessEventsPaid
  <2>1. \A i \in Items : calls[SuccessEvent(i)] = 0
    BY <1>1, EventNames
  <2> QED
    BY <2>1 DEF SuccessEventsPaid, Announced, SuccessEvent
<1>7. OutcomeIsAnnounced /\ CopiesTold
  BY <1>3 DEF OutcomeIsAnnounced, CopiesTold, Finished
<1> QED
  BY <1>2, <1>4, <1>5, <1>6, <1>7 DEF EventsInductive

LEMMA EventsNextInductive ==
    ASSUME EventsInductive, [EventsNext]_<<queue, events>>
    PROVE  EventsInductive'
<1> USE DEF EventsInductive
<1>1. [Next]_vars
  BY EventsAreQueueSteps
<1>2. Inductive' /\ FirstAttempt'
  BY <1>1, NextInductive, FirstAttemptStep
<1>3. /\ EventsTypeOK' /\ NoCallIsLost'
      /\ \A e \in Event : Announced(e) => Announced(e)'
      /\ \A i \in Items : Announced(SuccessEvent(i))' =>
            Announced(SuccessEvent(i)) \/ gateway'[i].paid > 0
  <2>1. CASE UNCHANGED events
    BY <2>1 DEF events, EventsTypeOK, NoCallIsLost, Announced
  <2>2. CASE \E m : Conclude(m) \/ WorkerLost(m)
    BY <2>2, DeliveryEffect DEF Announced
  <2>3. ASSUME NEW e \in Event, Announce(e),
               \A i \in Items : e = SuccessEvent(i) => gateway'[i].paid > 0
        PROVE  /\ EventsTypeOK' /\ NoCallIsLost'
               /\ \A f \in Event : Announced(f) => Announced(f)'
               /\ \A i \in Items : Announced(SuccessEvent(i))' =>
                     Announced(SuccessEvent(i)) \/ gateway'[i].paid > 0
    BY <2>3, AnnounceEffect, EventNames DEF Announced
  <2> QED
    BY <2>1, <2>2, <2>3, EventKinds
<1>4. SuccessEventsPaid'
  <2>1. \A i \in Items : gateway[i].paid > 0 => gateway'[i].paid > 0
    BY <1>1, PaymentsStay DEF Inductive
  <2> QED
    BY <1>3, <2>1 DEF SuccessEventsPaid, SuccessEvent, Announced
<1>5. OutcomeIsAnnounced'
  <2> SUFFICES ASSUME NEW b \in Batches, batch'[b].status \in Finished
               PROVE  calls'[BatchEvent(b, batch'[b].status)] > 0
    BY DEF OutcomeIsAnnounced, Announced
  <2>1. BatchEvent(b, batch'[b].status) \in Event
    BY EventNames
  <2>2. CASE batch'[b].status = batch[b].status
    <3>1. Announced(BatchEvent(b, batch[b].status))
      BY <2>2 DEF OutcomeIsAnnounced
    <3>2. calls[BatchEvent(b, batch[b].status)] > 0 => calls'[BatchEvent(b, batch[b].status)] > 0
      BY <1>3, <2>1, <2>2 DEF Announced
    <3> QED
      BY <2>2, <3>1, <3>2 DEF Announced
  <2>3. ASSUME NEW w \in Workers, AnnouncedCommit(w),
               AnnouncedOutcome(w) = BatchEvent(b, batch'[b].status)
        PROVE  calls'[BatchEvent(b, batch'[b].status)] > 0
    <3> DEFINE e == BatchEvent(b, batch'[b].status)
    <3>1. Announce(e)
      BY <2>3 DEF AnnouncedCommit
    <3>2. calls'[e] > 0
      BY <2>1, <3>1, AnnounceEffect
    <3> QED
      BY <3>2
  <2>4. ASSUME NEW w \in Workers, Saves(w, b), batch'[b] = txn[w].row
        PROVE  calls'[BatchEvent(b, batch'[b].status)] > 0
    <3>1. calls[BatchEvent(b, batch'[b].status)] > 0
      BY <2>4 DEF Saves, CopiesTold, Announced
    <3> QED
      BY <1>3, <2>1, <3>1 DEF Announced
  <2> QED
    BY <2>2, <2>3, <2>4, OutcomesComeFromCommits
<1>5a. CopiesTold'
  BY <1>1, <1>3, CopiesToldStep
<1>6. FirstSuccessTold' /\ FirstSuccessIsAnnounced'
  <2>0. /\ txn \in [Workers -> Txn]
        /\ \A w \in Workers : txn'[w].held \in SUBSET Items
    BY <1>2 DEF Inductive, TypeOK, Txn
  <2>1. \A i \in Items : calls[SuccessEvent(i)] > 0 => calls'[SuccessEvent(i)] > 0
    BY <1>3, EventNames DEF Announced
  <2>2. ASSUME NEW w \in Workers, NEW i \in txn'[w].held,
               txn'[w].rows[i].status = "SUCCESS", txn'[w].rows[i].retry = 0
        PROVE  calls'[SuccessEvent(i)] > 0
    <3>1. CASE i \in txn[w].held /\ txn'[w].rows[i] = txn[w].rows[i]
      <4>1. calls[SuccessEvent(i)] > 0
        BY <2>2, <3>1 DEF FirstSuccessTold, Announced, SuccessEvent
      <4> QED
        BY <2>0, <2>1, <4>1
    <3> QED
      BY <2>2, <3>1, SuccessesAreTold
  <2>3. ASSUME NEW i \in Items, item'[i].status = "SUCCESS", item'[i].retry = 0
        PROVE  calls'[SuccessEvent(i)] > 0
    <3>1. CASE item'[i] = item[i]
      BY <2>1, <2>3, <3>1 DEF FirstSuccessIsAnnounced, Announced, SuccessEvent
    <3>2. CASE item'[i] # item[i]
      <4>1. PICK w \in Workers : i \in txn[w].held /\ item'[i] = txn[w].rows[i]
        BY <1>1, <2>3, <3>2, SuccessesComeFromCommits
      <4> QED
        BY <2>1, <2>3, <4>1 DEF FirstSuccessTold, Announced, SuccessEvent
    <3> QED
      BY <3>1, <3>2
  <2> QED
    BY <2>2, <2>3 DEF FirstSuccessTold, FirstSuccessIsAnnounced, Announced, SuccessEvent
<1> QED
  BY <1>2, <1>3, <1>4, <1>5, <1>5a, <1>6

-----------------------------------------------------------------------------
(* What follows *)

THEOREM EventsInvariance == EventsSpec => []EventsInductive
<1>1. EventsInductive /\ [EventsNext]_<<queue, events>> => EventsInductive'
  BY EventsNextInductive
<1> QED
  BY EventsInitInductive, <1>1, PTL DEF EventsSpec

\* The broker only holds tasks that were called, within their retries.
THEOREM EventsTypeCorrect == EventsSpec => []EventsTypeOK
<1>1. EventsInductive => EventsTypeOK
  BY DEF EventsInductive
<1> QED
  BY EventsInvariance, <1>1, PTL

\* A merchant who is told of a success was paid, though the platform may have
\* forgotten it.
THEOREM SuccessEventsTrue == EventsSpec => []SuccessEventsPaid
<1>1. EventsInductive => SuccessEventsPaid
  BY DEF EventsInductive
<1> QED
  BY EventsInvariance, <1>1, PTL

\* No item succeeds at its first attempt without its merchant being told.
THEOREM FirstSuccessesAnnounced == EventsSpec => []FirstSuccessIsAnnounced
<1>1. EventsInductive => FirstSuccessIsAnnounced
  BY DEF EventsInductive
<1> QED
  BY EventsInvariance, <1>1, PTL

\* No batch has an outcome that its merchant was not told of.
THEOREM OutcomesAnnounced == EventsSpec => []OutcomeIsAnnounced
<1>1. EventsInductive => OutcomeIsAnnounced
  BY DEF EventsInductive
<1> QED
  BY EventsInvariance, <1>1, PTL

\* However often the workers of deliver_webhook_event die, its calls do not vanish.
THEOREM CallsSurvive == EventsSpec => []NoCallIsLost
<1>1. EventsInductive => NoCallIsLost
  BY DEF EventsInductive
<1> QED
  BY EventsInvariance, <1>1, PTL

\* If a failed item is retried at all, its permanent failure is never announced.
THEOREM PermanentFailureSilent ==
    ASSUME MaxRetryAttempts > 0
    PROVE  EventsSpec => []PermanentFailureNeverAnnounced
<1>1. EventsInit => PermanentFailureNeverAnnounced
  <2> SUFFICES ASSUME EventsInit PROVE PermanentFailureNeverAnnounced
    OBVIOUS
  <2>1. calls = [e \in Event |-> 0]
    BY DEF EventsInit
  <2>2. \A i \in Items : ~(calls[FailureEvent(i)] > 0)
    BY <2>1, EventNames
  <2> QED
    BY <2>2 DEF PermanentFailureNeverAnnounced, Announced, FailureEvent
<1>2. ASSUME EventsInductive, PermanentFailureNeverAnnounced, [EventsNext]_<<queue, events>>
      PROVE  PermanentFailureNeverAnnounced'
  <2> USE <1>2 DEF EventsInductive
  <2>0. \A i \in Items : ~(calls[FailureEvent(i)] > 0)
    BY DEF PermanentFailureNeverAnnounced, Announced, FailureEvent
  <2>1. CASE UNCHANGED events \/ \E m : Conclude(m) \/ WorkerLost(m)
    <3>1. calls' = calls
      BY <2>1, DeliveryEffect DEF events
    <3> QED
      BY <3>1, <2>0 DEF PermanentFailureNeverAnnounced, Announced, FailureEvent
  <2>2. ASSUME NEW e \in Event, Announce(e), \A i \in Items : e # FailureEvent(i)
        PROVE  PermanentFailureNeverAnnounced'
    <3>1. \A i \in Items : calls'[FailureEvent(i)] = calls[FailureEvent(i)]
      BY <2>2, AnnounceEffect, EventNames
    <3> QED
      BY <3>1, <2>0 DEF PermanentFailureNeverAnnounced, Announced, FailureEvent
  <2> QED
    BY <2>1, <2>2, EventKinds
<1> QED
  BY EventsInvariance, <1>1, <1>2, PTL DEF EventsSpec

=============================================================================
