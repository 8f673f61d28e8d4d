---------------------------- MODULE PayoutEvents ----------------------------
(***************************************************************************)
(* The webhooks of the payout queue: what a run of process_batch announces *)
(* (signals, receivers.py) and how the Celery task deliver_webhook_event   *)
(* brings it to the merchant.                                              *)
(*                                                                         *)
(* The receivers run inside the transaction of the sender, the broker does *)
(* not: a message is on its way before the rows it tells of are committed, *)
(* and a rollback does not take it back.  Every step of PayoutQueue is a   *)
(* step here, with the calls of deliver_webhook_event.delay it makes.      *)
(* One webhook URL is configured (PAYOUT_WEBHOOK_URLS); more get the same  *)
(* independently.                                                          *)
(***************************************************************************)
EXTENDS PayoutQueue

CONSTANTS
    MaxDeliveryRetries,   \* max_retries of deliver_webhook_event
    MaxCalls              \* bound: calls of delay() for one event

ASSUME EventsAssumption ==
    /\ MaxDeliveryRetries \in Nat
    /\ MaxCalls \in Nat

VARIABLES
    calls,    \* calls[e]: how often the receivers called delay() for e
    broker,   \* the messages the broker holds, those being worked on included
    ended     \* the calls that the merchant accepted or refused, or whose end
              \* (unsent, exhausted, raised) is in the logs

events == <<calls, broker, ended>>
queue  == <<batch, item, balance, bridge, overwritten, gateway, txn>>

Event == ({"payout_item_succeeded", "payout_item_permanently_failed"} \X Items)
         \cup ({"payout_batch_completed", "payout_batch_failed"} \X Batches)

\* The nth call for an event is one task; its retries keep the task id.
Call    == [event : Event, nth : 1..MaxCalls]
Message == [call : Call, retries : 0..MaxDeliveryRetries]

-----------------------------------------------------------------------------
(* _emit_webhook_event *)

\* delay() fails when the broker is down; the receiver logs that and goes on.
Announce(e) ==
    LET c == [event |-> e, nth |-> calls[e] + 1]
    IN  /\ calls[e] < MaxCalls
        /\ calls' = [calls EXCEPT ![e] = @ + 1]
        /\ \/ broker' = broker \cup {[call |-> c, retries |-> 0]} /\ ended' = ended
           \/ broker' = broker /\ ended' = ended \cup {c}

BatchEvent(b, status) ==
    IF status = "FAILED" THEN <<"payout_batch_failed", b>>
                         ELSE <<"payout_batch_completed", b>>

\* Faulty variant: the signal goes out before the answer is looked at.
AnnouncedUnseen(w, i) ==
    /\ txn[w].at = "send"
    /\ Send(w, i)
    /\ Announce(<<"payout_item_succeeded", i>>)

\* process_batch announces a success as soon as mark_success has returned.  A
\* worker that dies in between leaves what SendNoReference and Abort leave.
AnnouncedSuccess(w, i) ==
    /\ txn[w].at = "send"
    /\ SendSuccess(w, i)
    /\ Announce(<<"payout_item_succeeded", i>>)

\* A refusal is announced when mark_failed made the item FAILED.
AnnouncedRefusal(w, i) ==
    /\ txn[w].at = "send"
    /\ SendError(w, i)
    /\ IF MarkFailed(txn[w].rows[i]).status = "FAILED"
       THEN Announce(<<"payout_item_permanently_failed", i>>)
       ELSE UNCHANGED events

\* Faulty variant: a success of process_batch may be silent, too.
SilentSendAny(w, i) == Send(w, i) /\ UNCHANGED events

\* The exceptions of a gateway call, and the whole retry loop, send no signal.
SilentSend(w, i) ==
    /\ \/ SendNoReference(w, i) \/ SendTimeout(w, i)
       \/ SendError(w, i) \/ SendInsufficient(w, i)
       \/ txn[w].at = "retry" /\ SendSuccess(w, i)
    /\ UNCHANGED events

AnnouncedOutcome(w) ==
    BatchEvent(txn[w].batch, FinalStatus(txn[w].ok, txn[w].bad))

\* Faulty variant: only good outcomes are announced.
AnnouncedCommitGood(w) ==
    /\ ProcessCommit(w)
    /\ IF txn[w].ok > 0 THEN Announce(AnnouncedOutcome(w)) ELSE UNCHANGED events

AnnouncedCommit(w) ==
    /\ ProcessCommit(w)
    /\ Announce(AnnouncedOutcome(w))

\* The worker dies between the signal of _finalise_batch and the commit.
AnnouncedAbort(w) ==
    /\ Crashes
    /\ txn[w].at = "send"
    /\ txn[w].todo = {}
    /\ Rollback(w)
    /\ UNCHANGED gateway
    /\ Announce(AnnouncedOutcome(w))

-----------------------------------------------------------------------------
(* deliver_webhook_event.  A message stays with the broker until its task   *)
(* has ended (acks_late).                                                   *)

\* Faulty variant: a task that ended is not acknowledged.
AcknowledgeNot(m) == broker' = broker \cup {m}

Acknowledge(m) == broker' = broker \ {m}

\* 2xx: delivered.  4xx: refused, no retry.  At the limit of the retries a 5xx
\* is logged as exhausted; a timeout is raised again inside its own except
\* clause, where the handler of the limit does not see it, and the task fails.
Finish(m) ==
    /\ Acknowledge(m)
    /\ ended' = ended \cup {m.call}

RetryOf(m) == [m EXCEPT !.retries = @ + 1]

\* Faulty variant: no limit.
RetryUnlimited(m) ==
    /\ broker' = (broker \ {m}) \cup {RetryOf(m)}
    /\ UNCHANGED ended

\* 5xx, a timeout or a lost connection: self.retry publishes the task again.
Retry(m) ==
    /\ m.retries < MaxDeliveryRetries
    /\ broker' = (broker \ {m}) \cup {RetryOf(m)}
    /\ UNCHANGED ended

Conclude(m) ==
    /\ m \in broker
    /\ Finish(m) \/ Retry(m)
    /\ UNCHANGED <<queue, calls>>

\* Faulty variant: the message is acknowledged when the task starts.
WorkerLostEarlyAck(m) ==
    /\ m \in broker
    /\ Acknowledge(m)
    /\ UNCHANGED <<queue, calls, ended>>

\* The worker is killed: the broker delivers the message again, whether the
\* POST was accepted, the retry published, or neither.
WorkerLost(m) ==
    /\ m \in broker
    /\ \/ ended' = ended \cup {m.call} /\ UNCHANGED broker
       \/ /\ m.retries < MaxDeliveryRetries
          /\ broker' = broker \cup {RetryOf(m)}
          /\ UNCHANGED ended
    /\ UNCHANGED <<queue, calls>>

-----------------------------------------------------------------------------
EventsInit ==
    /\ Init
    /\ calls = [e \in Event |-> 0]
    /\ broker = {}
    /\ ended = {}

\* The steps of PayoutQueue that send no signal.
SilentStep ==
    \/ Admin
    \/ \E w \in Workers :
          \/ \E b \in Batches : ProcessBegin(w, b)
          \/ \E S \in SUBSET Items : RetryBegin(w, S)
          \/ ProcessDeduct(w) \/ ProcessUnreserved(w) \/ ProcessDeductFails(w)
          \/ ProcessSelect(w) \/ ItemsCommit(w) \/ CancelCommit(w) \/ RefreshWrite(w)
          \/ UpdateClean(w) \/ UpdateSave(w)
          \/ Abort(w)
    \/ \E i \in Items : LatePay(i)

QueueStep ==
    \/ SilentStep /\ UNCHANGED events
    \/ \E w \in Workers :
          \/ \E i \in Items :
                AnnouncedSuccess(w, i) \/ AnnouncedRefusal(w, i) \/ SilentSend(w, i)
          \/ AnnouncedCommit(w) \/ AnnouncedAbort(w)

EventsNext ==
    \/ QueueStep
    \/ \E m \in broker : Conclude(m) \/ WorkerLost(m)

EventsSpec == EventsInit /\ [][EventsNext]_<<queue, events>>

\* A Celery worker takes every message and, some time, is not killed over it.
FairEventsSpec ==
    EventsSpec /\ \A m \in Message : WF_<<queue, events>>(Conclude(m))

-----------------------------------------------------------------------------
(* Properties that hold *)

Announced(e) == calls[e] > 0

\* The broker only holds tasks that were called, within their retries.
EventsTypeOK ==
    /\ calls \in [Event -> 0..MaxCalls]
    /\ broker \subseteq Message
    /\ ended \subseteq Call
    /\ \A c \in ended \cup {m.call : m \in broker} : c.nth <= calls[c.event]

\* A merchant is told of a success only when the gateway has paid, although the
\* success may be forgotten by the rollback of the transaction that tells it.
SuccessEventsPaid ==
    \A i \in Items : Announced(<<"payout_item_succeeded", i>>) => gateway[i].paid > 0

\* A success that others can see was announced to the merchant, when it is one of
\* process_batch: an item that succeeds at its first attempt.
FirstSuccessIsAnnounced ==
    \A i \in Items :
        item[i].status = "SUCCESS" /\ item[i].retry = 0
            => Announced(<<"payout_item_succeeded", i>>)

\* The outcome of a batch that others can see was announced by the run that
\* wrote it: FAILED as failed, COMPLETED and PARTIALLY_COMPLETED as completed.
OutcomeIsAnnounced ==
    \A b \in Batches :
        batch[b].status \in Finished => Announced(BatchEvent(b, batch[b].status))

\* payout_item_permanently_failed is never sent: process_batch takes QUEUED items,
\* which are at their first attempt, and the retry loop sends no signals.
PermanentFailureNeverAnnounced ==
    \A i \in Items : ~Announced(<<"payout_item_permanently_failed", i>>)

\* A call is with the broker, or has ended at the merchant or in the logs: no
\* crash of a Celery worker loses it.
NoCallIsLost ==
    \A e \in Event : \A n \in 1..calls[e] :
        LET c == [event |-> e, nth |-> n]
        IN  c \in ended \/ \E m \in broker : m.call = c

\* Every message is worked off: however often a worker dies, no call is retried
\* for ever.
DeliveriesEnd ==
    \A e \in Event, n \in 1..MaxCalls :
        LET c == [event |-> e, nth |-> n]
        IN  (\E m \in broker : m.call = c) ~> ~(\E m \in broker : m.call = c)

-----------------------------------------------------------------------------
(* What the documentation says and the code does not do *)

\* "Fired after a PayoutItem is successfully processed." (signals.py:16)
SuccessIsAnnounced ==
    \A i \in Items :
        item[i].status = "SUCCESS" => Announced(<<"payout_item_succeeded", i>>)

=============================================================================
