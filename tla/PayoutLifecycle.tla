--------------------------- MODULE PayoutLifecycle ---------------------------
(***************************************************************************)
(* What the payout queue promises about one payout item, whatever happens  *)
(* to batches, workers, transactions and database rows:                    *)
(*                                                                         *)
(*   - money for an item moves only after the gateway was asked to pay it, *)
(*     and the gateway is asked only while the item is open;               *)
(*   - an item is reported paid only after money moved, and stays paid;    *)
(*   - a dropped item (cancelled or skipped) is never asked for again.     *)
(*                                                                         *)
(* PayoutQueue.tla implements this specification (ImplementsLifecycle).    *)
(***************************************************************************)
CONSTANT Items

VARIABLES
    state,      \* state[i]: what the platform reports of item i
    asked,      \* asked[i]: has the gateway ever been asked to pay i
    moved       \* moved[i]: did the gateway disburse i at least once

lifecycleVars == <<state, asked, moved>>

States == {"absent", "open", "paid", "dropped"}

LifecycleTypeOK ==
    /\ state \in [Items -> States]
    /\ asked \in [Items -> BOOLEAN]
    /\ moved \in [Items -> BOOLEAN]

Init ==
    /\ state = [i \in Items |-> "absent"]
    /\ asked = [i \in Items |-> FALSE]
    /\ moved = [i \in Items |-> FALSE]

\* Payouts are requested together, in one database transaction.
Request(S) ==
    /\ \A i \in S : state[i] = "absent"
    /\ state' = [i \in Items |-> IF i \in S THEN "open" ELSE state[i]]
    /\ UNCHANGED <<asked, moved>>

\* The gateway is asked to pay an open item; it may pay at once.
Ask(i) ==
    /\ state[i] = "open"
    /\ asked' = [asked EXCEPT ![i] = TRUE]
    /\ moved' \in {moved, [moved EXCEPT ![i] = TRUE]}
    /\ UNCHANGED state

\* A request whose answer was lost may still be paid later.
PayLate(i) ==
    /\ asked[i]
    /\ moved' = [moved EXCEPT ![i] = TRUE]
    /\ UNCHANGED <<state, asked>>

\* The outcome of a run becomes visible for a set of items at once.
Report(S) ==
    /\ \A i \in S : state[i] = "open" /\ moved[i]
    /\ state' = [i \in Items |-> IF i \in S THEN "paid" ELSE state[i]]
    /\ UNCHANGED <<asked, moved>>

Drop(i) ==
    /\ state[i] = "open"
    /\ state' = [state EXCEPT ![i] = "dropped"]
    /\ UNCHANGED <<asked, moved>>

Next ==
    \/ \E S \in SUBSET Items : Request(S) \/ Report(S)
    \/ \E i \in Items : Ask(i) \/ PayLate(i) \/ Drop(i)

Spec == Init /\ [][Next]_lifecycleVars

\* A paid item had its money moved, and money moved only on request.
PaidWasAskedAndMoved ==
    \A i \in Items : /\ state[i] = "paid" => moved[i]
                     /\ moved[i] => asked[i]
=============================================================================
