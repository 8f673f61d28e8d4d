---------------------------- MODULE SingleUseCodes ----------------------------
(***************************************************************************)
(* What api/inventory promises of its redemption codes ("a single-use code *)
(* ... pre-loaded and assigned to users at redemption time"): a code is    *)
(* loaded once, leaves the pool once, for one receipt or for nobody, and   *)
(* never comes back to the pool or goes to a second receipt.               *)
(***************************************************************************)
CONSTANTS
    Codes,       \* redemption codes
    Receipts,    \* UserInventory rows
    Nobody       \* the holder of a code that no receipt holds

VARIABLES
    stage,       \* stage[c]: where c is on its way
    holder       \* holder[c]: the receipt that holds c

codeVars == <<stage, holder>>

Stages == {"unloaded", "pool", "held", "withdrawn"}

TypeOK ==
    /\ stage \in [Codes -> Stages]
    /\ holder \in [Codes -> Receipts \cup {Nobody}]

Init ==
    /\ stage = [c \in Codes |-> "unloaded"]
    /\ holder = [c \in Codes |-> Nobody]

MoveAll(S, from, to) ==
    /\ \A c \in S : stage[c] = from
    /\ stage' = [c \in Codes |-> IF c \in S THEN to ELSE stage[c]]

\* New codes enter the pool.
Load(S) == MoveAll(S, "unloaded", "pool") /\ UNCHANGED holder

\* A code leaves the pool for receipt r, which holds no code yet.
Assign(c, r) ==
    /\ MoveAll({c}, "pool", "held")
    /\ \A d \in Codes : holder[d] # r
    /\ holder' = [holder EXCEPT ![c] = r]

\* Codes leave the pool for nobody: they expired or were voided.
Withdraw(S) == MoveAll(S, "pool", "withdrawn") /\ UNCHANGED holder

Next ==
    \/ \E S \in SUBSET Codes : Load(S) \/ Withdraw(S)
    \/ \E c \in Codes, r \in Receipts : Assign(c, r)

Spec == Init /\ [][Next]_codeVars
===============================================================================
