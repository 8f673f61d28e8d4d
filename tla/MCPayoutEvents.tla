--------------------------- MODULE MCPayoutEvents ---------------------------
(* Small instances of PayoutEvents for TLC. *)
EXTENDS PayoutEvents, MCPayoutQueue
=============================================================================
