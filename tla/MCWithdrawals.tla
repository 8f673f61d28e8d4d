--------------------------- MODULE MCWithdrawals ---------------------------
(* Withdrawals for TLC. *)
EXTENDS Withdrawals, TLC

OneUnit  == {1}
TwoUnits == {2}

Symmetry == Permutations(Request) \cup Permutations(Session)

=============================================================================
