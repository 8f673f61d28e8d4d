-------------------------- MODULE MCRewardInventory --------------------------
(* RewardInventory on small instances. *)
EXTENDS RewardInventory, TLC

CONSTANTS voucher, mug, u1, r1, r2, r3, r4, c1, c2, s1, s2, w1, w2

\* Receipts r1 and r2 are for the voucher, r3 and r4 for the mug.
MCItemOf == [r \in Receipts |-> IF r \in {r3, r4} THEN mug ELSE voucher]
MCUserOf == [r \in Receipts |-> u1]
TwoOfUs   == Permutations(Codes) \cup Permutations(Sessions)
NoneAtAll == [i \in Items |-> 0]
OneOfEach == [i \in Items |-> 1]
Unlimited == [i \in Items |-> -1]
PlusMinus == {-1, 1}
MinusOne == {-1}
==============================================================================
