---------------------------- MODULE MCPayoutQueue ----------------------------
(* Small instances of PayoutQueue for TLC. *)
EXTENDS PayoutQueue, TLC

CONSTANTS b1, b2, i1, i2, w1, w2

\* Gross amounts: one unit per item, or items of different amounts.
UnitGross  == [S \in SUBSET Items |-> Cardinality(S)]
MixedGross == [S \in SUBSET Items |-> MapThenSumSet(LAMBDA i : IF i = i1 THEN 1 ELSE 2, S)]

OneBatch   == [i \in Items |-> b1]
TwoBatches == [i \in Items |-> IF i = i1 THEN b1 ELSE b2]

SessionsAndItems == Permutations(Workers) \cup Permutations(Items)
=============================================================================
