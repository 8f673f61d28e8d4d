SPECIFICATION Spec
CONSTANTS
    Request = {r1}
    Batch = {b1}
    Key = {k1}
    Session = {s1, s2}
    None = None
    Amount = 2
    Fee = 1
    Sums <- TwoUnits
    Typed = {0}
    Endings = {}
    MaxIn = 4
    MaxOut = 0
    MaxRestored = 0
    MaxFrozen = 0
    MaxReturned = 1
    MaxOvertaken = 1
SYMMETRY Symmetry
CHECK_DEADLOCK FALSE
INVARIANTS
    TypeOK
    SettledOnce
    BatchesPayNobody
    CreditedOnce
PROPERTIES
    RejectedWhilePending
    UnlockedByHand
