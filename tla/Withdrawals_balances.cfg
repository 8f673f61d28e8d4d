SPECIFICATION Spec
CONSTANTS
    Request = {r1}
    Batch = {}
    Key = {}
    Session = {s1, s2}
    None = None
    Amount = 2
    Fee = 1
    Sums <- TwoUnits
    Typed = {}
    Endings = {"APPROVED", "REJECTED"}
    MaxIn = 2
    MaxOut = 2
    MaxRestored = 2
    MaxFrozen = 2
    MaxReturned = 1
    MaxOvertaken = 0
SYMMETRY Symmetry
CHECK_DEADLOCK FALSE
INVARIANTS
    FundsAccounted
