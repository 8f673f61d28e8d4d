SPECIFICATION Spec
CONSTANTS
    Request = {r1}
    Batch = {}
    Key = {}
    Session = {s1, s2}
    None = None
    Amount = 2
    Fee = 0
    Sums <- TwoUnits
    Typed = {}
    Endings = {}
    MaxIn = 4
    MaxOut = 0
    MaxRestored = 0
    MaxFrozen = 0
    MaxReturned = 1
    MaxOvertaken = 1
CHECK_DEADLOCK FALSE
INVARIANTS
    NoLostUpdate
