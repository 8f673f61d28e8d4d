SPECIFICATION Spec
CONSTANTS
    Request = {r1}
    Batch = {b1}
    Key = {}
    Session = {s1}
    None = None
    Amount = 2
    Fee = 0
    Sums <- TwoUnits
    Typed = {}
    Endings = {}
    MaxIn = 2
    MaxOut = 0
    MaxRestored = 0
    MaxFrozen = 0
    MaxReturned = 2
    MaxOvertaken = 1
CHECK_DEADLOCK FALSE
PROPERTIES
    CancelledFromOpen
