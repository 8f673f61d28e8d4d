SPECIFICATION FairSpec

CONSTANTS
    voucher = voucher
    mug = mug
    u1 = u1
    r1 = r1
    r2 = r2
    r3 = r3
    r4 = r4
    c1 = c1
    c2 = c2
    s1 = s1
    s2 = s2
    w1 = w1
    w2 = w2
    Items = {voucher}
    CodeItems = {voucher}
    Codes = {c1}
    Receipts = {r1, r2}
    Users = {u1}
    UserOf <- MCUserOf
    ItemOf <- MCItemOf
    Sessions = {s1}
    Workers = {w1}
    NoCode = NoCode
    NoItem = NoItem
    InitialStock <- NoneAtAll
    MaxPerUser = 1
    MaxAttempts = 2
    MaxRetries = 2
    Deltas = {1}
    Edited = {}
    EditedStocks = {}
    Crashes = TRUE
    MaxStock = 1
    MaxRecorded = 1

INVARIANTS
    DeliveredCodeIsSpent
    SweepFindsNothing

PROPERTIES
    CodesAreSingleUse
    DeliveryEnds

CHECK_DEADLOCK FALSE
