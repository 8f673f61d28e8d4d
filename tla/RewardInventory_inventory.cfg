SPECIFICATION Spec

CONSTANTS
    voucher = voucher
    mug = mug
    u1 = u1
    r1 = r1
    r2 = r2
    r3 = r3
    r4 = r4
    c1 = c1
    c2 = c2
    s1 = s1
    s2 = s2
    w1 = w1
    w2 = w2
    Items = {mug}
    CodeItems = {}
    Codes = {}
    Receipts = {r3, r4}
    Users = {u1}
    UserOf <- MCUserOf
    ItemOf <- MCItemOf
    Sessions = {s1, s2}
    Workers = {w1}
    NoCode = NoCode
    NoItem = NoItem
    InitialStock <- OneOfEach
    MaxPerUser = 1
    MaxAttempts = 1
    MaxRetries = 0
    Deltas <- MinusOne
    Edited = {mug}
    EditedStocks <- MinusOne
    Crashes = FALSE
    MaxStock = 1
    MaxRecorded = 1

SYMMETRY TwoOfUs

INVARIANTS
    TypeOK
    CapHolds

PROPERTIES
    BecomesUnlimitedByEditOnly
    TrailAccountsForStock

CHECK_DEADLOCK FALSE
