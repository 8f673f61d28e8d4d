SPECIFICATION FairSpec

CONSTANTS
    b1 = b1
    b2 = b2
    i1 = i1
    i2 = i2
    w1 = w1
    w2 = w2
    NoBatch = NoBatch
    BatchOf <- TwoBatches
    GrossSum <- MixedGross
    Batches = {b1, b2}
    Items = {i1, i2}
    Workers = {w1, w2}
    Tenanted = {b1, b2}
    WalletInstalled = TRUE
    InitialBalance = 2
    MaxRetryAttempts = 1
    MaxConcurrentBatches = 1
    MaxBatchSize = 1
    Replies = {"success", "error"}
    GatewayIdempotent = FALSE
    Crashes = FALSE
    MaxSends = 1
    MaxOverwrites = 0

INVARIANTS
    RowLocksExclusive
    WalletNeverStale
    NoCircularWait
    WalletMovesAddUp

PROPERTIES
    TransactionsEnd
