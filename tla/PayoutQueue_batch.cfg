SPECIFICATION Spec

CONSTANTS
    b1 = b1
    b2 = b2
    i1 = i1
    i2 = i2
    w1 = w1
    w2 = w2
    NoBatch = NoBatch
    BatchOf <- OneBatch
    GrossSum <- UnitGross
    Batches = {b1}
    Items = {i1, i2}
    Workers = {w1, w2}
    Tenanted = {b1}
    WalletInstalled = FALSE
    InitialBalance = 2
    MaxRetryAttempts = 1
    MaxConcurrentBatches = 3
    MaxBatchSize = 2
    Replies = {"success", "noref", "timeout", "insufficient"}
    GatewayIdempotent = TRUE
    Crashes = TRUE
    MaxSends = 2
    MaxOverwrites = 0

SYMMETRY SessionsAndItems

INVARIANTS
    TypeOK
    NeverVisiblyProcessing
    InFlightUndisturbed
    SuccessImpliesPaid
    FailedIsNeverRecorded

PROPERTIES
    ImplementsLifecycle
