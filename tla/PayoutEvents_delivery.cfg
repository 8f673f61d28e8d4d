SPECIFICATION FairEventsSpec

CONSTANTS
    b1 = b1
    b2 = b2
    i1 = i1
    i2 = i2
    w1 = w1
    w2 = w2
    NoBatch = NoBatch
    BatchOf <- OneBatch
    GrossSum <- UnitGross
    Batches = {b1}
    Items = {i1}
    Workers = {w1}
    Tenanted = {b1}
    WalletInstalled = FALSE
    InitialBalance = 4
    MaxRetryAttempts = 1
    MaxConcurrentBatches = 3
    MaxBatchSize = 2
    Replies = {"success", "noref", "error", "timeout", "insufficient"}
    GatewayIdempotent = TRUE
    Crashes = TRUE
    MaxSends = 2
    MaxOverwrites = 0
    MaxDeliveryRetries = 1
    MaxCalls = 1

INVARIANTS
    EventsTypeOK
    SuccessEventsPaid
    FirstSuccessIsAnnounced
    OutcomeIsAnnounced
    PermanentFailureNeverAnnounced
    NoCallIsLost

PROPERTIES
    DeliveriesEnd
