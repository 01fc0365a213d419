\* Three chunks in two batches and one for what is asked for again: a packet
\* is lost, a batch and any marker expire, Done comes twice, the application
\* may accept holes.
SPECIFICATION Spec
CONSTANTS
    MaxSeekBatch = 3
    Disturbances = {"loss"}
    Full = 2
    HasTail = TRUE
    BatchSize = 2
    MaxBatch = 3
    MaxLoss = 1
    MaxSeek = 0
    MaxResend = 1
    MaxPrune = 1
    MayExpire = {"loss"}
    MayAcceptHoles = TRUE
INVARIANTS
    TypeOK
    PendingIsMissing
    AskedWasPassed
PROPERTY DeliversWhatIsPromised
CHECK_DEADLOCK FALSE
