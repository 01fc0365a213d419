\* Three chunks in two batches, and either a seek at any time (the third batch
\* is for what it skipped) or one lost packet and requests that come early
\* because a mirror entry is too old (four batches are never used up).
SPECIFICATION FairSpec
CONSTANTS
    MaxSeekBatch = 3
    Disturbances = {"loss", "seek"}
    Full = 2
    HasTail = TRUE
    BatchSize = 2
    MaxBatch = 4
    MaxLoss = 1
    MaxSeek = 1
    MaxResend = 0
    MaxPrune = 0
    MayExpire = {"loss"}
    MayAcceptHoles = FALSE
INVARIANTS
    MissingIsAccountedFor
    SenderStopsOnlyWhenDone
PROPERTIES
    DeliversWhatIsPromised
    Completes
CHECK_DEADLOCK FALSE
