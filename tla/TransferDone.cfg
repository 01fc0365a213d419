\* Two chunks in one batch: the recovered one completes the stream.
SPECIFICATION Spec
CONSTANTS
    MaxSeekBatch = 2
    Disturbances = {"loss"}
    Full = 1
    HasTail = TRUE
    BatchSize = 2
    MaxBatch = 2
    MaxLoss = 1
    MaxSeek = 0
    MaxResend = 0
    MaxPrune = 0
    MayExpire = {}
    MayAcceptHoles = FALSE
INVARIANT DoneFreesSession
CHECK_DEADLOCK FALSE
