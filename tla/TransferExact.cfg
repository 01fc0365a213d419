\* A whole chunk, and none shorter after it: the receiver has to ask for the
\* empty last packet, and one seek crosses its request.
SPECIFICATION FairSpec
CONSTANTS
    MaxSeekBatch = 3
    Disturbances = {"seek"}
    Full = 1
    HasTail = FALSE
    BatchSize = 2
    MaxBatch = 3
    MaxLoss = 0
    MaxSeek = 1
    MaxResend = 0
    MaxPrune = 0
    MayExpire = {"seek"}
    MayAcceptHoles = FALSE
PROPERTY CompletesWithinBound
CHECK_DEADLOCK FALSE
