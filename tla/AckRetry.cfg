\* Two packets, one of which is never acknowledged, two retries each; two
\* copies of a packet may be judged at once.
SPECIFICATION AckFairSpec
CONSTANTS
    Packet = {p, q}
    Answered = {p}
    MaxRetries = 2
    MaxTasks = 2
    MayClose = TRUE
INVARIANTS
    TypeOK
    SendsBounded
    AckEndsRetries
    PendingIsWatched
    SeenIsTimed
PROPERTY RetriesEnd
CHECK_DEADLOCK FALSE
