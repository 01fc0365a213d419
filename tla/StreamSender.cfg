\* Three chunks and a tail, batches of two: short last batches, drains that
\* leave some extras behind, and seeks to both sides of last_sent.
SPECIFICATION Spec
CONSTANTS
    Full = 2
    HasTail = TRUE
    BatchSize = 2
    MaxBatch = 3
INVARIANTS
    TypeOK
    SkippedTracked
    LastSentTracked
PROPERTY ExtrasLeaveBySending
CHECK_DEADLOCK FALSE
