\* Two batches of two packets share the connections lock; one sweep falls
\* between any of their steps.
SPECIFICATION FairSpec
CONSTANTS
    Id = {1, 2}
    Size = 2
    DebugAssertions = TRUE
    MaxPrunes = 1
INVARIANTS
    TypeOK
    RecoveredIsWhole
    ReadyIsClaimed
    
PROPERTY OneLossIsRepaired
CHECK_DEADLOCK FALSE
