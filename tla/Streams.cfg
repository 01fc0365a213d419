SPECIFICATION FairSpec
CONSTANTS
    MaxStream = 2
    Length <- TwoThenOne
    MaxTwists = 1
INVARIANTS TypeOK OccupiedIsExplained  EndsAtRequester
PROPERTY RequestsAnswered
CHECK_DEADLOCK FALSE
