\* Seven whole chunks and a shorter last one: holes on both sides of the head
\* and scores on both sides of the threshold occur.
SPECIFICATION Spec
CONSTANTS
    Full = 7
    HasTail = TRUE
INVARIANTS
    TypeOK
    AreasSeparated
    AreasMirrorMap
    HeadAtHole
    OnlyOvertakenRequested
PROPERTY HeadNeverRetreats
CHECK_DEADLOCK FALSE
