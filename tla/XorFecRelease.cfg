\* One batch in a build without debug assertions.
SPECIFICATION Spec
CONSTANTS
    Id = {1}
    Size = 2
    DebugAssertions = FALSE
    MaxPrunes = 0
INVARIANT RecoveredIsWhole
CHECK_DEADLOCK FALSE
