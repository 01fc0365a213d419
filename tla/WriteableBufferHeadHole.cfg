\* Three whole chunks and a shorter one: a hole at the head, nothing else.
SPECIFICATION Spec
CONSTANTS
    Full = 3
    HasTail = TRUE
INVARIANT HeadHoleRequestable
CHECK_DEADLOCK FALSE
