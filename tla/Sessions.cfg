SPECIFICATION Spec
CONSTANTS
    Node = {a, b}
    MaxSession = 2
    MaxConnect = 1
    MaxKey = 2
    MaxAccidents = 1
    Mover = {p, q}
    a = a
    b = b
    p = p
    q = q
SYMMETRY Symmetry
INVARIANTS TypeOK KeysAgree EstablishedWasPromoted WaitingIsKnown TablesAgree
CHECK_DEADLOCK FALSE
