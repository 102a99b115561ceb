SPECIFICATION GroupSpec
CONSTANTS
    n1 = n1
    n2 = n2
    Nodes = {n1, n2}
    CanExec = {n1, n2}
    InitialNodes = {n1}
    Admins = {n2}
    NoNode = NoNode
    MaxLog = 11
    MaxResets = 2
    MaxExecutes = 1
    MaxTroubles = 1
CHECK_DEADLOCK FALSE
INVARIANTS Agreement PausedDuringExec NoDoubleTask
PROPERTIES Settles
