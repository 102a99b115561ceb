SPECIFICATION Spec
CONSTANTS
    p1 = p1
    p2 = p2
    old = old
    new = new
    None = None
    Nodes = {p1, p2}
    Secrets = {old, new}
    Lists <- MCLists
    Keyspace = 3
    MaxOldKeys = 1
    Rotation = 4
    Tick = 2
    MaxRotations = 3
    MaxTroubles = 1
    MaxStarts = 3
SYMMETRY MCSymmetry
CHECK_DEADLOCK FALSE
INVARIANTS VerifiesExactly ValidLongEnough CanSign
PROPERTIES RenewsForward
