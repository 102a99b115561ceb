SPECIFICATION Spec
CONSTANTS
    MaxAttempts = 2
    Inspectors = {i1}
    MaxTime = 4
    Overlaps = {4}
    BeginLimit = 2
    CASLimit = 1
    DiscardLimit = 1
    RecoveryLimit = 1
    Gone = Gone
    Nobody = Nobody
    i1 = i1
CHECK_DEADLOCK FALSE
INVARIANTS TokenAccepted NoOrphanPair ResultsTruthful
PROPERTIES CasInsideOverlap
