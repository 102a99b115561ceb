SPECIFICATION Spec
CONSTANTS
    c1 = c1
    c2 = c2
    e1 = e1
    e2 = e2
    r1 = r1
    r2 = r2
    Conns = {c1, c2}
    Execs = {e1, e2}
    Rows = {r1, r2}
    Rounds = 1
    MaxWrites = 2
    MaxStarts = 2
    MaxStalls = 1
CHECK_DEADLOCK FALSE
INVARIANTS LostOnlyLate RowsTracked
PROPERTIES AcquireEnds
