------------------------------ MODULE MCIDLocker ------------------------------
EXTENDS IDLocker

CONSTANTS p1, p2, p3, p4, k1, k2

MCProcs == {p1, p2, p3, p4}
MCIDs == {k1, k2}
===============================================================================
