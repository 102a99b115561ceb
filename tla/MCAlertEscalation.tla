-------------------------- MODULE MCAlertEscalation --------------------------
EXTENDS AlertEscalation

CONSTANTS a1, a2, s1, p1, p2, x1, x2

MCServiceOf == [a \in Alerts |-> s1]
===============================================================================
