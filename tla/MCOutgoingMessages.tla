-------------------------- MODULE MCOutgoingMessages --------------------------
EXTENDS OutgoingMessages

CONSTANTS e1, e2, m1, m2

MCMsgs == {m1, m2}
===============================================================================
