-------------------------- MODULE MCAlertFollowUp ---------------------------
(* A small instance of AlertFollowUp. *)
EXTENDS AlertFollowUp
CONSTANTS u1, u2, e1, e2
=============================================================================
