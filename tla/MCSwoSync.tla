----------------------------- MODULE MCSwoSync ------------------------------
(* Small instances of SwoSync. *)
EXTENDS SwoSync
CONSTANTS c1, c2, e1, e2, r1, r2
=============================================================================
