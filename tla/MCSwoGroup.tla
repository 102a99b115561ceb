----------------------------- MODULE MCSwoGroup -----------------------------
(* Small instances of SwoGroup. *)
EXTENDS SwoGroup
CONSTANTS n1, n2
=============================================================================
