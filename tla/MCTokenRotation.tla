-------------------------- MODULE MCTokenRotation --------------------------
(* Small instance of TokenRotation. *)
EXTENDS TokenRotation
CONSTANT i1
=============================================================================
