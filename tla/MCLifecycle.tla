----------------------------- MODULE MCLifecycle -----------------------------
(* Model-checking instances of Lifecycle. *)
EXTENDS Lifecycle
CONSTANTS c1, c2, c3
MCCallers == {c1, c2, c3}
===============================================================================
