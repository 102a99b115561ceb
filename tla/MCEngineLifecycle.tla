-------------------------- MODULE MCEngineLifecycle --------------------------
(* Model-checking instances of EngineLifecycle. *)
EXTENDS EngineLifecycle
CONSTANTS c1, c2, c3
MCCallers == {c1, c2, c3}
===============================================================================
