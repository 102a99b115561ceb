----------------------------- MODULE MCKeyring ------------------------------
(* A small instance of Keyring: one of the lists is that of a node which   *)
(* has not been given the new secret.                                      *)
EXTENDS Keyring, TLC
CONSTANTS p1, p2, old, new
MCSymmetry == Permutations(Nodes)
MCLists == {<<old>>, <<new, old>>}
=============================================================================
