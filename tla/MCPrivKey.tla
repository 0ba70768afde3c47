------------------------------- MODULE MCPrivKey -------------------------------
(***************************************************************************)
(* PrivKey on small sets of browsers and calls.                            *)
(***************************************************************************)
EXTENDS PrivKey, TLC

Symmetry == Permutations(Device) \cup Permutations(Task)
==============================================================================
