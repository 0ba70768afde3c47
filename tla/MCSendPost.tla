------------------------------ MODULE MCSendPost ------------------------------
(***************************************************************************)
(* SendPost on small sets of messages and tabs.                            *)
(***************************************************************************)
EXTENDS SendPost, TLC

Symmetry == Permutations(Post) \cup Permutations(Tab)
==============================================================================
