------------------------------ MODULE MCKeyServer ------------------------------
(***************************************************************************)
(* KeyServer on small sets of requests and users.                          *)
(***************************************************************************)
EXTENDS KeyServer, TLC

Symmetry == Permutations(Request)
==============================================================================
