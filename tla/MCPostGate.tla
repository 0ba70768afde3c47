------------------------------ MODULE MCPostGate ------------------------------
(***************************************************************************)
(* PostGate with two configurations that list overlapping sets of types.   *)
(***************************************************************************)
EXTENDS PostGate, TLC

CONSTANTS plain, jitsi

MCConfig == {[bots |-> TRUE, types |-> {jitsi}], [bots |-> FALSE, types |-> {plain, jitsi}]}

Symmetry == Permutations(Post)
==============================================================================
