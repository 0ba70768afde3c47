-------------------------------- MODULE MCIcon --------------------------------
(***************************************************************************)
(* Icon, with the channel status it shows, on small sets of tabs, calls    *)
(* and set requests.                                                       *)
(***************************************************************************)
EXTENDS Icon, TLC

Symmetry == Permutations(Client) \cup Permutations(Caller) \cup Permutations(Request)
==============================================================================
