------------------------------ MODULE MCReadPost ------------------------------
(***************************************************************************)
(* ReadPost on small sets of posts.                                        *)
(***************************************************************************)
EXTENDS ReadPost

Symmetry == Permutations(Post)
==============================================================================
