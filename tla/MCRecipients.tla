----------------------------- MODULE MCRecipients -----------------------------
(***************************************************************************)
(* Recipients on small sets of users and calls.                            *)
(***************************************************************************)
EXTENDS Recipients

Symmetry == Permutations(Call) \cup Permutations(User)
==============================================================================
