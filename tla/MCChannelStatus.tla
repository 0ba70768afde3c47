--------------------------- MODULE MCChannelStatus ---------------------------
(***************************************************************************)
(* ChannelStatus on small sets of tabs, calls and set requests.            *)
(***************************************************************************)
EXTENDS ChannelStatus, TLC

Symmetry == Permutations(Client) \cup Permutations(Caller) \cup Permutations(Request)
==============================================================================
