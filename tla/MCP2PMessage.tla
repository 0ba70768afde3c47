----------------------------- MODULE MCP2PMessage -----------------------------
(***************************************************************************)
(* P2PMessage on small sets of users and messages.                         *)
(***************************************************************************)
EXTENDS P2PMessage

Symmetry == Permutations(Msg)
==============================================================================
