------------------------------- MODULE MCNotify -------------------------------
(***************************************************************************)
(* Notify with calls whose arguments overlap; two of them are for posts.   *)
(***************************************************************************)
EXTENDS Notify

CONSTANTS c1, c2, c3, i1, i2

MCArg == [c \in Caller |-> CASE c = c1 -> {i1} [] c = c2 -> {i1, i2} [] c = c3 -> {i2}]
==============================================================================
