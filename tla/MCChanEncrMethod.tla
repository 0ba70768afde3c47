--------------------------- MODULE MCChanEncrMethod ---------------------------
(***************************************************************************)
(* ChanEncrMethod on small sets of requests and channels, without symmetry *)
(* because of the liveness.                                                *)
(***************************************************************************)
EXTENDS ChanEncrMethod
==============================================================================
