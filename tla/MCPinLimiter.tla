---------------------------- MODULE MCPinLimiter ----------------------------
(***************************************************************************)
(* An instance of PinLimiterThreads for TLC.                               *)
(***************************************************************************)
EXTENDS PinLimiterThreads, TLC
=============================================================================
