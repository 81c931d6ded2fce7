---------------------------- MODULE MCDiscovery ----------------------------
(***************************************************************************)
(* An instance of Discovery for TLC: a paired peer that reaches the device *)
(* from a public address.  Every operation treats each peer by itself, and *)
(* a list saved by --scan-peers is as stale as one saved for another peer. *)
(***************************************************************************)
EXTENDS Discovery

CONSTANT friend
=============================================================================
