---------------------------- MODULE MCPeersStore ----------------------------
(***************************************************************************)
(* Instances of PeersStore for TLC: two OmaIDs, one of them registered.    *)
(***************************************************************************)
EXTENDS PeersStore, TLC

CONSTANTS q1, q2
=============================================================================
