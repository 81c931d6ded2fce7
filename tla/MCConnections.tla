--------------------------- MODULE MCConnections ---------------------------
(***************************************************************************)
(* An instance of Connections for TLC: three connections of one address    *)
(* and two of another.                                                     *)
(***************************************************************************)
EXTENDS Connections, TLC

CONSTANTS i1, i2, k1, k2, k3, k4, k5

TwoPeers == k1 :> i1 @@ k2 :> i1 @@ k3 :> i1 @@ k4 :> i2 @@ k5 :> i2
=============================================================================
