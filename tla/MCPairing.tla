----------------------------- MODULE MCPairing -----------------------------
(***************************************************************************)
(* Instances of Pairing for TLC.                                           *)
(***************************************************************************)
EXTENDS Pairing, TLC

CONSTANTS d1, d2, d3, a1, a2, a3

\* d1 offers, d2 completes, in two exchanges at once.
OneWay == {<<d1, d2>>}
OtherWay == {<<d2, d1>>}

\* d2 completes with d1 but may reach d3, which also offers to d2.
OfferTwo == {<<d1, d2>>, <<d3, d2>>}
OneCompletes == {<<d2, d1>>}

\* Exchanges and codes are interchangeable.
Interchangeable == Permutations(Exchange) \cup Permutations(Code)

TwoAddresses == d1 :> a1 @@ d2 :> a2
ThreeAddresses == d1 :> a1 @@ d2 :> a2 @@ d3 :> a3
=============================================================================
