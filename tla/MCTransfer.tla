----------------------------- MODULE MCTransfer -----------------------------
(***************************************************************************)
(* Instances of Transfer for TLC.                                          *)
(***************************************************************************)
EXTENDS Transfer, TLC

CONSTANTS s1, s2

\* Files of a batch are interchangeable, and so are deciders.
Interchangeable == Permutations(File) \cup Permutations(Decider)
=============================================================================
