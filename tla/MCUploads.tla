----------------------------- MODULE MCUploads -----------------------------
(***************************************************************************)
(* Instances of Uploads for TLC.                                           *)
(***************************************************************************)
EXTENDS Uploads, TLC

\* 100 MiB and 25 MiB, in proportion to MemoryLimit.
SizeLimits == [k \in Kind |-> IF k = "sealed" THEN 2 ELSE 3]

Interchangeable == Permutations(Request)
=============================================================================
