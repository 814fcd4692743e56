---------------------------- MODULE MCDiskCache ----------------------------
(***************************************************************************)
(* Instances of DiskCache for TLC.                                         *)
(***************************************************************************)
EXTENDS DiskCache, TLC

Interchangeable == Permutations(Requests) \cup Permutations(Varies)
=============================================================================
