---------------------------- MODULE MCCacheIndex ----------------------------
(***************************************************************************)
(* Instances of CacheIndex for TLC.                                        *)
(***************************************************************************)
EXTENDS CacheIndex, TLC

Interchangeable == Permutations(Keys) \cup Permutations(Varies)
=============================================================================
