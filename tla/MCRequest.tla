----------------------------- MODULE MCRequest -----------------------------
(***************************************************************************)
(* Instances of Request for TLC.                                           *)
(***************************************************************************)
EXTENDS Request, TLC

Interchangeable == Permutations(Requests)
=============================================================================
