---------------------------- MODULE MCConnection ----------------------------
(***************************************************************************)
(* Instances of Connection for TLC: what the two processes, "C" and "S",   *)
(* send to each other and what else they may do or suffer.                 *)
(***************************************************************************)
EXTENDS Connection

Ends(c, s) == [e \in Endpoint |-> IF e = "C" THEN c ELSE s]

Posts == Ends(0, 1)
Calls == Ends(2, 1)
Trouble == Ends({"misbehaved", "handler_error"}, {"exit_on_death", "crash", "malformed"})
=============================================================================
