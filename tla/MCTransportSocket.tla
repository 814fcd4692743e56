------------------------- MODULE MCTransportSocket -------------------------
(***************************************************************************)
(* Instances of TransportSocket for TLC: how many messages the two ends,   *)
(* "A" and "B", post in each run, and what else they may do or suffer.     *)
(***************************************************************************)
EXTENDS TransportLimitsProofs

Ends(a, b) == [e \in Endpoint |-> IF e = "A" THEN a ELSE b]

OneFromA == Ends(1, 0)
TwoFromA == Ends(2, 0)

NoOps == Ends({}, {})
BWaits == Ends({}, {"wait"})
AClosesBCrashes == Ends({"close", "close_after_sending"}, {"crash", "late_hook"})
ASendsAndCloses == Ends({"close_after_sending"}, {})
AnythingAtA == Ends(OpNames \ {"os_error"}, {"crash", "os_error"})

\* In every run the limits are ample for messages of two bytes and two descriptors, the
\* hypothesis of LimitsAreKept; in transport_data none of them could be lower.
ASSUME AmpleLimits == Ample(2, 2)
=============================================================================
