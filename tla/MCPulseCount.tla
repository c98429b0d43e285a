---------------------------- MODULE MCPulseCount ----------------------------
(* PulseCount with two requests; the file b3 is too short for the firmware.*)
EXTENDS PulseCount, TLC

CONSTANTS b1, b2, b3

TwoRequests == {{b1, b2}, {b3}}
MCLength == [b \in Bitstreams |-> IF b = b3 THEN 1 ELSE 2]
Symmetry == Permutations({b1, b2})

(* For the liveness properties any two of three requests, of which two fit.*)
(* Both say nothing of a behaviour in which a message was cut.             *)
OneEach == {{b} : b \in {b1, b2, b3}}
TwoAskedUncut == asked # Requests /\ ~cut
=============================================================================
