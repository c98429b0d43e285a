---------------------------- MODULE MCClientLib ----------------------------
(* Both boards on one worker, or one on each of two.                       *)
EXTENDS ClientLib

SameHost == [s \in Serials |-> CHOOSE w \in Workers : TRUE]
=============================================================================
