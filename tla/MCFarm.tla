------------------------------- MODULE MCFarm -------------------------------
(* Farm on small sets, every board on the one worker.                      *)
EXTENDS Farm

OneHost == [d \in Devices |-> CHOOSE w \in Workers : TRUE]
=============================================================================
