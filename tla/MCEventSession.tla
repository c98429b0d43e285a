--------------------------- MODULE MCEventSession ---------------------------
(* EventSession on small sets.                                             *)
EXTENDS EventSession, TLC

Symmetry == Permutations(Messages) \union Permutations(Sockets)
=============================================================================
