--------------------------- MODULE MCReservationDB ---------------------------
(* ReservationDB on small sets.                                            *)
EXTENDS ReservationDB, TLC

Symmetry == Permutations(Workers) \union Permutations(Devices) \union Permutations(Clients)
            \union Permutations(Txns)
=============================================================================
