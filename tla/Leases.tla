------------------------------- MODULE Leases -------------------------------
(***************************************************************************)
(* What the reservation procedures promise, whatever they interleave with: *)
(* a device has one holder at a time; a client gets all the devices of one *)
(* answer or none, and only free ones; and a device passes from a client   *)
(* to another only by being free in between.                               *)
(***************************************************************************)
CONSTANTS Devices, Clients, None

VARIABLE holder

LeaseInit == holder = [d \in Devices |-> None]

(* A client takes free devices.                                            *)
Grant(c, S) ==
    /\ \A d \in S : holder[d] = None
    /\ holder' = [d \in Devices |-> IF d \in S THEN c ELSE holder[d]]

(* Devices become free: an end, or the loss of their worker.               *)
Drop(S) ==
    holder' = [d \in Devices |-> IF d \in S THEN None ELSE holder[d]]

LeaseNext ==
    \E S \in SUBSET Devices : Drop(S) \/ \E c \in Clients : Grant(c, S)

LeaseSpec == LeaseInit /\ [][LeaseNext]_holder
=============================================================================
