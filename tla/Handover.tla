------------------------------ MODULE Handover ------------------------------
(***************************************************************************)
(* What a client may take for granted of a board it is given: whoever held *)
(* it before, it has since been flashed with the default firmware, has     *)
(* passed the test, and has been offered to everybody.  A board may drop   *)
(* out of this order at any time, and then starts over.                    *)
(***************************************************************************)
CONSTANTS Clients, None

VARIABLES
    phase,      \* "away", "flashing", "testing", "offered" or "held"
    holder      \* the client that holds the board, or None

HandoverInit == phase = "away" /\ holder = None

Flash == phase = "away" /\ phase' = "flashing" /\ UNCHANGED holder
Test == phase = "flashing" /\ phase' = "testing" /\ UNCHANGED holder
Offer == phase = "testing" /\ phase' = "offered" /\ UNCHANGED holder
Take == phase = "offered" /\ phase' = "held" /\ holder' \in Clients

(* The end of a reservation, a failed flash or test, a worker that is gone.*)
Leave == phase' = "away" /\ holder' = None

HandoverNext == Flash \/ Test \/ Offer \/ Take \/ Leave

HandoverSpec == HandoverInit /\ [][HandoverNext]_<<phase, holder>>
=============================================================================
