----------------------------- MODULE BoardLife -----------------------------
(***************************************************************************)
(* What the rest of the farm may take for granted of a board in a worker:  *)
(* the states it goes through, whatever threads race to switch it.  It is  *)
(* ready only after a flash and a test, it serves only after a load, a     *)
(* request may come at any time, and a board that was haunted by a request *)
(* in the middle of a reset may break at any time.                         *)
(***************************************************************************)
VARIABLES
    mode,       \* the state the board is in
    haunted     \* a timer of a state that was replaced is still to come

LifeInit == mode = "absent" /\ haunted = FALSE

(* The worker finds it; the process may end at any time.                   *)
Appear == mode = "absent" /\ mode' \in {"found", "flashing"} /\ UNCHANGED haunted
Disappear == mode' = "absent" /\ haunted' = FALSE

Timed == mode \in {"flashing", "testing"}

(* A state hands over to the next, or gives up.                            *)
Pass ==
    /\ \/ mode = "found" /\ mode' = "flashing"
       \/ mode = "flashing" /\ mode' = "testing"
       \/ mode = "testing" /\ mode' = "ready"
       \/ mode = "loading" /\ mode' = "serving"
       \/ (Timed \/ mode = "loading") /\ mode' = "broken"
    /\ UNCHANGED haunted

(* A request switches the state; the new one may already have got on.      *)
Switch ==
    /\ mode \notin {"absent", "found"}
    /\ \/ mode' \in {"flashing", "testing", "broken"}
       \/ mode' \in {"loading", "serving"}
    /\ haunted' = (haunted \/ Timed)

(* The timer of a replaced state comes; a serving board may not let go.    *)
Haunting ==
    /\ haunted
    /\ haunted' \in BOOLEAN
    /\ mode' = "broken" \/ (mode = "serving" /\ UNCHANGED mode)

LifeNext == Appear \/ Disappear \/ Pass \/ Switch \/ Haunting

LifeSpec == LifeInit /\ [][LifeNext]_<<mode, haunted>>
=============================================================================
