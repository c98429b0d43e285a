----------------------------- MODULE DeviceState -----------------------------
(***************************************************************************)
(* The state object of one board in a worker, and the threads that race to *)
(* replace it: device/Device.py and the classes of device/state.           *)
(*                                                                         *)
(* Device.switch and the handling of a udev event hold Device._device_lock *)
(* throughout, so each is one step; what happens outside that lock is a    *)
(* step of its own: the status write of __flashDefault, and the two halves *)
(* of a timer thread (AbstractState.switch marks its state as switching,   *)
(* then waits for _device_lock).  A timer whose state was replaced by      *)
(* Device.switch is not cancelled; such timers are counted in stale.       *)
(*                                                                         *)
(* The hardware is external: the firmware on the board, and the udev       *)
(* events it causes, each handled in a thread of its own, in any order.    *)
(* At most one pending event of each kind is kept.                         *)
(***************************************************************************)
EXTENDS Naturals

CONSTANTS
    MaxRequests,    \* bound: reserve and unreserve requests
    MaxReplugs      \* bound: times the board is plugged again

ASSUME BoundsAssumption == MaxRequests \in Nat /\ MaxReplugs \in Nat

VARIABLES
    cur,        \* Device._device
    stale,      \* timers of replaced states: still running, or past the check
    unres,      \* unreserve requests between the status write and the switch
    wedged,     \* a thread holds _device_lock and joins a thread for ever
    status,     \* the last status this worker wrote for the board
    board,      \* what runs on the board (external)
    events,     \* udev add events whose thread has not run yet (external)
    requests, replugs

vars == <<cur, stale, unres, wedged, status, board, events, requests, replugs>>

Kinds == {"None", "Flash", "Test", "Ready", "Broken",
          "PulseFlash", "Pulse", "PulseExited"}
Apps == {"other", "default", "pulse"}
Events == {"tty", "disk", "part"}

TypeOK ==
    /\ cur \in [kind: Kinds,
                switching: BOOLEAN,                     \* _switching
                timer: {"none", "armed", "fired"},      \* fired: set _switching
                tested: BOOLEAN]                        \* TestState.exiting
    /\ stale \in [armed: 0..MaxRequests + 1, fired: 0..MaxRequests + 1]
    /\ unres \in 0..MaxRequests
    /\ wedged \in BOOLEAN
    /\ status \in {"await_flash_default", "flashing_default", "testing",
                   "available", "broken"}
    /\ board \in Apps \union {"boot", "hung"}
    /\ events \in SUBSET Events
    /\ requests \in 0..MaxRequests
    /\ replugs \in 0..MaxReplugs

\* mutant: a TestState without its timer
TimerFlashOnly(k) == IF k = "Flash" THEN "armed" ELSE "none"

(* The constructor of a state: FlashState(timeout=60) and TestState start  *)
(* their timer, the others have none.                                      *)
Timer(k) == IF k \in {"Flash", "Test"} THEN "armed" ELSE "none"

New(k) == [kind |-> k, switching |-> FALSE, timer |-> Timer(k), tested |-> FALSE]

\* mutant: a status that the enum DeviceState does not have
WrittenUnknown(k) == CASE k = "Test"   -> "testing"
                       [] k = "Ready"  -> "available"
                       [] k = "Broken" -> "failure"
                       [] OTHER        -> status

\* mutant: TestState does not write its status
WrittenUntested(k) == CASE k = "Ready"  -> "available"
                        [] k = "Broken" -> "broken"
                        [] OTHER        -> status

(* The status a constructor writes.                                        *)
Written(k) == CASE k = "Test"   -> "testing"
                [] k = "Ready"  -> "available"
                [] k = "Broken" -> "broken"
                [] OTHER        -> status

Init ==
    /\ cur = New("None")
    /\ stale = [armed |-> 0, fired |-> 0]
    /\ unres = 0
    /\ wedged = FALSE
    /\ status = "await_flash_default"
    /\ board \in Apps
    /\ events = {}
    /\ requests = 0
    /\ replugs = 0

-----------------------------------------------------------------------------
(* What the state object s does on an add event, with E still pending:     *)
(* FlashState.handleAdd.                                                   *)
Become(s) == cur' = s /\ status' = Written(s.kind)

Bootload(E) ==
    \/ /\ board \in Apps
       /\ board' = "boot"
       /\ events' = E \union {"disk", "part"}
    \/ board' = board /\ events' = E

(* upload_firmware_path: FALSE when the drive does not mount or is not the *)
(* bootloader's, raises when the copy fails.  A good copy reboots the board*)
(* into the firmware, if it comes back at all.                             *)
Upload(r, fw, E) ==
    \/ r = "ok" /\ board = "boot" /\ board' = fw /\ events' = E \union {"tty"}
    \/ r = "ok" /\ board = "boot" /\ board' = "hung" /\ events' = E
    \/ r = "raise" /\ board = "boot" /\ UNCHANGED board /\ events' = E
    \/ r = "false" /\ UNCHANGED board /\ events' = E

\* mutant: the timer is cancelled before the upload, and the upload raises
AfterUploadCancelled(s, r) ==
    IF r = "raise" /\ ~s.switching THEN {[s EXCEPT !.timer = "none"]}
    ELSE IF s.switching THEN {s}
    ELSE IF r = "false" THEN {New("Broken")}
    ELSE IF s.kind = "Flash" THEN {New("Test")}
    ELSE {New("Broken")} \union
         (IF board' = "hung" THEN {} ELSE {New("Pulse"), [s EXCEPT !.switching = TRUE]})

\* mutant: a board is offered without the test
AfterUploadUntested(s, r) ==
    IF s.switching \/ r = "raise" THEN {s}
    ELSE IF r = "false" THEN {New("Broken")}
    ELSE IF s.kind = "Flash" THEN {New("Ready")}
    ELSE {New("Broken")} \union
         (IF board' = "hung" THEN {} ELSE {New("Pulse"), [s EXCEPT !.switching = TRUE]})

(* The states that may be current after the upload.  PulseCountState finds *)
(* no port (and switches to BrokenState, then raises), or starts, or its   *)
(* port does not open: then FlashState stays current, marked as switching. *)
AfterUpload(s, r) ==
    IF s.switching \/ r = "raise" THEN {s}
    ELSE IF r = "false" THEN {New("Broken")}
    ELSE IF s.kind = "Flash" THEN {New("Test")}
    ELSE {New("Broken")} \union
         (IF board' = "hung" THEN {} ELSE {New("Pulse"), [s EXCEPT !.switching = TRUE]})

Firmware(s) == IF s.kind = "Flash" THEN "default" ELSE "pulse"

FlashAdd(s, ev, E) ==
    \/ ev = "disk" /\ Become(s) /\ board' = board /\ events' = E
    \/ ev = "tty" /\ Become(s) /\ Bootload(E)
    \/ ev = "part" /\ \E r \in {"ok", "false", "raise"} :
                        /\ Upload(r, Firmware(s), E)
                        /\ \E next \in AfterUpload(s, r) : Become(next)

(* AbstractState.switch, as far as the timer thread gets without           *)
(* _device_lock.                                                           *)
Fired(s) == [s EXCEPT !.switching = TRUE, !.timer = "fired"]

(* Device.switch to a FlashState s, whose start handles the files that are *)
(* there.  start does not hold switching_lock, so a timer may come before  *)
(* the end of the upload.                                                  *)
StartFlash(s) ==
    \/ board \in Apps /\ FlashAdd(s, "tty", events)
    \/ board = "boot" /\ FlashAdd(s, "part", events)
    \/ board = "boot" /\ s.timer = "armed" /\ FlashAdd(Fired(s), "part", events)
    \/ board = "hung" /\ Become(s) /\ UNCHANGED <<board, events>>

(* Device.switch replaces a state without looking at its timer.            *)
Leave(S) == [armed |-> S.armed + IF cur.timer = "armed" THEN 1 ELSE 0,
             fired |-> S.fired + IF cur.timer = "fired" THEN 1 ELSE 0]

(* PulseCountState.handleExit joins the evaluation thread, which may wait  *)
(* for the board for ever.                                                 *)
ExitHangs ==
    /\ cur.kind = "Pulse"
    /\ wedged' = TRUE
    /\ UNCHANGED <<cur, status, board, events>>

-----------------------------------------------------------------------------
(* DeviceManager.handleDevEvent, for a serial it does not know.            *)
Create ==
    /\ cur.kind = "None"
    /\ status' = "flashing_default"
    /\ cur' = New("Flash")
    /\ Bootload(events)
    /\ UNCHANGED <<stale, unres, wedged, requests, replugs>>

\* mutant: any port will do
PassesAnyPort(ev) == ev = "tty"

(* The check of TestState: check_default reads the file of the event.      *)
Passes(ev) == ev = "tty" /\ board = "default"

(* TestState.handleAdd: only the first event is looked at.                 *)
TestAdd(ev) ==
    \/ cur.tested /\ UNCHANGED <<cur, status>>
    \/ ~cur.tested /\ cur' = [cur EXCEPT !.tested = TRUE] /\ UNCHANGED status
    \/ ~cur.tested /\ ~cur.switching /\ Passes(ev) /\ Become(New("Ready"))

(* Device.handleDeviceEvent, by the state that is current when the thread  *)
(* gets the lock.  The handler holds switching_lock as well.               *)
HandleEvent(ev) ==
    /\ ~wedged
    /\ ev \in events
    /\ \/ cur.kind \in {"Flash", "PulseFlash"} /\ FlashAdd(cur, ev, events \ {ev})
       \/ /\ cur.kind = "Test"
          /\ TestAdd(ev)
          /\ board' = board /\ events' = events \ {ev}
       \/ /\ cur.kind \in {"Ready", "Broken", "Pulse", "PulseExited"}
          /\ events' = events \ {ev}
          /\ UNCHANGED <<cur, status, board>>
    /\ UNCHANGED <<stale, unres, wedged, requests, replugs>>

(* The timer of the current state: the two halves of its switch.           *)
TimerFires ==
    /\ cur.timer = "armed"
    /\ cur' = Fired(cur)
    /\ UNCHANGED <<stale, unres, wedged, status, board, events, requests, replugs>>

TimerBreaks ==
    /\ ~wedged
    /\ cur.timer = "fired"
    /\ Become(New("Broken"))
    /\ UNCHANGED <<stale, unres, wedged, board, events, requests, replugs>>

(* The timer of a replaced state: _switching is still FALSE there, so the  *)
(* switch goes through, whatever the current state is.                     *)
StaleFires ==
    /\ stale.armed > 0
    /\ stale' = [armed |-> stale.armed - 1, fired |-> stale.fired + 1]
    /\ UNCHANGED <<cur, unres, wedged, status, board, events, requests, replugs>>

StaleBreaks ==
    /\ ~wedged
    /\ stale.fired > 0
    /\ LET left == [stale EXCEPT !.fired = @ - 1]
       IN \/ ExitHangs /\ stale' = left
          \/ /\ Become(New("Broken"))
             /\ stale' = Leave(left)
             /\ UNCHANGED <<wedged, board, events>>
    /\ UNCHANGED <<unres, requests, replugs>>

-----------------------------------------------------------------------------
(* Device.handleUnreserve: __flashDefault writes the status before it asks *)
(* for the lock.                                                           *)
UnreserveWrite ==
    /\ cur.kind # "None"
    /\ requests < MaxRequests
    /\ requests' = requests + 1
    /\ unres' = unres + 1
    /\ status' = "flashing_default"
    /\ UNCHANGED <<cur, stale, wedged, board, events, replugs>>

UnreserveSwitch ==
    /\ ~wedged
    /\ unres > 0
    /\ unres' = unres - 1
    /\ \/ ExitHangs /\ UNCHANGED stale
       \/ StartFlash(New("Flash")) /\ stale' = Leave(stale) /\ UNCHANGED wedged
    /\ UNCHANGED <<requests, replugs>>

(* Device.handleReserve for "pulsecount": PulseCountStateFlasher, and from *)
(* its start a FlashState without a timeout.                               *)
ReservePulse ==
    /\ ~wedged
    /\ cur.kind # "None"
    /\ requests < MaxRequests
    /\ requests' = requests + 1
    /\ \/ ExitHangs /\ UNCHANGED stale
       \/ StartFlash(New("PulseFlash")) /\ stale' = Leave(stale) /\ UNCHANGED wedged
    /\ UNCHANGED <<unres, replugs>>

(* For "usbip": the constructor of UsbipState raises, so the old state has *)
(* exited and is still current.                                            *)
ReserveUsbip ==
    /\ ~wedged
    /\ cur.kind # "None"
    /\ requests < MaxRequests
    /\ requests' = requests + 1
    /\ \/ ExitHangs
       \/ /\ cur' = [cur EXCEPT !.kind = IF @ = "Pulse" THEN "PulseExited" ELSE @]
          /\ UNCHANGED <<wedged, status, board, events>>
    /\ UNCHANGED <<stale, unres, replugs>>

(* The board is plugged out and in again: the files of its mode reappear.  *)
Replug ==
    /\ replugs < MaxReplugs
    /\ cur.kind # "None"
    /\ board # "hung"
    /\ replugs' = replugs + 1
    /\ events' = events \union (IF board = "boot" THEN {"disk", "part"} ELSE {"tty"})
    /\ UNCHANGED <<cur, stale, unres, wedged, status, board, requests>>

Next ==
    \/ Create
    \/ \E ev \in Events : HandleEvent(ev)
    \/ TimerFires \/ TimerBreaks \/ StaleFires \/ StaleBreaks
    \/ UnreserveWrite \/ UnreserveSwitch
    \/ ReservePulse \/ ReserveUsbip
    \/ Replug

Spec == Init /\ [][Next]_vars

(* threading.Timer runs its function, and a thread that waits for a lock   *)
(* gets it in the end.                                                     *)
Fairness == WF_vars(TimerFires) /\ WF_vars(TimerBreaks)

FairSpec == Spec /\ Fairness

-----------------------------------------------------------------------------
(* A board is offered, or measured on, only with the firmware its state    *)
(* assumes, although timers, requests and late events race to replace the  *)
(* state and each state programs the board.                                *)
FirmwareMatches ==
    /\ cur.kind = "Ready" => board = "default"
    /\ cur.kind = "Pulse" => board = "pulse"

(* With no unreserve under way, the database shows the state the board     *)
(* settled in: the unlocked write of __flashDefault is never the last word *)
(* on a board that is ready, broken or under test.                         *)
StatusTracksState ==
    unres = 0 => /\ cur.kind = "Ready" => status = "available"
                 /\ cur.kind = "Test" => status = "testing"
                 /\ cur.kind = "Broken" => status = "broken"

(* A board in default flashing or under test always has a timer that will  *)
(* take it out, whichever of the handler, the timer and a failed upload    *)
(* comes first.                                                            *)
Watched ==
    cur.kind \in {"Flash", "Test"} =>
        cur.timer = IF cur.switching THEN "fired" ELSE "armed"

(* The parts of the inductive invariant of these.                          *)
\* the other states have no timer
Untimed == cur.kind \notin {"Flash", "Test"} => cur.timer = "none"

\* a request replaces one state, and leaves one timer, at most
TimersCounted == stale.armed + stale.fired + unres <= requests

\* requests are for a board that was found
Found == unres > 0 => cur.kind # "None"

IInv ==
    /\ TypeOK /\ Watched /\ Untimed /\ TimersCounted /\ Found
    /\ FirmwareMatches /\ StatusTracksState

(* Hence a board does not stay there: it becomes ready or broken, or is    *)
(* handed to a reservation.                                                *)
Settles == cur.kind \in {"Flash", "Test"} ~> cur.kind \notin {"Flash", "Test"}

(* The threads of a board, with the timers of all its states, implement the*)
(* life that the farm takes for granted.                                   *)
Mode == CASE cur.kind = "None" -> "absent"
          [] cur.kind = "Flash" -> "flashing"
          [] cur.kind = "Test" -> "testing"
          [] cur.kind = "Ready" -> "ready"
          [] cur.kind = "Broken" -> "broken"
          [] cur.kind = "PulseFlash" -> "loading"
          [] OTHER -> "serving"

Haunted == stale.armed > 0 \/ stale.fired > 0

Life == INSTANCE BoardLife WITH mode <- Mode, haunted <- Haunted

LifeRefinement == Life!LifeSpec

(* A reserve request that its reservation's unreserve overtook: the client *)
(* ends the reservation of a board that is still ready for it, and the     *)
(* request reaches the board when the unreserve has switched it and its    *)
(* timer runs.                                                             *)
Overtaken ==
    requests' # requests =>
        IF requests = 0 THEN UnreserveWrite /\ cur.kind = "Ready"
        ELSE ReservePulse /\ unres = 0 /\ cur.timer = "armed"

LateSpec == Init /\ [][Next /\ Overtaken]_vars

(* The timer of a FlashState says "flashing timed out" and breaks the      *)
(* board; so that of a TestState for the test.  It breaks no board that is *)
(* not being flashed or tested.                                            *)
TimeoutIsOwn ==
    [][stale'.fired < stale.fired =>
          cur.kind \in {"Flash", "PulseFlash", "Test"} \/ UNCHANGED cur]_vars
=============================================================================
