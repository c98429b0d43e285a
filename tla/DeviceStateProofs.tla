-------------------------- MODULE DeviceStateProofs --------------------------
(***************************************************************************)
(* Proofs about DeviceState, for any number of requests and replugs.       *)
(*                                                                         *)
(* IInv joins the invariants with what they rest on: a state has a timer   *)
(* exactly while it flashes or tests, and the timers of replaced states are*)
(* no more than the requests.  The handler of the flash states is one      *)
(* lemma, used by the event threads and by the switches to a new state.    *)
(***************************************************************************)
EXTENDS DeviceState, TLAPS

States == [kind: Kinds, switching: BOOLEAN, timer: {"none", "armed", "fired"},
           tested: BOOLEAN]
Statuses == {"await_flash_default", "flashing_default", "testing", "available", "broken"}
Boards == Apps \union {"boot", "hung"}

(* What IInv says of one state object.                                     *)
Timely(s) ==
    /\ s.kind \in {"Flash", "Test"} => s.timer = IF s.switching THEN "fired" ELSE "armed"
    /\ s.kind \notin {"Flash", "Test"} => s.timer = "none"

Programmed(s, b) ==
    /\ s.kind = "Ready" => b = "default"
    /\ s.kind = "Pulse" => b = "pulse"

Shown(s, st) ==
    /\ s.kind = "Ready" => st = "available"
    /\ s.kind = "Test" => st = "testing"
    /\ s.kind = "Broken" => st = "broken"

LEMMA NewState ==
    ASSUME NEW k \in Kinds
    PROVE  New(k) \in States /\ Timely(New(k)) /\ New(k).kind = k
  BY DEF New, Timer, States, Timely

(* Become writes the status of the new state, and a status at all.         *)
LEMMA BecomeShows ==
    ASSUME NEW s \in States, status \in Statuses, Become(s)
    PROVE  cur' = s /\ status' \in Statuses /\ Shown(cur', status')
  BY DEF Become, Written, Shown, Statuses, States, Kinds

(* What the handler of a flash state leaves behind.                        *)
FlashEnd(s) ==
    /\ cur' \in States /\ Timely(cur') /\ status' \in Statuses
    /\ board' \in Boards /\ events' \subseteq Events
    /\ Programmed(cur', board') /\ Shown(cur', status')
    /\ s.kind = "Flash" => cur'.kind \in {"Flash", "Test", "Broken"}
    /\ s.kind = "PulseFlash" => cur'.kind \in {"PulseFlash", "Pulse", "Broken"}

LEMMA FlashAddEnds ==
    ASSUME NEW s \in States, Timely(s), s.kind \in {"Flash", "PulseFlash"},
           NEW ev \in Events, NEW E \in SUBSET Events,
           status \in Statuses, board \in Boards, FlashAdd(s, ev, E)
    PROVE  FlashEnd(s)
  <1>1. CASE ev = "disk" /\ Become(s) /\ board' = board /\ events' = E
    BY <1>1, BecomeShows DEF FlashEnd, Programmed
  <1>2. CASE ev = "tty" /\ Become(s) /\ Bootload(E)
    BY <1>2, BecomeShows DEF FlashEnd, Programmed, Bootload, Boards, Events
  <1>3. CASE ev = "part" /\ \E r \in {"ok", "false", "raise"} :
                              /\ Upload(r, Firmware(s), E)
                              /\ \E next \in AfterUpload(s, r) : Become(next)
    <2>1. PICK r \in {"ok", "false", "raise"} :
              /\ Upload(r, Firmware(s), E)
              /\ \E next \in AfterUpload(s, r) : Become(next)
      BY <1>3
    <2>2. PICK next \in AfterUpload(s, r) : Become(next)
      BY <2>1
    <2>3. /\ board' \in Boards /\ events' \subseteq Events
          /\ r = "ok" => board' = "hung" \/ board' = Firmware(s)
      BY <2>1 DEF Upload, Firmware, Boards, Apps, Events
    <2>4. /\ next \in States /\ Timely(next)
          /\ s.kind = "Flash" => next.kind \in {"Flash", "Test", "Broken"}
          /\ s.kind = "PulseFlash" => next.kind \in {"PulseFlash", "Pulse", "Broken"}
      <3>1. CASE next = s
        BY <3>1
      <3>2. CASE next = [s EXCEPT !.switching = TRUE] /\ s.kind = "PulseFlash"
        BY <3>2 DEF States, Timely
      <3>3. CASE s.kind = "Flash" /\ next \in {New("Broken"), New("Test")}
        BY <3>3, NewState DEF Kinds
      <3>4. CASE s.kind = "PulseFlash" /\ next \in {New("Broken"), New("Pulse")}
        BY <3>4, NewState DEF Kinds
      <3>. QED BY <2>2, <3>1, <3>2, <3>3, <3>4 DEF AfterUpload
    <2>5. next.kind = "Pulse" => board' = "pulse"
      <3>1. ASSUME next.kind = "Pulse" PROVE r = "ok" /\ board' # "hung" /\ s.kind = "PulseFlash"
        <4>1. next # s /\ next # New("Broken") /\ next # New("Test")
              /\ next # [s EXCEPT !.switching = TRUE]
          BY <3>1, NewState DEF Kinds, States
        <4>. QED BY <4>1, <2>2, <2>4, <3>1 DEF AfterUpload
      <3>. QED BY <3>1, <2>3 DEF Firmware
    <2>. QED BY <2>2, <2>3, <2>4, <2>5, BecomeShows DEF FlashEnd, Programmed
  <1>. QED BY <1>1, <1>2, <1>3 DEF FlashAdd

(* The same for a state that starts, whose timer may come first.           *)
LEMMA StartFlashEnds ==
    ASSUME NEW k \in {"Flash", "PulseFlash"},
           status \in Statuses, board \in Boards, events \in SUBSET Events,
           StartFlash(New(k))
    PROVE  FlashEnd(New(k))
  <1>1. New(k) \in States /\ Timely(New(k)) /\ New(k).kind = k
    BY NewState DEF Kinds
  <1>2. CASE board \in Apps /\ FlashAdd(New(k), "tty", events)
    BY <1>1, <1>2, FlashAddEnds DEF Events
  <1>3. CASE board = "boot" /\ FlashAdd(New(k), "part", events)
    BY <1>1, <1>3, FlashAddEnds DEF Events
  <1>4. CASE board = "boot" /\ New(k).timer = "armed" /\ FlashAdd(Fired(New(k)), "part", events)
    <2>1. Fired(New(k)) \in States /\ Timely(Fired(New(k))) /\ Fired(New(k)).kind = k
      BY <1>1, <1>4 DEF Fired, States, Timely
    <2>2. FlashEnd(Fired(New(k)))
      BY <1>4, <2>1, FlashAddEnds DEF Events
    <2>. QED BY <1>1, <2>1, <2>2 DEF FlashEnd
  <1>5. CASE board = "hung" /\ Become(New(k)) /\ UNCHANGED <<board, events>>
    BY <1>1, <1>5, BecomeShows DEF FlashEnd, Programmed
  <1>. QED BY <1>2, <1>3, <1>4, <1>5 DEF StartFlash

(* Leaving a state adds at most its timer.                                 *)
LEMMA LeaveCounts ==
    ASSUME NEW S \in [armed: Nat, fired: Nat]
    PROVE  /\ Leave(S) \in [armed: Nat, fired: Nat]
           /\ Leave(S).armed + Leave(S).fired <= S.armed + S.fired + 1
  BY DEF Leave

-----------------------------------------------------------------------------
(* IInv, with the counts that bound the timers.                            *)
LEMMA Parts ==
    IInv <=> /\ cur \in States /\ Timely(cur) /\ Programmed(cur, board)
             /\ unres = 0 => Shown(cur, status)
             /\ unres > 0 => cur.kind # "None"
             /\ stale \in [armed: Nat, fired: Nat] /\ unres \in Nat /\ requests \in Nat
             /\ stale.armed + stale.fired + unres <= requests
             /\ requests <= MaxRequests
             /\ wedged \in BOOLEAN /\ status \in Statuses /\ board \in Boards
             /\ events \in SUBSET Events /\ replugs \in 0..MaxReplugs
  BY BoundsAssumption
     DEF IInv, TypeOK, Watched, Untimed, TimersCounted, Found, FirmwareMatches, StatusTracksState,
         States, Timely, Programmed, Shown, Statuses, Boards

LEMMA PartsNext ==
    IInv' <=> /\ cur' \in States /\ Timely(cur') /\ Programmed(cur', board')
              /\ unres' = 0 => Shown(cur', status')
              /\ unres' > 0 => cur'.kind # "None"
              /\ stale' \in [armed: Nat, fired: Nat] /\ unres' \in Nat /\ requests' \in Nat
              /\ stale'.armed + stale'.fired + unres' <= requests'
              /\ requests' <= MaxRequests
              /\ wedged' \in BOOLEAN /\ status' \in Statuses /\ board' \in Boards
              /\ events' \in SUBSET Events /\ replugs' \in 0..MaxReplugs
  BY BoundsAssumption
     DEF IInv, TypeOK, Watched, Untimed, TimersCounted, Found, FirmwareMatches, StatusTracksState,
         States, Timely, Programmed, Shown, Statuses, Boards

LEMMA InitInvariant == Init => IInv
  <1>. SUFFICES ASSUME Init PROVE IInv
    OBVIOUS
  <1>1. cur \in States /\ Timely(cur) /\ cur.kind = "None"
    BY NewState DEF Init, Kinds
  <1>2. Programmed(cur, board) /\ Shown(cur, status) /\ status \in Statuses /\ board \in Boards
    BY <1>1 DEF Init, Programmed, Shown, Statuses, Boards
  <1>3. /\ stale \in [armed: Nat, fired: Nat] /\ unres = 0 /\ requests \in Nat
        /\ stale.armed + stale.fired + unres <= requests /\ requests <= MaxRequests
    BY BoundsAssumption DEF Init
  <1>4. events \in SUBSET Events /\ replugs \in 0..MaxReplugs
    BY BoundsAssumption DEF Init
  <1>5. wedged \in BOOLEAN
    BY DEF Init
  <1>. QED BY <1>1, <1>2, <1>3, <1>4, <1>5, Parts

(* A step of the handlers and timers of the current state: what is left of *)
(* IInv when the requests, replugs and the lock are as they were.          *)
LEMMA CreateKeeps == ASSUME IInv, Create PROVE IInv'
  <1>. USE Parts DEF Create
  <1>1. cur' \in States /\ Timely(cur') /\ cur'.kind = "Flash"
    BY NewState DEF Kinds
  <1>2. board' \in Boards /\ events' \in SUBSET Events
    BY DEF Bootload, Boards, Events
  <1>. QED BY <1>1, <1>2, PartsNext DEF Programmed, Shown, Statuses

LEMMA HandleEventKeeps ==
    ASSUME IInv, NEW ev \in Events, HandleEvent(ev) PROVE IInv'
  <1>. USE Parts
  <1>. UNCHANGED <<stale, unres, wedged, requests, replugs>>
    BY DEF HandleEvent
  <1>1. CASE cur.kind \in {"Flash", "PulseFlash"} /\ FlashAdd(cur, ev, events \ {ev})
    <2>1. FlashEnd(cur)
      BY <1>1, FlashAddEnds
    <2>. QED BY <1>1, <2>1, PartsNext DEF FlashEnd
  <1>2. CASE cur.kind = "Test" /\ TestAdd(ev) /\ board' = board /\ events' = events \ {ev}
    <2>1. CASE UNCHANGED <<cur, status>>
      BY <1>2, <2>1, PartsNext
    <2>2. CASE cur' = [cur EXCEPT !.tested = TRUE] /\ UNCHANGED status
      <3>1. cur' \in States /\ Timely(cur') /\ cur'.kind = cur.kind
        BY <1>2, <2>2 DEF States, Timely
      <3>. QED BY <1>2, <2>2, <3>1, PartsNext DEF Programmed, Shown
    <2>3. CASE Passes(ev) /\ Become(New("Ready"))
      <3>1. New("Ready") \in States /\ Timely(New("Ready")) /\ New("Ready").kind = "Ready"
        BY NewState DEF Kinds
      <3>2. cur' = New("Ready") /\ status' \in Statuses /\ Shown(cur', status')
        BY <2>3, <3>1, BecomeShows
      <3>. QED BY <1>2, <2>3, <3>1, <3>2, PartsNext DEF Passes, Programmed
    <2>. QED BY <1>2, <2>1, <2>2, <2>3 DEF TestAdd
  <1>3. CASE UNCHANGED <<cur, status, board>> /\ events' = events \ {ev}
    BY <1>3, PartsNext
  <1>. QED BY <1>1, <1>2, <1>3 DEF HandleEvent

LEMMA TimerFiresKeeps == ASSUME IInv, TimerFires PROVE IInv'
  <1>. USE Parts DEF TimerFires
  <1>1. cur.kind \in {"Flash", "Test"}
    BY DEF Timely
  <1>2. cur' \in States /\ Timely(cur') /\ cur'.kind = cur.kind
    BY <1>1 DEF Fired, States, Timely
  <1>. QED BY <1>1, <1>2, PartsNext DEF Programmed, Shown

(* Becoming broken.                                                        *)
LEMMA Breaks ==
    ASSUME status \in Statuses, Become(New("Broken"))
    PROVE  /\ cur' \in States /\ Timely(cur') /\ cur'.kind = "Broken"
           /\ status' \in Statuses /\ Shown(cur', status')
           /\ \A b : Programmed(cur', b)
  <1>1. New("Broken") \in States /\ Timely(New("Broken")) /\ New("Broken").kind = "Broken"
    BY NewState DEF Kinds
  <1>2. cur' = New("Broken") /\ status' \in Statuses /\ Shown(cur', status')
    BY <1>1, BecomeShows
  <1>. QED BY <1>1, <1>2 DEF Programmed

LEMMA TimerBreaksKeeps == ASSUME IInv, TimerBreaks PROVE IInv'
  BY Parts, PartsNext, Breaks DEF TimerBreaks

LEMMA StaleFiresKeeps == ASSUME IInv, StaleFires PROVE IInv'
  <1>. USE Parts DEF StaleFires
  <1>1. /\ stale' \in [armed: Nat, fired: Nat]
        /\ stale'.armed + stale'.fired = stale.armed + stale.fired
    OBVIOUS
  <1>. QED BY <1>1, PartsNext

LEMMA StaleBreaksKeeps == ASSUME IInv, StaleBreaks PROVE IInv'
  <1>. USE Parts
  <1>. DEFINE left == [stale EXCEPT !.fired = @ - 1]
  <1>. UNCHANGED <<unres, requests, replugs>>
    BY DEF StaleBreaks
  <1>1. /\ left \in [armed: Nat, fired: Nat]
        /\ left.armed + left.fired + 1 = stale.armed + stale.fired
    BY DEF StaleBreaks
  <1>2. CASE ExitHangs /\ stale' = left
    BY <1>1, <1>2, PartsNext DEF ExitHangs, Shown
  <1>3. CASE Become(New("Broken")) /\ stale' = Leave(left) /\ UNCHANGED <<wedged, board, events>>
    <2>1. /\ stale' \in [armed: Nat, fired: Nat]
          /\ stale'.armed + stale'.fired <= left.armed + left.fired + 1
      BY <1>1, <1>3, LeaveCounts
    <2>. HIDE DEF left
    <2>2. stale'.armed + stale'.fired + unres <= requests
      BY <1>1, <2>1
    <2>. QED BY <1>3, <2>1, <2>2, Breaks, PartsNext
  <1>. QED BY <1>2, <1>3 DEF StaleBreaks

LEMMA UnreserveWriteKeeps == ASSUME IInv, UnreserveWrite PROVE IInv'
  <1>. USE Parts DEF UnreserveWrite
  <1>1. /\ unres' \in Nat /\ unres' # 0 /\ requests' \in Nat /\ requests' <= MaxRequests
        /\ stale'.armed + stale'.fired + unres' <= requests'
    BY BoundsAssumption
  <1>. QED BY <1>1, PartsNext DEF Statuses

(* A thread that hangs in the exit of a pulse counter.                     *)
LEMMA HangKeeps ==
    ASSUME IInv, ExitHangs, UNCHANGED stale, unres' \in Nat, requests' \in Nat,
           stale.armed + stale.fired + unres' <= requests', requests' <= MaxRequests,
           UNCHANGED replugs
    PROVE  IInv'
  BY Parts, PartsNext DEF ExitHangs, Shown

(* A switch to a flash state, on request.                                  *)
LEMMA StartKeeps ==
    ASSUME IInv, NEW k \in {"Flash", "PulseFlash"}, StartFlash(New(k)),
           stale' = Leave(stale), UNCHANGED <<wedged, replugs>>,
           unres' \in Nat, requests' \in Nat,
           stale.armed + stale.fired + 1 + unres' <= requests', requests' <= MaxRequests
    PROVE  IInv'
  <1>. USE Parts
  <1>1. FlashEnd(New(k)) /\ New(k).kind = k
    BY StartFlashEnds, NewState DEF Kinds
  <1>2. /\ stale' \in [armed: Nat, fired: Nat]
        /\ stale'.armed + stale'.fired <= stale.armed + stale.fired + 1
    BY LeaveCounts
  <1>3. stale'.armed + stale'.fired + unres' <= requests'
    BY <1>2
  <1>. QED BY <1>1, <1>2, <1>3, PartsNext DEF FlashEnd

LEMMA UnreserveSwitchKeeps == ASSUME IInv, UnreserveSwitch PROVE IInv'
  <1>. USE Parts
  <1>1. /\ unres' \in Nat /\ unres' + 1 = unres /\ requests' = requests
        /\ UNCHANGED replugs
    BY DEF UnreserveSwitch
  <1>2. CASE ExitHangs /\ UNCHANGED stale
    BY <1>1, <1>2, HangKeeps
  <1>3. CASE StartFlash(New("Flash")) /\ stale' = Leave(stale) /\ UNCHANGED wedged
    BY <1>1, <1>3, StartKeeps
  <1>. QED BY <1>2, <1>3 DEF UnreserveSwitch

LEMMA ReservePulseKeeps == ASSUME IInv, ReservePulse PROVE IInv'
  <1>. USE Parts
  <1>1. /\ unres' = unres /\ requests' = requests + 1 /\ requests' <= MaxRequests
        /\ UNCHANGED replugs
    BY BoundsAssumption DEF ReservePulse
  <1>2. CASE ExitHangs /\ UNCHANGED stale
    BY <1>1, <1>2, HangKeeps
  <1>3. CASE StartFlash(New("PulseFlash")) /\ stale' = Leave(stale) /\ UNCHANGED wedged
    BY <1>1, <1>3, StartKeeps
  <1>. QED BY <1>2, <1>3 DEF ReservePulse

LEMMA ReserveUsbipKeeps == ASSUME IInv, ReserveUsbip PROVE IInv'
  <1>. USE Parts
  <1>1. /\ unres' = unres /\ requests' = requests + 1 /\ requests' <= MaxRequests
        /\ UNCHANGED <<stale, replugs>>
    BY BoundsAssumption DEF ReserveUsbip
  <1>2. CASE ExitHangs
    BY <1>1, <1>2, HangKeeps
  <1>3. CASE /\ cur' = [cur EXCEPT !.kind = IF @ = "Pulse" THEN "PulseExited" ELSE @]
             /\ UNCHANGED <<wedged, status, board, events>>
    <2>1. /\ cur' \in States /\ Timely(cur')
          /\ cur'.kind = IF cur.kind = "Pulse" THEN "PulseExited" ELSE cur.kind
      BY <1>3 DEF States, Timely, Kinds
    <2>. QED BY <1>1, <1>3, <2>1, PartsNext DEF Programmed, Shown
  <1>. QED BY <1>2, <1>3 DEF ReserveUsbip

LEMMA ReplugKeeps == ASSUME IInv, Replug PROVE IInv'
  BY Parts, PartsNext, BoundsAssumption DEF Replug, Events

LEMMA StutterKeeps == ASSUME IInv, UNCHANGED vars PROVE IInv'
  BY Parts, PartsNext DEF vars

LEMMA NextKeeps == ASSUME IInv, [Next]_vars PROVE IInv'
  BY CreateKeeps, HandleEventKeeps, TimerFiresKeeps, TimerBreaksKeeps, StaleFiresKeeps,
     StaleBreaksKeeps, UnreserveWriteKeeps, UnreserveSwitchKeeps, ReservePulseKeeps,
     ReserveUsbipKeeps, ReplugKeeps, StutterKeeps DEF Next

(* The inductive invariant: types, the timers, and the three properties of *)
(* a board that its threads could break (Device.py:26-106).                *)
THEOREM Inductive == Spec => []IInv
  BY InitInvariant, NextKeeps, PTL DEF Spec

(* Types: no count of timers or requests runs away.                        *)
THEOREM TypeCorrect == Spec => []TypeOK
  BY Inductive, PTL DEF IInv

(* A board is ready or measured on only with the firmware its state assumes*)
(* (PulseCountState.py:36-67, TestState.py:17-32).                         *)
THEOREM FirmwareMatchesHolds == Spec => []FirmwareMatches
  BY Inductive, PTL DEF IInv

(* The database shows where a board settled (Device.py:44-46).             *)
THEOREM StatusTracksStateHolds == Spec => []StatusTracksState
  BY Inductive, PTL DEF IInv

(* Flashing and testing always have their timer (FlashState.py:8-22).      *)
THEOREM WatchedHolds == Spec => []Watched
  BY Inductive, PTL DEF IInv
-----------------------------------------------------------------------------
(* The threads implement the life of a board.                              *)
LifeStep == [Life!LifeNext]_<<Mode, Haunted>>

LEMMA LifeStarts == Init => Life!LifeInit
  <1>. SUFFICES ASSUME Init PROVE Life!LifeInit
    OBVIOUS
  <1>1. cur.kind = "None"
    BY NewState DEF Init, Kinds
  <1>2. ~Haunted
    BY DEF Init, Haunted
  <1>. QED BY <1>1, <1>2 DEF Life!LifeInit, Mode

(* The kind of the state decides the mode.                                 *)
LEMMA SameKind == cur'.kind = cur.kind => Mode' = Mode
  BY DEF Mode

(* A flash state hands over, or stays.                                     *)
LEMMA FlashPasses ==
    ASSUME cur.kind \in {"Flash", "PulseFlash"}, FlashEnd(cur), UNCHANGED stale
    PROVE  LifeStep
  <1>. Haunted' = Haunted
    BY DEF Haunted
  <1>. QED BY DEF FlashEnd, LifeStep, Life!LifeNext, Life!Pass, Life!Timed, Mode

(* Leaving a state leaves its timer.                                       *)
LEMMA LeaveHaunts ==
    ASSUME IInv, stale' = Leave(stale)
    PROVE  Haunted' = (Haunted \/ cur.kind \in {"Flash", "Test"})
  <1>1. stale \in [armed: Nat, fired: Nat] /\ Timely(cur)
    BY Parts
  <1>. QED BY <1>1 DEF Leave, Haunted, Timely

(* A request switches.                                                     *)
LEMMA StartSwitches ==
    ASSUME IInv, cur.kind # "None", NEW k \in {"Flash", "PulseFlash"}, FlashEnd(New(k)),
           stale' = Leave(stale)
    PROVE  LifeStep
  <1>1. New(k).kind = k
    BY NewState DEF Kinds
  <1>2. Mode \notin {"absent", "found"}
    BY Parts DEF States, Kinds, Mode
  <1>3. Mode' \in {"flashing", "testing", "broken", "loading", "serving"}
    BY <1>1 DEF FlashEnd, Mode
  <1>4. Haunted' = (Haunted \/ Life!Timed)
    BY LeaveHaunts, Parts DEF Life!Timed, Mode, States, Kinds
  <1>. QED BY <1>2, <1>3, <1>4 DEF LifeStep, Life!LifeNext, Life!Switch

LEMMA CreateLives == ASSUME IInv, Create PROVE LifeStep
  <1>1. cur'.kind = "Flash"
    BY NewState DEF Create, Kinds
  <1>2. Mode = "absent" /\ Mode' = "flashing" /\ Haunted' = Haunted
    BY <1>1 DEF Create, Mode, Haunted
  <1>. QED BY <1>2 DEF LifeStep, Life!LifeNext, Life!Appear

LEMMA HandleEventLives ==
    ASSUME IInv, NEW ev \in Events, HandleEvent(ev) PROVE LifeStep
  <1>. USE Parts
  <1>. UNCHANGED stale /\ Haunted' = Haunted
    BY DEF HandleEvent, Haunted
  <1>1. CASE cur.kind \in {"Flash", "PulseFlash"} /\ FlashAdd(cur, ev, events \ {ev})
    BY <1>1, FlashAddEnds, FlashPasses
  <1>2. CASE cur.kind = "Test" /\ TestAdd(ev)
    <2>1. CASE cur'.kind = cur.kind
      BY <2>1, SameKind DEF LifeStep
    <2>2. CASE Become(New("Ready"))
      <3>1. cur'.kind = "Ready"
        BY <2>2, NewState DEF Become, Kinds
      <3>2. Mode = "testing" /\ Mode' = "ready"
        BY <1>2, <3>1 DEF Mode
      <3>. QED BY <3>2 DEF LifeStep, Life!LifeNext, Life!Pass
    <2>3. cur' = [cur EXCEPT !.tested = TRUE] => cur'.kind = cur.kind
      BY DEF States
    <2>. QED BY <1>2, <2>1, <2>2, <2>3 DEF TestAdd
  <1>3. CASE UNCHANGED cur
    BY <1>3, SameKind DEF LifeStep
  <1>. QED BY <1>1, <1>2, <1>3 DEF HandleEvent

LEMMA TimersLive ==
    ASSUME IInv, TimerFires \/ TimerBreaks \/ StaleFires \/ StaleBreaks
    PROVE  LifeStep
  <1>. USE Parts
  <1>1. CASE TimerFires
    <2>1. cur'.kind = cur.kind /\ Haunted' = Haunted
      BY <1>1 DEF TimerFires, Fired, States, Haunted
    <2>. QED BY <2>1, SameKind DEF LifeStep
  <1>2. CASE TimerBreaks
    <2>1. cur.kind \in {"Flash", "Test"} /\ cur'.kind = "Broken" /\ Haunted' = Haunted
      BY <1>2, Breaks DEF TimerBreaks, Timely, Haunted
    <2>2. Mode \in {"flashing", "testing"} /\ Mode' = "broken"
      BY <2>1 DEF Mode
    <2>. QED BY <2>1, <2>2 DEF LifeStep, Life!LifeNext, Life!Pass, Life!Timed
  <1>3. CASE StaleFires
    <2>1. Haunted /\ Haunted'
      BY <1>3 DEF StaleFires, Haunted
    <2>2. cur' = cur
      BY <1>3 DEF StaleFires
    <2>. QED BY <2>1, <2>2, SameKind DEF LifeStep
  <1>4. CASE StaleBreaks
    <2>1. Haunted
      BY <1>4 DEF StaleBreaks, Haunted
    <2>2. Haunted' \in BOOLEAN
      BY DEF Haunted
    <2>3. Mode' = "broken" \/ (Mode = "serving" /\ Mode' = Mode)
      <3>1. CASE ExitHangs
        BY <3>1 DEF ExitHangs, Mode
      <3>2. CASE Become(New("Broken"))
        BY <3>2, Breaks DEF Mode
      <3>. QED BY <1>4, <3>1, <3>2 DEF StaleBreaks
    <2>. QED BY <2>1, <2>2, <2>3 DEF LifeStep, Life!LifeNext, Life!Haunting
  <1>. QED BY <1>1, <1>2, <1>3, <1>4

LEMMA RequestsLive ==
    ASSUME IInv, UnreserveWrite \/ UnreserveSwitch \/ ReservePulse \/ ReserveUsbip \/ Replug
    PROVE  LifeStep
  <1>. USE Parts
  <1>1. CASE UNCHANGED <<cur, stale>>
    BY <1>1, SameKind DEF LifeStep, Haunted
  <1>2. CASE UnreserveSwitch /\ ~UNCHANGED <<cur, stale>>
    <2>1. StartFlash(New("Flash")) /\ stale' = Leave(stale)
      BY <1>2 DEF UnreserveSwitch, ExitHangs
    <2>2. cur.kind # "None"
      BY <1>2 DEF UnreserveSwitch
    <2>. QED BY <2>1, <2>2, StartFlashEnds, StartSwitches
  <1>3. CASE ReservePulse /\ ~UNCHANGED <<cur, stale>>
    <2>1. StartFlash(New("PulseFlash")) /\ stale' = Leave(stale) /\ cur.kind # "None"
      BY <1>3 DEF ReservePulse, ExitHangs
    <2>. QED BY <2>1, StartFlashEnds, StartSwitches
  <1>4. CASE ReserveUsbip /\ ~UNCHANGED <<cur, stale>>
    <2>1. /\ UNCHANGED stale
          /\ cur'.kind = IF cur.kind = "Pulse" THEN "PulseExited" ELSE cur.kind
      BY <1>4 DEF ReserveUsbip, ExitHangs, States
    <2>2. Mode' = Mode
      BY <2>1 DEF Mode
    <2>. QED BY <2>1, <2>2 DEF LifeStep, Haunted
  <1>. QED BY <1>1, <1>2, <1>3, <1>4 DEF UnreserveWrite, Replug

LEMMA NextLives == ASSUME IInv, [Next]_vars PROVE LifeStep
  <1>1. CASE UNCHANGED vars
    BY <1>1, SameKind DEF vars, LifeStep, Haunted
  <1>. QED BY <1>1, CreateLives, HandleEventLives, TimersLive, RequestsLive DEF Next

(* However its threads race, a board goes the way of BoardLife: it is ready*)
(* only after a flash and a test, and breaks out of turn only when a       *)
(* request replaced a state with a timer (Device.py:88-94).                *)
THEOREM LifeImplemented == Spec => LifeRefinement
  BY LifeStarts, Inductive, NextLives, PTL DEF Spec, LifeRefinement, Life!LifeSpec, LifeStep
=============================================================================
