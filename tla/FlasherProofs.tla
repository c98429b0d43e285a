---------------------------- MODULE FlasherProofs ----------------------------
(***************************************************************************)
(* Proofs about Flasher, for any boards and any number of flash calls.     *)
(*                                                                         *)
(* IInv adds to the invariants that Devices get newer: the one in the queue*)
(* is the newest of its board, and none was uploaded after the one the     *)
(* observer uses; and that a Device in use left the queue only by a timeout*)
(* or a stop.  TypeOK is proved apart, first.                              *)
(***************************************************************************)
EXTENDS Flasher, TLAPS

Boards == [Serials -> {"app", "boot"}]
Observers == [at: {"off", "poll", "dead", "ended"} \union Exports,
              serial: Serials \union {None}, device: 0..MaxSpent]

(* A step of the caller that touches its place and the timer only.         *)
Places == {"idle", "list", "scan", "check", "blocked", "take"}

LEMMA CallerTyped ==
    ASSUME TypeOK, timer' \in {"off", "armed", "fired"}, pc' \in Places,
           UNCHANGED <<usb, remaining, failed, uploaded, observer, stop,
                       batch, scan, history, spent>>,
           late' \in Nat
    PROVE  TypeOK'
  <1>1. BoardTypes'
    BY DEF TypeOK, BoardTypes, usb
  <1>2. QueueTypes'
    BY DEF TypeOK, QueueTypes, history
  <1>3. ThreadTypes'
    BY DEF TypeOK, ThreadTypes
  <1>4. CallerTypes'
    BY DEF TypeOK, CallerTypes, Places
  <1>. QED BY <1>1, <1>2, <1>3, <1>4 DEF TypeOK

USE DEF BoardTypes, QueueTypes, ThreadTypes, CallerTypes

LEMMA AtIsObserver ==
    ASSUME NEW a \in {"off", "poll", "dead", "ended"} \union Exports,
           NEW s \in Serials \union {None}, NEW d \in 0..MaxSpent
    PROVE  /\ At(a, s, d) \in Observers
           /\ At(a, s, d).at = a /\ At(a, s, d).serial = s /\ At(a, s, d).device = d
  BY DEF At, Observers

LEMMA WaitingIsObserver == Waiting \in Observers /\ Waiting.at = "poll"
  BY AtIsObserver, BoundAssumption DEF Waiting

LEMMA DeadIsObserver ==
    /\ At("dead", None, 0) \in Observers /\ At("dead", None, 0).at = "dead"
    /\ At("ended", None, 0) \in Observers /\ At("ended", None, 0).at = "ended"
  BY AtIsObserver, BoundAssumption

(* A board that comes up brings events of known kinds.                     *)
LEMMA ComesUpTypes ==
    ASSUME board \in Boards, events \in [Serials -> Seq(Exports)], NEW s \in Serials,
           NEW m \in {"app", "boot"}, ComesUp(s, m)
    PROVE  board' \in Boards /\ events' \in [Serials -> Seq(Exports)]
  <1>1. board' \in Boards
    BY DEF ComesUp, Boards
  <1>2. \A new \in Shows(m) : new \in Seq(Exports)
    <2>1. "tty" \in Exports /\ "part" \in Exports /\ "other" \in Exports
      BY DEF Exports
    <2>2. /\ <<"tty">> \in Seq(Exports)
          /\ <<"other", "part">> \in Seq(Exports) /\ <<"part", "other">> \in Seq(Exports)
      BY <2>1
    <2>. QED BY <2>2 DEF Shows
  <1>3. PICK new \in Shows(m) :
            events' = IF observer.at \in {"off", "dead", "ended"} THEN events
                      ELSE [events EXCEPT ![s] = @ \o new]
    BY DEF ComesUp
  <1>4. events[s] \o new \in Seq(Exports)
    BY <1>2
  <1>. QED BY <1>1, <1>3, <1>4

LEMMA BootloadTypes ==
    ASSUME TypeOK, NEW s \in Serials, Bootload(s)
    PROVE  board' \in Boards /\ events' \in [Serials -> Seq(Exports)] /\ fw' = fw
  <1>1. CASE ComesUp(s, "boot")
    BY <1>1, ComesUpTypes DEF TypeOK, Boards, Bootload
  <1>2. CASE UNCHANGED <<board, events>>
    BY <1>2 DEF TypeOK, Boards, Bootload
  <1>. QED BY <1>1, <1>2 DEF Bootload

(* A flash call gets a number of its own.                                  *)
LEMMA FlashCounts ==
    ASSUME TypeOK, NEW S \in SUBSET Serials, Flash(S)
    PROVE  spent' \in Flashes /\ spent' > spent
  BY BoundAssumption DEF Flash, TypeOK, Flashes

-----------------------------------------------------------------------------
(* What an export of the observer's Device does, by its effect: the Device *)
(* leaves the queue, is found gone, is uploaded, or nothing happens.       *)
ExportFrame ==
    /\ board' \in Boards /\ events' \in [Serials -> Seq(Exports)]
    /\ UNCHANGED <<stop, timer, late, batch, scan, queued, raced, spent>>

Popped(s) ==
    /\ remaining[s] # 0 /\ remaining' = [remaining EXCEPT ![s] = 0]
    /\ observer' = Waiting
    /\ pc' \in {pc, "check"}
    /\ UNCHANGED <<fw, uploaded, refused>>
    /\ \/ done' = done \union {<<s, observer.device>>} /\ UNCHANGED failed
          /\ <<s, observer.device>> \in uploaded
       \/ failed' = failed \union {s} /\ UNCHANGED done

Died(s) ==
    /\ remaining[s] = 0 /\ observer' = At("dead", None, 0)
    /\ UNCHANGED <<fw, remaining, failed, uploaded, done, refused, pc>>

Idled ==
    /\ observer' = Waiting
    /\ UNCHANGED <<fw, remaining, failed, uploaded, done, refused, pc>>

Uploaded(p) ==
    /\ uploaded' = uploaded \union {p}
    /\ observer' = Waiting
    /\ \/ fw' = [fw EXCEPT ![p[1]] = p[2]] /\ UNCHANGED refused
       \/ UNCHANGED fw /\ refused' = refused \union {p}
    /\ UNCHANGED <<remaining, failed, done, pc>>

LEMMA DoneEffect ==
    ASSUME NEW s, HandleDone(s), Finished, s = observer.serial
    PROVE  Popped(s) \/ Died(s)
  BY DEF HandleDone, Pop, Wake, Popped, Died, Finished

LEMMA FailedEffect ==
    ASSUME NEW s, HandleFailed(s)
    PROVE  Popped(s) \/ Died(s)
  BY DEF HandleFailed, Pop, Wake, Popped, Died

LEMMA PopEvents ==
    ASSUME TypeOK, NEW s, Pop(s), UNCHANGED board
    PROVE  board' \in Boards /\ events' \in [Serials -> Seq(Exports)]
  <1>1. [b \in Serials |-> <<>>] \in [Serials -> Seq(Exports)]
    OBVIOUS
  <1>. QED BY <1>1 DEF Pop, TypeOK, Boards

LEMMA ExportEffect ==
    ASSUME TypeOK, Export
    PROVE  /\ observer.at \in Exports
           /\ observer.serial \in Serials /\ observer.device \in Flashes
           /\ ExportFrame
           /\ \/ Popped(observer.serial) \/ Died(observer.serial) \/ Idled
              \/ Uploaded(<<observer.serial, observer.device>>)
  <1>1. observer.at \in Exports
    BY DEF Export, TtyExport, OtherExport, PartExport, Exports
  <1>2. observer.serial \in Serials /\ observer.device \in Flashes
    BY <1>1 DEF TypeOK
  <1>3. board \in Boards /\ events \in [Serials -> Seq(Exports)]
    BY DEF TypeOK, Boards
  <1>4. CASE TtyExport
    <2>1. UNCHANGED <<stop, timer, late, batch, scan, queued, raced, spent>>
      BY <1>4 DEF TtyExport
    <2>2. CASE Finished /\ HandleDone(observer.serial)
      BY <1>1, <1>2, <2>1, <2>2, DoneEffect, PopEvents DEF ExportFrame, HandleDone
    <2>3. CASE /\ ~Finished
               /\ Bootload(observer.serial)
               /\ observer' = Waiting
               /\ UNCHANGED <<remaining, failed, uploaded, pc, done, refused>>
      BY <1>1, <1>2, <2>1, <2>3, BootloadTypes DEF ExportFrame, Idled
    <2>. QED BY <1>4, <2>2, <2>3 DEF TtyExport
  <1>5. CASE OtherExport
    <2>1. UNCHANGED <<stop, timer, late, batch, scan, queued, raced, spent>>
      BY <1>5 DEF OtherExport
    <2>2. CASE Finished /\ HandleDone(observer.serial)
      BY <1>1, <1>2, <2>1, <2>2, DoneEffect, PopEvents DEF ExportFrame, HandleDone
    <2>3. CASE ~Finished /\ observer' = Waiting
               /\ UNCHANGED <<usb, remaining, failed, uploaded, pc, done, refused>>
      BY <1>1, <1>2, <1>3, <2>1, <2>3 DEF ExportFrame, Idled, usb
    <2>. QED BY <1>5, <2>2, <2>3 DEF OtherExport
  <1>6. CASE PartExport
    <2>. DEFINE s == observer.serial  d == observer.device
    <2>1. UNCHANGED <<stop, timer, late, batch, scan, queued, raced, spent>>
      BY <1>6 DEF PartExport
    <2>2. CASE HandleFailed(s)
      BY <1>1, <1>2, <2>1, <2>2, FailedEffect, PopEvents DEF ExportFrame, HandleFailed
    <2>3. CASE /\ Copied(s, d) \/ Refused(s, d)
               /\ uploaded' = uploaded \union {<<s, d>>}
               /\ observer' = Waiting
               /\ UNCHANGED <<remaining, failed, pc, done>>
      <3>1. CASE Copied(s, d)
        <4>1. board' \in Boards /\ events' \in [Serials -> Seq(Exports)]
          BY <1>2, <1>3, <3>1, ComesUpTypes DEF Copied
        <4>2. fw' = [fw EXCEPT ![<<s, d>>[1]] = <<s, d>>[2]] /\ UNCHANGED refused
          BY <3>1 DEF Copied
        <4>3. Uploaded(<<s, d>>)
          BY <2>3, <4>2 DEF Uploaded
        <4>. QED BY <1>1, <1>2, <2>1, <4>1, <4>3 DEF ExportFrame
      <3>2. CASE Refused(s, d)
        <4>1. ExportFrame
          BY <1>3, <2>1, <3>2 DEF ExportFrame, Refused, usb
        <4>2. Uploaded(<<s, d>>)
          BY <2>3, <3>2 DEF Uploaded, Refused, usb
        <4>. QED BY <1>1, <1>2, <4>1, <4>2
      <3>. QED BY <2>3, <3>1, <3>2
    <2>. QED BY <1>6, <2>2, <2>3 DEF PartExport
  <1>. QED BY <1>4, <1>5, <1>6 DEF Export
-----------------------------------------------------------------------------
(* Types.                                                                  *)
LEMMA InitTypes == Init => TypeOK
  <1>. SUFFICES ASSUME Init PROVE TypeOK
    OBVIOUS
  <1>0. At("off", None, 0) \in Observers /\ At("off", None, 0).at = "off"
    BY AtIsObserver, BoundAssumption
  <1>1. observer \in Observers /\ observer.at = "off"
    BY <1>0 DEF Init
  <1>2. events \in [Serials -> Seq(Exports)]
    BY DEF Init
  <1>3. stop \in BOOLEAN /\ raced \in BOOLEAN
    BY DEF Init
  <1>. QED BY <1>1, <1>2, <1>3, BoundAssumption DEF Init, TypeOK, Observers, Exports

LEMMA FlashTypes ==
    ASSUME TypeOK, NEW S \in SUBSET Serials, Flash(S) PROVE TypeOK'
  <1>1. spent' \in Flashes
    BY FlashCounts
  <1>2. remaining' \in [Serials -> 0..MaxSpent] /\ spent' \in 0..MaxSpent
    BY <1>1, BoundAssumption DEF Flash, TypeOK, Flashes
  <1>. QED BY <1>2 DEF Flash, TypeOK, usb

LEMMA CallerKeepsTypes ==
    ASSUME TypeOK,
           GetDevs \/ FlashReturns \/ Wait \/ Check \/ Take \/ TimerFires
    PROVE  TypeOK'
  <1>1. CASE GetDevs
    <2>1. scan' \subseteq Serials \X {"tty", "block"}
      BY <1>1 DEF GetDevs, TypeOK
    <2>. QED BY <1>1, <2>1 DEF GetDevs, TypeOK, usb, history
  <1>2. CASE FlashReturns
    BY <1>2 DEF FlashReturns, TypeOK, usb, history
  <1>3. CASE Wait
    <2>1. timer' \in {"off", "armed", "fired"} /\ pc' \in Places
      BY <1>3 DEF Wait, Places
    <2>2. UNCHANGED <<usb, remaining, failed, uploaded, observer, stop, late,
                      batch, scan, history, spent>>
      BY <1>3 DEF Wait
    <2>3. late' \in Nat
      BY <2>2 DEF TypeOK, ThreadTypes
    <2>. QED BY <2>1, <2>2, <2>3, CallerTyped
  <1>4. CASE Check
    <2>1. /\ timer' \in {"off", "armed", "fired"} /\ late' \in Nat
          /\ pc' \in Places
      BY <1>4 DEF Check, Places, TypeOK, ThreadTypes
    <2>2. UNCHANGED <<usb, remaining, failed, uploaded, observer, stop,
                      batch, scan, history, spent>>
      BY <1>4 DEF Check
    <2>. QED BY <2>1, <2>2, CallerTyped
  <1>5. CASE Take
    BY <1>5 DEF Take, TypeOK, usb
  <1>6. CASE TimerFires
    BY <1>6 DEF TimerFires, TypeOK, usb, caller, history
  <1>. QED BY <1>1, <1>2, <1>3, <1>4, <1>5, <1>6

LEMMA ScanNextTypes ==
    ASSUME TypeOK, NEW f \in scan, ScanNext(f) PROVE TypeOK'
  <1>1. board' \in Boards /\ events' \in [Serials -> Seq(Exports)] /\ fw' = fw
    <2>1. CASE Bootload(f[1])
      BY <2>1, BootloadTypes DEF TypeOK
    <2>2. CASE UNCHANGED usb
      BY <2>2 DEF usb, TypeOK, Boards
    <2>. QED BY <2>1, <2>2 DEF ScanNext
  <1>. QED BY <1>1 DEF ScanNext, TypeOK, Boards, history

LEMMA ReplugTypes ==
    ASSUME TypeOK, NEW s \in Serials, Replug(s) PROVE TypeOK'
  <1>1. board' \in Boards /\ events' \in [Serials -> Seq(Exports)]
    BY ComesUpTypes DEF Replug, TypeOK, Boards
  <1>2. spent' \in 0..MaxSpent
    BY BoundAssumption DEF Replug, TypeOK
  <1>. QED BY <1>1, <1>2 DEF Replug, TypeOK, Boards, caller, history

LEMMA ObserverTypes ==
    ASSUME TypeOK, StartFlasher \/ ObserverEnds PROVE TypeOK'
  <1>1. CASE StartFlasher
    BY <1>1, WaitingIsObserver
       DEF StartFlasher, TypeOK, Observers, Exports, usb, caller, history
  <1>2. CASE ObserverEnds
    <2>1. events' \in [Serials -> Seq(Exports)]
      BY <1>2 DEF ObserverEnds
    <2>. QED BY <1>2, <2>1, DeadIsObserver
             DEF ObserverEnds, TypeOK, Observers, Exports, caller, history
  <1>. QED BY <1>1, <1>2

(* The observer takes an event: of a board in the queue, its Device.       *)
LEMMA TakeEventEffect ==
    ASSUME TypeOK, NEW s \in Serials, TakeEvent(s)
    PROVE  /\ events' \in [Serials -> Seq(Exports)]
           /\ \/ observer' = observer
              \/ /\ remaining[s] # 0 /\ observer' \in Observers
                 /\ observer'.at \in Exports
                 /\ observer'.serial = s /\ observer'.device = remaining[s]
  <1>1. events[s] \in Seq(Exports) /\ events[s] # <<>>
    BY DEF TypeOK, TakeEvent
  <1>2. Head(events[s]) \in Exports /\ Tail(events[s]) \in Seq(Exports)
    BY <1>1
  <1>3. events' \in [Serials -> Seq(Exports)]
    BY <1>2 DEF TypeOK, TakeEvent
  <1>4. remaining[s] \in 0..MaxSpent
    BY DEF TypeOK
  <1>. DEFINE a == Head(events[s])  d == remaining[s]
  <1>. a \in Exports /\ d \in 0..MaxSpent /\ s \in Serials \union {None}
    BY <1>2, <1>4
  <1>. HIDE DEF a, d
  <1>5. /\ At(a, s, d) \in Observers /\ At(a, s, d).at = a
        /\ At(a, s, d).serial = s /\ At(a, s, d).device = d
    BY DEF At, Observers
  <1>7. /\ At(Head(events[s]), s, remaining[s]) \in Observers
        /\ At(Head(events[s]), s, remaining[s]).at \in Exports
        /\ At(Head(events[s]), s, remaining[s]).serial = s
        /\ At(Head(events[s]), s, remaining[s]).device = remaining[s]
    BY <1>5 DEF a, d
  <1>. QED BY <1>3, <1>7 DEF TakeEvent

LEMMA TakeEventTypes ==
    ASSUME TypeOK, NEW s \in Serials, TakeEvent(s) PROVE TypeOK'
  <1>1. remaining[s] # 0 => remaining[s] \in Flashes
    BY BoundAssumption DEF TypeOK, Flashes
  <1>. QED BY <1>1, TakeEventEffect
           DEF TakeEvent, TypeOK, Observers, caller, history

LEMMA FailAllTypes ==
    ASSUME TypeOK, OnTimeout \/ StopFlasher PROVE TypeOK'
  <1>1. /\ failed' \subseteq Serials /\ remaining' \in [Serials -> 0..MaxSpent]
        /\ raced' \in BOOLEAN /\ pc' \in {pc, "check"}
    <2>1. CASE OnTimeout
      BY <2>1, BoundAssumption DEF OnTimeout, FailAll, Pending, TypeOK, Wake
    <2>2. CASE StopFlasher
      BY <2>2, BoundAssumption DEF StopFlasher, FailAll, Pending, TypeOK, Wake
    <2>. QED BY <2>1, <2>2
  <1>2. CASE OnTimeout
    <2>1. timer' \in {"off", "armed", "fired"} /\ late' \in Nat
      BY <1>2 DEF OnTimeout, TypeOK
    <2>2. UNCHANGED <<usb, uploaded, observer, stop, batch, scan, queued, done, refused, spent>>
      BY <1>2 DEF OnTimeout
    <2>. QED BY <1>1, <2>1, <2>2 DEF TypeOK, usb
  <1>3. CASE StopFlasher
    <2>1. stop' \in BOOLEAN
      BY <1>3 DEF StopFlasher
    <2>2. UNCHANGED <<usb, uploaded, observer, timer, late, batch, scan, queued, done,
                      refused, spent>>
      BY <1>3 DEF StopFlasher
    <2>. QED BY <1>1, <2>1, <2>2 DEF TypeOK, usb
  <1>. QED BY <1>2, <1>3

LEMMA ExportTypes ==
    ASSUME TypeOK, Export PROVE TypeOK'
  <1>. DEFINE s == observer.serial  d == observer.device
  <1>1. s \in Serials /\ d \in Flashes /\ ExportFrame
    BY ExportEffect
  <1>2. /\ remaining' \in [Serials -> 0..MaxSpent] /\ failed' \subseteq Serials
        /\ uploaded' \subseteq Serials \X Flashes /\ fw' \in [Serials -> 0..MaxSpent]
        /\ done' \subseteq Serials \X Flashes /\ refused' \subseteq Serials \X Flashes
        /\ pc' \in {pc, "check"}
        /\ observer' \in Observers /\ observer'.at \in {"poll", "dead"}
    <2>. HIDE DEF s, d
    <2>1. CASE Popped(s)
      BY <1>1, <2>1, WaitingIsObserver, BoundAssumption DEF Popped, TypeOK, s, d
    <2>2. CASE Died(s)
      BY <1>1, <2>2, DeadIsObserver DEF Died, TypeOK
    <2>3. CASE Idled
      BY <2>3, WaitingIsObserver DEF Idled, TypeOK
    <2>4. CASE Uploaded(<<s, d>>)
      BY <1>1, <2>4, WaitingIsObserver DEF Uploaded, TypeOK, Flashes
    <2>. QED BY <2>1, <2>2, <2>3, <2>4, ExportEffect DEF s, d
  <1>. QED BY <1>1, <1>2 DEF ExportFrame, TypeOK, Boards, Observers, Exports

LEMMA NextTypes == ASSUME TypeOK, [Next]_vars PROVE TypeOK'
  <1>1. CASE UNCHANGED vars
    BY <1>1 DEF TypeOK, vars, usb, caller, history
  <1>. QED BY <1>1, FlashTypes, CallerKeepsTypes, ScanNextTypes, ReplugTypes, ObserverTypes,
              TakeEventTypes, FailAllTypes, ExportTypes DEF Next, Returning

-----------------------------------------------------------------------------
(* The other parts.                                                        *)
Parts == Accounted /\ DiesOnlyRaced /\ Ordered /\ InQueue /\ Uploads

queues == <<remaining, failed, uploaded, fw, history>>

(* Steps of the caller, the timer and the boards.                          *)
LEMMA QuietStep ==
    ASSUME IInv, UNCHANGED <<queues, observer>>, spent' \in Nat, spent' >= spent
    PROVE  Parts'
  <1>1. Accounted' /\ DiesOnlyRaced' /\ InQueue' /\ Uploads'
    BY DEF IInv, Accounted, Pending, DiesOnlyRaced, InQueue, Uploads, queues, history
  <1>2. Ordered'
    BY DEF IInv, TypeOK, Ordered, queues, history, Flashes, Exports
  <1>. QED BY <1>1, <1>2 DEF Parts

(* The observer starts, ends, or takes an event.                           *)
LEMMA ObserverStep ==
    ASSUME IInv, TypeOK', UNCHANGED <<queues, spent>>,
           \/ observer'.at \in {"poll", "ended"}
           \/ /\ observer'.at \in Exports
              /\ remaining[observer'.serial] # 0
              /\ observer'.device = remaining[observer'.serial]
    PROVE  Parts'
  <1>1. Accounted' /\ Uploads'
    BY DEF IInv, Accounted, Pending, Uploads, queues, history
  <1>2. DiesOnlyRaced' /\ InQueue'
    BY DEF DiesOnlyRaced, InQueue, queues, Exports
  <1>3. Ordered'
    BY DEF IInv, TypeOK, Ordered, queues, Flashes, Exports
  <1>. QED BY <1>1, <1>2, <1>3 DEF Parts

LEMMA FlashStep ==
    ASSUME IInv, NEW S \in SUBSET Serials, Flash(S)
    PROVE  Parts'
  <1>1. spent' \in Flashes /\ spent' > spent
    BY FlashCounts DEF IInv
  <1>2. /\ remaining' = [s \in Serials |-> IF s \in S THEN spent' ELSE remaining[s]]
        /\ queued' = queued \union S
        /\ done' = {p \in done : p[1] \notin S}
        /\ UNCHANGED <<fw, failed, uploaded, observer, refused, raced>>
    BY DEF Flash, usb
  <1>3. Accounted'
    <2>1. Pending' = Pending \union S
      BY <1>1, <1>2 DEF Pending, Flashes
    <2>2. {p[1] : p \in done} \subseteq {p[1] : p \in done'} \union S
      BY <1>2
    <2>3. \A p \in done' : remaining'[p[1]] = 0
      BY <1>2 DEF IInv, TypeOK, Accounted
    <2>. QED BY <1>2, <2>1, <2>2, <2>3 DEF IInv, Accounted
  <1>4. DiesOnlyRaced' /\ Uploads'
    BY <1>2 DEF IInv, DiesOnlyRaced, Uploads
  <1>5. InQueue'
    BY <1>1, <1>2 DEF IInv, TypeOK, InQueue, Flashes
  <1>6. Ordered'
    BY <1>1, <1>2 DEF IInv, TypeOK, Ordered, Flashes
  <1>. QED BY <1>3, <1>4, <1>5, <1>6 DEF Parts

LEMMA TakeStep ==
    ASSUME IInv, Take
    PROVE  Parts'
  <1>1. Accounted' /\ DiesOnlyRaced' /\ InQueue' /\ Uploads'
    BY DEF IInv, Take, usb, Accounted, DiesOnlyRaced, InQueue, Uploads
  <1>2. Ordered'
    BY DEF IInv, Take, Ordered
  <1>. QED BY <1>1, <1>2 DEF Parts

(* A timeout or a stop: the queue becomes failed_serials.                  *)
LEMMA FailAllStep ==
    ASSUME IInv, OnTimeout \/ StopFlasher
    PROVE  Parts'
  <1>1. /\ failed' = failed \union Pending
        /\ remaining' = [s \in Serials |-> 0] /\ raced' = TRUE
        /\ UNCHANGED <<fw, uploaded, observer, queued, done, refused, spent>>
    BY DEF OnTimeout, StopFlasher, FailAll, usb
  <1>2. Accounted'
    <2>1. \A p \in done' : remaining'[p[1]] = 0
      BY <1>1 DEF IInv, TypeOK
    <2>2. queued' \subseteq failed' \union {p[1] : p \in done'}
      BY <1>1 DEF IInv, Accounted
    <2>. QED BY <2>1, <2>2 DEF Accounted
  <1>3. DiesOnlyRaced' /\ InQueue' /\ Uploads'
    BY <1>1 DEF IInv, DiesOnlyRaced, InQueue, Uploads
  <1>4. Ordered'
    BY <1>1 DEF IInv, TypeOK, Ordered
  <1>. QED BY <1>2, <1>3, <1>4 DEF Parts

(* The export of the observer's Device.                                    *)
LEMMA ExportStep ==
    ASSUME IInv, Export
    PROVE  Parts'
  <1>. DEFINE s == observer.serial  d == observer.device
  <1>1. /\ observer.at \in Exports /\ s \in Serials /\ d \in Flashes
        /\ UNCHANGED <<queued, raced, spent>>
    BY ExportEffect DEF IInv, ExportFrame
  <1>2. CASE Popped(s)
    <2>1. /\ remaining[s] # 0 /\ remaining' = [remaining EXCEPT ![s] = 0]
          /\ UNCHANGED <<fw, uploaded, refused>>
          /\ observer'.at = "poll"
          /\ \/ done' = done \union {<<s, d>>} /\ UNCHANGED failed /\ <<s, d>> \in uploaded
             \/ failed' = failed \union {s} /\ UNCHANGED done
      BY <1>2, WaitingIsObserver DEF Popped
    <2>. HIDE DEF s, d
    <2>2. Accounted'
      <3>1. Pending' = Pending \ {s}
        BY <1>1, <2>1 DEF Pending, IInv, TypeOK
      <3>2. \A p \in done' : remaining'[p[1]] = 0
        BY <1>1, <2>1 DEF IInv, TypeOK, Accounted
      <3>3. s \in failed' \union {p[1] : p \in done'} /\ failed \subseteq failed'
            /\ done \subseteq done'
        <4>1. CASE failed' = failed \union {s} /\ UNCHANGED done
          BY <4>1
        <4>2. CASE done' = done \union {<<s, d>>} /\ UNCHANGED failed
          <5>1. <<s, d>> \in done' /\ <<s, d>>[1] = s
            BY <4>2
          <5>. QED BY <4>2, <5>1
        <4>. QED BY <2>1, <4>1, <4>2
      <3>. QED BY <1>1, <3>1, <3>2, <3>3 DEF IInv, Accounted
    <2>3. DiesOnlyRaced' /\ InQueue' /\ Uploads'
      BY <2>1 DEF IInv, DiesOnlyRaced, InQueue, Uploads, Exports
    <2>4. Ordered'
      BY <1>1, <2>1 DEF IInv, TypeOK, Ordered, Exports, Flashes
    <2>. QED BY <2>2, <2>3, <2>4 DEF Parts
  <1>3. CASE Died(s)
    <2>1. raced
      BY <1>1, <1>3 DEF Died, IInv, InQueue
    <2>2. Accounted' /\ Uploads'
      BY <1>1, <1>3 DEF Died, IInv, Accounted, Pending, Uploads
    <2>3. observer'.at = "dead"
      BY <1>3, DeadIsObserver DEF Died
    <2>4. DiesOnlyRaced' /\ InQueue'
      BY <1>1, <2>1 DEF DiesOnlyRaced, InQueue
    <2>5. Ordered'
      BY <1>1, <1>3, <2>3 DEF Died, IInv, Ordered, Exports
    <2>. QED BY <2>2, <2>4, <2>5 DEF Parts
  <1>4. CASE Idled
    <2>1. observer'.at = "poll"
      BY <1>4, WaitingIsObserver DEF Idled
    <2>. QED BY <1>1, <1>4, <2>1, ExportTypes, ObserverStep
             DEF Idled, IInv, queues, history
  <1>5. CASE Uploaded(<<s, d>>)
    <2>1. /\ uploaded' = uploaded \union {<<s, d>>}
          /\ observer'.at = "poll"
          /\ \/ fw' = [fw EXCEPT ![s] = d] /\ UNCHANGED refused
             \/ UNCHANGED fw /\ refused' = refused \union {<<s, d>>}
          /\ UNCHANGED <<remaining, failed, done>>
      BY <1>5, WaitingIsObserver DEF Uploaded
    <2>2. d <= spent /\ (remaining[s] = 0 \/ d <= remaining[s])
          /\ \A p \in uploaded : p[1] = s => p[2] <= d
      BY <1>1 DEF IInv, Ordered
    <2>. HIDE DEF s, d
    <2>3. Accounted'
      BY <1>1, <2>1 DEF IInv, Accounted, Pending
    <2>4. DiesOnlyRaced' /\ InQueue'
      BY <2>1 DEF DiesOnlyRaced, InQueue, Exports
    <2>5. Uploads'
      BY <1>1, <2>1, <2>2 DEF IInv, TypeOK, Uploads, Flashes
    <2>6. Ordered'
      BY <1>1, <2>1, <2>2 DEF IInv, TypeOK, Ordered, Exports, Flashes
    <2>. QED BY <2>3, <2>4, <2>5, <2>6 DEF Parts
  <1>. QED BY <1>2, <1>3, <1>4, <1>5, ExportEffect DEF IInv

LEMMA NextParts ==
    ASSUME IInv, [Next]_vars
    PROVE  Parts'
  <1>0. TypeOK /\ TypeOK' /\ spent \in Nat
    <2>1. spent \in 0..MaxSpent
      BY DEF IInv, TypeOK
    <2>2. TypeOK
      BY DEF IInv
    <2>3. TypeOK'
      BY <2>2, NextTypes
    <2>. QED BY <2>1, <2>2, <2>3, BoundAssumption
  <1>1. CASE UNCHANGED vars
    BY <1>0, <1>1, QuietStep DEF vars, usb, queues, history
  <1>2. CASE GetDevs \/ FlashReturns \/ Wait \/ Check \/ TimerFires
    <2>1. UNCHANGED <<queues, observer, spent>>
      BY <1>2 DEF GetDevs, FlashReturns, Wait, Check, TimerFires, usb, queues
    <2>. QED BY <1>0, <2>1, QuietStep
  <1>3. ASSUME NEW f \in scan, ScanNext(f) PROVE Parts'
    <2>1. fw' = fw
      BY <1>3 DEF ScanNext, Bootload, usb
    <2>. QED BY <1>0, <1>3, <2>1, QuietStep DEF ScanNext, queues
  <1>4. ASSUME NEW s \in Serials, Replug(s) PROVE Parts'
    BY <1>0, <1>4, QuietStep DEF Replug, queues
  <1>5. CASE StartFlasher
    BY <1>0, <1>5, ObserverStep, WaitingIsObserver DEF StartFlasher, queues, usb
  <1>6. CASE ObserverEnds
    BY <1>0, <1>6, ObserverStep, DeadIsObserver DEF ObserverEnds, queues
  <1>7. ASSUME NEW s \in Serials, TakeEvent(s) PROVE Parts'
    <2>1. UNCHANGED <<queues, spent>>
      BY <1>7 DEF TakeEvent, queues
    <2>2. CASE observer' = observer
      BY <1>0, <2>1, <2>2, QuietStep
    <2>3. CASE /\ remaining[s] # 0 /\ observer'.at \in Exports
               /\ observer'.serial = s /\ observer'.device = remaining[s]
      BY <1>0, <2>1, <2>3, ObserverStep
    <2>. QED BY <1>0, <1>7, <2>2, <2>3, TakeEventEffect
  <1>8. ASSUME NEW S \in SUBSET Serials, Flash(S) PROVE Parts'
    BY <1>8, FlashStep
  <1>. QED BY <1>1, <1>2, <1>3, <1>4, <1>5, <1>6, <1>7, <1>8, TakeStep, FailAllStep, ExportStep
           DEF Next, Returning

-----------------------------------------------------------------------------
(* The inductive invariant holds in every state.                           *)
THEOREM Inductive == Spec => []IInv
  <1>1. Init => IInv
    <2>. SUFFICES ASSUME Init PROVE IInv
      OBVIOUS
    <2>1. TypeOK
      BY InitTypes
    <2>2. observer.at = "off"
      <3>1. observer = At("off", None, 0)
        BY DEF Init
      <3>. QED BY <3>1 DEF At
    <2>3. Accounted /\ DiesOnlyRaced /\ InQueue /\ Uploads
      BY <2>2 DEF Init, Accounted, DiesOnlyRaced, InQueue, Uploads, Exports
    <2>4. Ordered
      BY <2>2 DEF Init, Ordered, Exports
    <2>. QED BY <2>1, <2>3, <2>4 DEF IInv
  <1>2. IInv /\ [Next]_vars => IInv'
    BY NextTypes, NextParts DEF IInv, Parts
  <1>. QED BY <1>1, <1>2, PTL DEF Spec

(* Type correctness.                                                       *)
THEOREM TypeCorrect == Spec => []TypeOK
  <1>1. IInv => TypeOK
    BY DEF IInv
  <1>. QED BY <1>1, Inductive, PTL

(* No board that was queued is forgotten: it is in the queue, was done, or *)
(* will be reported as failed (FirmwareFlasher.py:128-180).                *)
THEOREM AccountedHolds == Spec => []Accounted
  <1>1. IInv => Accounted
    BY DEF IInv
  <1>. QED BY <1>1, Inductive, PTL

(* A board counted done has the firmware it was counted for, or a later    *)
(* one, unless its upload was refused (FirmwareFlasher.py:18-42).          *)
THEOREM DoneIsUploadedHolds == Spec => []DoneIsUploaded
  <1>1. IInv => DoneIsUploaded
    BY DEF IInv, Uploads, DoneIsUploaded
  <1>. QED BY <1>1, Inductive, PTL

(* Only a timeout or a stop that overtakes the observer kills it           *)
(* (FirmwareFlasher.py:90-101, 130).                                       *)
THEOREM DiesOnlyRacedHolds == Spec => []DiesOnlyRaced
  <1>1. IInv => DiesOnlyRaced
    BY DEF IInv
  <1>. QED BY <1>1, Inductive, PTL

-----------------------------------------------------------------------------
(* A sleeping wait.  Who takes a board from the queue leaves another or    *)
(* wakes the caller.                                                       *)
LEMMA PopWakes ==
    ASSUME TypeOK, SleepsForABoard, NEW s \in Serials, Pop(s)
    PROVE  SleepsForABoard'
  <1>1. CASE remaining[s] # 0
    <2>1. remaining' = [remaining EXCEPT ![s] = 0]
      BY <1>1 DEF Pop
    <2>2. Pending' = Pending \ {s}
      BY <2>1 DEF Pending, TypeOK
    <2>3. CASE Pending = {s}
      BY <1>1, <2>3 DEF Pop, Wake, SleepsForABoard
    <2>4. CASE Pending # {s}
      BY <1>1, <2>2, <2>4 DEF Pop, SleepsForABoard, Pending
    <2>. QED BY <2>3, <2>4
  <1>2. CASE remaining[s] = 0
    BY <1>2 DEF Pop, SleepsForABoard, Pending
  <1>. QED BY <1>1, <1>2

LEMMA ExportWakes ==
    ASSUME TypeOK, SleepsForABoard, Export
    PROVE  SleepsForABoard'
  <1>1. observer.serial \in Serials
    BY DEF Export, TtyExport, OtherExport, PartExport, TypeOK, Exports
  <1>2. \/ Pop(observer.serial)
        \/ UNCHANGED <<remaining, pc>>
    BY DEF Export, TtyExport, OtherExport, PartExport, HandleDone, HandleFailed
  <1>. QED BY <1>1, <1>2, PopWakes DEF SleepsForABoard, Pending

(* A wait sleeps only for a board that is still in the queue               *)
(* (FirmwareFlasher.py:128-180): the safety half of WaitEnds.              *)
THEOREM SleepsForABoardHolds == Spec => []SleepsForABoard
  <1>1. Init => SleepsForABoard
    BY DEF Init, SleepsForABoard
  <1>2. TypeOK /\ SleepsForABoard /\ [Next]_vars => SleepsForABoard'
    <2>. SUFFICES ASSUME TypeOK, SleepsForABoard, [Next]_vars PROVE SleepsForABoard'
      OBVIOUS
    <2>1. CASE UNCHANGED vars
      BY <2>1 DEF vars, caller, SleepsForABoard, Pending
    <2>2. CASE \/ GetDevs \/ FlashReturns \/ Wait \/ Take
               \/ \E S \in SUBSET Serials : Flash(S)
      BY <2>2 DEF GetDevs, FlashReturns, Wait, Take, Flash, SleepsForABoard
    <2>3. CASE Check
      BY <2>3 DEF Check, SleepsForABoard, Pending
    <2>4. CASE OnTimeout \/ StopFlasher
      BY <2>4 DEF OnTimeout, StopFlasher, FailAll, Wake, SleepsForABoard
    <2>5. CASE \/ StartFlasher \/ TimerFires \/ ObserverEnds \/ \E f \in scan : ScanNext(f)
               \/ \E s \in Serials : TakeEvent(s) \/ Replug(s)
      BY <2>5 DEF StartFlasher, TimerFires, ObserverEnds, ScanNext, TakeEvent, Replug,
                  caller, SleepsForABoard, Pending
    <2>. QED BY <2>1, <2>2, <2>3, <2>4, <2>5, ExportWakes DEF Next, Returning
  <1>. QED BY <1>1, <1>2, TypeCorrect, PTL DEF Spec
=============================================================================
