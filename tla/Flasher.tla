------------------------------ MODULE Flasher ------------------------------
(***************************************************************************)
(* FirmwareFlasher: a caller queues boards and waits, the observer thread  *)
(* follows their udev events, a timer ends the wait, and anybody may stop  *)
(* it.  A step is what runs under cv, or one call to the board.            *)
(*                                                                         *)
(* flash makes a Device object per board, known by the number of the       *)
(* flash call (spent).  The boards and their udev events are external: an  *)
(* application shows a tty, the bootloader a disk and its partition.       *)
(* Events that come before startFlasher are not seen.                      *)
(***************************************************************************)
EXTENDS Naturals, Sequences

CONSTANTS
    Serials,
    MaxSpent,       \* bound: flash calls, and boards plugged out and in
    None

ASSUME BoundAssumption == MaxSpent \in Nat
ASSUME NoneAssumption == None \notin Serials

VARIABLES
    \* the boards (external)
    board,          \* what a board runs
    fw,             \* the flash call whose firmware it has, 0 for another
    events,         \* udev events not handled yet, of each board
    \* FirmwareFlasher
    remaining,      \* remaining_serials: the Device of each board, 0 for none
    failed,         \* failed_serials
    uploaded,       \* Devices with upload_finished
    observer,       \* the observer thread
    stop,           \* send_stop was called
    timer,          \* the timer of the wait under way
    late,           \* timers past their time whose wait is over
    \* the caller
    pc, batch, scan,
    \* history
    spent,          \* what the bound counts; it numbers the flash calls
    queued,         \* boards queued since the last report
    done,           \* Devices that handleDone popped since their flash
    refused,        \* Devices whose upload returned False
    raced           \* a timeout or stop emptied the queue

usb == <<board, fw, events>>
caller == <<pc, batch, scan>>
history == <<queued, done, refused, raced>>
vars == <<usb, remaining, failed, uploaded, observer, stop, timer, late, caller, history, spent>>

Flashes == 1..MaxSpent
Exports == {"tty", "part", "other"}
At(at, s, d) == [at |-> at, serial |-> s, device |-> d]
Waiting == At("poll", None, 0)
Pending == {s \in Serials : remaining[s] # 0}

BoardTypes ==
    /\ board \in [Serials -> {"app", "boot"}]
    /\ fw \in [Serials -> 0..MaxSpent]
    /\ events \in [Serials -> Seq(Exports)]

QueueTypes ==
    /\ remaining \in [Serials -> 0..MaxSpent]
    /\ failed \subseteq Serials /\ queued \subseteq Serials
    /\ uploaded \subseteq Serials \X Flashes
    /\ done \subseteq Serials \X Flashes /\ refused \subseteq Serials \X Flashes
    /\ spent \in 0..MaxSpent /\ raced \in BOOLEAN

ThreadTypes ==
    /\ observer \in [at: {"off", "poll", "dead", "ended"} \union Exports,
                     serial: Serials \union {None}, device: 0..MaxSpent]
    /\ observer.at \in Exports => observer.serial \in Serials /\ observer.device \in Flashes
    /\ stop \in BOOLEAN /\ timer \in {"off", "armed", "fired"} /\ late \in Nat

CallerTypes ==
    /\ pc \in {"idle", "list", "scan", "check", "blocked", "take"}
    /\ batch \subseteq Serials /\ scan \subseteq Serials \X {"tty", "block"}

TypeOK == BoardTypes /\ QueueTypes /\ ThreadTypes /\ CallerTypes

Init ==
    /\ board = [s \in Serials |-> "app"]
    /\ fw = [s \in Serials |-> 0]
    /\ events = [s \in Serials |-> <<>>]
    /\ remaining = [s \in Serials |-> 0]
    /\ failed = {} /\ uploaded = {}
    /\ observer = At("off", None, 0) /\ stop = FALSE
    /\ timer = "off" /\ late = 0
    /\ pc = "idle" /\ batch = {} /\ scan = {}
    /\ spent = 0
    /\ queued = {} /\ done = {} /\ refused = {} /\ raced = FALSE

-----------------------------------------------------------------------------
(* The board comes up anew, in time or not: its events may be late.        *)
Shows(mode) == IF mode = "app" THEN {<<"tty">>}
               ELSE {<<"other", "part">>, <<"part", "other">>}

ComesUp(s, mode) ==
    /\ board' = [board EXCEPT ![s] = mode]
    /\ \E new \in Shows(mode) :
          events' = IF observer.at \in {"off", "dead", "ended"} THEN events
                    ELSE [events EXCEPT ![s] = @ \o new]

(* send_bootloader fails on the tty of a board that has none any more.     *)
Bootload(s) ==
    /\ IF board[s] = "app" THEN ComesUp(s, "boot")
                           ELSE UNCHANGED <<board, events>>
    /\ UNCHANGED fw

Replug(s) ==
    /\ spent < MaxSpent
    /\ spent' = spent + 1
    /\ ComesUp(s, "app")
    /\ UNCHANGED <<fw, remaining, failed, uploaded, observer, stop, timer, late,
                   caller, history>>

-----------------------------------------------------------------------------
(* flash: the Devices; the files of the boards as they are then; then the  *)
(* bootloader for each tty, until a file is of another kind.               *)
Flash(S) ==
    /\ pc = "idle"
    /\ S # {}
    /\ spent < MaxSpent
    /\ spent' = spent + 1
    /\ remaining' = [s \in Serials |-> IF s \in S THEN spent' ELSE remaining[s]]
    /\ queued' = queued \union S
    /\ done' = {p \in done : p[1] \notin S}
    /\ batch' = S
    /\ pc' = "list"
    /\ UNCHANGED <<usb, failed, uploaded, observer, stop, timer, late, scan,
                   refused, raced>>

GetDevs ==
    /\ pc = "list"
    /\ \E away \in SUBSET {s \in batch : events[s] # <<>>} :
          scan' = {<<s, IF board[s] = "app" THEN "tty" ELSE "block">> : s \in batch \ away}
    /\ batch' = {}
    /\ pc' = "scan"
    /\ UNCHANGED <<usb, remaining, failed, uploaded, observer, stop, timer, late,
                   history, spent>>

ScanNext(f) ==
    /\ pc = "scan"
    /\ f \in scan
    /\ \/ f[2] = "tty" /\ Bootload(f[1]) /\ scan' = scan \ {f}
       \/ f[2] = "block" /\ scan' = {} /\ UNCHANGED usb
    /\ UNCHANGED <<remaining, failed, uploaded, observer, stop, timer, late, pc,
                   batch, history, spent>>

FlashReturns ==
    /\ pc = "scan"
    /\ scan = {}
    /\ pc' = "idle"
    /\ UNCHANGED <<usb, remaining, failed, uploaded, observer, stop, timer, late,
                   batch, scan, history, spent>>

-----------------------------------------------------------------------------
(* The observer.  startFlasher once; a thread that has ended cannot be     *)
(* started again.                                                          *)
StartFlasher ==
    /\ pc = "idle"
    /\ observer.at = "off"
    /\ observer' = Waiting
    /\ UNCHANGED <<usb, remaining, failed, uploaded, stop, timer, late, caller,
                   history, spent>>

\* mutant: a Device that was uploaded stays known when it is popped
TakeKnown(s) ==
    LET known == ({remaining[s]} \ {0}) \union {d \in Flashes : <<s, d>> \in uploaded}
    IN /\ observer.at = "poll"
       /\ events[s] # <<>>
       /\ events' = [events EXCEPT ![s] = Tail(@)]
       /\ observer' \in IF known = {} THEN {observer}
                        ELSE {At(Head(events[s]), s, d) : d \in known}
       /\ UNCHANGED <<board, fw, remaining, failed, uploaded, stop, timer, late, caller,
                      history, spent>>

\* mutant: it is not looked whether the board is in the queue
TakeAnything(s) ==
    /\ observer.at = "poll"
    /\ events[s] # <<>>
    /\ events' = [events EXCEPT ![s] = Tail(@)]
    /\ observer' = At(Head(events[s]), s, remaining[s])
    /\ UNCHANGED <<board, fw, remaining, failed, uploaded, stop, timer, late, caller,
                   history, spent>>

(* __handle_event: the Device is looked up under cv and used outside it.   *)
TakeEvent(s) ==
    /\ observer.at = "poll"
    /\ events[s] # <<>>
    /\ events' = [events EXCEPT ![s] = Tail(@)]
    /\ observer' = IF remaining[s] = 0 THEN observer
                   ELSE At(Head(events[s]), s, remaining[s])
    /\ UNCHANGED <<board, fw, remaining, failed, uploaded, stop, timer, late, caller,
                   history, spent>>

\* mutant: notify_all is left to the timeout
WakeNobody == UNCHANGED pc

Wake == pc' = IF pc = "blocked" THEN "check" ELSE pc

(* remaining_serials.pop raises for a board that is gone from it, and ends *)
(* the thread; the last one wakes the caller.                              *)
Pop(s) ==
    \/ /\ remaining[s] # 0
       /\ remaining' = [remaining EXCEPT ![s] = 0]
       /\ observer' = Waiting
       /\ IF Pending = {s} THEN Wake ELSE UNCHANGED pc
       /\ UNCHANGED events
    \/ /\ remaining[s] = 0
       /\ observer' = At("dead", None, 0)
       /\ events' = [b \in Serials |-> <<>>]
       /\ UNCHANGED <<remaining, pc>>

HandleDone(s) ==
    /\ Pop(s)
    /\ done' = IF remaining[s] = 0 THEN done ELSE done \union {<<s, observer.device>>}
    /\ UNCHANGED <<board, fw, failed, uploaded, refused>>

HandleFailed(s) ==
    /\ Pop(s)
    /\ failed' = IF remaining[s] = 0 THEN failed ELSE failed \union {s}
    /\ UNCHANGED <<board, fw, uploaded, done, refused>>

\* mutant: upload_finished is kept by board
FinishedOnce == \E p \in uploaded : p[1] = observer.serial

Finished == <<observer.serial, observer.device>> \in uploaded

TtyExport ==
    /\ observer.at = "tty"
    /\ \/ Finished /\ HandleDone(observer.serial)
       \/ /\ ~Finished
          /\ Bootload(observer.serial)
          /\ observer' = Waiting
          /\ UNCHANGED <<remaining, failed, uploaded, pc, done, refused>>
    /\ UNCHANGED <<stop, timer, late, batch, scan, queued, raced, spent>>

OtherExport ==
    /\ observer.at = "other"
    /\ \/ Finished /\ HandleDone(observer.serial)
       \/ ~Finished /\ observer' = Waiting
          /\ UNCHANGED <<usb, remaining, failed, uploaded, pc, done, refused>>
    /\ UNCHANGED <<stop, timer, late, batch, scan, queued, raced, spent>>

(* upload_firmware_path copies the firmware, raises when that fails, or    *)
(* answers False (no mount, other files), which partExport does not see.   *)
Copied(s, d) ==
    /\ board[s] = "boot"
    /\ fw' = [fw EXCEPT ![s] = d]
    /\ ComesUp(s, "app")
    /\ UNCHANGED refused

Refused(s, d) == refused' = refused \union {<<s, d>>} /\ UNCHANGED usb

PartExport ==
    /\ observer.at = "part"
    /\ LET s == observer.serial  d == observer.device
       IN \/ /\ Copied(s, d) \/ Refused(s, d)
             /\ uploaded' = uploaded \union {<<s, d>>}
             /\ observer' = Waiting
             /\ UNCHANGED <<remaining, failed, pc, done>>
          \/ HandleFailed(s)
    /\ UNCHANGED <<stop, timer, late, batch, scan, queued, raced, spent>>

-----------------------------------------------------------------------------
(* waitUntilFlashingFinished, of a caller that has queued something.       *)
Wait ==
    /\ pc = "idle"
    /\ queued # {}
    /\ \E timed \in BOOLEAN : timer' = IF timed THEN "armed" ELSE "off"
    /\ pc' = "check"
    /\ UNCHANGED <<usb, remaining, failed, uploaded, observer, stop, late, batch,
                   scan, history, spent>>

(* The predicate under cv, then timer.cancel, which does not stop a timer  *)
(* that has begun.                                                         *)
Check ==
    /\ pc = "check"
    /\ IF Pending = {}
       THEN /\ pc' = "take"
            /\ timer' = "off"
            /\ late' = IF timer = "fired" THEN late + 1 ELSE late
       ELSE pc' = "blocked" /\ UNCHANGED <<timer, late>>
    /\ UNCHANGED <<usb, remaining, failed, uploaded, observer, stop, batch, scan,
                   history, spent>>

Take ==
    /\ pc = "take"
    /\ failed' = {}
    /\ queued' = {} /\ done' = {}
    /\ pc' = "idle"
    /\ UNCHANGED <<usb, remaining, uploaded, observer, stop, timer, late, batch,
                   scan, refused, raced, spent>>

\* mutant: the queue is emptied and nothing reported
Forget ==
    /\ remaining' = [s \in Serials |-> 0]
    /\ raced' = TRUE
    /\ Wake
    /\ UNCHANGED failed

(* The queue becomes failed_serials.                                       *)
FailAll ==
    /\ failed' = failed \union Pending
    /\ remaining' = [s \in Serials |-> 0]
    /\ raced' = TRUE
    /\ Wake

TimerFires ==
    /\ timer = "armed"
    /\ timer' = "fired"
    /\ UNCHANGED <<usb, remaining, failed, uploaded, observer, stop, late, caller,
                   history, spent>>

OnTimeout ==
    /\ \/ timer = "fired" /\ timer' = "off" /\ UNCHANGED late
       \/ late > 0 /\ late' = late - 1 /\ UNCHANGED timer
    /\ FailAll
    /\ UNCHANGED <<usb, uploaded, observer, stop, batch, scan, queued, done,
                   refused, spent>>

(* stopFlasher, also of a signal handler or another thread.                *)
StopFlasher ==
    /\ ~stop
    /\ stop' = (observer.at \notin {"off", "dead", "ended"})
    /\ FailAll
    /\ UNCHANGED <<usb, uploaded, observer, timer, late, batch, scan, queued,
                   done, refused, spent>>

ObserverEnds ==
    /\ stop
    /\ observer.at = "poll"
    /\ observer' = At("ended", None, 0)
    /\ events' = [s \in Serials |-> <<>>]
    /\ UNCHANGED <<board, fw, remaining, failed, uploaded, stop, timer, late, caller,
                   history, spent>>

-----------------------------------------------------------------------------
Returning == Check \/ Take
Export == TtyExport \/ OtherExport \/ PartExport

Next ==
    \/ \E S \in SUBSET Serials : Flash(S)
    \/ GetDevs \/ FlashReturns \/ \E f \in scan : ScanNext(f)
    \/ StartFlasher \/ Wait \/ Returning
    \/ \E s \in Serials : TakeEvent(s) \/ Replug(s)
    \/ Export
    \/ TimerFires \/ OnTimeout \/ StopFlasher \/ ObserverEnds

Spec == Init /\ [][Next]_vars

(* The caller and the timers run; nothing is assumed of boards.            *)
Fairness == WF_vars(Returning) /\ WF_vars(TimerFires \/ OnTimeout)
FairSpec == Spec /\ Fairness

-----------------------------------------------------------------------------
(* No board is forgotten: what was queued since the last report is still   *)
(* in the queue, was counted done, or will be reported as failed, also when*)
(* a timer or a stop falls between the lookup of a Device and its export,  *)
(* or a timer of an earlier wait comes late (FirmwareFlasher.py:128-180).  *)
Accounted ==
    /\ queued \subseteq Pending \union failed \union {p[1] : p \in done}
    /\ \A p \in done : remaining[p[1]] = 0

(* A board counted done has the firmware of the Device that counted it, or *)
(* of a later one; unless its upload was refused, which goes unnoticed     *)
(* (FirmwareFlasher.py:18-42).                                             *)
DoneIsUploaded ==
    \A p \in done : fw[p[1]] >= p[2] \/ p \in refused

(* The observer is killed only by a timeout or a stop that overtakes it;   *)
(* else each event finds its Device in the queue, or is dropped            *)
(* (FirmwareFlasher.py:90-101, 130).                                       *)
DiesOnlyRaced == observer.at = "dead" => raced

(* A wait that sleeps has a board to wait for: whoever takes the last one  *)
(* from the queue, the observer, the timer of this wait or of an earlier   *)
(* one, or a stop, wakes it (FirmwareFlasher.py:128-180).                  *)
SleepsForABoard == pc = "blocked" => Pending # {}

(* The parts of the inductive invariant of these.                          *)
\* flash makes newer Devices: one that is used or was uploaded is not newer
\* than the one in the queue, nor was one uploaded after the one in use
Ordered ==
    /\ \A s \in Serials : remaining[s] <= spent
    /\ \A p \in uploaded : /\ p[2] <= spent
                           /\ remaining[p[1]] = 0 \/ p[2] <= remaining[p[1]]
    /\ observer.at \in Exports =>
          LET s == observer.serial  d == observer.device
          IN /\ d <= spent
             /\ remaining[s] = 0 \/ d <= remaining[s]
             /\ \A p \in uploaded : p[1] = s => p[2] <= d

\* a Device in use is in the queue, or was overtaken
InQueue == observer.at \in Exports /\ remaining[observer.serial] = 0 => raced

\* what counts as uploaded is on the board, and only that is done
Uploads ==
    /\ \A p \in uploaded : fw[p[1]] >= p[2] \/ p \in refused
    /\ done \subseteq uploaded

IInv ==
    /\ TypeOK /\ Accounted /\ DiesOnlyRaced
    /\ Ordered /\ InQueue /\ Uploads

(* "Returns when all of the devices in the queue are done being flashed to,*)
(* after timeout seconds, or if the flasher is stopped"                    *)
(* (FirmwareFlasher.py:146): no wait sleeps on after its timeout, or when  *)
(* the queue is empty.                                                     *)
WaitEnds ==
    pc \in {"check", "blocked"} /\ (timer # "off" \/ Pending = {}) ~> pc = "idle"
=============================================================================
