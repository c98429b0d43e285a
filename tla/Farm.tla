-------------------------------- MODULE Farm --------------------------------
(***************************************************************************)
(* The farm: the control process, its database, the worker processes and   *)
(* the boards, with the HTTP calls between them.                           *)
(*                                                                         *)
(* A database call is one step: the calls for a board are taken not to     *)
(* overlap in the database.  Overlapping ones are in ReservationDB, where  *)
(* EndsOnlyOwn fails; after such a race the properties below fail as well. *)
(* A board is known by the state that is current for it (DeviceState has   *)
(* the threads behind it).  What is kept is the order in which the parts   *)
(* learn of each other: a call answers before the requests it causes       *)
(* arrive, requests are lost and overtake each other, workers end and      *)
(* restart, and a failed status write goes unnoticed.                      *)
(*                                                                         *)
(* A request travels on a connection to the worker process, opened when    *)
(* the call that causes it answers: it is refused when no process listens  *)
(* then, and lost when that process ends.                                  *)
(***************************************************************************)
EXTENDS Tables

LOCAL INSTANCE Functions

CONSTANTS
    Plugged,    \* the worker whose host each board is plugged into
    MaxWire     \* bound: reserve requests under way

ASSUME DevicesAssumption == IsFiniteSet(Devices)
ASSUME PluggedAssumption == Plugged \in [Devices -> Workers]
ASSUME MaxWireAssumption == MaxWire \in Nat

VARIABLES
    proc,       \* worker processes
    mode,       \* DeviceManager._devs: the state of each board
    haunted,    \* boards with a running timer of a replaced state
    reserves,   \* reserve requests under way to each board
    unreserves, \* unreserve requests under way
    resetting,  \* unreserve requests between the status write and the switch
    probed,     \* workers whose heartbeat answer is not stored yet
    stray       \* history: boards that a reserve request may load which is
                \* not the one request of their holder, since their last reset

farm == <<proc, mode, haunted, reserves, unreserves, resetting, probed, stray>>
vars == <<tables, farm>>

Modes == {"absent", "found", "flashing", "testing", "ready", "broken",
          "loading", "serving"}

TypeOK ==
    /\ TablesTypeOK
    /\ proc \in [Workers -> {"down", "up", "exiting"}]
    /\ mode \in [Devices -> Modes]
    /\ haunted \in SUBSET Devices
    /\ reserves \in [Devices -> Nat]
    /\ unreserves \in [Devices -> Nat]
    /\ resetting \in [Devices -> Nat]
    /\ probed \in SUBSET Workers
    /\ stray \in SUBSET Devices

Init ==
    /\ TablesInit
    /\ proc = [w \in Workers |-> "down"]
    /\ mode = [d \in Devices |-> "absent"]
    /\ haunted = {}
    /\ reserves = [d \in Devices |-> 0]
    /\ unreserves = [d \in Devices |-> 0]
    /\ resetting = [d \in Devices |-> 0]
    /\ probed = {}
    /\ stray = {}

Up(d) == proc[Plugged[d]] # "down"

(* The device is in _devs, so requests find it.                            *)
Known(d) == Up(d) /\ mode[d] \notin {"absent", "found"}

(* updateDeviceStatus by a worker, whose failure nobody looks at.          *)
WriteStatus(d, s) == SetStatus(d, s) \/ UNCHANGED tables

-----------------------------------------------------------------------------
(* WorkerDatabase.__init__: a name that is still in the table ends the     *)
(* process at once.                                                        *)
StartWorker(w) ==
    /\ proc[w] = "down"
    /\ InsertWorker(w)
    /\ proc' = [proc EXCEPT ![w] = "up"]
    /\ UNCHANGED <<mode, haunted, reserves, unreserves, resetting, probed, stray>>

(* DeviceManager.handleDevEvent for a new serial: addDevice, whose failure *)
(* is ignored, then the constructor of Device.                             *)
Discover(d) ==
    /\ Up(d)
    /\ mode[d] = "absent"
    /\ InsertDevice(d, Plugged[d]) \/ UNCHANGED tables
    /\ mode' = [mode EXCEPT ![d] = "found"]
    /\ UNCHANGED <<proc, haunted, reserves, unreserves, resetting, probed, stray>>

(* A state hands over to the next, whose constructor writes its status.    *)
Enter(d, from, to) ==
    /\ Up(d)
    /\ mode[d] \in from
    /\ mode' = [mode EXCEPT ![d] = to]
    /\ UNCHANGED <<proc, haunted, reserves, unreserves, resetting, probed, stray>>

\* mutant: the test is left out
FlashDoneUntested(d) == Enter(d, {"flashing"}, "ready") /\ WriteStatus(d, "available")

FlashDefault(d) == Enter(d, {"found"}, "flashing") /\ WriteStatus(d, "flashing_default")
FlashDone(d) == Enter(d, {"flashing"}, "testing") /\ WriteStatus(d, "testing")
TestPass(d) == Enter(d, {"testing"}, "ready") /\ WriteStatus(d, "available")
LoadDone(d) == Enter(d, {"loading"}, "serving") /\ UNCHANGED tables

(* Timers, failed uploads and a missing port.                              *)
Break(d) ==
    Enter(d, {"flashing", "testing", "loading"}, "broken") /\ WriteStatus(d, "broken")

(* Device.switch replaces a state whose timer runs on.                     *)
Haunt(d) == haunted \union (IF mode[d] \in {"flashing", "testing"} THEN {d} ELSE {})

StaleBreak(d) ==
    /\ d \in haunted
    /\ mode' = [mode EXCEPT ![d] = "broken"]
    /\ haunted' \in {Haunt(d), Haunt(d) \ {d}}
    /\ WriteStatus(d, "broken")
    /\ UNCHANGED <<proc, reserves, unreserves, resetting, probed, stray>>

-----------------------------------------------------------------------------
(* Control.reserve: a thread per row sends its request.  Their closures    *)
(* share the variable row: each reads the address of the row the loop has  *)
(* come to by then, and then the serial, perhaps of a later one.           *)
Orders(S) == {q \in [1..Cardinality(S) -> S] : \A i, j \in DOMAIN q : q[i] = q[j] => i = j}

Bound(n) == {f \in [1..n -> (1..n) \X (1..n)] :
                \A i \in 1..n : i <= f[i][1] /\ f[i][1] <= f[i][2]}

Sent(q, f, d) == Cardinality({i \in DOMAIN q : q[f[i][2]] = d
                                        /\ owner[q[f[i][1]]] = owner[d]})

Reserve(c, n) ==
    \E S \in SUBSET Available :
        /\ IF Cardinality(Available) < n THEN S = Available ELSE Cardinality(S) = n
        /\ ReserveRows(c, S)
        /\ \E q \in Orders(S) : \E f \in Bound(Cardinality(S)) :
              reserves' = [d \in Devices |->
                             reserves[d] + IF Up(d) THEN Sent(q, f, d) ELSE 0]
        /\ SumFunction(reserves') <= MaxWire
        /\ stray' = stray \union {d \in S : reserves'[d] > 1}
        /\ UNCHANGED <<proc, mode, haunted, unreserves, resetting, probed>>

\* mutant: the serials of the request are notified, not the rows of the answer
NotifiedAsAsked(c, S) == {d \in S : Up(d)}

\* mutant: a request waits for the worker to be started again
NotifiedWhenStarted(c, S) == HeldBy(c, S)

(* Control.end and Control.endAll: __notifyEnd for each row of the answer. *)
Notified(c, S) == {d \in HeldBy(c, S) : Up(d)}

(* A reservation that ends does not call its reserve request back.         *)
Outlived(S) == stray \union {d \in S : reserves[d] > 0}

End(c, S) ==
    /\ EndRows(HeldBy(c, S))
    /\ unreserves' = [d \in Devices |->
                        unreserves[d] + IF d \in Notified(c, S) THEN 1 ELSE 0]
    /\ stray' = Outlived(HeldBy(c, S))
    /\ UNCHANGED <<proc, mode, haunted, reserves, resetting, probed>>

(* A request is refused, times out or is answered "no such device".        *)
LoseReserve(d) ==
    /\ reserves[d] > 0
    /\ reserves' = [reserves EXCEPT ![d] = @ - 1]
    /\ stray' = IF reserves[d] = 1 /\ mode[d] \notin {"loading", "serving"}
                THEN stray \ {d} ELSE stray
    /\ UNCHANGED <<tables, proc, mode, haunted, unreserves, resetting, probed>>

LoseUnreserve(d) ==
    /\ unreserves[d] > 0
    /\ unreserves' = [unreserves EXCEPT ![d] = @ - 1]
    /\ UNCHANGED <<tables, proc, mode, haunted, reserves, resetting, probed, stray>>

(* DeviceManager.reserve, for "pulsecount".                                *)
DeliverReserve(d) ==
    /\ reserves[d] > 0
    /\ Known(d)
    /\ reserves' = [reserves EXCEPT ![d] = @ - 1]
    /\ haunted' = Haunt(d)
    /\ mode' = [mode EXCEPT ![d] = "loading"]
    /\ UNCHANGED <<tables, proc, unreserves, resetting, probed, stray>>

(* DeviceManager.unreserve: the status first, then the switch.             *)
DeliverUnreserve(d) ==
    /\ unreserves[d] > 0
    /\ Known(d)
    /\ unreserves' = [unreserves EXCEPT ![d] = @ - 1]
    /\ resetting' = [resetting EXCEPT ![d] = @ + 1]
    /\ WriteStatus(d, "flashing_default")
    /\ UNCHANGED <<proc, mode, haunted, reserves, probed, stray>>

\* mutant: a switch that no unreserve asked for
SwitchUnasked(d) ==
    /\ resetting' = [resetting EXCEPT ![d] = @ - 1]
    /\ haunted' = Haunt(d)
    /\ mode' = [mode EXCEPT ![d] = "flashing"]
    /\ UNCHANGED <<tables, proc, reserves, unreserves, probed, stray>>

SwitchUnreserved(d) ==
    /\ resetting[d] > 0
    /\ resetting' = [resetting EXCEPT ![d] = @ - 1]
    /\ haunted' = Haunt(d)
    /\ mode' = [mode EXCEPT ![d] = "flashing"]
    /\ stray' = IF reserves[d] = 0 THEN stray \ {d} ELSE stray
    /\ UNCHANGED <<tables, proc, reserves, unreserves, probed>>

-----------------------------------------------------------------------------
(* The process of w ends: its devices, its threads and the requests to it. *)
Gone(w) == {d \in Devices : Plugged[d] = w}

Die(w) ==
    /\ proc' = [proc EXCEPT ![w] = "down"]
    /\ mode' = [d \in Devices |-> IF d \in Gone(w) THEN "absent" ELSE mode[d]]
    /\ haunted' = haunted \ Gone(w)
    /\ reserves' = [d \in Devices |-> IF d \in Gone(w) THEN 0 ELSE reserves[d]]
    /\ unreserves' = [d \in Devices |-> IF d \in Gone(w) THEN 0 ELSE unreserves[d]]
    /\ resetting' = [d \in Devices |-> IF d \in Gone(w) THEN 0 ELSE resetting[d]]
    /\ stray' = stray \ Gone(w)
    /\ UNCHANGED probed

Crash(w) ==
    /\ proc[w] = "up"
    /\ Die(w)
    /\ UNCHANGED tables

(* DeviceManager.onExit: the exit of every state, then WorkerDatabase.onExit*)
BeginExit(w) ==
    /\ proc[w] = "up"
    /\ proc' = [proc EXCEPT ![w] = "exiting"]
    /\ UNCHANGED <<tables, mode, haunted, reserves, unreserves, resetting, probed, stray>>

(* removeWorker selects a column that no table has, so it raises before    *)
(* its DELETE, and onExit ignores that.                                    *)
RemoveWorker(w) == UNCHANGED tables

FinishExit(w) ==
    /\ proc[w] = "exiting"
    /\ RemoveWorker(w)
    /\ Die(w)

-----------------------------------------------------------------------------
\* mutant: a worker that did not answer counts as alive
ProbeUnanswered(w) ==
    /\ w \in worker
    /\ probed' = probed \union {w}
    /\ UNCHANGED <<tables, proc, mode, haunted, reserves, unreserves, resetting, stray>>

(* Heartbeat: the GET /heartbeat of a worker, and then the stored result.  *)
Probe(w) ==
    /\ proc[w] # "down"
    /\ w \in worker
    /\ probed' = probed \union {w}
    /\ UNCHANGED <<tables, proc, mode, haunted, reserves, unreserves, resetting, stray>>

StoreHeartbeat(w) ==
    /\ w \in probed
    /\ probed' = probed \ {w}
    /\ Heartbeat(w) \/ (w \notin worker /\ UNCHANGED tables)
    /\ UNCHANGED <<proc, mode, haunted, reserves, unreserves, resetting, stray>>

WorkerLate(w) == GrowLate(w) /\ UNCHANGED farm

WorkerTimeouts ==
    /\ late # {}
    /\ DeleteWorkers(late)
    /\ stray' = Outlived(Cascade(late) \intersect Held)
    /\ UNCHANGED <<proc, mode, haunted, reserves, unreserves, resetting, probed>>

Next ==
    \/ \E w \in Workers : \/ StartWorker(w) \/ Crash(w) \/ BeginExit(w) \/ FinishExit(w)
                          \/ Probe(w) \/ StoreHeartbeat(w) \/ WorkerLate(w)
    \/ \E d \in Devices : \/ Discover(d) \/ FlashDefault(d) \/ FlashDone(d) \/ TestPass(d)
                          \/ LoadDone(d) \/ Break(d) \/ StaleBreak(d)
                          \/ LoseReserve(d) \/ LoseUnreserve(d)
                          \/ DeliverReserve(d) \/ DeliverUnreserve(d) \/ SwitchUnreserved(d)
    \/ \E c \in Clients : \E n \in 1..Cardinality(Devices) : Reserve(c, n)
    \/ \E c \in Clients : \E S \in SUBSET Devices : End(c, S)
    \/ WorkerTimeouts

Spec == Init /\ [][Next]_vars

(* Time passes, and the heartbeat thread polls the timeouts every 15       *)
(* seconds.                                                                *)
Fairness == WF_vars(WorkerTimeouts) /\ \A w \in Workers : WF_vars(WorkerLate(w))

FairSpec == Spec /\ Fairness

-----------------------------------------------------------------------------
Outstanding(d) == unreserves[d] + resetting[d]

(* No reset of the board is on its way or under way.                       *)
Settled(d) == Outstanding(d) = 0 /\ mode[d] \notin {"found", "flashing", "testing"}

(* But on a stray board, a reserve request finds the board not loaded yet, *)
(* and is the only one.                                                    *)
LoadedOnce(d) ==
    d \notin stray => reserves[d] = 0 \/ (reserves[d] = 1 /\ mode[d] \in {"ready", "broken"})

(* But for a stray one, the board is not loaded and will not be.           *)
Unloaded(d) ==
    d \notin stray => reserves[d] = 0 /\ mode[d] \in {"ready", "broken", "absent"}

(* A board that has a holder is not wiped under it, whatever was lost,     *)
(* delayed or restarted before: it is not being reset, no unreserve of an  *)
(* earlier reservation is on its way (DeviceManager.unreserve), and the    *)
(* one reserve request on its way is its holder's and finds it not loaded. *)
(* The last is not so of a stray board.  Control.reserve neither calls a   *)
(* request back nor waits for it, and the late-bound row may have two sent *)
(* to one board: such a request loads the board again under its holder.    *)
HolderUndisturbed == \A d \in Held : Settled(d) /\ LoadedOnce(d)

(* A board is offered only when its reset is over, no unreserve of it is   *)
(* on its way, and, unless it is stray, no reserve request either: nobody  *)
(* has loaded it since (ReadyState, Control.reserve).                      *)
OfferedIsSettled == \A d \in Available : Settled(d) /\ Unloaded(d)

(* A reservation is released once: never are two unreserves of a board     *)
(* under way, the second of which would flash the board of a new holder.   *)
OneUnreserve == \A d \in Devices : Outstanding(d) <= 1

(* What the database says of a reserved board: no worker overwrites        *)
(* 'reserved' but to report the board broken, and 'reserved' has a holder. *)
HeldStatus ==
    ReservedIsHeld /\ \A d \in Held : status[d] \in {"reserved", "broken"}

(* The parts of the inductive invariant that say how a board, its row and  *)
(* the requests to it stand together.                                      *)
\* a device row is its host's, and known to the process if that is up
RowOfHost ==
    \A d \in Rows : owner[d] = Plugged[d] /\ (Up(d) => mode[d] # "absent")

\* a process that is down has no devices, timers or requests
DownIsEmpty ==
    \A d \in Devices : ~Up(d) =>
        mode[d] = "absent" /\ d \notin haunted /\ Outstanding(d) = 0 /\ reserves[d] = 0

\* an unreserve finds the board as its holder left it
UnreserveFirst ==
    \A d \in Devices : Outstanding(d) > 0 =>
        mode[d] \in {"ready", "broken", "loading", "serving"}

\* a board nobody holds has a reserve request on its way only if it is stray
StrayOrHeld == \A d \in Devices : reserves[d] > 0 => d \in stray \union Held

IInv ==
    /\ TypeOK /\ ForeignKeys
    /\ HolderUndisturbed /\ OfferedIsSettled /\ OneUnreserve /\ HeldStatus
    /\ RowOfHost /\ DownIsEmpty /\ UnreserveFirst /\ StrayOrHeld

(* A worker that ended does not keep its rows: they go with the timeout    *)
(* although a late heartbeat answer may still be stored, and the boards'   *)
(* reservations with them.                                                 *)
DeadIsForgotten ==
    \A w \in Workers : proc[w] = "down" /\ w \in worker ~> w \notin worker

(* Each board goes through the life that DeviceState shows a board to have.*)
Life(d) == INSTANCE BoardLife WITH mode <- mode[d], haunted <- d \in haunted

BoardsLive ==
    /\ \A d \in Devices : Life(d)!LifeInit
    /\ [][\A d \in Devices : [Life(d)!LifeNext]_<<mode[d], d \in haunted>>]_<<mode, haunted>>

(* Each board passes from one client to the next by a flash of the default *)
(* firmware, a test and an offer, whatever was lost, delayed, reset twice  *)
(* or restarted: the phase is the holder's and the offer's by the database,*)
(* and the flash's and the test's by the worker.                           *)
Phase(d) ==
    IF holder[d] # None THEN "held"
    ELSE IF status[d] = "available" THEN "offered"
    ELSE IF mode[d] \in {"flashing", "testing"} THEN mode[d]
    ELSE "away"

Hand(d) == INSTANCE Handover WITH phase <- Phase(d), holder <- holder[d]

CleanHandover ==
    /\ \A d \in Devices : Hand(d)!HandoverInit
    /\ [][\A d \in Devices :
            [Hand(d)!HandoverNext]_<<Phase(d), holder[d]>>]_<<tables, mode>>
=============================================================================
