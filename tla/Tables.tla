------------------------------- MODULE Tables -------------------------------
(***************************************************************************)
(* The three tables of the control database and what one committed change  *)
(* does to them: V1__Tables.sql and the writes of the stored procedures.   *)
(*                                                                         *)
(* Primary and foreign keys are in the shape of the state: a device has    *)
(* at most one row, a row at most one reservation, and deleting a worker   *)
(* cascades.  Addresses, ports and times are abstracted; of a heartbeat    *)
(* time only "older than the timeout" is kept.                             *)
(***************************************************************************)
EXTENDS Naturals, FiniteSets

CONSTANTS
    Workers,    \* worker processes, by WorkerName
    Devices,    \* boards, by SerialId
    Clients,    \* client names
    None        \* no row

ASSUME NoneAssumption == None \notin Workers /\ None \notin Clients

VARIABLES
    worker,     \* the rows of Worker
    late,       \* those whose LastHeartbeat is older than the timeout
    owner,      \* Device.Worker of each device, None when it has no row
    status,     \* Device.DeviceStatus
    holder      \* Reservations.ClientName of each device, None when free

tables == <<worker, late, owner, status, holder>>

DeviceStatus == {"available", "reserved", "await_flash_default",
                 "flashing_default", "testing", "broken"}

TablesTypeOK ==
    /\ worker \in SUBSET Workers
    /\ late \in SUBSET worker
    /\ owner \in [Devices -> Workers \union {None}]
    /\ status \in [Devices -> DeviceStatus \union {"no_row"}]
    /\ holder \in [Devices -> Clients \union {None}]

TablesInit ==
    /\ worker = {}
    /\ late = {}
    /\ owner = [d \in Devices |-> None]
    /\ status = [d \in Devices |-> "no_row"]
    /\ holder = [d \in Devices |-> None]

-----------------------------------------------------------------------------
Rows == {d \in Devices : owner[d] # None}
Held == {d \in Devices : holder[d] # None}

\* what the SELECT of makeReservations sees
Available == {d \in Rows : status[d] = "available"}

\* mutant: foreign keys without ON DELETE CASCADE
CascadeNothing(W) == {}

\* the rows and reservations that ON DELETE CASCADE takes with the workers W
Cascade(W) == {d \in Devices : owner[d] \in W}

\* the serials of S that client c holds: WHERE ClientName = c AND Device = ANY(S)
HeldBy(c, S) == {d \in S : holder[d] = c}

\* mutant: Reservations without its primary key
InsertableUnkeyed(S) == \A d \in S : owner[d] # None

\* the reservations of S can be inserted: no row of Reservations for them
\* (primary key), and each still has its row of Device (foreign key)
Insertable(S) == \A d \in S : owner[d] # None /\ holder[d] = None

\* mutant: an end offers the board at once, not waiting for its reset
ReleasedAtOnce == "available"

\* the status that ends a reservation
Released == "await_flash_default"

-----------------------------------------------------------------------------
(* addWorker: refused when the name is taken.                              *)
InsertWorker(w) ==
    /\ w \notin worker
    /\ worker' = worker \union {w}
    /\ UNCHANGED <<late, owner, status, holder>>

\* mutant: the heartbeat of a deleted worker is kept
DeleteWorkersKeepingLate(W) ==
    /\ worker' = worker \ W
    /\ owner' = [d \in Devices |-> IF d \in Cascade(W) THEN None ELSE owner[d]]
    /\ status' = [d \in Devices |-> IF d \in Cascade(W) THEN "no_row" ELSE status[d]]
    /\ holder' = [d \in Devices |-> IF d \in Cascade(W) THEN None ELSE holder[d]]
    /\ UNCHANGED late

(* DELETE FROM Worker: the devices of W and their reservations go as well. *)
DeleteWorkers(W) ==
    /\ worker' = worker \ W
    /\ late' = late \ W
    /\ owner' = [d \in Devices |-> IF d \in Cascade(W) THEN None ELSE owner[d]]
    /\ status' = [d \in Devices |-> IF d \in Cascade(W) THEN "no_row" ELSE status[d]]
    /\ holder' = [d \in Devices |-> IF d \in Cascade(W) THEN None ELSE holder[d]]

(* addDevice: refused without the worker's row or when the serial is known,*)
(* whichever worker it is known for.                                       *)
InsertDevice(d, w) ==
    /\ w \in worker
    /\ owner[d] = None
    /\ owner' = [owner EXCEPT ![d] = w]
    /\ status' = [status EXCEPT ![d] = "await_flash_default"]
    /\ UNCHANGED <<worker, late, holder>>

(* updateDeviceStatus: refused when the device has no row.                 *)
SetStatus(d, s) ==
    /\ owner[d] # None
    /\ status' = [status EXCEPT ![d] = s]
    /\ UNCHANGED <<worker, late, owner, holder>>

(* The two writes of makeReservations.                                     *)
ReserveRows(c, S) ==
    /\ Insertable(S)
    /\ status' = [d \in Devices |-> IF d \in S THEN "reserved" ELSE status[d]]
    /\ holder' = [d \in Devices |-> IF d \in S THEN c ELSE holder[d]]
    /\ UNCHANGED <<worker, late, owner>>

\* mutant: the second write of an end is forgotten
EndRowsKeepingStatus(S) ==
    /\ holder' = [d \in Devices |-> IF d \in S THEN None ELSE holder[d]]
    /\ UNCHANGED <<worker, late, owner, status>>

(* The two writes of endReservations and endAllReservations.               *)
EndRows(S) ==
    /\ holder' = [d \in Devices |-> IF d \in S THEN None ELSE holder[d]]
    /\ status' = [d \in Devices |->
                    IF d \in S /\ owner[d] # None THEN Released ELSE status[d]]
    /\ UNCHANGED <<worker, late, owner>>

(* heartbeatWorker.                                                        *)
Heartbeat(w) ==
    /\ w \in worker
    /\ late' = late \ {w}
    /\ UNCHANGED <<worker, owner, status, holder>>

(* Time passes: the last heartbeat of w is now older than the timeout.     *)
GrowLate(w) ==
    /\ w \in worker \ late
    /\ late' = late \union {w}
    /\ UNCHANGED <<worker, owner, status, holder>>
-----------------------------------------------------------------------------
(* The foreign keys: a device row names a registered worker, and a         *)
(* reservation a device row.                                               *)
ForeignKeys ==
    /\ \A d \in Rows : owner[d] \in worker
    /\ \A d \in Devices : status[d] = "no_row" <=> d \notin Rows
    /\ Held \subseteq Rows

(* A reserved status never outlives its reservation: whatever order the    *)
(* procedures and the workers' writes come in, a device whose status is    *)
(* 'reserved' has a row in Reservations.  Without it makeReservations would*)
(* never offer the device again, and no end call would find it.            *)
ReservedIsHeld == \A d \in Devices : status[d] = "reserved" => d \in Held

(* What a step does to the tables when calls do not overlap: a grant is of *)
(* boards that are available, an end of the caller's own, a timeout of     *)
(* silent workers.                                                         *)
OneByOne ==
    \/ \E w \in Workers : InsertWorker(w) \/ Heartbeat(w) \/ GrowLate(w)
    \/ \E d \in Devices, w \in Workers : InsertDevice(d, w)
    \/ \E d \in Devices, s \in DeviceStatus \ {"reserved"} : SetStatus(d, s)
    \/ \E c \in Clients : \/ \E S \in SUBSET Available : ReserveRows(c, S)
                          \/ \E S \in SUBSET Devices : EndRows(HeldBy(c, S))
    \/ \E W \in SUBSET late : DeleteWorkers(W)
=============================================================================
