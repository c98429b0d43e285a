---------------------------- MODULE ReservationDB ----------------------------
(***************************************************************************)
(* The stored procedures of the control database as READ COMMITTED         *)
(* transactions that interleave (V1.1, V1.2 and V1.3 of the migrations,    *)
(* called by ControlDatabase.py and WorkerDatabase.py).                    *)
(*                                                                         *)
(* Every statement of a plpgsql function reads its own snapshot, so what   *)
(* the first SELECT stored in the temporary table res may be stale when    *)
(* the later statements use it.  Each statement is a step, the last one    *)
(* with the COMMIT.  Nobody sees a write before COMMIT; until then the rows*)
(* it found are locked, and who would write them waits.  A write finds the *)
(* rows there are when it runs: hit keeps which, as a row may appear       *)
(* before the next statement.  Any transaction may also fail without effect*)
(* (constraint, deadlock victim, lost connection): Database.execute then   *)
(* answers False.                                                          *)
(***************************************************************************)
EXTENDS Tables

CONSTANTS
    Txns,           \* the connections that can have a transaction open
    WorkerStatus    \* the states that the workers write (WorkerDatabase.py)

(* No worker writes 'reserved': makeReservations alone does.               *)
ASSUME WorkerStatusAssumption == WorkerStatus \subseteq DeviceStatus \ {"reserved"}

VARIABLES
    overdue,        \* devices whose reservation has Until in the past
    txn             \* the open transaction of each connection

vars == <<worker, late, owner, status, holder, overdue, txn>>

(* A make is "marked" once its UPDATE ran, an end "cleared" after its DELETE. *)
Kinds == {"idle", "make", "marked", "end", "cleared", "timeout", "expire"}

Idle == [kind |-> "idle", client |-> None, rows |-> {}, hit |-> {}, cut |-> {}]

Calling == {"make", "marked", "end", "cleared"}

TypeOK ==
    /\ TablesTypeOK
    /\ overdue \in SUBSET Devices
    /\ txn \in [Txns -> [kind: Kinds,
                         client: Clients \union {None},  \* who called
                         rows: SUBSET Devices,           \* the table res
                         hit: SUBSET Devices,            \* found by its write
                         cut: SUBSET Workers]]           \* LastHeartbeat < t
    /\ \A t \in Txns : /\ txn[t].kind \in Calling => txn[t].client \in Clients
                       /\ txn[t].hit \subseteq txn[t].rows

Init ==
    /\ TablesInit
    /\ overdue = {}
    /\ txn = [t \in Txns |-> Idle]

Begin(t, k, c, S, W) ==
    /\ txn[t] = Idle
    /\ txn' = [txn EXCEPT ![t] = [kind |-> k, client |-> c, rows |-> S,
                                     hit |-> {}, cut |-> W]]
    /\ UNCHANGED <<tables, overdue>>

(* A write that is not the last one, of those rows of res that are in S.   *)
Wrote(t, k, S) ==
    /\ txn' = [txn EXCEPT ![t].kind = k, ![t].hit = txn[t].rows \intersect S]
    /\ UNCHANGED <<tables, overdue>>

Finish(t) == txn' = [txn EXCEPT ![t] = Idle]

(* The rows of Device that an open UPDATE has locked, and the rows of      *)
(* Reservations that an open DELETE has.                                   *)
Marked == UNION {txn[t].hit : t \in {u \in Txns : txn[u].kind = "marked"}}
Cleared == UNION {txn[t].hit : t \in {u \in Txns : txn[u].kind = "cleared"}}

Free(S, locked) == S \intersect locked = {}

-----------------------------------------------------------------------------
(* Single statements of the workers and of the clock.                      *)
\* mutant: the DELETE of the timeouts goes by what the SELECT saw
FreshUnseen(w) == UNCHANGED txn

(* A fresh LastHeartbeat takes the worker out of the WHERE of every DELETE *)
(* that has not run yet.                                                   *)
Fresh(w) == txn' = [t \in Txns |-> [txn[t] EXCEPT !.cut = @ \ {w}]]

AddWorker(w) == InsertWorker(w) /\ Fresh(w) /\ UNCHANGED overdue

HeartbeatWorker(w) == Heartbeat(w) /\ Fresh(w) /\ UNCHANGED overdue

AddDevice(d, w) == InsertDevice(d, w) /\ UNCHANGED <<overdue, txn>>

UpdateDeviceStatus(d, s) ==
    Free({d}, Marked) /\ SetStatus(d, s) /\ UNCHANGED <<overdue, txn>>

WorkerLate(w) == GrowLate(w) /\ UNCHANGED <<overdue, txn>>

ReservationOverdue(d) ==
    /\ d \in Held \ overdue
    /\ overdue' = overdue \union {d}
    /\ UNCHANGED <<tables, txn>>

-----------------------------------------------------------------------------
(* makeReservations(amount, clientName).                                   *)
Limited(S, n) == IF Cardinality(Available) < n THEN S = Available
                                               ELSE Cardinality(S) = n

MakeSelect(t, c, n) ==
    \E S \in SUBSET Available :
        /\ Limited(S, n)
        /\ Begin(t, "make", c, S, {})

MakeUpdate(t) ==
    /\ txn[t].kind = "make"
    /\ Free(txn[t].rows, Marked)
    /\ Wrote(t, "marked", Rows)

(* The INSERT fails on the key of a row that is there, or waits for it when*)
(* another's DELETE has it.                                                *)
MakeCommit(t) ==
    /\ txn[t].kind = "marked"
    /\ Insertable(txn[t].rows)
    /\ status' = [d \in Devices |-> IF d \in txn[t].hit THEN "reserved" ELSE status[d]]
    /\ holder' = [d \in Devices |-> IF d \in txn[t].rows THEN txn[t].client ELSE holder[d]]
    /\ overdue' = overdue \ txn[t].rows
    /\ UNCHANGED <<worker, late, owner>>
    /\ Finish(t)

(* extendReservations, and extendAllReservations with S = Devices.         *)
Extend(c, S) ==
    /\ Free(HeldBy(c, S), Cleared)
    /\ overdue' = overdue \ HeldBy(c, S)
    /\ UNCHANGED <<tables, txn>>

(* endReservations, and endAllReservations with S = Devices.  The DELETE   *)
(* and the UPDATE go by res alone.                                         *)
EndSelect(t, c, S) == Begin(t, "end", c, HeldBy(c, S), {})

EndDelete(t) ==
    /\ txn[t].kind = "end"
    /\ Free(txn[t].rows, Cleared)
    /\ Wrote(t, "cleared", Held)

\* mutant: the second write of an end is forgotten
EndCommitKeepingStatus(t) ==
    /\ txn[t].kind = "cleared"
    /\ holder' = [d \in Devices |-> IF d \in txn[t].hit THEN None ELSE holder[d]]
    /\ overdue' = overdue \ txn[t].hit
    /\ UNCHANGED <<worker, late, owner, status>>
    /\ Finish(t)

EndCommit(t) ==
    /\ txn[t].kind = "cleared"
    /\ Free(txn[t].rows, Marked)
    /\ holder' = [d \in Devices |-> IF d \in txn[t].hit THEN None ELSE holder[d]]
    /\ status' = [d \in Devices |->
                    IF d \in txn[t].rows /\ owner[d] # None THEN Released ELSE status[d]]
    /\ overdue' = overdue \ txn[t].hit
    /\ UNCHANGED <<worker, late, owner>>
    /\ Finish(t)

-----------------------------------------------------------------------------
(* handleWorkerTimeouts: the SELECT of the reservations to report (no      *)
(* statement uses them again), then the DELETE, which looks at             *)
(* LastHeartbeat itself.                                                   *)
TimeoutSelect(t) == Begin(t, "timeout", None, {}, late)

Expired(t) == txn[t].cut

TimeoutDelete(t) ==
    /\ txn[t].kind = "timeout"
    /\ Free(Cascade(Expired(t)), Marked \union Cleared)
    /\ overdue' = overdue \ Cascade(Expired(t))
    /\ DeleteWorkers(Expired(t))
    /\ Finish(t)

(* handleReservationTimeouts: RETURN QUERY gives four columns to a result  *)
(* of two, which raises before the DELETE; Rollback is the only way out.   *)
ExpireSelect(t) == Begin(t, "expire", None, {}, {})

Rollback(t) ==
    /\ txn[t].kind # "idle"
    /\ Finish(t)
    /\ UNCHANGED <<tables, overdue>>

-----------------------------------------------------------------------------
(* Of the serials that a call names only those of its client's matter.     *)
Call(t) ==
    \/ \E c \in Clients : \E n \in 1..Cardinality(Devices) : MakeSelect(t, c, n)
    \/ \E c \in Clients : \E S \in SUBSET HeldBy(c, Devices) : EndSelect(t, c, S)
    \/ TimeoutSelect(t)
    \/ ExpireSelect(t)

Complete(t) ==
    \/ MakeUpdate(t) \/ MakeCommit(t)
    \/ EndDelete(t) \/ EndCommit(t)
    \/ TimeoutDelete(t)
    \/ Rollback(t)

Next ==
    \/ \E w \in Workers : AddWorker(w) \/ HeartbeatWorker(w) \/ WorkerLate(w)
    \/ \E d \in Devices, w \in Workers : AddDevice(d, w)
    \/ \E d \in Devices, s \in WorkerStatus : UpdateDeviceStatus(d, s)
    \/ \E d \in Devices : ReservationOverdue(d)
    \/ \E c \in Clients : \E S \in SUBSET HeldBy(c, Devices) : Extend(c, S)
    \/ \E t \in Txns : Call(t) \/ Complete(t)

Spec == Init /\ [][Next]_vars

-----------------------------------------------------------------------------
(* The foreign keys hold across the cascade of a worker's deletion that    *)
(* races open transactions: a device row names a registered worker, and a  *)
(* reservation (with its Until) a device row.                              *)
Integrity == ForeignKeys /\ overdue \subseteq Held

(* What the DELETE of the worker timeouts relies on: a worker it will      *)
(* still find is still silent.                                             *)
CutSilent == \A t \in Txns : txn[t].cut \intersect worker \subseteq late

(* The inductive invariant.                                                *)
IInv == TypeOK /\ Integrity /\ ReservedIsHeld /\ CutSilent

(* The worker timeout is decided twice, by the SELECT and by the DELETE:   *)
(* a worker whose heartbeat came back in between is not deleted, so a row  *)
(* of Worker disappears only while its last heartbeat is too old.          *)
OnlySilentWorkersDropped == [][worker \ worker' \subseteq late]_vars

(* makeReservations against itself, against the ends and against the       *)
(* cascade implements the abstract leases: no device of an answer has      *)
(* another holder, an answer is all or nothing, and no device changes      *)
(* hands in one step.                                                      *)
Leases == INSTANCE Leases WITH holder <- holder

LeaseRefinement == Leases!LeaseSpec

(* ControlDatabase.end: "Ends the reservation of serials under the name of *)
(* the client."  A reservation that an end call deletes is the caller's.   *)
EndsOnlyOwn ==
    [][\A t \in Txns : txn[t].kind = "cleared" /\ txn'[t].kind = "idle" =>
         \A d \in Held : holder'[d] = None => holder[d] = txn[t].client]_vars

-----------------------------------------------------------------------------
(* What the callers must keep so that no end call ends another's           *)
(* reservation: BaseAPI waits for an answer before its next call, and a    *)
(* serial that was deleted with its worker is not registered again while   *)
(* an end call has it in res.                                              *)
Open(c) == {t \in Txns : txn[t].client = c}

OneCall == \A c \in Clients : \A t, u \in Open(c) : t = u

Ending == {t \in Txns : txn[t].kind \in {"end", "cleared"}}

Unclaimed(d) == \A t \in Ending : d \notin txn[t].rows

CallerNext ==
    /\ Next
    /\ OneCall'
    /\ \A d \in Devices \ Rows : Unclaimed(d) \/ owner'[d] = None

CallerSpec == Init /\ [][CallerNext]_vars

(* Between its statements an end call's rows stay the caller's, and its    *)
(* DELETE finds them; a row can only be gone for good, with its device.    *)
ClaimsOwn ==
    \A t \in Ending : \A d \in txn[t].rows \intersect Rows :
        holder[d] = txn[t].client /\ (txn[t].kind = "cleared" => d \in txn[t].hit)

CallerInv == IInv /\ OneCall /\ ClaimsOwn

-----------------------------------------------------------------------------
(* What else must not happen for the calls to look like one at a time: a   *)
(* board that an open makeReservations has in res is neither ended,        *)
(* reported broken nor registered again by then.  Other makeReservations   *)
(* may take it and the cascade of its worker delete it.                    *)
Selecting == {t \in Txns : txn[t].kind \in {"make", "marked"}}

Calm == \A t \in Selecting : \A d \in txn[t].rows :
            \/ status'[d] \in {status[d], "no_row"}
            \/ status[d] = "available" /\ status'[d] = "reserved"

CalmSpec == Init /\ [][CallerNext /\ Calm]_vars

SelectedCalm ==
    \A t \in Selecting : \A d \in txn[t].rows :
        /\ status[d] \in {"available", "reserved", "no_row"}
        /\ txn[t].kind = "marked" /\ d \notin txn[t].hit => status[d] = "no_row"

CalmInv == CallerInv /\ SelectedCalm

(* Where the claims of the open calls still hold, the transactions, which  *)
(* read and write apart, change the tables as if each call were one step   *)
(* at its commit: what Farm takes for granted of the database.             *)
Serial == [][ClaimsOwn /\ SelectedCalm => OneByOne]_tables
=============================================================================
