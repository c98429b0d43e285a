------------------------- MODULE ReservationDBProofs -------------------------
(***************************************************************************)
(* Proofs about ReservationDB for every set of workers, devices, clients   *)
(* and connections.  IInv is inductive; the other theorems follow from it. *)
(***************************************************************************)
EXTENDS ReservationDB, TLAPS

(* The type of txn, on its own: what every change of txn keeps.            *)
TxnOK ==
    /\ txn \in [Txns -> [kind: Kinds, client: Clients \union {None},
                         rows: SUBSET Devices, hit: SUBSET Devices,
                         cut: SUBSET Workers]]
    /\ \A t \in Txns : /\ txn[t].kind \in Calling => txn[t].client \in Clients
                       /\ txn[t].hit \subseteq txn[t].rows

LEMMA FinishTyped ==
    ASSUME TxnOK, NEW t \in Txns, Finish(t)
    PROVE  /\ TxnOK'
           /\ \A u \in Txns : txn'[u].cut \subseteq txn[u].cut
  BY DEF TxnOK, Finish, Idle, Kinds, Calling

LEMMA FreshTyped ==
    ASSUME TxnOK, NEW w, Fresh(w)
    PROVE  /\ TxnOK'
           /\ \A t \in Txns : txn'[t].cut = txn[t].cut \ {w}
  BY DEF TxnOK, Fresh

LEMMA BeginTyped ==
    ASSUME TxnOK, NEW t \in Txns, NEW k \in Kinds, NEW c \in Clients \union {None},
           NEW S \in SUBSET Devices, NEW W \in SUBSET Workers, Begin(t, k, c, S, W),
           k \in Calling => c \in Clients
    PROVE  /\ TxnOK'
           /\ UNCHANGED <<tables, overdue>>
           /\ \A u \in Txns : txn'[u].cut \subseteq txn[u].cut \union W
  BY DEF TxnOK, Begin

LEMMA WroteTyped ==
    ASSUME TxnOK, NEW t \in Txns, txn[t].client \in Clients, NEW k \in Kinds, NEW S,
           Wrote(t, k, S)
    PROVE  /\ TxnOK'
           /\ UNCHANGED <<tables, overdue>>
           /\ \A u \in Txns : txn'[u].cut \subseteq txn[u].cut
  BY DEF TxnOK, Wrote

(* A step that leaves the tables and overdue alone keeps what is said of   *)
(* them; what it puts in a cut must be late.                               *)
TablesKept == UNCHANGED <<tables, overdue>>
CutsKept(W) == \A u \in Txns : txn'[u].cut \subseteq txn[u].cut \union W

LEMMA TxnStepKeeps ==
    ASSUME IInv, TablesKept, TxnOK', NEW W \in SUBSET late, CutsKept(W)
    PROVE  IInv'
  <1>. USE DEF IInv, TablesKept, tables
  <1>1. TypeOK'
    BY DEF TypeOK, TablesTypeOK, TxnOK
  <1>2. Integrity' /\ ReservedIsHeld'
    BY DEF Integrity, ForeignKeys, ReservedIsHeld, Rows, Held
  <1>3. CutSilent'
    BY DEF CutSilent, CutsKept
  <1>. QED BY <1>1, <1>2, <1>3

(* Opening a transaction.                                                  *)
LEMMA CallKeeps ==
    ASSUME IInv, NEW t \in Txns, Call(t)
    PROVE  IInv'
  <1>. DEFINE Goal(W) == TxnOK' /\ TablesKept /\ CutsKept(W)
  <1>. TxnOK
    BY DEF IInv, TypeOK, TxnOK
  <1>0. {} \in SUBSET Workers
    OBVIOUS
  <1>1. ASSUME NEW c \in Clients, NEW n \in 1..Cardinality(Devices), MakeSelect(t, c, n)
        PROVE  Goal({})
    <2>1. PICK S \in SUBSET Available : Begin(t, "make", c, S, {})
      BY <1>1 DEF MakeSelect
    <2>2. S \in SUBSET Devices
      BY <2>1 DEF Available, Rows
    <2>. QED BY <1>0, <2>1, <2>2, BeginTyped DEF Kinds, Calling, TablesKept, CutsKept
  <1>2. ASSUME NEW c \in Clients, NEW S \in SUBSET HeldBy(c, Devices), EndSelect(t, c, S)
        PROVE  Goal({})
    <2>1. HeldBy(c, S) \in SUBSET Devices
      BY DEF HeldBy
    <2>. QED BY <1>0, <1>2, <2>1, BeginTyped DEF EndSelect, Kinds, Calling, TablesKept, CutsKept
  <1>3. ASSUME TimeoutSelect(t)
        PROVE  Goal(late)
    <2>1. late \in SUBSET Workers /\ {} \in SUBSET Devices
      BY DEF IInv, TypeOK, TablesTypeOK
    <2>. QED BY <1>3, <2>1, BeginTyped DEF TimeoutSelect, Kinds, Calling, TablesKept, CutsKept
  <1>4. ASSUME ExpireSelect(t)
        PROVE  Goal({})
    <2>1. {} \in SUBSET Devices
      OBVIOUS
    <2>. QED BY <1>0, <1>4, <2>1, BeginTyped DEF ExpireSelect, Kinds, Calling, TablesKept, CutsKept
  <1>. QED BY <1>1, <1>2, <1>3, <1>4, TxnStepKeeps DEF Call

-----------------------------------------------------------------------------
(* A write that is not the last: the tables do not show it yet.            *)
LEMMA WroteKeeps ==
    ASSUME IInv, NEW t \in Txns, MakeUpdate(t) \/ EndDelete(t)
    PROVE  IInv'
  <1>1. TxnOK /\ txn[t].client \in Clients /\ {"marked", "cleared"} \subseteq Kinds
    BY DEF IInv, TypeOK, TxnOK, MakeUpdate, EndDelete, Kinds, Calling
  <1>2. TxnOK' /\ TablesKept /\ CutsKept({})
    BY <1>1, WroteTyped DEF MakeUpdate, EndDelete, TablesKept, CutsKept
  <1>. QED BY <1>2, TxnStepKeeps

(* Closing one.  Each of the three parts of IInv has its own step.         *)
LEMMA MakeCommitKeeps ==
    ASSUME IInv, NEW t \in Txns, MakeCommit(t)
    PROVE  IInv'
  <1>. USE DEF IInv, MakeCommit
  <1>. DEFINE c == txn[t].client
              S == txn[t].rows
              H == txn[t].hit
  <1>1. c \in Clients /\ c # None /\ S \in SUBSET Devices /\ H \subseteq S
    BY NoneAssumption DEF TypeOK, Calling
  <1>2. TxnOK'
    BY FinishTyped DEF TypeOK, TxnOK
  <1>3. TypeOK'
    BY <1>1, <1>2 DEF TypeOK, TablesTypeOK, TxnOK, DeviceStatus
  <1>4. Integrity'
    BY <1>1 DEF Integrity, ForeignKeys, Rows, Held, Insertable, TypeOK, TablesTypeOK
  <1>5. ReservedIsHeld'
    BY <1>1 DEF ReservedIsHeld, Held, TypeOK, TablesTypeOK
  <1>6. CutSilent'
    BY FinishTyped DEF CutSilent, TypeOK, TxnOK
  <1>. QED BY <1>3, <1>4, <1>5, <1>6

LEMMA EndCommitKeeps ==
    ASSUME IInv, NEW t \in Txns, EndCommit(t)
    PROVE  IInv'
  <1>. USE DEF IInv, EndCommit, Released
  <1>1. txn[t].rows \in SUBSET Devices /\ txn[t].hit \subseteq txn[t].rows
    BY DEF TypeOK
  <1>2. TxnOK'
    BY FinishTyped DEF TypeOK, TxnOK
  <1>3. TypeOK'
    BY <1>1, <1>2 DEF TypeOK, TablesTypeOK, TxnOK, DeviceStatus
  <1>4. Integrity'
    BY <1>1 DEF Integrity, ForeignKeys, Rows, Held, TypeOK, TablesTypeOK
  <1>5. ReservedIsHeld'
    BY <1>1 DEF ReservedIsHeld, Integrity, ForeignKeys, Rows, Held, TypeOK, TablesTypeOK
  <1>6. CutSilent'
    BY FinishTyped DEF CutSilent, TypeOK, TxnOK
  <1>. QED BY <1>3, <1>4, <1>5, <1>6

LEMMA TimeoutDeleteKeeps ==
    ASSUME IInv, NEW t \in Txns, TimeoutDelete(t)
    PROVE  IInv'
  <1>. USE DEF IInv, TimeoutDelete, DeleteWorkers
  <1>2. TxnOK'
    BY FinishTyped DEF TypeOK, TxnOK
  <1>3. TypeOK'
    BY <1>2 DEF TypeOK, TablesTypeOK, TxnOK
  <1>4. Integrity'
    BY DEF Integrity, ForeignKeys, Rows, Held, Cascade, TypeOK, TablesTypeOK
  <1>5. ReservedIsHeld'
    BY DEF ReservedIsHeld, Held, Cascade, TypeOK, TablesTypeOK
  <1>6. CutSilent'
    BY FinishTyped DEF CutSilent, TypeOK, TxnOK
  <1>. QED BY <1>3, <1>4, <1>5, <1>6

LEMMA RollbackKeeps ==
    ASSUME IInv, NEW t \in Txns, Rollback(t)
    PROVE  IInv'
  <1>1. TxnOK' /\ TablesKept /\ CutsKept({})
    BY FinishTyped DEF IInv, TypeOK, TxnOK, Rollback, TablesKept, CutsKept
  <1>. QED BY <1>1, TxnStepKeeps

-----------------------------------------------------------------------------
(* The single statements.                                                  *)
LEMMA WorkerKeeps ==
    ASSUME IInv, NEW w \in Workers, AddWorker(w) \/ HeartbeatWorker(w) \/ WorkerLate(w)
    PROVE  IInv'
  <1>. USE DEF IInv, AddWorker, HeartbeatWorker, WorkerLate, InsertWorker, Heartbeat,
               GrowLate
  <1>1. TxnOK' /\ \A t \in Txns : \/ txn'[t].cut = txn[t].cut \ {w}
                                  \/ txn'[t].cut = txn[t].cut /\ WorkerLate(w)
    BY FreshTyped DEF TypeOK, TxnOK
  <1>2. TypeOK'
    BY <1>1 DEF TypeOK, TablesTypeOK, TxnOK
  <1>3. Integrity' /\ ReservedIsHeld'
    BY DEF Integrity, ForeignKeys, ReservedIsHeld, Rows, Held
  <1>4. CutSilent'
    BY <1>1 DEF CutSilent
  <1>. QED BY <1>2, <1>3, <1>4

LEMMA DeviceKeeps ==
    ASSUME IInv, NEW d \in Devices,
           \/ \E w \in Workers : AddDevice(d, w)
           \/ \E s \in WorkerStatus : UpdateDeviceStatus(d, s)
           \/ ReservationOverdue(d)
    PROVE  IInv'
  <1>. USE WorkerStatusAssumption DEF IInv, AddDevice, UpdateDeviceStatus, ReservationOverdue, InsertDevice,
               SetStatus, tables
  <1>1. TypeOK'
    BY DEF TypeOK, TablesTypeOK, DeviceStatus, Held
  <1>2. Integrity'
    BY NoneAssumption DEF Integrity, ForeignKeys, TypeOK, TablesTypeOK, Rows, Held, DeviceStatus
  <1>3. ReservedIsHeld'
    BY DEF ReservedIsHeld, TypeOK, TablesTypeOK, Held
  <1>4. CutSilent'
    BY DEF CutSilent
  <1>. QED BY <1>1, <1>2, <1>3, <1>4

LEMMA ExtendKeeps ==
    ASSUME IInv, NEW c \in Clients, NEW S \in SUBSET Devices, Extend(c, S)
    PROVE  IInv'
  BY DEF IInv, Extend, TypeOK, TablesTypeOK, Integrity, ForeignKeys, ReservedIsHeld, CutSilent,
         tables, Rows, Held

LEMMA StutterKeeps ==
    ASSUME IInv, UNCHANGED vars
    PROVE  IInv'
  BY DEF IInv, vars, TypeOK, TablesTypeOK, Integrity, ForeignKeys, ReservedIsHeld, CutSilent, Rows, Held

LEMMA InitEstablishes == Init => IInv
  BY DEF Init, TablesInit, IInv, TypeOK, TablesTypeOK, Integrity, ForeignKeys, ReservedIsHeld,
         CutSilent, Rows, Held, Idle, Kinds, Calling

LEMMA NextKeeps == IInv /\ [Next]_vars => IInv'
  <1>1. ASSUME IInv, NEW c \in Clients, NEW S \in SUBSET HeldBy(c, Devices), Extend(c, S)
        PROVE  IInv'
    BY <1>1, ExtendKeeps DEF HeldBy
  <1>. QED BY <1>1, CallKeeps, WroteKeeps, MakeCommitKeeps, EndCommitKeeps, TimeoutDeleteKeeps,
              RollbackKeeps, WorkerKeeps, DeviceKeeps, StutterKeeps DEF Next, Complete

-----------------------------------------------------------------------------
(* IInv is an invariant: the tables stay consistent under every            *)
(* interleaving of the procedures.                                         *)
THEOREM Inductive == Spec => []IInv
  BY InitEstablishes, NextKeeps, PTL DEF Spec

(* Every variable keeps its type.                                          *)
THEOREM TypeCorrect == Spec => []TypeOK
  BY Inductive, PTL DEF IInv

(* A foreign key is never left dangling by the cascade of a worker.        *)
THEOREM IntegrityHolds == Spec => []Integrity
  BY Inductive, PTL DEF IInv

(* A device marked reserved has its reservation.                           *)
THEOREM ReservedIsHeldHolds == Spec => []ReservedIsHeld
  BY Inductive, PTL DEF IInv

(* No worker with a fresh heartbeat is deleted.                            *)
THEOREM OnlySilentWorkersDroppedHolds == Spec => OnlySilentWorkersDropped
  <1>1. IInv /\ [Next]_vars => [worker \ worker' \subseteq late]_vars
    <2>. SUFFICES ASSUME IInv, Next PROVE worker \ worker' \subseteq late
      BY DEF vars
    <2>1. ASSUME NEW t \in Txns, TimeoutDelete(t) PROVE worker \ worker' \subseteq late
      BY <2>1 DEF IInv, CutSilent, TimeoutDelete, DeleteWorkers, Expired
    <2>2. ASSUME ~ \E t \in Txns : TimeoutDelete(t) PROVE worker \subseteq worker'
      <3>. USE <2>2 DEF tables
      <3>1. ASSUME NEW t \in Txns, Call(t) PROVE UNCHANGED worker
        BY <3>1 DEF Call, MakeSelect, EndSelect, TimeoutSelect, ExpireSelect, Begin
      <3>2. ASSUME NEW t \in Txns, Complete(t) PROVE UNCHANGED worker
        BY <3>2 DEF Complete, MakeUpdate, MakeCommit, EndDelete, EndCommit, Wrote, Rollback
      <3>. QED BY <3>1, <3>2
           DEF Next, AddWorker, HeartbeatWorker, WorkerLate, AddDevice, UpdateDeviceStatus,
               ReservationOverdue, Extend, InsertWorker, Heartbeat, GrowLate,
               InsertDevice, SetStatus
    <2>. QED BY <2>1, <2>2
  <1>. QED BY <1>1, Inductive, PTL DEF Spec, OnlySilentWorkersDropped

(* The procedures implement the leases: a device has one holder at a time, *)
(* an answer is all or nothing, and a device changes hands only by being   *)
(* free in between.                                                        *)
THEOREM LeasesImplemented == Spec => LeaseRefinement
  <1>1. Init => Leases!LeaseInit
    BY DEF Init, TablesInit, Leases!LeaseInit
  <1>2. IInv /\ [Next]_vars => [Leases!LeaseNext]_holder
    <2>. SUFFICES ASSUME IInv, Next PROVE Leases!LeaseNext \/ UNCHANGED holder
      BY DEF vars
    <2>. USE DEF IInv, TypeOK, TablesTypeOK, tables
    <2>1. ASSUME NEW t \in Txns, MakeCommit(t) PROVE Leases!LeaseNext
      <3>1. Leases!Grant(txn[t].client, txn[t].rows)
        BY <2>1 DEF MakeCommit, Insertable, Leases!Grant
      <3>2. txn[t].client \in Clients /\ txn[t].rows \in SUBSET Devices
        BY <2>1 DEF MakeCommit, Calling
      <3>. QED BY <3>1, <3>2 DEF Leases!LeaseNext
    <2>2. ASSUME NEW t \in Txns, EndCommit(t) PROVE Leases!LeaseNext
      <3>1. Leases!Drop(txn[t].hit) /\ txn[t].hit \in SUBSET Devices
        BY <2>2 DEF EndCommit, Leases!Drop
      <3>. QED BY <3>1 DEF Leases!LeaseNext
    <2>3. ASSUME NEW t \in Txns, TimeoutDelete(t) PROVE Leases!LeaseNext
      <3>1. Leases!Drop(Cascade(Expired(t)))
        BY <2>3 DEF TimeoutDelete, DeleteWorkers, Leases!Drop
      <3>2. Cascade(Expired(t)) \in SUBSET Devices
        BY DEF Cascade
      <3>. QED BY <3>1, <3>2 DEF Leases!LeaseNext
    <2>4. ASSUME NEW t \in Txns, Call(t) \/ MakeUpdate(t) \/ EndDelete(t) \/ Rollback(t)
          PROVE  UNCHANGED holder
      BY <2>4 DEF Call, MakeSelect, EndSelect, TimeoutSelect, ExpireSelect, Begin, MakeUpdate,
                  EndDelete, Wrote, Rollback
    <2>. QED BY <2>1, <2>2, <2>3, <2>4
         DEF Next, Complete, AddWorker, HeartbeatWorker, WorkerLate, AddDevice,
             UpdateDeviceStatus, ReservationOverdue, Extend, InsertWorker, Heartbeat,
             GrowLate, InsertDevice, SetStatus
  <1>. QED BY <1>1, <1>2, Inductive, PTL DEF Spec, LeaseRefinement, Leases!LeaseSpec

-----------------------------------------------------------------------------
(* The discipline of the callers.  What a step does to the claims of the   *)
(* end calls that are open after it: they are the old ones, but for the    *)
(* rows an end call has just selected or its DELETE just found.            *)
SameCall(t) == /\ txn'[t].kind = txn[t].kind
               /\ txn'[t].client = txn[t].client
               /\ txn'[t].rows = txn[t].rows
               /\ txn'[t].hit = txn[t].hit

SameClaim(t) == t \in Ending /\ SameCall(t)

NewClaim(t) == /\ UNCHANGED tables
               /\ txn'[t].kind = "end"
               /\ \A d \in txn'[t].rows : holder[d] = txn'[t].client

FoundClaim(t) == /\ t \in Ending
                 /\ UNCHANGED tables
                 /\ txn'[t].rows = txn[t].rows
                 /\ txn'[t].client = txn[t].client
                 /\ txn'[t].hit = txn[t].rows \intersect Held

LEMMA ClaimsOldOrNew ==
    ASSUME IInv, Next, NEW t \in Ending'
    PROVE  SameClaim(t) \/ NewClaim(t) \/ FoundClaim(t)
  <1>. USE DEF Ending, SameCall, SameClaim, NewClaim
  <1>1. TxnOK /\ t \in Txns /\ txn'[t].kind \in {"end", "cleared"}
    BY DEF IInv, TypeOK, TxnOK
  <1>2. ASSUME UNCHANGED txn PROVE SameClaim(t)
    BY <1>1, <1>2
  <1>3. ASSUME NEW w \in Workers, Fresh(w) PROVE SameClaim(t)
    BY <1>1, <1>3 DEF Fresh, TxnOK
  <1>4. ASSUME NEW u \in Txns, Finish(u) PROVE SameClaim(t)
    BY <1>1, <1>4 DEF Finish, Idle, TxnOK
  <1>5. ASSUME NEW u \in Txns, NEW k, NEW c, NEW S, NEW W,
               k \notin {"end", "cleared"}, Begin(u, k, c, S, W)
        PROVE  SameClaim(t)
    BY <1>1, <1>5 DEF Begin, TxnOK
  <1>6. ASSUME NEW u \in Txns, NEW c \in Clients, NEW S, EndSelect(u, c, S)
        PROVE  SameClaim(t) \/ NewClaim(t)
    <2>1. CASE t = u
      BY <1>1, <1>6, <2>1 DEF EndSelect, Begin, HeldBy, TxnOK
    <2>2. CASE t # u
      BY <1>1, <1>6, <2>2 DEF EndSelect, Begin, TxnOK
    <2>. QED BY <2>1, <2>2
  <1>7. ASSUME NEW u \in Txns, Call(u) PROVE SameClaim(t) \/ NewClaim(t)
    BY <1>5, <1>6, <1>7 DEF Call, MakeSelect, TimeoutSelect, ExpireSelect
  <1>8. ASSUME NEW u \in Txns, MakeUpdate(u) PROVE SameClaim(t)
    BY <1>1, <1>8 DEF MakeUpdate, Wrote, TxnOK
  <1>9. ASSUME NEW u \in Txns, EndDelete(u) PROVE SameClaim(t) \/ FoundClaim(t)
    BY <1>1, <1>9 DEF EndDelete, Wrote, FoundClaim, TxnOK
  <1>10. ASSUME NEW u \in Txns, Complete(u) PROVE SameClaim(t) \/ FoundClaim(t)
    BY <1>4, <1>8, <1>9, <1>10 DEF Complete, MakeCommit, EndCommit, TimeoutDelete, Rollback
  <1>. QED BY <1>2, <1>3, <1>7, <1>10
       DEF Next, AddWorker, HeartbeatWorker, WorkerLate, AddDevice, UpdateDeviceStatus,
           ReservationOverdue, Extend

(* No step takes a device with an open claim from its holder, other than   *)
(* with its row.                                                           *)
LEMMA ClaimedIsKept ==
    ASSUME CallerInv, CallerNext, NEW t \in Ending', SameClaim(t),
           NEW d \in txn[t].rows, d \in Rows'
    PROVE  d \in Rows /\ holder'[d] = holder[d]
  <1>. DEFINE Kept == d \in Rows /\ holder'[d] = holder[d]
  <1>1. t \in Ending /\ t \in Txns /\ d \in Devices /\ txn[t].client \in Clients /\ IInv
    BY DEF CallerInv, IInv, TypeOK, SameClaim, SameCall, Ending, Calling
  <1>2. d \in Rows
    BY <1>1 DEF CallerNext, Unclaimed, Rows
  <1>3. holder[d] = txn[t].client /\ holder[d] # None
    BY <1>1, <1>2, NoneAssumption DEF CallerInv, ClaimsOwn
  <1>. USE DEF tables
  <1>4. ASSUME NEW u \in Txns, Call(u) PROVE UNCHANGED holder
    BY <1>4 DEF Call, MakeSelect, EndSelect, TimeoutSelect, ExpireSelect, Begin
  <1>5. ASSUME NEW u \in Txns, MakeCommit(u) PROVE Kept
    BY <1>1, <1>2, <1>3, <1>5 DEF MakeCommit, Insertable
  <1>6. ASSUME NEW u \in Txns, EndCommit(u) PROVE Kept
    <2>1. u # t
      BY <1>1, <1>6 DEF EndCommit, Finish, Ending, Idle, IInv, TypeOK, SameClaim, SameCall
    <2>2. u \in Ending /\ u \in Txns
      BY <1>6 DEF EndCommit, Ending
    <2>3. d \notin txn[u].rows
      <3>. SUFFICES ASSUME d \in txn[u].rows PROVE FALSE
        OBVIOUS
      <3>1. txn[u].client = txn[t].client
        BY <1>2, <1>3, <2>2 DEF CallerInv, ClaimsOwn
      <3>. QED BY <1>1, <2>1, <2>2, <3>1 DEF CallerInv, OneCall, Open
    <2>4. txn[u].hit \subseteq txn[u].rows
      BY <1>1, <2>2 DEF IInv, TypeOK
    <2>. QED BY <1>1, <1>2, <1>6, <2>3, <2>4 DEF EndCommit
  <1>7. ASSUME NEW u \in Txns, TimeoutDelete(u) PROVE Kept
    BY <1>1, <1>2, <1>7 DEF TimeoutDelete, DeleteWorkers, Rows, Cascade
  <1>8. ASSUME NEW u \in Txns, MakeUpdate(u) \/ EndDelete(u) \/ Rollback(u)
        PROVE  UNCHANGED holder
    BY <1>8 DEF MakeUpdate, EndDelete, Wrote, Rollback
  <1>. QED BY <1>2, <1>4, <1>5, <1>6, <1>7, <1>8
       DEF CallerNext, Next, Complete, AddWorker, HeartbeatWorker, WorkerLate, AddDevice,
           UpdateDeviceStatus, ReservationOverdue, Extend, InsertWorker, Heartbeat, GrowLate,
           InsertDevice, SetStatus

LEMMA CallerKeeps == CallerInv /\ [CallerNext]_vars => CallerInv'
  <1>1. ASSUME CallerInv, CallerNext PROVE CallerInv'
    <2>1. IInv' /\ OneCall'
      BY <1>1, NextKeeps DEF CallerInv, CallerNext
    <2>2. ASSUME NEW t \in Ending', NEW d \in txn'[t].rows, d \in Rows'
          PROVE  /\ holder'[d] = txn'[t].client
                 /\ txn'[t].kind = "cleared" => d \in txn'[t].hit
      <3>1. CASE NewClaim(t)
        BY <2>2, <3>1 DEF NewClaim, tables
      <3>2. CASE SameClaim(t)
        <4>1. d \in txn[t].rows /\ t \in Ending
          BY <2>2, <3>2 DEF SameClaim, SameCall
        <4>2. d \in Rows /\ holder'[d] = holder[d]
          BY <1>1, <2>2, <3>2, <4>1, ClaimedIsKept
        <4>. QED BY <1>1, <3>2, <4>1, <4>2 DEF CallerInv, ClaimsOwn, SameClaim, SameCall
      <3>3. CASE FoundClaim(t)
        <4>1. d \in Rows /\ d \in txn[t].rows /\ t \in Ending /\ UNCHANGED holder
          BY <2>2, <3>3 DEF FoundClaim, tables, Rows
        <4>2. txn[t].client \in Clients /\ holder[d] = txn[t].client
          BY <1>1, <4>1 DEF CallerInv, ClaimsOwn, IInv, TypeOK, Ending, Calling
        <4>3. d \in Held
          BY <4>1, <4>2, NoneAssumption DEF Held, Rows
        <4>. QED BY <3>3, <4>1, <4>2, <4>3 DEF FoundClaim
      <3>. QED BY <1>1, <2>2, <3>1, <3>2, <3>3, ClaimsOldOrNew DEF CallerInv, CallerNext
    <2>3. ClaimsOwn'
      BY <2>2 DEF ClaimsOwn
    <2>. QED BY <2>1, <2>3 DEF CallerInv
  <1>2. ASSUME CallerInv, UNCHANGED vars PROVE CallerInv'
    BY <1>2, StutterKeeps DEF CallerInv, vars, OneCall, Open, ClaimsOwn, Ending, Rows
  <1>. QED BY <1>1, <1>2

THEOREM CallerInductive == CallerSpec => []CallerInv
  <1>1. Init => CallerInv
    BY InitEstablishes, NoneAssumption
       DEF Init, CallerInv, OneCall, Open, ClaimsOwn, Ending, Idle
  <1>. QED BY <1>1, CallerKeeps, PTL DEF CallerSpec

(* What an end call has selected stays its caller's until it commits.      *)
THEOREM ClaimsOwnHolds == CallerSpec => []ClaimsOwn
  BY CallerInductive, PTL DEF CallerInv

(* With one call open per client, and no serial registered anew under an   *)
(* open end call, an end call ends the reservations of its caller alone.   *)
THEOREM EndsOnlyOwnHolds == CallerSpec => EndsOnlyOwn
  <1>. DEFINE Own == \A t \in Txns : txn[t].kind = "cleared" /\ txn'[t].kind = "idle" =>
                       \A d \in Held : holder'[d] = None => holder[d] = txn[t].client
  <1>1. CallerInv /\ [CallerNext]_vars => [Own]_vars
    <2>. SUFFICES ASSUME CallerInv, CallerNext, NEW t \in Txns,
                         txn[t].kind = "cleared", txn'[t].kind = "idle",
                         NEW d \in Held, holder'[d] = None
                  PROVE  holder[d] = txn[t].client
      BY DEF vars
    <2>1. d \in Rows /\ t \in Ending /\ IInv /\ TxnOK
      BY DEF CallerInv, IInv, Integrity, ForeignKeys, Ending, TypeOK, TxnOK
    <2>2. PICK u \in Txns : Call(u) \/ Complete(u)
      <3>1. ASSUME UNCHANGED txn \/ \E w \in Workers : Fresh(w) PROVE FALSE
        BY <2>1, <3>1 DEF Fresh, TxnOK
      <3>. QED BY <3>1 DEF CallerNext, Next, AddWorker, HeartbeatWorker, WorkerLate, AddDevice,
                           UpdateDeviceStatus, ReservationOverdue, Extend
    <2>3. ~ Call(u)
      BY <2>1 DEF Call, MakeSelect, EndSelect, TimeoutSelect, ExpireSelect, Begin, Idle, TxnOK
    <2>4. u = t
      BY <2>1, <2>2, <2>3
         DEF Complete, MakeUpdate, MakeCommit, EndDelete, EndCommit, TimeoutDelete, Rollback,
             Wrote, Finish, TxnOK
    <2>5. EndCommit(t)
      BY <2>2, <2>3, <2>4
         DEF Complete, MakeUpdate, MakeCommit, EndDelete, TimeoutDelete, Rollback, tables, Held
    <2>6. d \in txn[t].rows
      BY <2>1, <2>5 DEF EndCommit, Held, TxnOK
    <2>. QED BY <2>1, <2>6 DEF CallerInv, ClaimsOwn
  <1>. QED BY <1>1, CallerInductive, PTL DEF CallerSpec, EndsOnlyOwn

-----------------------------------------------------------------------------
(* Under the conditions of CalmSpec the transactions look like one call at *)
(* a time.  As with the ends: what makeReservations has in res after a     *)
(* step, it had before, or has just found available; or its UPDATE has     *)
(* just found the rows that are there.                                     *)
SameChoice(t) == t \in Selecting /\ SameCall(t)

NewChoice(t) == /\ UNCHANGED tables
                /\ txn'[t].kind = "make"
                /\ \A d \in txn'[t].rows : status[d] = "available"

MarkedChoice(t) == /\ t \in Selecting
                   /\ UNCHANGED tables
                   /\ txn'[t].rows = txn[t].rows
                   /\ txn'[t].hit = txn[t].rows \intersect Rows

LEMMA ChosenOldOrNew ==
    ASSUME IInv, Next, NEW t \in Selecting'
    PROVE  SameChoice(t) \/ NewChoice(t) \/ MarkedChoice(t)
  <1>. USE DEF Selecting, SameCall, SameChoice, NewChoice
  <1>1. TxnOK /\ t \in Txns /\ txn'[t].kind \in {"make", "marked"}
    BY DEF IInv, TypeOK, TxnOK
  <1>2. ASSUME UNCHANGED txn PROVE SameChoice(t)
    BY <1>1, <1>2
  <1>3. ASSUME NEW w \in Workers, Fresh(w) PROVE SameChoice(t)
    BY <1>1, <1>3 DEF Fresh, TxnOK
  <1>4. ASSUME NEW u \in Txns, Finish(u) PROVE SameChoice(t)
    BY <1>1, <1>4 DEF Finish, Idle, TxnOK
  <1>5. ASSUME NEW u \in Txns, NEW k, NEW c, NEW S, NEW W,
               k \notin {"make", "marked"}, Begin(u, k, c, S, W)
        PROVE  SameChoice(t)
    BY <1>1, <1>5 DEF Begin, TxnOK
  <1>6. ASSUME NEW u \in Txns, NEW c \in Clients, NEW n, MakeSelect(u, c, n)
        PROVE  SameChoice(t) \/ NewChoice(t)
    <2>1. PICK S \in SUBSET Available : Begin(u, "make", c, S, {})
      BY <1>6 DEF MakeSelect
    <2>2. CASE t = u
      BY <1>1, <2>1, <2>2 DEF Begin, Available, TxnOK
    <2>3. CASE t # u
      BY <1>1, <2>1, <2>3 DEF Begin, TxnOK
    <2>. QED BY <2>2, <2>3
  <1>7. ASSUME NEW u \in Txns, Call(u) PROVE SameChoice(t) \/ NewChoice(t)
    BY <1>5, <1>6, <1>7 DEF Call, EndSelect, TimeoutSelect, ExpireSelect
  <1>8. ASSUME NEW u \in Txns, EndDelete(u) PROVE SameChoice(t)
    BY <1>1, <1>8 DEF EndDelete, Wrote, TxnOK
  <1>9. ASSUME NEW u \in Txns, MakeUpdate(u) PROVE SameChoice(t) \/ MarkedChoice(t)
    BY <1>1, <1>9 DEF MakeUpdate, Wrote, MarkedChoice, TxnOK
  <1>10. ASSUME NEW u \in Txns, Complete(u) PROVE SameChoice(t) \/ MarkedChoice(t)
    BY <1>4, <1>8, <1>9, <1>10 DEF Complete, MakeCommit, EndCommit, TimeoutDelete, Rollback
  <1>. QED BY <1>2, <1>3, <1>7, <1>10
       DEF Next, AddWorker, HeartbeatWorker, WorkerLate, AddDevice, UpdateDeviceStatus,
           ReservationOverdue, Extend

LEMMA CalmKeeps == CalmInv /\ [CallerNext /\ Calm]_vars => CalmInv'
  <1>1. ASSUME CalmInv, CallerNext, Calm PROVE CalmInv'
    <2>1. CallerInv'
      BY <1>1, CallerKeeps DEF CalmInv
    <2>2. ASSUME NEW t \in Selecting', NEW d \in txn'[t].rows
          PROVE  /\ status'[d] \in {"available", "reserved", "no_row"}
                 /\ txn'[t].kind = "marked" /\ d \notin txn'[t].hit => status'[d] = "no_row"
      <3>0. IInv /\ TxnOK
        BY <1>1 DEF CalmInv, CallerInv, IInv, TypeOK, TxnOK
      <3>1. CASE NewChoice(t)
        BY <2>2, <3>1 DEF NewChoice, tables
      <3>2. CASE SameChoice(t)
        <4>1. t \in Txns /\ t \in Selecting /\ d \in txn[t].rows
          BY <2>2, <3>2 DEF SameChoice, SameCall, Selecting
        <4>. QED BY <1>1, <3>2, <4>1 DEF CalmInv, SelectedCalm, Calm, SameChoice, SameCall
      <3>3. CASE MarkedChoice(t)
        <4>1. t \in Txns /\ t \in Selecting /\ d \in txn[t].rows /\ UNCHANGED status
          BY <2>2, <3>3 DEF MarkedChoice, Selecting, tables
        <4>2. d \in Devices /\ (d \notin Rows => status[d] = "no_row")
          BY <3>0, <4>1 DEF IInv, Integrity, ForeignKeys, TxnOK
        <4>. QED BY <1>1, <3>3, <4>1, <4>2 DEF MarkedChoice, CalmInv, SelectedCalm
      <3>. QED BY <1>1, <2>2, <3>0, <3>1, <3>2, <3>3, ChosenOldOrNew DEF CalmInv, CallerInv, CallerNext
    <2>. QED BY <2>1, <2>2 DEF CalmInv, SelectedCalm
  <1>2. ASSUME CalmInv, UNCHANGED vars PROVE CalmInv'
    BY <1>2, CallerKeeps DEF CalmInv, vars, SelectedCalm, Selecting
  <1>. QED BY <1>1, <1>2

THEOREM CalmInductive == CalmSpec => []CalmInv
  <1>1. Init => CalmInv
    BY InitEstablishes, NoneAssumption
       DEF Init, CalmInv, CallerInv, OneCall, Open, ClaimsOwn, Ending, SelectedCalm, Selecting,
           Idle
  <1>. QED BY <1>1, CalmKeeps, PTL DEF CalmSpec

(* The three commits, as calls of one step.                                *)
LEMMA MakeCommitSerial ==
    ASSUME IInv, SelectedCalm, NEW t \in Txns, MakeCommit(t)
    PROVE  OneByOne
  <1>1. /\ txn[t].client \in Clients /\ txn[t].rows \in SUBSET Devices
        /\ txn[t].hit \subseteq txn[t].rows
    BY DEF MakeCommit, IInv, TypeOK, Calling
  <1>2. ASSUME NEW d \in txn[t].rows PROVE d \in Available /\ d \in txn[t].hit
    <2>1. d \in Devices /\ owner[d] # None /\ holder[d] = None
      BY <1>1, <1>2 DEF MakeCommit, Insertable
    <2>2. /\ status[d] \in {"available", "reserved", "no_row"}
          /\ d \notin txn[t].hit => status[d] = "no_row"
      BY <1>2 DEF SelectedCalm, Selecting, MakeCommit
    <2>3. status[d] # "no_row" /\ status[d] # "reserved"
      BY <2>1 DEF IInv, Integrity, ForeignKeys, ReservedIsHeld, Rows, Held
    <2>. QED BY <2>1, <2>2, <2>3 DEF Available, Rows
  <1>3. txn[t].hit = txn[t].rows
    BY <1>1, <1>2
  <1>4. ReserveRows(txn[t].client, txn[t].rows)
    BY <1>3 DEF MakeCommit, ReserveRows
  <1>. QED BY <1>1, <1>2, <1>4 DEF OneByOne

LEMMA EndCommitSerial ==
    ASSUME IInv, ClaimsOwn, NEW t \in Txns, EndCommit(t)
    PROVE  OneByOne
  <1>. DEFINE c == txn[t].client
              S == txn[t].rows
  <1>1. c \in Clients /\ S \in SUBSET Devices /\ t \in Ending
    BY DEF EndCommit, IInv, TypeOK, Ending, Calling
  <1>2. \A d \in S : \/ d \in HeldBy(c, S) /\ d \in txn[t].hit
                     \/ owner[d] = None /\ holder[d] = None
    BY <1>1 DEF ClaimsOwn, HeldBy, IInv, Integrity, ForeignKeys, Rows, Held, EndCommit
  <1>3. EndRows(HeldBy(c, S))
    <2>1. HeldBy(c, S) \subseteq S /\ txn[t].hit \subseteq S
      BY DEF HeldBy, IInv, TypeOK
    <2>2. holder' = [d \in Devices |-> IF d \in HeldBy(c, S) THEN None ELSE holder[d]]
      BY <1>2, <2>1 DEF EndCommit
    <2>3. status' = [d \in Devices |->
                       IF d \in HeldBy(c, S) /\ owner[d] # None THEN Released ELSE status[d]]
      BY <1>2, <2>1 DEF EndCommit
    <2>. QED BY <2>2, <2>3 DEF EndCommit, EndRows
  <1>. QED BY <1>1, <1>3 DEF OneByOne

LEMMA TimeoutDeleteSerial ==
    ASSUME IInv, NEW t \in Txns, TimeoutDelete(t)
    PROVE  OneByOne
  <1>. DEFINE W == txn[t].cut \intersect worker
  <1>1. W \in SUBSET late
    BY DEF IInv, CutSilent
  <1>2. Cascade(W) = Cascade(txn[t].cut)
    <2>1. txn[t].cut \in SUBSET Workers
      BY DEF IInv, TypeOK
    <2>2. ASSUME NEW d \in Devices, owner[d] \in txn[t].cut PROVE owner[d] \in worker
      BY <2>1, <2>2, NoneAssumption DEF IInv, Integrity, ForeignKeys, Rows
    <2>. QED BY <2>2 DEF Cascade
  <1>3. late \ txn[t].cut = late \ W /\ worker \ txn[t].cut = worker \ W
    BY DEF IInv, TypeOK, TablesTypeOK
  <1>4. DeleteWorkers(W)
    BY <1>2, <1>3 DEF TimeoutDelete, Expired, DeleteWorkers
  <1>. QED BY <1>1, <1>4 DEF OneByOne

(* Whatever the transactions do in between, a step whose open calls still  *)
(* have what they selected changes the tables like one call at a time.     *)
THEOREM SerialHolds == Spec => Serial
  <1>1. IInv /\ [Next]_vars => [ClaimsOwn /\ SelectedCalm => OneByOne]_tables
    <2>. SUFFICES ASSUME IInv, Next, ClaimsOwn, SelectedCalm PROVE OneByOne \/ UNCHANGED tables
      BY DEF vars, tables
    <2>1. ASSUME NEW t \in Txns, Call(t) \/ MakeUpdate(t) \/ EndDelete(t) \/ Rollback(t)
          PROVE  UNCHANGED tables
      BY <2>1 DEF Call, MakeSelect, EndSelect, TimeoutSelect, ExpireSelect, Begin, MakeUpdate,
                  EndDelete, Wrote, Rollback
    <2>2. ASSUME NEW t \in Txns, MakeCommit(t) \/ EndCommit(t) \/ TimeoutDelete(t)
          PROVE  OneByOne
      BY <2>2, MakeCommitSerial, EndCommitSerial, TimeoutDeleteSerial
    <2>3. ASSUME NEW w \in Workers, AddWorker(w) \/ HeartbeatWorker(w) \/ WorkerLate(w)
          PROVE  OneByOne
      BY <2>3 DEF AddWorker, HeartbeatWorker, WorkerLate, OneByOne
    <2>4. ASSUME NEW d \in Devices, NEW w \in Workers, AddDevice(d, w) PROVE OneByOne
      BY <2>4 DEF AddDevice, OneByOne
    <2>5. ASSUME NEW d \in Devices, NEW s \in WorkerStatus, UpdateDeviceStatus(d, s)
          PROVE  OneByOne
      BY <2>5, WorkerStatusAssumption DEF UpdateDeviceStatus, OneByOne
    <2>. QED BY <2>1, <2>2, <2>3, <2>4, <2>5 DEF Next, Complete, ReservationOverdue, Extend
  <1>. QED BY <1>1, Inductive, PTL DEF Spec, Serial

(* Under the conditions of CalmSpec the open calls always still have what  *)
(* they selected: a database used like that sees calls that do not overlap.*)
THEOREM CalmOneByOne == CalmSpec => [][OneByOne]_tables
  <1>1. CalmSpec => Spec
    <2>1. [CallerNext /\ Calm]_vars => [Next]_vars
      BY DEF CallerNext
    <2>. QED BY <2>1, PTL DEF CalmSpec, Spec
  <1>2. CalmInv => ClaimsOwn /\ SelectedCalm
    BY DEF CalmInv, CallerInv
  <1>. QED BY <1>1, <1>2, CalmInductive, SerialHolds, PTL DEF Serial
=============================================================================
