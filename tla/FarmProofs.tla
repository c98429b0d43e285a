----------------------------- MODULE FarmProofs -----------------------------
(***************************************************************************)
(* Proofs about Farm for every set of workers, boards and clients, every   *)
(* placement of the boards and every bound on the requests.                *)
(*                                                                         *)
(* The invariants speak of one board at a time, so the proof does too:     *)
(* Board(d) collects what IInv says of d, and each action is shown to keep *)
(* it for the board it acts on and for the others.                         *)
(***************************************************************************)
EXTENDS Farm, FiniteSetTheorems, TLAPS

Board(d) ==
    /\ owner[d] # None => /\ owner[d] \in worker /\ owner[d] = Plugged[d]
                          /\ Up(d) => mode[d] # "absent"
    /\ status[d] = "no_row" <=> owner[d] = None
    /\ holder[d] # None => /\ owner[d] # None /\ Settled(d)
                           /\ status[d] \in {"reserved", "broken"} /\ LoadedOnce(d)
    /\ status[d] = "reserved" => holder[d] # None
    /\ status[d] = "available" => Settled(d) /\ Unloaded(d)
    /\ Outstanding(d) <= 1
    /\ ~Up(d) => /\ mode[d] = "absent" /\ d \notin haunted
                 /\ Outstanding(d) = 0 /\ reserves[d] = 0
    /\ reserves[d] > 0 => d \in stray \/ holder[d] # None
    /\ Outstanding(d) > 0 => mode[d] \in {"ready", "broken", "loading", "serving"}

LEMMA PerBoard == IInv <=> TypeOK /\ \A d \in Devices : Board(d)
  BY DEF IInv, Board, ForeignKeys, HolderUndisturbed, OfferedIsSettled, OneUnreserve,
         HeldStatus, ReservedIsHeld, RowOfHost, DownIsEmpty, UnreserveFirst, StrayOrHeld,
         Rows, Held, Available

LEMMA PerBoardNext == IInv' <=> TypeOK' /\ \A d \in Devices : Board(d)'
  BY DEF IInv, Board, ForeignKeys, HolderUndisturbed, OfferedIsSettled, OneUnreserve,
         HeldStatus, ReservedIsHeld, RowOfHost, DownIsEmpty, UnreserveFirst, StrayOrHeld,
         Rows, Held, Available

(* What Board(d) depends on; a worker may be added.                        *)
Untouched(d) ==
    /\ worker \subseteq worker'
    /\ proc'[Plugged[d]] = proc[Plugged[d]]
    /\ owner'[d] = owner[d] /\ status'[d] = status[d] /\ holder'[d] = holder[d]
    /\ mode'[d] = mode[d]
    /\ d \in haunted' => d \in haunted
    /\ unreserves'[d] = unreserves[d] /\ resetting'[d] = resetting[d]
    /\ reserves'[d] = reserves[d] /\ (d \in stray' <=> d \in stray)

LEMMA Frame ==
    ASSUME NEW d \in Devices, Board(d), Untouched(d)
    PROVE  Board(d)'
  BY DEF Board, Untouched, Up, Settled, Outstanding, LoadedOnce, Unloaded

(* A worker's status write changes one status, or nothing.                 *)
LEMMA WriteStatusEffect ==
    ASSUME TablesTypeOK, NEW d \in Devices, NEW s \in DeviceStatus, WriteStatus(d, s)
    PROVE  /\ TablesTypeOK'
           /\ UNCHANGED <<worker, late, owner, holder>>
           /\ \A x \in Devices : x # d => status'[x] = status[x]
           /\ status'[d] = status[d] \/ (owner[d] # None /\ status'[d] = s)
  <1>1. CASE SetStatus(d, s)
    BY <1>1 DEF SetStatus, TablesTypeOK
  <1>2. CASE UNCHANGED tables
    BY <1>2 DEF TablesTypeOK, tables
  <1>. QED BY <1>1, <1>2 DEF WriteStatus

-----------------------------------------------------------------------------
(* The life of a board in its worker.                                      *)
LEMMA DiscoverKeeps ==
    ASSUME IInv, NEW d \in Devices, Discover(d)
    PROVE  IInv'
  <1>. TypeOK /\ \A x \in Devices : Board(x)
    BY PerBoard
  <1>. USE PluggedAssumption DEF Discover, InsertDevice, tables
  <1>1. TypeOK'
    BY DEF TypeOK, TablesTypeOK, DeviceStatus, Modes
  <1>2. ASSUME NEW x \in Devices, x # d PROVE Board(x)'
    BY <1>2, Frame DEF Untouched, TypeOK, TablesTypeOK
  <1>3. Board(d)'
    <2>1. /\ owner[d] = None /\ holder[d] = None /\ status[d] = "no_row"
          /\ unreserves[d] = 0 /\ resetting[d] = 0
      <3>1. Board(d) /\ Up(d) /\ mode[d] = "absent"
        OBVIOUS
      <3>2. unreserves[d] \in Nat /\ resetting[d] \in Nat
        BY DEF TypeOK
      <3>3. ~(Outstanding(d) > 0)
        BY <3>1 DEF Board
      <3>. QED BY <3>1, <3>2, <3>3 DEF Board, Outstanding
    <2>2. /\ owner'[d] = None \/ (owner'[d] = Plugged[d] /\ owner'[d] \in worker)
          /\ status'[d] = IF owner'[d] = None THEN "no_row" ELSE "await_flash_default"
          /\ holder'[d] = None /\ mode'[d] = "found"
          /\ unreserves'[d] = 0 /\ resetting'[d] = 0
          /\ UNCHANGED <<worker, proc, haunted>>
      <3>1. mode'[d] = "found" /\ UNCHANGED <<proc, haunted, unreserves, resetting>>
        BY DEF TypeOK
      <3>2. CASE InsertDevice(d, Plugged[d])
        BY <2>1, <3>1, <3>2, NoneAssumption DEF TypeOK, TablesTypeOK
      <3>3. CASE UNCHANGED tables
        BY <2>1, <3>1, <3>3
      <3>. QED BY <3>2, <3>3
    <2>. QED BY <2>2 DEF Board, Up, Settled, LoadedOnce, Unloaded, Outstanding
  <1>. QED BY <1>1, <1>2, <1>3, PerBoardNext

LEMMA EnterKeeps ==
    ASSUME IInv, NEW d \in Devices, NEW from, NEW to \in Modes, Enter(d, from, to),
           \/ to = "flashing" /\ from = {"found"} /\ WriteStatus(d, "flashing_default")
           \/ to = "testing" /\ from = {"flashing"} /\ WriteStatus(d, "testing")
           \/ to = "ready" /\ from = {"testing"} /\ WriteStatus(d, "available")
           \/ to = "serving" /\ from = {"loading"} /\ UNCHANGED tables
           \/ to = "broken" /\ from = {"flashing", "testing", "loading"}
                /\ WriteStatus(d, "broken")
    PROVE  IInv'
  <1>. TypeOK /\ \A x \in Devices : Board(x)
    BY PerBoard
  <1>. USE DEF Enter
  <1>1. /\ TablesTypeOK' /\ UNCHANGED <<worker, late, owner, holder>>
        /\ \A x \in Devices : x # d => status'[x] = status[x]
        /\ \/ status'[d] = status[d]
           \/ /\ owner[d] # None
              /\ status'[d] = IF to = "flashing" THEN "flashing_default"
                              ELSE IF to = "ready" THEN "available" ELSE to
    BY WriteStatusEffect DEF TypeOK, TablesTypeOK, tables, DeviceStatus
  <1>2. TypeOK'
    BY <1>1 DEF TypeOK
  <1>3. ASSUME NEW x \in Devices, x # d PROVE Board(x)'
    BY <1>1, <1>3, Frame DEF Untouched, TypeOK
  <1>4. Board(d)'
    <2>0. /\ mode'[d] = to /\ UNCHANGED <<proc, haunted, unreserves, resetting>>
          /\ unreserves[d] \in Nat /\ resetting[d] \in Nat
      BY DEF TypeOK
    <2>1. CASE to = "flashing" /\ from = {"found"}
      BY <1>1, <2>1 DEF Board, Up, Settled, LoadedOnce, Unloaded, Outstanding, TypeOK
    <2>2. CASE to = "testing" /\ from = {"flashing"}
      BY <1>1, <2>2 DEF Board, Up, Settled, LoadedOnce, Unloaded, Outstanding, TypeOK
    <2>3. CASE to = "ready" /\ from = {"testing"}
      <3>1. mode[d] = "testing" /\ Up(d) /\ Outstanding(d) = 0
        BY <2>0, <2>3 DEF Board, Outstanding
      <3>2. holder'[d] = holder[d] /\ owner'[d] = owner[d] /\ worker' = worker
        BY <1>1
      <3>3. status'[d] \in {status[d], "available"} /\ (status'[d] # status[d] => owner[d] # None)
        BY <1>1, <2>3
      <3>4. holder[d] = None /\ (d \notin stray => reserves[d] = 0)
        BY <3>1 DEF Board, Settled, TypeOK
      <3>5. UNCHANGED <<reserves, stray>> /\ Unloaded(d)' /\ LoadedOnce(d)'
        BY <2>0, <2>3, <3>4 DEF Unloaded, LoadedOnce
      <3>6. Settled(d)'
        BY <2>0, <2>3, <3>1 DEF Settled, Outstanding
      <3>. QED BY <2>0, <2>3, <3>1, <3>2, <3>3, <3>4, <3>5, <3>6
         DEF Board, Up, Outstanding
    <2>4. CASE to = "serving" /\ UNCHANGED tables
      BY <1>1, <2>4
         DEF Board, Up, Settled, LoadedOnce, Unloaded, Outstanding, TypeOK, tables
    <2>5. CASE to = "broken"
      BY <1>1, <2>5 DEF Board, Up, Settled, LoadedOnce, Unloaded, Outstanding, TypeOK
    <2>. QED BY <2>1, <2>2, <2>3, <2>4, <2>5
  <1>. QED BY <1>2, <1>3, <1>4, PerBoardNext

LEMMA StaleBreakKeeps ==
    ASSUME IInv, NEW d \in Devices, StaleBreak(d)
    PROVE  IInv'
  <1>. TypeOK /\ \A x \in Devices : Board(x)
    BY PerBoard
  <1>. USE DEF StaleBreak, Haunt
  <1>1. /\ TablesTypeOK' /\ UNCHANGED <<worker, late, owner, holder>>
        /\ \A x \in Devices : x # d => status'[x] = status[x]
        /\ status'[d] = status[d] \/ (owner[d] # None /\ status'[d] = "broken")
    BY WriteStatusEffect DEF TypeOK, DeviceStatus
  <1>2. TypeOK'
    BY <1>1 DEF TypeOK, Modes
  <1>3. ASSUME NEW x \in Devices, x # d PROVE Board(x)'
    BY <1>1, <1>3, Frame DEF Untouched, TypeOK
  <1>4. Board(d)'
    BY <1>1 DEF Board, Up, Settled, LoadedOnce, Unloaded, Outstanding, TypeOK
  <1>. QED BY <1>2, <1>3, <1>4, PerBoardNext

LEMMA DeliverReserveKeeps ==
    ASSUME IInv, NEW d \in Devices, DeliverReserve(d)
    PROVE  IInv'
  <1>. TypeOK /\ \A x \in Devices : Board(x)
    BY PerBoard
  <1>. USE DEF DeliverReserve, Haunt, Known, tables
  <1>1. TypeOK'
    BY DEF TypeOK, TablesTypeOK, Modes
  <1>2. ASSUME NEW x \in Devices, x # d PROVE Board(x)'
    BY <1>2, Frame DEF Untouched, TypeOK
  <1>3. Board(d)'
    BY DEF Board, Up, Settled, LoadedOnce, Unloaded, Outstanding, TypeOK
  <1>. QED BY <1>1, <1>2, <1>3, PerBoardNext

(* The first half of an unreserve moves a request on.                      *)
LEMMA DeliverUnreserveKeeps ==
    ASSUME IInv, NEW d \in Devices, DeliverUnreserve(d)
    PROVE  IInv'
  <1>. TypeOK /\ \A x \in Devices : Board(x)
    BY PerBoard
  <1>. USE DEF DeliverUnreserve, Known
  <1>1. /\ TablesTypeOK' /\ UNCHANGED <<worker, late, owner, holder>>
        /\ \A x \in Devices : x # d => status'[x] = status[x]
        /\ status'[d] = status[d] \/ (owner[d] # None /\ status'[d] = "flashing_default")
    BY WriteStatusEffect DEF TypeOK, DeviceStatus
  <1>2. TypeOK'
    BY <1>1 DEF TypeOK
  <1>3. ASSUME NEW x \in Devices, x # d PROVE Board(x)'
    BY <1>1, <1>3, Frame DEF Untouched, TypeOK
  <1>4. Board(d)'
    <2>1. Outstanding(d)' = Outstanding(d) /\ Outstanding(d) > 0
      BY DEF TypeOK, Outstanding
    <2>2. holder[d] = None /\ status[d] \notin {"reserved", "available"}
      BY <2>1 DEF Board, Settled
    <2>3. UNCHANGED <<proc, mode, haunted>>
      OBVIOUS
    <2>. QED BY <1>1, <2>1, <2>2, <2>3 DEF Board, Up, Settled
  <1>. QED BY <1>2, <1>3, <1>4, PerBoardNext

(* The second half is the last: OneUnreserve makes the board settle.       *)
LEMMA SwitchUnreservedKeeps ==
    ASSUME IInv, NEW d \in Devices, SwitchUnreserved(d)
    PROVE  IInv'
  <1>. TypeOK /\ \A x \in Devices : Board(x)
    BY PerBoard
  <1>. USE DEF SwitchUnreserved, Haunt, tables
  <1>1. TypeOK'
    BY DEF TypeOK, TablesTypeOK, Modes
  <1>2. ASSUME NEW x \in Devices, x # d PROVE Board(x)'
    BY <1>2, Frame DEF Untouched, TypeOK
  <1>3. Board(d)'
    <2>1. Outstanding(d) > 0 /\ Outstanding(d)' = 0
      BY DEF TypeOK, Outstanding, Board
    <2>2. Up(d) /\ holder[d] = None /\ status[d] \notin {"reserved", "available"}
      BY <2>1 DEF Board, Settled
    <2>3. /\ mode'[d] = "flashing" /\ UNCHANGED <<worker, owner, status, holder, proc>>
      BY DEF TypeOK
    <2>. QED BY <2>1, <2>2, <2>3 DEF Board, Up, Settled
  <1>. QED BY <1>1, <1>2, <1>3, PerBoardNext

LEMMA LoseKeeps ==
    ASSUME IInv, NEW d \in Devices, LoseReserve(d) \/ LoseUnreserve(d)
    PROVE  IInv'
  <1>. TypeOK /\ \A x \in Devices : Board(x)
    BY PerBoard
  <1>. USE DEF LoseReserve, LoseUnreserve, tables
  <1>1. TypeOK'
    BY DEF TypeOK, TablesTypeOK
  <1>2. ASSUME NEW x \in Devices PROVE Board(x)'
    <2>1. Outstanding(x)' = Outstanding(x) \/ (Outstanding(x) = 1 /\ Outstanding(x)' = 0)
      BY DEF TypeOK, Outstanding, Board
    <2>2. UNCHANGED <<worker, owner, status, holder, proc, mode, haunted>>
      OBVIOUS
    <2>3. CASE reserves'[x] = reserves[x] /\ (x \in stray' <=> x \in stray)
      BY <2>1, <2>2, <2>3 DEF Board, Up, Settled, LoadedOnce, Unloaded
    <2>4. CASE reserves[x] \in Nat \ {0} /\ reserves'[x] = reserves[x] - 1
      <3>1. Unloaded(x)' \/ status[x] # "available"
        BY <2>2, <2>4 DEF Board, Settled, Unloaded, TypeOK, Modes
      <3>2. x \in stray \/ reserves'[x] = 0
        BY <2>4 DEF Board, LoadedOnce, Unloaded
      <3>3. x \in stray /\ reserves'[x] > 0 => x \in stray'
        BY <2>4 DEF TypeOK
      <3>4. LoadedOnce(x)'
        BY <2>4, <3>2, <3>3 DEF LoadedOnce
      <3>. QED BY <2>1, <2>2, <2>4, <3>1, <3>2, <3>3, <3>4 DEF Board, Up, Settled
    <2>. QED BY <2>3, <2>4 DEF TypeOK
  <1>. QED BY <1>1, <1>2, PerBoardNext

-----------------------------------------------------------------------------
(* Control.                                                                *)
LEMMA SentType ==
    ASSUME NEW S \in SUBSET Devices, NEW q \in Orders(S), NEW f, NEW d
    PROVE  Sent(q, f, d) \in Nat
  <1>1. Cardinality(S) \in Nat
    BY DevicesAssumption, FS_Subset, FS_CardinalityType
  <1>2. IsFiniteSet(DOMAIN q)
    BY <1>1, FS_Interval DEF Orders
  <1>. QED BY <1>2, FS_Subset, FS_CardinalityType DEF Sent

(* No thread sends a request for a board that was not granted.             *)
LEMMA SentToGranted ==
    ASSUME NEW S \in SUBSET Devices, NEW q \in Orders(S),
           NEW f \in Bound(Cardinality(S)), NEW d \in Devices \ S
    PROVE  Sent(q, f, d) = 0
  <1>1. DOMAIN q = 1..Cardinality(S)
    BY DEF Orders
  <1>2. ASSUME NEW i \in DOMAIN q PROVE q[f[i][2]] \in S
    <2>1. f[i] \in (1..Cardinality(S)) \X (1..Cardinality(S))
      BY <1>1, <1>2 DEF Bound
    <2>2. f[i][2] \in 1..Cardinality(S)
      BY <2>1
    <2>. QED BY <2>2 DEF Orders
  <1>3. {i \in DOMAIN q : q[f[i][2]] = d /\ owner[q[f[i][1]]] = owner[d]} = {}
    BY <1>2
  <1>. QED BY <1>3, FS_EmptySet DEF Sent

LEMMA ReserveKeeps ==
    ASSUME IInv, NEW c \in Clients, NEW n, Reserve(c, n)
    PROVE  IInv'
  <1>. TypeOK /\ \A x \in Devices : Board(x)
    BY PerBoard
  <1>1. PICK S \in SUBSET Available :
            /\ ReserveRows(c, S)
            /\ \E q \in Orders(S) : \E f \in Bound(Cardinality(S)) :
                  reserves' = [d \in Devices |->
                                 reserves[d] + IF Up(d) THEN Sent(q, f, d) ELSE 0]
            /\ stray' = stray \union {d \in S : reserves'[d] > 1}
            /\ UNCHANGED <<proc, mode, haunted, unreserves, resetting, probed>>
    BY DEF Reserve
  <1>2. S \in SUBSET Devices
    BY DEF Available, Rows
  <1>3. reserves' \in [Devices -> Nat]
    BY <1>1, <1>2, SentType DEF TypeOK
  <1>4. TypeOK'
    <2>1. stray' \in SUBSET Devices
      BY <1>1, <1>2 DEF TypeOK
    <2>. QED BY <1>1, <1>2, <1>3, <2>1
       DEF TypeOK, TablesTypeOK, ReserveRows, DeviceStatus
  <1>5. ASSUME NEW x \in Devices PROVE Board(x)'
    <2>1. UNCHANGED <<worker, owner, proc, mode, haunted, unreserves, resetting>>
      BY <1>1 DEF ReserveRows
    <2>2. CASE x \in S
      <3>1. Settled(x) /\ owner[x] # None /\ Unloaded(x)
        BY <2>2 DEF Board, Available, Rows
      <3>2. status'[x] = "reserved" /\ holder'[x] = c /\ c # None
        BY <1>1, <2>2, NoneAssumption DEF ReserveRows
      <3>3. x \notin stray' => x \notin stray /\ reserves'[x] \in {0, 1}
        BY <1>1, <1>3, <2>2
      <3>4. ~Up(x) => reserves'[x] = 0
        BY <1>1, <1>2 DEF Board, TypeOK, Up
      <3>5. x \notin stray' /\ reserves'[x] > 0 => mode[x] \in {"ready", "broken"}
        BY <3>1, <3>3, <3>4 DEF Unloaded, Board
      <3>6. LoadedOnce(x)'
        BY <2>1, <3>3, <3>5 DEF LoadedOnce
      <3>. QED BY <2>1, <3>1, <3>2, <3>4, <3>6 DEF Board, Up, Settled, Outstanding
    <2>3. CASE x \notin S
      <3>1. reserves'[x] = reserves[x]
        BY <1>1, <1>2, <2>3, SentToGranted DEF TypeOK
      <3>2. x \in stray' <=> x \in stray
        BY <1>1, <2>3
      <3>. QED BY <1>1, <2>1, <2>3, <3>1, <3>2, Frame DEF Untouched, ReserveRows
    <2>. QED BY <2>2, <2>3
  <1>. QED BY <1>4, <1>5, PerBoardNext

(* Only a holder's end causes an unreserve, and its board is settled then. *)
LEMMA EndKeeps ==
    ASSUME IInv, NEW c \in Clients, NEW S \in SUBSET Devices, End(c, S)
    PROVE  IInv'
  <1>. TypeOK /\ \A x \in Devices : Board(x)
    BY PerBoard
  <1>. USE DEF End, EndRows, Notified, HeldBy, Released, Outlived
  <1>1. TypeOK'
    BY DEF TypeOK, TablesTypeOK, DeviceStatus
  <1>2. ASSUME NEW x \in Devices PROVE Board(x)'
    <2>1. UNCHANGED <<worker, owner, proc, mode, haunted, resetting, reserves>>
      OBVIOUS
    <2>2. CASE x \in S /\ holder[x] = c
      <3>1. c # None
        BY NoneAssumption
      <3>2. owner[x] # None /\ Settled(x)
        BY <2>2, <3>1 DEF Board
      <3>3. holder'[x] = None /\ status'[x] = "await_flash_default"
        BY <2>2, <3>2
      <3>4. Outstanding(x)' = IF Up(x) THEN 1 ELSE 0
        BY <2>2, <3>2 DEF TypeOK, Outstanding, Settled
      <3>5. Up(x) => mode[x] \in {"ready", "broken", "loading", "serving"}
        BY <3>2 DEF Board, Settled, TypeOK, Modes
      <3>6. reserves'[x] = reserves[x] /\ (reserves[x] > 0 => x \in stray')
        BY <2>2
      <3>. QED BY <2>1, <3>2, <3>3, <3>4, <3>5, <3>6 DEF Board, Up, Settled
    <2>3. CASE ~(x \in S /\ holder[x] = c)
      <3>1. status'[x] = status[x] /\ holder'[x] = holder[x] /\ unreserves'[x] = unreserves[x]
        BY <2>3 DEF TypeOK
      <3>2. reserves'[x] = reserves[x] /\ (x \in stray' <=> x \in stray)
        BY <2>3
      <3>. QED BY <2>1, <3>1, <3>2, Frame DEF Untouched
    <2>. QED BY <2>2, <2>3
  <1>. QED BY <1>1, <1>2, PerBoardNext

-----------------------------------------------------------------------------
(* Worker processes and their rows.                                        *)
LEMMA StartWorkerKeeps ==
    ASSUME IInv, NEW w \in Workers, StartWorker(w)
    PROVE  IInv'
  <1>. TypeOK /\ \A x \in Devices : Board(x)
    BY PerBoard
  <1>. USE PluggedAssumption DEF StartWorker, InsertWorker
  <1>1. TypeOK'
    BY DEF TypeOK, TablesTypeOK
  <1>2. ASSUME NEW x \in Devices PROVE Board(x)'
    <2>1. UNCHANGED <<owner, status, holder, mode, haunted, reserves, unreserves,
                      resetting, stray>>
      OBVIOUS
    <2>2. CASE Plugged[x] = w
      <3>1. owner[x] = None /\ mode[x] = "absent" /\ Outstanding(x) = 0 /\ reserves[x] = 0
        BY <2>2 DEF Board, Up
      <3>. QED BY <2>1, <3>1 DEF Board, Up, Settled, LoadedOnce, Unloaded, Outstanding
    <2>3. CASE Plugged[x] # w
      BY <2>1, <2>3, Frame DEF Untouched, TypeOK
    <2>. QED BY <2>2, <2>3
  <1>. QED BY <1>1, <1>2, PerBoardNext

LEMMA DieKeeps ==
    ASSUME IInv, NEW w \in Workers, Die(w), UNCHANGED tables
    PROVE  IInv'
  <1>. TypeOK /\ \A x \in Devices : Board(x)
    BY PerBoard
  <1>. USE PluggedAssumption DEF Die, Gone, tables
  <1>1. TypeOK'
    BY DEF TypeOK, TablesTypeOK, Modes
  <1>2. ASSUME NEW x \in Devices PROVE Board(x)'
    <2>1. CASE Plugged[x] = w
      <3>1. /\ mode'[x] = "absent" /\ x \notin haunted' /\ Outstanding(x)' = 0 /\ ~Up(x)'
            /\ reserves'[x] = 0
        BY <2>1 DEF Up, Outstanding, TypeOK
      <3>. QED BY <3>1 DEF Board, Settled, LoadedOnce, Unloaded
    <2>2. CASE Plugged[x] # w
      BY <2>2, Frame DEF Untouched, TypeOK
    <2>. QED BY <2>1, <2>2
  <1>. QED BY <1>1, <1>2, PerBoardNext

LEMMA BeginExitKeeps ==
    ASSUME IInv, NEW w \in Workers, BeginExit(w)
    PROVE  IInv'
  <1>. TypeOK /\ \A x \in Devices : Board(x)
    BY PerBoard
  <1>. USE DEF BeginExit, tables
  <1>1. TypeOK'
    BY DEF TypeOK, TablesTypeOK
  <1>2. ASSUME NEW x \in Devices PROVE Board(x)'
    <2>1. Up(x)' <=> Up(x)
      BY PluggedAssumption DEF Up, TypeOK
    <2>. QED BY <2>1 DEF Board, Settled, LoadedOnce, Unloaded, Outstanding
  <1>. QED BY <1>1, <1>2, PerBoardNext

LEMMA HeartbeatKeeps ==
    ASSUME IInv, NEW w \in Workers, Probe(w) \/ StoreHeartbeat(w) \/ WorkerLate(w)
    PROVE  IInv'
  <1>. TypeOK /\ \A x \in Devices : Board(x)
    BY PerBoard
  <1>. USE DEF Probe, StoreHeartbeat, WorkerLate, Heartbeat, GrowLate, tables, farm
  <1>1. TypeOK'
    BY DEF TypeOK, TablesTypeOK
  <1>2. ASSUME NEW x \in Devices PROVE Board(x)'
    BY Frame DEF Untouched
  <1>. QED BY <1>1, <1>2, PerBoardNext

LEMMA WorkerTimeoutsKeeps ==
    ASSUME IInv, WorkerTimeouts
    PROVE  IInv'
  <1>. TypeOK /\ \A x \in Devices : Board(x)
    BY PerBoard
  <1>. USE DEF WorkerTimeouts, DeleteWorkers, Cascade, Outlived, Held
  <1>1. TypeOK'
    BY DEF TypeOK, TablesTypeOK
  <1>2. ASSUME NEW x \in Devices PROVE Board(x)'
    <2>1. UNCHANGED <<proc, mode, haunted, reserves, unreserves, resetting>>
      OBVIOUS
    <2>2. CASE owner[x] \in late
      <3>1. owner'[x] = None /\ status'[x] = "no_row" /\ holder'[x] = None
        BY <2>2
      <3>2. reserves[x] > 0 => x \in stray'
        BY <2>2 DEF Board
      <3>. QED BY <2>1, <3>1, <3>2
         DEF Board, Up, Settled, LoadedOnce, Unloaded, Outstanding
    <2>3. CASE owner[x] \notin late
      <3>1. /\ owner'[x] = owner[x] /\ status'[x] = status[x] /\ holder'[x] = holder[x]
            /\ owner[x] \in worker => owner[x] \in worker'
            /\ x \in stray' <=> x \in stray
        BY <2>3
      <3>. QED BY <2>1, <3>1 DEF Board, Up, Settled, LoadedOnce, Unloaded, Outstanding
    <2>. QED BY <2>2, <2>3
  <1>. QED BY <1>1, <1>2, PerBoardNext

LEMMA StutterKeeps ==
    ASSUME IInv, UNCHANGED vars
    PROVE  IInv'
  <1>. TypeOK /\ \A x \in Devices : Board(x)
    BY PerBoard
  <1>1. TypeOK'
    BY DEF vars, tables, farm, TypeOK, TablesTypeOK
  <1>2. ASSUME NEW x \in Devices PROVE Board(x)'
    BY Frame DEF Untouched, vars, tables, farm
  <1>. QED BY <1>1, <1>2, PerBoardNext

-----------------------------------------------------------------------------
(* IInv is an invariant of the farm.                                       *)
THEOREM Inductive == Spec => []IInv
  <1>1. Init => IInv
    <2>. SUFFICES ASSUME Init PROVE IInv
      OBVIOUS
    <2>. USE DEF Init, TablesInit
    <2>1. TypeOK
      BY DEF TypeOK, TablesTypeOK, Modes
    <2>2. ASSUME NEW x \in Devices PROVE Board(x)
      BY PluggedAssumption DEF Board, Up, Settled, LoadedOnce, Unloaded, Outstanding
    <2>. QED BY <2>1, <2>2, PerBoard
  <1>2. IInv /\ [Next]_vars => IInv'
    <2>. SUFFICES ASSUME IInv, [Next]_vars PROVE IInv'
      OBVIOUS
    <2>1. ASSUME NEW w \in Workers,
                 \/ StartWorker(w) \/ Crash(w) \/ BeginExit(w) \/ FinishExit(w)
                 \/ Probe(w) \/ StoreHeartbeat(w) \/ WorkerLate(w)
          PROVE  IInv'
      BY <2>1, StartWorkerKeeps, DieKeeps, BeginExitKeeps, HeartbeatKeeps
         DEF Crash, FinishExit, RemoveWorker
    <2>2. ASSUME NEW d \in Devices,
                 FlashDefault(d) \/ FlashDone(d) \/ TestPass(d) \/ LoadDone(d) \/ Break(d)
          PROVE  IInv'
      BY <2>2, EnterKeeps DEF FlashDefault, FlashDone, TestPass, LoadDone, Break, Modes
    <2>3. ASSUME NEW d \in Devices,
                 \/ Discover(d) \/ StaleBreak(d) \/ LoseReserve(d) \/ LoseUnreserve(d)
                 \/ DeliverReserve(d) \/ DeliverUnreserve(d) \/ SwitchUnreserved(d)
          PROVE  IInv'
      BY <2>3, DiscoverKeeps, StaleBreakKeeps, LoseKeeps, DeliverReserveKeeps,
         DeliverUnreserveKeeps, SwitchUnreservedKeeps
    <2>. QED BY <2>1, <2>2, <2>3, ReserveKeeps, EndKeeps, WorkerTimeoutsKeeps, StutterKeeps
         DEF Next
  <1>. QED BY <1>1, <1>2, PTL DEF Spec

(* Every variable keeps its type.                                          *)
THEOREM TypeCorrect == Spec => []TypeOK
  BY Inductive, PTL DEF IInv

(* No holder's board is reset under it, and none but a stray board is      *)
(* loaded under it by a request that is not its own (Control.py,           *)
(* DeviceManager.reserve, DeviceManager.unreserve).                        *)
THEOREM HolderUndisturbedHolds == Spec => []HolderUndisturbed
  BY Inductive, PTL DEF IInv

(* A board is offered only when its reset is over, and none but a stray    *)
(* board with a reserve request on its way to it (ReadyState, Control.py). *)
THEOREM OfferedIsSettledHolds == Spec => []OfferedIsSettled
  BY Inductive, PTL DEF IInv

(* A reservation is released once.                                         *)
THEOREM OneUnreserveHolds == Spec => []OneUnreserve
  BY Inductive, PTL DEF IInv

(* A reserved board's row says so, or that it broke.                       *)
THEOREM HeldStatusHolds == Spec => []HeldStatus
  BY Inductive, PTL DEF IInv
-----------------------------------------------------------------------------
(* The boards of the farm live by BoardLife.                               *)
LifeStep(d) == [Life(d)!LifeNext]_<<mode[d], d \in haunted>>

LEMMA EnterLives ==
    ASSUME TypeOK, NEW d \in Devices, NEW x \in Devices,
           FlashDefault(d) \/ FlashDone(d) \/ TestPass(d) \/ LoadDone(d) \/ Break(d)
    PROVE  LifeStep(x)
  BY DEF TypeOK, FlashDefault, FlashDone, TestPass, LoadDone, Break, Enter, LifeStep,
         Life!LifeNext, Life!Pass, Life!Timed

LEMMA SwitchLives ==
    ASSUME IInv, NEW d \in Devices, NEW x \in Devices,
           DeliverReserve(d) \/ SwitchUnreserved(d)
    PROVE  LifeStep(x)
  <1>1. mode[d] \notin {"absent", "found"}
    <2>1. CASE DeliverReserve(d)
      BY <2>1 DEF DeliverReserve, Known
    <2>2. CASE SwitchUnreserved(d)
      <3>1. resetting[d] \in Nat /\ unreserves[d] \in Nat /\ resetting[d] > 0
        BY <2>2 DEF SwitchUnreserved, IInv, TypeOK
      <3>2. Outstanding(d) > 0
        BY <3>1 DEF Outstanding
      <3>. QED BY <3>2 DEF IInv, UnreserveFirst
    <2>. QED BY <2>1, <2>2
  <1>2. CASE x = d
    <2>1. /\ mode'[d] \in {"flashing", "loading"}
          /\ (d \in haunted') = (d \in haunted \/ mode[d] \in {"flashing", "testing"})
      BY DEF DeliverReserve, SwitchUnreserved, Haunt, IInv, TypeOK
    <2>. QED BY <1>1, <1>2, <2>1 DEF LifeStep, Life!LifeNext, Life!Switch, Life!Timed
  <1>3. CASE x # d
    BY <1>3 DEF DeliverReserve, SwitchUnreserved, Haunt, LifeStep, IInv, TypeOK
  <1>. QED BY <1>2, <1>3

LEMMA StaleLives ==
    ASSUME TypeOK, NEW d \in Devices, NEW x \in Devices, StaleBreak(d)
    PROVE  LifeStep(x)
  <1>1. CASE x = d
    <2>1. d \in haunted /\ mode'[d] = "broken" /\ (d \in haunted') \in BOOLEAN
      BY DEF StaleBreak, TypeOK
    <2>. QED BY <1>1, <2>1 DEF LifeStep, Life!LifeNext, Life!Haunting
  <1>2. CASE x # d
    BY <1>2 DEF StaleBreak, Haunt, LifeStep, TypeOK
  <1>. QED BY <1>1, <1>2

LEMMA DieLives ==
    ASSUME NEW w \in Workers, NEW x \in Devices, Die(w)
    PROVE  LifeStep(x)
  <1>1. CASE x \in Gone(w)
    BY <1>1 DEF Die, LifeStep, Life!LifeNext, Life!Disappear
  <1>2. CASE x \notin Gone(w)
    BY <1>2 DEF Die, LifeStep
  <1>. QED BY <1>1, <1>2

LEMMA DiscoverLives ==
    ASSUME TypeOK, NEW d \in Devices, NEW x \in Devices, Discover(d)
    PROVE  LifeStep(x)
  BY DEF TypeOK, Discover, LifeStep, Life!LifeNext, Life!Appear

LEMMA NextLives ==
    ASSUME IInv, [Next]_vars, NEW x \in Devices
    PROVE  LifeStep(x)
  <1>. TypeOK
    BY DEF IInv
  <1>1. CASE UNCHANGED <<mode, haunted>>
    BY <1>1 DEF LifeStep
  <1>2. ASSUME NEW w \in Workers, Crash(w) \/ FinishExit(w)
        PROVE  LifeStep(x)
    BY <1>2, DieLives DEF Crash, FinishExit
  <1>3. ASSUME NEW d \in Devices,
               \/ Discover(d) \/ StaleBreak(d) \/ DeliverReserve(d) \/ SwitchUnreserved(d)
               \/ FlashDefault(d) \/ FlashDone(d) \/ TestPass(d) \/ LoadDone(d) \/ Break(d)
        PROVE  LifeStep(x)
    BY <1>3, DiscoverLives, StaleLives, SwitchLives, EnterLives
  <1>4. ASSUME NEW w \in Workers,
               \/ StartWorker(w) \/ BeginExit(w) \/ Probe(w) \/ StoreHeartbeat(w)
               \/ WorkerLate(w)
        PROVE  LifeStep(x)
    BY <1>1, <1>4 DEF StartWorker, BeginExit, Probe, StoreHeartbeat, WorkerLate, farm
  <1>5. ASSUME NEW d \in Devices,
               LoseReserve(d) \/ LoseUnreserve(d) \/ DeliverUnreserve(d)
        PROVE  LifeStep(x)
    BY <1>1, <1>5 DEF LoseReserve, LoseUnreserve, DeliverUnreserve
  <1>6. ASSUME NEW c \in Clients, NEW n \in 1..Cardinality(Devices), Reserve(c, n)
        PROVE  LifeStep(x)
    BY <1>1, <1>6 DEF Reserve
  <1>7. ASSUME NEW c \in Clients, NEW S \in SUBSET Devices, End(c, S)
        PROVE  LifeStep(x)
    BY <1>1, <1>7 DEF End
  <1>8. CASE WorkerTimeouts \/ UNCHANGED vars
    BY <1>1, <1>8 DEF WorkerTimeouts, farm, vars
  <1>. QED BY <1>2, <1>3, <1>4, <1>5, <1>6, <1>7, <1>8 DEF Next

(* The boards of any farm live by BoardLife, whatever is lost or restarted *)
(* (device/Device.py, device/DeviceManager.py).                            *)
THEOREM BoardsLiveHolds == Spec => BoardsLive
  <1>1. Init => \A d \in Devices : Life(d)!LifeInit
    BY DEF Init, Life!LifeInit
  <1>2. IInv /\ [Next]_vars =>
            [\A d \in Devices : [Life(d)!LifeNext]_<<mode[d], d \in haunted>>]_<<mode, haunted>>
    BY NextLives DEF LifeStep
  <1>. QED BY <1>1, <1>2, Inductive, PTL DEF Spec, BoardsLive
-----------------------------------------------------------------------------
(* The boards of the farm change hands by Handover.                        *)
HandStep(d) == [Hand(d)!HandoverNext]_<<Phase(d), holder[d]>>

LEMMA SameHand ==
    ASSUME NEW x, UNCHANGED <<holder[x], status[x], mode[x]>>
    PROVE  HandStep(x)
  BY DEF HandStep, Phase

(* A board that is neither held, offered nor on its way there.             *)
LEMMA LeaveHand ==
    ASSUME NEW x, holder'[x] = None, status'[x] # "available",
           mode'[x] \notin {"flashing", "testing"}
    PROVE  HandStep(x)
  BY DEF HandStep, Phase, Hand!HandoverNext, Hand!Leave

(* A board that is held or offered stays so, whatever its worker does.     *)
LEMMA KeepHand ==
    ASSUME NEW x, UNCHANGED <<holder[x], status[x]>>,
           holder[x] # None \/ status[x] = "available"
    PROVE  HandStep(x)
  BY DEF HandStep, Phase

(* Whatever its worker does, a board stays in hand or drops out of it.     *)
LEMMA KeptOrLeft ==
    ASSUME NEW x \in Devices, Board(x), UNCHANGED holder[x],
           status'[x] \in {status[x]} \union (DeviceStatus \ {"available"}),
           mode'[x] \notin {"flashing", "testing"}
    PROVE  HandStep(x)
  <1>1. CASE holder[x] # None
    BY <1>1 DEF HandStep, Phase
  <1>2. CASE holder[x] = None /\ status'[x] = "available"
    BY <1>2, KeepHand
  <1>3. CASE holder[x] = None /\ status'[x] # "available"
    BY <1>3, LeaveHand
  <1>. QED BY <1>1, <1>2, <1>3

LEMMA EnterHands ==
    ASSUME IInv, NEW d \in Devices, NEW x \in Devices,
           FlashDefault(d) \/ FlashDone(d) \/ TestPass(d) \/ LoadDone(d) \/ Break(d)
    PROVE  HandStep(x)
  <1>. TypeOK /\ Board(d) /\ TablesTypeOK
    BY PerBoard DEF TypeOK
  <1>0. ASSUME NEW s \in DeviceStatus, WriteStatus(d, s)
        PROVE  /\ UNCHANGED holder
               /\ \A y \in Devices : y # d => status'[y] = status[y]
               /\ status'[d] \in {status[d], s}
    BY <1>0, WriteStatusEffect
  <1>. /\ "flashing_default" \in DeviceStatus /\ "testing" \in DeviceStatus
       /\ "available" \in DeviceStatus /\ "broken" \in DeviceStatus
    BY DEF DeviceStatus
  <1>1. CASE x # d
    <2>1. UNCHANGED <<holder[x], status[x]>>
      BY <1>0, <1>1 DEF FlashDefault, FlashDone, TestPass, LoadDone, Break, tables
    <2>2. mode'[x] = mode[x]
      BY <1>1 DEF FlashDefault, FlashDone, TestPass, LoadDone, Break, Enter, TypeOK
    <2>. QED BY <2>1, <2>2, SameHand
  <1>2. CASE x = d /\ (FlashDefault(d) \/ FlashDone(d) \/ TestPass(d))
    <2>1. ASSUME mode[d] \in {"found", "flashing", "testing"}
          PROVE  holder[d] = None /\ status[d] # "available"
      BY <2>1 DEF Board, Settled
    <2>2. CASE FlashDefault(d)
      <3>1. mode[d] = "found" /\ mode'[d] = "flashing"
        BY <2>2 DEF FlashDefault, Enter, TypeOK
      <3>2. holder'[d] = None /\ status'[d] # "available"
        BY <1>0, <2>1, <2>2, <3>1 DEF FlashDefault
      <3>. QED BY <1>2, <2>1, <3>1, <3>2
         DEF HandStep, Phase, Hand!HandoverNext, Hand!Flash
    <2>3. CASE FlashDone(d)
      <3>1. mode[d] = "flashing" /\ mode'[d] = "testing"
        BY <2>3 DEF FlashDone, Enter, TypeOK
      <3>2. holder'[d] = None /\ status'[d] # "available"
        BY <1>0, <2>1, <2>3, <3>1 DEF FlashDone
      <3>. QED BY <1>2, <2>1, <3>1, <3>2
         DEF HandStep, Phase, Hand!HandoverNext, Hand!Test
    <2>4. CASE TestPass(d)
      <3>1. mode[d] = "testing" /\ mode'[d] = "ready"
        BY <2>4 DEF TestPass, Enter, TypeOK
      <3>2. holder'[d] = None /\ holder[d] = None /\ status[d] # "available"
        BY <1>0, <2>1, <2>4, <3>1 DEF TestPass
      <3>3. CASE status'[d] = "available"
        BY <1>2, <3>1, <3>2, <3>3 DEF HandStep, Phase, Hand!HandoverNext, Hand!Offer
      <3>4. CASE status'[d] # "available"
        BY <1>2, <3>1, <3>2, <3>4, LeaveHand
      <3>. QED BY <3>3, <3>4
    <2>. QED BY <1>2, <2>2, <2>3, <2>4
  <1>3. CASE x = d /\ (LoadDone(d) \/ Break(d))
    <2>1. mode'[d] \in {"serving", "broken"}
      BY <1>3 DEF LoadDone, Break, Enter, TypeOK
    <2>2. holder'[d] = holder[d] /\ status'[d] \in {status[d], "broken"}
      BY <1>0, <1>3 DEF LoadDone, Break, tables
    <2>. QED BY <1>3, <2>1, <2>2, KeptOrLeft
  <1>. QED BY <1>1, <1>2, <1>3

LEMMA StaleHands ==
    ASSUME IInv, NEW d \in Devices, NEW x \in Devices, StaleBreak(d)
    PROVE  HandStep(x)
  <1>. TypeOK /\ TablesTypeOK /\ Board(d) /\ "broken" \in DeviceStatus
    BY PerBoard DEF TypeOK, DeviceStatus
  <1>1. /\ UNCHANGED holder
        /\ \A y \in Devices : y # d => status'[y] = status[y]
        /\ status'[d] \in {status[d], "broken"}
    BY WriteStatusEffect DEF StaleBreak
  <1>2. \A y \in Devices : mode'[y] = IF y = d THEN "broken" ELSE mode[y]
    BY DEF StaleBreak, TypeOK
  <1>3. CASE x = d
    BY <1>1, <1>2, <1>3, KeptOrLeft
  <1>4. CASE x # d
    BY <1>1, <1>2, <1>4, SameHand
  <1>. QED BY <1>3, <1>4

LEMMA DiscoverHands ==
    ASSUME IInv, NEW d \in Devices, NEW x \in Devices, Discover(d)
    PROVE  HandStep(x)
  <1>. TypeOK /\ TablesTypeOK /\ Board(d) /\ "await_flash_default" \in DeviceStatus
    BY PerBoard DEF TypeOK, DeviceStatus
  <1>1. UNCHANGED holder /\ status'[d] \in {status[d], "await_flash_default"}
        /\ \A y \in Devices : y # d => status'[y] = status[y]
    BY DEF Discover, InsertDevice, tables, TablesTypeOK
  <1>2. \A y \in Devices : mode'[y] = IF y = d THEN "found" ELSE mode[y]
    BY DEF Discover, TypeOK
  <1>3. CASE x = d
    BY <1>1, <1>2, <1>3, KeptOrLeft
  <1>4. CASE x # d
    BY <1>1, <1>2, <1>4, SameHand
  <1>. QED BY <1>3, <1>4

(* Requests: a reserve that arrives late finds the board anywhere.         *)
LEMMA SwitchHands ==
    ASSUME IInv, NEW d \in Devices, NEW x \in Devices,
           DeliverReserve(d) \/ SwitchUnreserved(d)
    PROVE  HandStep(x)
  <1>. TypeOK /\ Board(d)
    BY PerBoard
  <1>1. UNCHANGED <<holder, status>>
    BY DEF DeliverReserve, SwitchUnreserved, tables
  <1>2. CASE x # d
    BY <1>1, <1>2, SameHand DEF DeliverReserve, SwitchUnreserved, TypeOK
  <1>3. CASE x = d /\ DeliverReserve(d)
    <2>1. mode'[d] = "loading"
      BY <1>3 DEF DeliverReserve, TypeOK
    <2>. QED BY <1>1, <1>3, <2>1, KeptOrLeft
  <1>4. CASE x = d /\ SwitchUnreserved(d)
    <2>1. unreserves[d] \in Nat /\ resetting[d] \in Nat /\ resetting[d] > 0
          /\ mode'[d] = "flashing"
      BY <1>4 DEF SwitchUnreserved, TypeOK
    <2>2. Outstanding(d) > 0
      BY <2>1 DEF Outstanding
    <2>3. /\ holder[d] = None /\ status[d] # "available"
          /\ mode[d] \in {"ready", "broken", "loading", "serving"}
      BY <2>2 DEF Board, Settled
    <2>. QED BY <1>1, <1>4, <2>1, <2>3
       DEF HandStep, Phase, Hand!HandoverNext, Hand!Flash
  <1>. QED BY <1>2, <1>3, <1>4

LEMMA UnreserveHands ==
    ASSUME IInv, NEW d \in Devices, NEW x \in Devices, DeliverUnreserve(d)
    PROVE  HandStep(x)
  <1>. TypeOK /\ TablesTypeOK /\ Board(d) /\ "flashing_default" \in DeviceStatus
    BY PerBoard DEF TypeOK, DeviceStatus
  <1>1. /\ UNCHANGED <<holder, mode>>
        /\ \A y \in Devices : y # d => status'[y] = status[y]
        /\ status'[d] \in {status[d], "flashing_default"}
    BY WriteStatusEffect DEF DeliverUnreserve
  <1>2. CASE x # d
    BY <1>1, <1>2, SameHand
  <1>3. CASE x = d
    <2>1. unreserves[d] \in Nat /\ resetting[d] \in Nat /\ unreserves[d] > 0
      BY DEF DeliverUnreserve, TypeOK
    <2>2. Outstanding(d) > 0
      BY <2>1 DEF Outstanding
    <2>3. /\ holder[d] = None /\ status[d] # "available"
          /\ mode[d] \notin {"flashing", "testing"}
      BY <2>2 DEF Board, Settled
    <2>. QED BY <1>1, <1>3, <2>3, LeaveHand
  <1>. QED BY <1>2, <1>3

(* Only an offered board is taken, and a board that is given back was not  *)
(* being reset.                                                            *)
LEMMA ReserveHands ==
    ASSUME IInv, NEW c \in Clients, NEW n, NEW x \in Devices, Reserve(c, n)
    PROVE  HandStep(x)
  <1>. Board(x) /\ TypeOK
    BY PerBoard
  <1>1. PICK S \in SUBSET Available : ReserveRows(c, S) /\ UNCHANGED mode
    BY DEF Reserve
  <1>2. CASE x \in S
    <2>1. status[x] = "available" /\ holder[x] = None
      BY <1>1, <1>2 DEF Available, ReserveRows, Insertable
    <2>2. holder'[x] = c /\ c # None
      BY <1>1, <1>2, NoneAssumption DEF ReserveRows
    <2>3. Phase(x) = "offered" /\ Phase(x)' = "held"
      BY <2>1, <2>2 DEF Phase
    <2>. QED BY <2>2, <2>3 DEF HandStep, Hand!HandoverNext, Hand!Take
  <1>3. CASE x \notin S
    BY <1>1, <1>3, SameHand DEF ReserveRows
  <1>. QED BY <1>2, <1>3

LEMMA EndHands ==
    ASSUME IInv, NEW c \in Clients, NEW S \in SUBSET Devices, NEW x \in Devices, End(c, S)
    PROVE  HandStep(x)
  <1>. Board(x) /\ TypeOK /\ UNCHANGED mode
    BY PerBoard DEF End
  <1>1. CASE x \in HeldBy(c, S)
    <2>1. holder[x] # None
      BY <1>1, NoneAssumption DEF HeldBy
    <2>2. owner[x] # None /\ mode[x] \notin {"flashing", "testing"}
      BY <2>1 DEF Board, Settled
    <2>3. holder'[x] = None /\ status'[x] = "await_flash_default"
      BY <1>1, <2>2 DEF End, EndRows, Released
    <2>. QED BY <2>2, <2>3, LeaveHand
  <1>2. CASE x \notin HeldBy(c, S)
    BY <1>2, SameHand DEF End, EndRows
  <1>. QED BY <1>1, <1>2

LEMMA DieHands ==
    ASSUME IInv, NEW w \in Workers, NEW x \in Devices, Die(w), UNCHANGED tables
    PROVE  HandStep(x)
  <1>. Board(x)
    BY PerBoard
  <1>1. mode'[x] \in {mode[x], "absent"} /\ UNCHANGED <<holder, status>>
    BY DEF Die, tables
  <1>2. CASE mode'[x] = mode[x]
    BY <1>1, <1>2, SameHand
  <1>3. CASE mode'[x] = "absent"
    BY <1>1, <1>3, KeptOrLeft
  <1>. QED BY <1>1, <1>2, <1>3

LEMMA TimeoutHands ==
    ASSUME IInv, NEW x \in Devices, WorkerTimeouts
    PROVE  HandStep(x)
  <1>. Board(x) /\ UNCHANGED mode
    BY PerBoard DEF WorkerTimeouts, farm
  <1>1. CASE x \in Cascade(late)
    <2>1. holder'[x] = None /\ status'[x] = "no_row"
      BY <1>1 DEF WorkerTimeouts, DeleteWorkers
    <2>2. CASE mode[x] \notin {"flashing", "testing"}
      BY <2>1, <2>2, LeaveHand
    <2>3. CASE mode[x] \in {"flashing", "testing"}
      <3>1. holder[x] = None /\ status[x] # "available"
        BY <2>3 DEF Board, Settled
      <3>. QED BY <2>1, <3>1 DEF HandStep, Phase
    <2>. QED BY <2>2, <2>3
  <1>2. CASE x \notin Cascade(late)
    BY <1>2, SameHand DEF WorkerTimeouts, DeleteWorkers
  <1>. QED BY <1>1, <1>2

LEMMA NextHands ==
    ASSUME IInv, [Next]_vars, NEW x \in Devices
    PROVE  HandStep(x)
  <1>1. CASE UNCHANGED <<tables, mode>>
    BY <1>1, SameHand DEF tables
  <1>2. ASSUME NEW w \in Workers, Crash(w) \/ FinishExit(w)
        PROVE  HandStep(x)
    BY <1>2, DieHands DEF Crash, FinishExit, RemoveWorker
  <1>3. ASSUME NEW d \in Devices,
               \/ Discover(d) \/ StaleBreak(d) \/ DeliverReserve(d) \/ SwitchUnreserved(d)
               \/ FlashDefault(d) \/ FlashDone(d) \/ TestPass(d) \/ LoadDone(d) \/ Break(d)
               \/ DeliverUnreserve(d)
        PROVE  HandStep(x)
    BY <1>3, DiscoverHands, StaleHands, SwitchHands, EnterHands, UnreserveHands
  <1>4. ASSUME NEW w \in Workers,
               \/ StartWorker(w) \/ BeginExit(w) \/ Probe(w) \/ StoreHeartbeat(w)
               \/ WorkerLate(w)
        PROVE  HandStep(x)
    <2>1. UNCHANGED <<holder, status, mode>>
      BY <1>4
         DEF StartWorker, InsertWorker, BeginExit, Probe, StoreHeartbeat, Heartbeat,
                  WorkerLate, GrowLate, farm, tables
    <2>. QED BY <2>1, SameHand
  <1>5. ASSUME NEW d \in Devices, LoseReserve(d) \/ LoseUnreserve(d)
        PROVE  HandStep(x)
    BY <1>1, <1>5 DEF LoseReserve, LoseUnreserve
  <1>6. CASE UNCHANGED vars
    BY <1>1, <1>6 DEF farm, vars
  <1>. QED BY <1>2, <1>3, <1>4, <1>5, <1>6, ReserveHands, EndHands, TimeoutHands
     DEF Next

(* No client of any farm is given a board that was not flashed with the    *)
(* default firmware and tested since its last holder                       *)
(* (ControlDatabase, DeviceManager.unreserve, FlashState, TestState).      *)
THEOREM CleanHandoverHolds == Spec => CleanHandover
  <1>1. Init => \A d \in Devices : Hand(d)!HandoverInit
    BY DEF Init, TablesInit, Phase, Hand!HandoverInit
  <1>2. IInv /\ [Next]_vars =>
            [\A d \in Devices :
                [Hand(d)!HandoverNext]_<<Phase(d), holder[d]>>]_<<tables, mode>>
    BY NextHands DEF HandStep
  <1>. QED BY <1>1, <1>2, Inductive, PTL DEF Spec, CleanHandover
-----------------------------------------------------------------------------
(* The farm uses its tables as callers do whose calls do not overlap.      *)
LEMMA WriteStatusOneByOne ==
    ASSUME NEW d \in Devices, NEW s \in DeviceStatus \ {"reserved"}, WriteStatus(d, s)
    PROVE  OneByOne \/ UNCHANGED tables
  BY DEF WriteStatus, OneByOne

(* What Farm assumes of the database and no more: each of its steps is one *)
(* that ReservationDB provides to callers that keep the conditions of      *)
(* CalmSpec (SerialHolds).                                                 *)
THEOREM FarmOneByOne == Spec => [][OneByOne]_tables
  <1>1. [Next]_vars => [OneByOne]_tables
    <2>. SUFFICES ASSUME Next PROVE OneByOne \/ UNCHANGED tables
      BY DEF vars, tables
    <2>1. ASSUME NEW w \in Workers,
                 \/ StartWorker(w) \/ Crash(w) \/ BeginExit(w) \/ FinishExit(w)
                 \/ Probe(w) \/ StoreHeartbeat(w) \/ WorkerLate(w)
          PROVE  OneByOne \/ UNCHANGED tables
      BY <2>1 DEF StartWorker, Crash, BeginExit, FinishExit, RemoveWorker, Probe,
                  StoreHeartbeat, WorkerLate, OneByOne
    <2>2. ASSUME NEW d \in Devices,
                 \/ FlashDefault(d) \/ FlashDone(d) \/ TestPass(d) \/ Break(d)
                 \/ StaleBreak(d) \/ DeliverUnreserve(d)
          PROVE  OneByOne \/ UNCHANGED tables
      BY <2>2, WriteStatusOneByOne
         DEF FlashDefault, FlashDone, TestPass, Break, StaleBreak, DeliverUnreserve, DeviceStatus
    <2>3. ASSUME NEW d \in Devices, Discover(d)
          PROVE  OneByOne \/ UNCHANGED tables
      BY <2>3, PluggedAssumption DEF Discover, OneByOne
    <2>4. ASSUME NEW d \in Devices,
                 \/ LoadDone(d) \/ LoseReserve(d) \/ LoseUnreserve(d)
                 \/ DeliverReserve(d) \/ SwitchUnreserved(d)
          PROVE  UNCHANGED tables
      BY <2>4 DEF LoadDone, LoseReserve, LoseUnreserve, DeliverReserve, SwitchUnreserved
    <2>5. ASSUME NEW c \in Clients, NEW n \in 1..Cardinality(Devices), Reserve(c, n)
          PROVE  OneByOne
      BY <2>5 DEF Reserve, OneByOne
    <2>6. ASSUME NEW c \in Clients, NEW S \in SUBSET Devices, End(c, S)
          PROVE  OneByOne
      BY <2>6 DEF End, OneByOne
    <2>7. ASSUME WorkerTimeouts PROVE OneByOne
      BY <2>7 DEF WorkerTimeouts, OneByOne
    <2>. QED BY <2>1, <2>2, <2>3, <2>4, <2>5, <2>6, <2>7 DEF Next
  <1>. QED BY <1>1, PTL DEF Spec
=============================================================================
