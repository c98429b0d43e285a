-------------------------- MODULE ClientLibProofs --------------------------
(***************************************************************************)
(* Proofs about ClientLib, for any boards and workers, any placement of    *)
(* the boards, and any number of calls, faults and event threads.          *)
(*                                                                         *)
(* IInv follows a call from its request to its wait: what became of each   *)
(* of its boards.  Each part of it has a lemma for the steps of the caller,*)
(* of removeSerial, of the handlers and of the world.                      *)
(***************************************************************************)
EXTENDS ClientLib, TLAPS

Wires == [type: Notices \union {"initialized", "results"},
          serial: Serials, round: 0..MaxSpent]
Removals == [by: {"event", "call"}, serial: Serials,
             at: {"look", "delete", "drop", "using", "close"}]

LEMMA EventIsWire ==
    ASSUME NEW t \in Notices \union {"initialized", "results"}, NEW s \in Serials,
           NEW n \in 0..MaxSpent
    PROVE  Event(t, s, n) \in Wires
  BY DEF Event, Wires

LEMMA RemovalIsOne ==
    ASSUME NEW by \in {"event", "call"}, NEW s \in Serials
    PROVE  Removal(by, s, "look") \in Removals
  BY DEF Removal, Removals

LEMMA Numbers == 0 \in 0..MaxSpent /\ MaxSpent \in Nat
  BY BoundsAssumption

(* Types, step by step.                                                    *)
LEMMA InitTypes == Init => TypeOK
  BY Numbers DEF Init, TypeOK

LEMMA SpendTypes == ASSUME TypeOK, NEW n \in {1, 2}, Spend(n) PROVE spent' \in 0..MaxSpent
  BY BoundsAssumption DEF TypeOK, Spend

LEMMA ReturnTypes ==
    ASSUME TypeOK, Return
    PROVE  /\ pc' = "idle" /\ mine' \subseteq Serials /\ todo' \subseteq Serials
           /\ cur' \in Serials \union {None} /\ lost' \subseteq Serials
  BY DEF Return

LEMMA ControlEndsTypes ==
    ASSUME TypeOK, NEW S \in SUBSET Serials, NEW told \in SUBSET held, ControlEnds(S, told)
    PROVE  /\ held' \subseteq Serials /\ starting' \subseteq Serials
           /\ asked' \subseteq Serials \X (1..MaxSpent) /\ wire' \subseteq Wires
           /\ ghosts' \subseteq Serials
  <1>1. \A s \in held : Event("end", s, 0) \in Wires
    BY Numbers, EventIsWire DEF TypeOK, Notices
  <1>. QED BY <1>1 DEF TypeOK, ControlEnds, Wires

(* What a step of the caller leaves alone.                                 *)
LEMMA ReserveTypes ==
    ASSUME TypeOK, NEW S \in SUBSET Serials, Reserve(S) PROVE TypeOK'
  <1>1. spent' \in 0..MaxSpent
    BY SpendTypes DEF Reserve
  <1>. QED BY <1>1 DEF Reserve, TypeOK, client

(* However a request ends, control ended the reservations.                 *)
LEMMA EndRequestEnds ==
    ASSUME NEW S, EndRequest(S)
    PROVE  \E told \in SUBSET held : ControlEnds(S, told)
  <1>1. held \intersect S \in SUBSET held /\ {} \in SUBSET held
    OBVIOUS
  <1>2. ControlEnds(S, held \intersect S) \/ ControlEnds(S, {})
    BY DEF EndRequest
  <1>. QED BY <1>1, <1>2

LEMMA EndRequestTypes ==
    ASSUME TypeOK, NEW S \in SUBSET Serials, EndRequest(S) PROVE TypeOK'
  <1>1. spent' \in 0..MaxSpent
    BY SpendTypes DEF EndRequest, TypeOK
  <1>2. PICK told \in SUBSET held : ControlEnds(S, told)
    BY EndRequestEnds
  <1>. QED BY <1>1, <1>2, ControlEndsTypes DEF EndRequest, TypeOK, client, Wires

LEMMA EvaluateTypes == ASSUME TypeOK, Counted, Evaluate PROVE TypeOK'
  <1>1. spent' \in 0..MaxSpent
    BY SpendTypes DEF Evaluate
  <1>2. round' \in 0..MaxSpent
    BY BoundsAssumption DEF Evaluate, Spend, TypeOK, Counted
  <1>3. results' \in [Serials -> 0..MaxSpent]
    BY Numbers DEF Evaluate, ClearResults
  <1>. QED BY <1>1, <1>2, <1>3 DEF Evaluate, TypeOK, world

LEMMA CallerTypes ==
    ASSUME TypeOK,
           \/ AddSerials \/ SetAwaiting \/ CheckAwaiting \/ ListSerials
           \/ SendRaises \/ CheckRemaining \/ ReturnValues \/ Stop
           \/ \E s \in Serials : LookUp(s) \/ SkipGroup(s)
    PROVE  TypeOK'
  <1>1. CASE AddSerials
    BY <1>1 DEF AddSerials, TypeOK, world
  <1>2. CASE SetAwaiting
    BY <1>2 DEF SetAwaiting, TypeOK, world, history
  <1>3. CASE CheckAwaiting
    BY <1>3, ReturnTypes DEF CheckAwaiting, TypeOK, world, client
  <1>4. CASE ListSerials
    BY <1>4 DEF ListSerials, Lose, TypeOK, world, client
  <1>5. CASE SendRaises
    BY <1>5, ReturnTypes DEF SendRaises, TypeOK, world, client
  <1>6. CASE CheckRemaining
    BY <1>6 DEF CheckRemaining, TypeOK, world, client, history
  <1>7. CASE ReturnValues
    BY <1>7, ReturnTypes DEF ReturnValues, TypeOK, world, client
  <1>8. CASE Stop
    BY <1>8 DEF Stop, TypeOK, world, client, history
  <1>9. ASSUME NEW s \in Serials, LookUp(s) PROVE TypeOK'
    BY <1>9, ReturnTypes DEF LookUp, TypeOK, world, client
  <1>10. ASSUME NEW s \in Serials, SkipGroup(s) PROVE TypeOK'
    BY <1>10 DEF SkipGroup, Lose, TypeOK, world, client
  <1>. QED BY <1>1, <1>2, <1>3, <1>4, <1>5, <1>6, <1>7, <1>8, <1>9, <1>10

LEMMA SendGroupTypes ==
    ASSUME TypeOK, Counted, NEW s \in Serials, SendGroup(s)
    PROVE  TypeOK'
  <1>1. round \in 1..MaxSpent
    BY BoundsAssumption DEF SendGroup, Counted, TypeOK, Evaluating
  <1>2. Group(s) \subseteq Serials
    BY DEF Group, TypeOK
  <1>3. asked' \subseteq Serials \X (1..MaxSpent)
    BY <1>1, <1>2 DEF SendGroup, Dispatched, TypeOK
  <1>. QED BY <1>3 DEF SendGroup, Lose, TypeOK, client

LEMMA SocketTypes ==
    ASSUME TypeOK, ConnectWorker \/ CloseNext
    PROVE  TypeOK'
  <1>1. CASE ConnectWorker
    <2>1. spent' \in 0..MaxSpent
      BY <1>1, SpendTypes DEF ConnectWorker, TypeOK
    <2>. QED BY <1>1, <2>1 DEF ConnectWorker, Lose, TypeOK, world
  <1>2. CASE CloseNext
    <2>1. held \in SUBSET Serials
      BY DEF TypeOK
    <2>2. CASE EndRequest(held)
      BY <2>1, <2>2, EndRequestTypes
    <2>3. CASE ~EndRequest(held)
      BY <1>2, <2>3 DEF CloseNext, TypeOK, world, caller, history
    <2>. QED BY <2>2, <2>3
  <1>. QED BY <1>1, <1>2

LEMMA RemovalTypes ==
    ASSUME TypeOK, RemoveEnded \/ \E r \in removers : Removing(r)
    PROVE  TypeOK'
  <1>0. removers \subseteq Removals
    BY DEF TypeOK, Removals
  <1>1. CASE RemoveEnded
    <2>1. removers' \subseteq Removals
      BY <1>0, <1>1, RemovalIsOne DEF RemoveEnded, TypeOK
    <2>. QED BY <1>1, <2>1 DEF RemoveEnded, TypeOK, world, client, history, Removals
  <1>2. ASSUME NEW r \in removers, Removing(r) PROVE TypeOK'
    <2>1. \A at \in {"delete", "drop", "using", "close"} : [r EXCEPT !.at = at] \in Removals
      BY <1>0 DEF Removals
    <2>2. removers' \subseteq Removals
      BY <1>0, <1>2, <2>1
         DEF Removing, GetInfo, Delete, CheckUsing, Disconnect, Become, Leave
    <2>. QED
      BY <1>2, <2>2
         DEF Removing, GetInfo, Delete, CheckUsing, Disconnect, Lose, TypeOK, Removals,
             world, client, caller, history
  <1>. QED BY <1>1, <1>2

LEMMA HandlerTypes ==
    ASSUME TypeOK, NEW e \in wire, Handle(e)
    PROVE  TypeOK'
  <1>1. e.serial \in Serials /\ e.round \in 0..MaxSpent
    BY DEF TypeOK
  <1>2. CASE HandleInitialized(e)
    BY <1>1, <1>2 DEF HandleInitialized, Arrives, Wake, Lose, TypeOK
  <1>3. CASE HandleNotice(e)
    <2>1. removers' \subseteq Removals
      BY <1>1, <1>3, RemovalIsOne DEF HandleNotice, TypeOK, Removals
    <2>. QED BY <1>3, <2>1 DEF HandleNotice, Arrives, TypeOK, Removals, client, caller, history
  <1>4. CASE HandleResults(e)
    BY <1>1, <1>4 DEF HandleResults, Arrives, Wake, TypeOK, history
  <1>. QED BY <1>2, <1>3, <1>4 DEF Handle

LEMMA WorldTypes ==
    ASSUME TypeOK,
           \/ \E s \in Serials : \/ Initialized(s) \/ BoardFails(s)
                                 \/ \E n \in 1..MaxSpent : Evaluated(s, n)
           \/ \E w \in Workers : WorkerDies(w)
    PROVE  TypeOK'
  <1>0. wire \subseteq Wires
    BY DEF TypeOK, Wires
  <1>1. ASSUME NEW s \in Serials, Initialized(s) PROVE TypeOK'
    <2>1. wire' \subseteq Wires
      BY <1>0, <1>1, Numbers, EventIsWire DEF Initialized
    <2>. QED BY <1>1, <2>1 DEF Initialized, TypeOK, Wires, client, caller, history
  <1>2. ASSUME NEW s \in Serials, BoardFails(s) PROVE TypeOK'
    <2>1. wire' \subseteq Wires
      BY <1>0, <1>2, Numbers, EventIsWire DEF BoardFails, Notices
    <2>2. spent' \in 0..MaxSpent
      BY <1>2, SpendTypes DEF BoardFails
    <2>. QED BY <1>2, <2>1, <2>2 DEF BoardFails, Lose, TypeOK, Wires, client, caller
  <1>3. ASSUME NEW s \in Serials, NEW n \in 1..MaxSpent, Evaluated(s, n) PROVE TypeOK'
    <2>1. n \in 0..MaxSpent
      OBVIOUS
    <2>2. wire' \subseteq Wires
      BY <1>0, <1>3, <2>1, EventIsWire DEF Evaluated
    <2>. QED BY <1>3, <2>2 DEF Evaluated, TypeOK, Wires, client, caller, history
  <1>4. ASSUME NEW w \in Workers, WorkerDies(w) PROVE TypeOK'
    <2>1. Hosted(w) \in SUBSET Serials
      BY DEF Hosted
    <2>2. spent' \in 0..MaxSpent
      BY <1>4, SpendTypes DEF WorkerDies
    <2>3. PICK told \in SUBSET held : ControlEnds(Hosted(w), told)
      BY <1>4 DEF WorkerDies
    <2>. QED BY <1>4, <2>1, <2>2, <2>3, ControlEndsTypes
             DEF WorkerDies, Lose, TypeOK, Wires, client, caller
  <1>. QED BY <1>1, <1>2, <1>3, <1>4

LEMMA NextTypes == ASSUME TypeOK, Counted, [Next]_vars PROVE TypeOK'
  <1>1. CASE UNCHANGED vars
    BY <1>1 DEF TypeOK, vars, world, client, caller, history
  <1>2. CASE Calls
    BY <1>2, ReserveTypes, EndRequestTypes, EvaluateTypes, CallerTypes DEF Calls, End
  <1>3. CASE Running
    BY <1>3, CallerTypes, SendGroupTypes, SocketTypes, RemovalTypes DEF Running
  <1>. QED BY <1>1, <1>2, <1>3, RemovalTypes, HandlerTypes, WorldTypes DEF Next

(* The count of the evaluations.                                           *)
LEMMA NextCounted == ASSUME TypeOK, Counted, [Next]_vars PROVE Counted'
  <1>0. round \in Nat /\ spent \in Nat
    BY DEF TypeOK
  <1>1. CASE UNCHANGED vars
    BY <1>1 DEF Counted, vars, client, caller, history
  <1>2. CASE Calls
    <2>1. ASSUME NEW S, Reserve(S) PROVE Counted'
      BY <1>0, <2>1 DEF Counted, Evaluating, Reserve, Spend, client
    <2>2. ASSUME NEW S, End(S) PROVE Counted'
      <3>1. pc' \notin Evaluating /\ UNCHANGED round
        BY <2>2 DEF End, EndRequest, client, Evaluating
      <3>2. spent' = spent \/ spent' = spent + 1
        BY <2>2 DEF End, EndRequest, Spend
      <3>. QED BY <1>0, <3>1, <3>2 DEF Counted
    <2>3. CASE Evaluate
      BY <1>0, <2>3 DEF Counted, Evaluating, Evaluate, Spend
    <2>4. CASE Stop
      BY <1>0, <2>4 DEF Counted, Evaluating, Stop, client, history
    <2>. QED BY <1>2, <2>1, <2>2, <2>3, <2>4 DEF Calls
  <1>3. CASE Running
    <2>1. CASE AddSerials \/ SetAwaiting \/ ListSerials \/ CheckRemaining \/ RemoveEnded
      BY <2>1 DEF Counted, Evaluating, AddSerials, SetAwaiting, ListSerials, CheckRemaining,
                  RemoveEnded, client, caller, history
    <2>2. CASE CheckAwaiting \/ SendRaises \/ ReturnValues
      BY <2>2 DEF Counted, Evaluating, CheckAwaiting, SendRaises, ReturnValues, Return, client
    <2>3. CASE ConnectWorker
      BY <1>0, <2>3 DEF Counted, Evaluating, ConnectWorker, Spend
    <2>4. CASE CloseNext
      BY <1>0, <2>4 DEF Counted, Evaluating, CloseNext, EndRequest, Spend, client, caller, history
    <2>5. ASSUME NEW s \in Serials, LookUp(s) \/ SendGroup(s) \/ SkipGroup(s) PROVE Counted'
      BY <2>5 DEF Counted, Evaluating, LookUp, SendGroup, SkipGroup, Return, client, history
    <2>. QED BY <1>3, <2>1, <2>2, <2>3, <2>4, <2>5 DEF Running
  <1>4. CASE \E r \in removers : Removing(r)
    BY <1>4 DEF Counted, Removing, GetInfo, Delete, CheckUsing, Disconnect, client, caller, history
  <1>5. CASE \E e \in wire : Handle(e)
    BY <1>5 DEF Counted, Evaluating, Handle, HandleInitialized, HandleNotice, HandleResults, Wake,
                client, caller, history
  <1>6. ASSUME NEW s \in Serials, Initialized(s) \/ \E n \in 1..MaxSpent : Evaluated(s, n)
        PROVE  Counted'
    BY <1>6 DEF Counted, Initialized, Evaluated, client, caller, history
  <1>7. ASSUME NEW s \in Serials, BoardFails(s) PROVE Counted'
    BY <1>0, <1>7 DEF Counted, BoardFails, Spend, client, caller
  <1>8. ASSUME NEW w \in Workers, WorkerDies(w) PROVE Counted'
    BY <1>0, <1>8 DEF Counted, WorkerDies, Spend, client, caller
  <1>. QED BY <1>1, <1>2, <1>3, <1>4, <1>5, <1>6, <1>7, <1>8 DEF Next

-----------------------------------------------------------------------------
(* The boards of a call.  A step of somebody else takes an answer away only*)
(* from boards that are then lost.                                         *)
Same == UNCHANGED <<pc, mine, todo, cur, awaiting, remaining, round>>

LEMMA OthersStep ==
    ASSUME IInv, Same, lost \subseteq lost', lost' \subseteq mine,
           \A s \in mine \ lost' :
               /\ Coming(s) => Coming(s)'
               /\ Due(s) => Due(s)'
               /\ Opened(Host[s]) => Opened(Host[s])'
    PROVE  Called' /\ Reserving' /\ Answering'
  <1>1. Called'
    BY DEF Same, IInv, Called
  <1>2. Reserving'
    BY DEF Same, IInv, Reserving
  <1>3. Answering'
    BY DEF Same, IInv, Answering, Evaluating
  <1>. QED BY <1>1, <1>2, <1>3

LEMMA EventParts ==
    \A t, s, n : Event(t, s, n).type = t /\ Event(t, s, n).serial = s /\ Event(t, s, n).round = n
  BY DEF Event

LEMMA StutterCalls ==
    ASSUME IInv, UNCHANGED vars
    PROVE  Called' /\ Reserving' /\ Answering'
  BY OthersStep DEF vars, world, client, caller, history, Same, IInv, Called, Coming, Due, Opened

LEMMA WorldCalls ==
    ASSUME IInv,
           \/ \E s \in Serials : \/ Initialized(s) \/ BoardFails(s)
                                 \/ \E n \in 1..MaxSpent : Evaluated(s, n)
           \/ \E w \in Workers : WorkerDies(w)
    PROVE  Called' /\ Reserving' /\ Answering'
  <1>0. lost \subseteq mine
    BY DEF IInv, Called
  <1>1. ASSUME NEW s \in Serials, Initialized(s) PROVE Called' /\ Reserving' /\ Answering'
    BY <1>0, <1>1, OthersStep DEF Initialized, Same, client, caller, history, Coming, Due, Opened
  <1>2. ASSUME NEW s \in Serials, BoardFails(s) PROVE Called' /\ Reserving' /\ Answering'
    BY <1>0, <1>2, OthersStep DEF BoardFails, Lose, Same, client, caller, Coming, Due, Opened
  <1>3. ASSUME NEW s \in Serials, NEW n \in 1..MaxSpent, Evaluated(s, n)
        PROVE  Called' /\ Reserving' /\ Answering'
    BY <1>0, <1>3, OthersStep DEF Evaluated, Same, client, caller, history, Coming, Due, Opened
  <1>4. ASSUME NEW w \in Workers, WorkerDies(w) PROVE Called' /\ Reserving' /\ Answering'
    BY <1>0, <1>4, OthersStep
       DEF WorkerDies, ControlEnds, Lose, Same, client, caller, Coming, Due, Opened
  <1>. QED BY <1>1, <1>2, <1>3, <1>4

LEMMA RemoverCalls ==
    ASSUME IInv, NEW r \in removers, Removing(r)
    PROVE  Called' /\ Reserving' /\ Answering'
  <1>0. lost \subseteq mine
    BY DEF IInv, Called
  <1>1. CASE GetInfo(r) \/ CheckUsing(r)
    BY <1>0, <1>1, OthersStep
       DEF GetInfo, CheckUsing, Same, world, client, caller, history, Coming, Due, Opened
  <1>2. CASE Delete(r)
    BY <1>0, <1>2, OthersStep DEF Delete, Lose, Same, world, caller, Coming, Due, Opened
  <1>3. CASE Disconnect(r)
    <2>1. mine \subseteq Serials /\ sockets \in [Workers -> {"none", "open", "failed"}]
      BY DEF IInv, TypeOK
    <2>2. \A s \in mine : s \in Hosted(Host[r.serial]) \/ Host[s] # Host[r.serial]
      BY <2>1 DEF Hosted
    <2>3. \A s \in mine \ lost' : Opened(Host[s]) => Opened(Host[s])'
      BY <1>3, <2>1, <2>2, HostAssumption DEF Disconnect, Lose, Opened
    <2>. QED BY <1>0, <1>3, <2>3, OthersStep DEF Disconnect, Lose, Same, world, caller, Coming, Due
  <1>. QED BY <1>1, <1>2, <1>3 DEF Removing

LEMMA HandlerCalls ==
    ASSUME IInv, NEW e \in wire, Handle(e)
    PROVE  Called' /\ Reserving' /\ Answering'
  <1>0. lost \subseteq mine
    BY DEF IInv, Called
  <1>1. CASE HandleNotice(e)
    <2>1. \A s, n : Event("initialized", s, n) # e /\ Event("results", s, n) # e
      BY <1>1, EventParts DEF HandleNotice, Notices
    <2>. QED BY <1>0, <1>1, <2>1, OthersStep
             DEF HandleNotice, Arrives, Same, client, caller, history, Coming, Due, Opened
  <1>2. CASE HandleInitialized(e)
    <2>1. \A s, n : Event("results", s, n) # e
      BY <1>2, EventParts DEF HandleInitialized
    <2>2. \A s : s # e.serial => Event("initialized", s, 0) # e
      BY EventParts
    <2>3. /\ \A s : s # e.serial => (Coming(s) => Coming(s)')
          /\ \A s : (Due(s) => Due(s)') /\ (Opened(Host[s]) => Opened(Host[s])')
      BY <1>2, <2>1, <2>2 DEF HandleInitialized, Arrives, Coming, Due, Opened
    <2>4. /\ awaiting' = awaiting \ {e.serial}
          /\ pc' = Wake(awaiting', "blocked", "check")
          /\ lost \subseteq lost' /\ lost' \subseteq mine
          /\ pc \in {"adding", "looking", "connecting"} /\ e.serial \in mine => e.serial \in lost'
          /\ UNCHANGED <<mine, todo, cur, remaining, round>>
      BY <1>0, <1>2 DEF HandleInitialized, Lose
    <2>5. Called'
      BY <2>4 DEF IInv, Called, Wake
    <2>6. Reserving'
      BY <2>3, <2>4 DEF IInv, Reserving, Wake
    <2>7. Answering'
      BY <2>3, <2>4 DEF IInv, Answering, Evaluating, Wake
    <2>. QED BY <2>5, <2>6, <2>7
  <1>3. CASE HandleResults(e)
    <2>1. \A s, n : Event("initialized", s, n) # e
      BY <1>3, EventParts DEF HandleResults
    <2>2. \A s : s # e.serial => Event("results", s, round) # e
      BY EventParts
    <2>3. /\ \A s : s # e.serial => (Due(s) => Due(s)')
          /\ \A s : (Coming(s) => Coming(s)') /\ (Opened(Host[s]) => Opened(Host[s])')
      BY <1>3, <2>1, <2>2 DEF HandleResults, Arrives, Coming, Due, Opened
    <2>4. /\ remaining' = remaining \ {e.serial}
          /\ pc' = IF e.serial \in remaining THEN Wake(remaining', "waiting", "count") ELSE pc
          /\ UNCHANGED <<mine, todo, cur, awaiting, round, lost>>
      BY <1>3 DEF HandleResults, history
    <2>5. Called'
      BY <2>4 DEF IInv, Called, Wake
    <2>6. Reserving'
      BY <2>3, <2>4 DEF IInv, Reserving, Wake
    <2>7. Answering'
      BY <2>3, <2>4 DEF IInv, Answering, Evaluating, Wake
    <2>. QED BY <2>5, <2>6, <2>7
  <1>. QED BY <1>1, <1>2, <1>3 DEF Handle

(* The caller's steps.                                                     *)
LEMMA IdleCalls ==
    ASSUME mine' = {}, lost' \subseteq mine', pc' \in {"idle", "removing", "closing"}
    PROVE  Called' /\ Reserving' /\ Answering'
  BY DEF Called, Reserving, Answering, Evaluating

LEMMA ReturnCalls == ASSUME Return PROVE Called' /\ Reserving' /\ Answering'
  BY IdleCalls DEF Return

LEMMA EndCalls ==
    ASSUME IInv, pc \in {"idle", "closing"}, NEW S, EndRequest(S)
    PROVE  Called' /\ Reserving' /\ Answering'
  BY IdleCalls DEF IInv, Called, EndRequest

LEMMA ReserveCalls ==
    ASSUME IInv, NEW S \in SUBSET Serials, Reserve(S)
    PROVE  Called' /\ Reserving' /\ Answering'
  <1>1. mine = {} /\ lost' = {} /\ pc = "idle"
    BY DEF IInv, Called, Reserve
  <1>2. CASE pc' = "adding" /\ mine' = S
    BY <1>1, <1>2 DEF Reserve, Called, Reserving, Answering, Evaluating, Coming
  <1>3. CASE UNCHANGED <<pc, mine>>
    BY <1>1, <1>3, IdleCalls
  <1>. QED BY <1>2, <1>3 DEF Reserve

LEMMA EvaluateCalls ==
    ASSUME IInv, Evaluate
    PROVE  Called' /\ Reserving' /\ Answering'
  <1>1. lost' = {}
    BY DEF IInv, Called, Evaluate
  <1>. QED BY <1>1 DEF Evaluate, Called, Reserving, Answering, Evaluating

LEMMA ConnectCalls ==
    ASSUME IInv, ConnectWorker
    PROVE  Called' /\ Reserving' /\ Answering'
  <1>0. mine \subseteq Serials /\ sockets \in [Workers -> {"none", "open", "failed"}]
    BY DEF IInv, TypeOK
  <1>1. /\ pc = "connecting" /\ pc' = "looking"
        /\ lost \subseteq lost' /\ lost' \subseteq mine
        /\ UNCHANGED <<starting, wire, mine, todo>>
    BY DEF ConnectWorker, Lose, world, IInv, Called
  <1>2. \A s \in mine \ lost' : (s = cur \/ Opened(Host[s])) => Opened(Host[s])'
    BY <1>0, HostAssumption DEF ConnectWorker, Lose, Hosted, Opened
  <1>3. Called'
    BY <1>1 DEF Called
  <1>4. Reserving'
    BY <1>1, <1>2 DEF IInv, Reserving, Coming
  <1>5. Answering'
    BY <1>1 DEF Answering, Evaluating
  <1>. QED BY <1>3, <1>4, <1>5

LEMMA CallerCalls ==
    ASSUME IInv,
           \/ AddSerials \/ SetAwaiting \/ CheckAwaiting \/ ListSerials
           \/ SendRaises \/ CheckRemaining \/ ReturnValues \/ Stop
           \/ \E s \in Serials : LookUp(s) \/ SkipGroup(s)
    PROVE  Called' /\ Reserving' /\ Answering'
  <1>1. CASE AddSerials
    BY <1>1 DEF AddSerials, world, IInv, Called, Reserving, Answering, Evaluating, Coming
  <1>2. CASE SetAwaiting
    BY <1>2 DEF SetAwaiting, world, history, IInv, Called, Reserving, Answering, Evaluating,
                Coming, Opened
  <1>3. CASE CheckAwaiting
    <2>1. CASE Return
      BY <2>1, ReturnCalls
    <2>2. CASE ~Return
      BY <1>3, <2>2 DEF CheckAwaiting, world, client, IInv, Called, Reserving, Answering, Evaluating,
                        Coming, Opened
    <2>. QED BY <2>1, <2>2
  <1>4. CASE ListSerials
    <2>1. mine \subseteq Serials
      BY DEF IInv, TypeOK
    <2>. QED BY <1>4, <2>1 DEF ListSerials, Lose, client, IInv, Called, Reserving, Answering, Evaluating
  <1>5. CASE SendRaises \/ ReturnValues
    BY <1>5, ReturnCalls DEF SendRaises, ReturnValues
  <1>6. CASE CheckRemaining
    BY <1>6 DEF CheckRemaining, world, client, history, IInv, Called, Reserving, Answering, Evaluating,
                Due, Opened
  <1>7. CASE Stop
    BY <1>7, IdleCalls DEF Stop, IInv, Called, history
  <1>8. ASSUME NEW s \in Serials, LookUp(s) PROVE Called' /\ Reserving' /\ Answering'
    <2>1. CASE Return
      BY <2>1, ReturnCalls
    <2>2. CASE ~Return
      BY <1>8, <2>2 DEF LookUp, world, client, IInv, Called, Reserving, Answering, Evaluating,
                        Coming, Opened
    <2>. QED BY <2>1, <2>2
  <1>9. ASSUME NEW s \in Serials, SkipGroup(s) PROVE Called' /\ Reserving' /\ Answering'
    BY <1>9 DEF SkipGroup, Lose, world, client, IInv, Called, Reserving, Answering, Evaluating,
                Due, Opened
  <1>. QED BY <1>1, <1>2, <1>3, <1>4, <1>5, <1>6, <1>7, <1>8, <1>9

(* Each group is one board, since no infos are the same.                   *)
LEMMA OneInGroup ==
    ASSUME NEW s \in todo \intersect info
    PROVE  Group(s) = {s} /\ \A T \in Dispatched(Group(s)) : T = {s}
  <1>1. Group(s) = {s}
    BY DEF Group, SameInfo
  <1>2. \A T : T \subseteq {s} /\ T # {} => T = {s}
    OBVIOUS
  <1>. QED BY <1>1, <1>2 DEF Dispatched

LEMMA SendEffect ==
    ASSUME NEW s, SendGroup(s)
    PROVE  /\ pc = "sending" /\ s \in todo /\ Opened(Host[s])
           /\ todo' = todo \ {s}
           /\ s \in held => asked' = asked \union {<<s, round>>} /\ UNCHANGED lost
           /\ s \notin held => UNCHANGED asked /\ lost' = lost \union ({s} \intersect mine)
           /\ UNCHANGED <<held, starting, wire, client, pc, mine, cur, removers,
                          raised, ghosts, spent>>
  <1>1. s \in todo \intersect info
    BY DEF SendGroup
  <1>2. Group(s) = {s} /\ \A T \in Dispatched(Group(s)) : T = {s}
    BY <1>1, OneInGroup
  <1>3. {s} \X {round} = {<<s, round>>} /\ {} \X {round} = {}
    OBVIOUS
  <1>4. /\ asked' = asked \union (({s} \intersect held) \X {round})
        /\ lost' = lost \union (({s} \ held) \intersect mine)
    BY <1>2 DEF SendGroup, Lose
  <1>5. todo' = todo \ {s}
    BY <1>2 DEF SendGroup
  <1>6. CASE s \in held
    <2>1. {s} \intersect held = {s} /\ {s} \ held = {}
      BY <1>6
    <2>. QED BY <1>1, <1>3, <1>4, <1>5, <1>6, <2>1 DEF SendGroup, Opened
  <1>7. CASE s \notin held
    <2>1. {s} \intersect held = {} /\ {s} \ held = {s}
      BY <1>7
    <2>. QED BY <1>1, <1>3, <1>4, <1>5, <1>7, <2>1 DEF SendGroup, Opened
  <1>. QED BY <1>6, <1>7

LEMMA SendCalls ==
    ASSUME IInv, NEW s \in Serials, SendGroup(s)
    PROVE  Called' /\ Reserving' /\ Answering'
  BY SendEffect DEF client, history, IInv, Called, Reserving, Answering, Evaluating, Due, Opened

LEMMA NextCalls ==
    ASSUME IInv, [Next]_vars
    PROVE  Called' /\ Reserving' /\ Answering'
  <1>1. CASE Calls
    BY <1>1, ReserveCalls, EndCalls, EvaluateCalls, CallerCalls DEF Calls, End
  <1>2. CASE RemoveEnded
    BY <1>2, IdleCalls DEF RemoveEnded, IInv, Called, history
  <1>3. CASE CloseNext
    <2>1. CASE EndRequest(held)
      BY <1>3, <2>1, EndCalls DEF CloseNext
    <2>2. CASE ~EndRequest(held)
      BY <1>3, <2>2, IdleCalls DEF CloseNext, IInv, Called, caller, history
    <2>. QED BY <2>1, <2>2
  <1>4. CASE Running
    BY <1>2, <1>3, <1>4, CallerCalls, ConnectCalls, SendCalls DEF Running
  <1>. QED BY <1>1, <1>4, StutterCalls, WorldCalls, RemoverCalls, HandlerCalls DEF Next
-----------------------------------------------------------------------------
(* The results on their way.  Steps that leave them, or make them fewer.   *)
Results == {e \in wire : e.type = "results"}

LEMMA FewerStep ==
    ASSUME IInv, Owned, asked' \subseteq asked, Results' \subseteq Results,
           UNCHANGED <<pc, mine, todo, remaining, results, round>>, info' \subseteq info
    PROVE  Owned'
  <1>1. \A s, n : Event("results", s, n) \in wire' => Event("results", s, n) \in wire
    BY EventParts DEF Results
  <1>2. \A s : Out(s)' <=> Out(s)
    BY DEF Out
  <1>. QED BY <1>1, <1>2 DEF Owned, Evaluating

(* While nothing was asked, the caller may go anywhere but to evaluate.    *)
LEMMA IdleStep ==
    ASSUME Owned, pc \notin Evaluating, asked' \subseteq asked, Results' \subseteq Results,
           pc' \notin Evaluating
    PROVE  Owned'
  <1>1. \A s \in Serials, n \in 0..MaxSpent :
           <<s, n>> \notin asked /\ Event("results", s, n) \notin wire
    BY DEF Owned, Out, Evaluating
  <1>2. \A s, n : Event("results", s, n) \in wire' => Event("results", s, n) \in wire
    BY EventParts DEF Results
  <1>. QED BY <1>1, <1>2 DEF Owned, Evaluating

LEMMA NoResults ==
    \A s : Event("initialized", s, 0).type # "results" /\ Event("end", s, 0).type # "results"
          /\ Event("failure", s, 0).type # "results"
  BY EventParts

LEMMA ControlOwned ==
    ASSUME NEW S, NEW told, ControlEnds(S, told)
    PROVE  asked' \subseteq asked /\ Results' \subseteq Results
  BY NoResults DEF ControlEnds, Results

LEMMA OthersOwned ==
    ASSUME IInv, Owned,
           \/ UNCHANGED vars
           \/ \E s \in Serials : Initialized(s) \/ BoardFails(s)
           \/ \E w \in Workers : WorkerDies(w)
           \/ \E r \in removers : Removing(r)
    PROVE  Owned'
  <1>1. CASE UNCHANGED vars
    BY <1>1, FewerStep DEF vars, world, client, caller, Results
  <1>2. ASSUME NEW s \in Serials, Initialized(s) PROVE Owned'
    BY <1>2, NoResults, FewerStep DEF Initialized, client, caller, Results
  <1>3. ASSUME NEW s \in Serials, BoardFails(s) PROVE Owned'
    BY <1>3, NoResults, FewerStep DEF BoardFails, client, caller, Results
  <1>4. ASSUME NEW w \in Workers, WorkerDies(w) PROVE Owned'
    <2>1. asked' \subseteq asked /\ Results' \subseteq Results
      BY <1>4, ControlOwned DEF WorkerDies
    <2>. QED BY <1>4, <2>1, FewerStep DEF WorkerDies, client, caller
  <1>5. ASSUME NEW r \in removers, Removing(r) PROVE Owned'
    BY <1>5, FewerStep
       DEF Removing, GetInfo, Delete, CheckUsing, Disconnect, world, client, caller, Results
  <1>. QED BY <1>1, <1>2, <1>3, <1>4, <1>5

LEMMA EvaluatedOwned ==
    ASSUME IInv, Owned, NEW s \in Serials, NEW n \in 1..MaxSpent, Evaluated(s, n)
    PROVE  Owned'
  <1>0. n \in 0..MaxSpent
    OBVIOUS
  <1>1. /\ <<s, n>> \in asked /\ asked' = asked \ {<<s, n>>}
        /\ wire' = wire \union {Event("results", s, n)}
        /\ UNCHANGED <<pc, mine, todo, remaining, results, round, info>>
    BY DEF Evaluated, client, caller
  <1>2. n = round /\ Out(s)
    BY <1>0, <1>1 DEF Owned
  <1>3. \A r, m : Event("results", r, m) = Event("results", s, n) => r = s /\ m = n
    BY EventParts
  <1>4. \A r : Out(r)' <=> Out(r)
    BY <1>1 DEF Out
  <1>. QED BY <1>1, <1>2, <1>3, <1>4 DEF Owned, Evaluating

LEMMA HandlerOwned ==
    ASSUME IInv, Owned, NEW e \in wire, Handle(e)
    PROVE  Owned'
  <1>1. CASE HandleNotice(e)
    BY <1>1, FewerStep DEF HandleNotice, Arrives, client, caller, Results
  <1>2. CASE HandleInitialized(e)
    <2>1. /\ pc' \in Evaluating <=> pc \in Evaluating
          /\ pc \in Evaluating => pc' = pc
      BY <1>2 DEF HandleInitialized, Wake, Evaluating
    <2>2. CASE pc \in Evaluating
      BY <1>2, <2>1, <2>2, FewerStep DEF HandleInitialized, Arrives, Results
    <2>3. CASE pc \notin Evaluating
      BY <1>2, <2>1, <2>3, IdleStep DEF HandleInitialized, Arrives, Results
    <2>. QED BY <2>2, <2>3
  <1>3. CASE HandleResults(e)
    <2>1. PICK x \in Serials, m \in 0..MaxSpent : e = Event("results", x, m)
      BY <1>3 DEF IInv, TypeOK, HandleResults, Event
    <2>2. e.serial = x /\ e.round = m
      BY <2>1, EventParts
    <2>3. m = round /\ x \in remaining /\ Out(x) /\ pc \in {"sending", "waiting", "count"}
      BY <2>1 DEF Owned, Out
    <2>4. x \in mine /\ results \in [Serials -> 0..MaxSpent]
      BY <2>3 DEF IInv, TypeOK, Answering, Evaluating
    <2>5. /\ remaining' = remaining \ {x} /\ results' = [results EXCEPT ![x] = round]
          /\ wire' = wire \ {e} /\ pc' = Wake(remaining', "waiting", "count")
          /\ UNCHANGED <<asked, info, round, mine, todo>>
      BY <1>3, <2>2, <2>3 DEF HandleResults, Arrives
    <2>6. \A s \in Serials, n \in 0..MaxSpent :
             /\ <<s, n>> \in asked => s # x
             /\ Event("results", s, n) \in wire' => s # x
      BY <2>1, <2>3, <2>5 DEF Owned
    <2>7. /\ pc \in {"waiting", "count"} => pc' \in {"waiting", "count"}
          /\ pc = "sending" => pc' = "sending"
      BY <2>5 DEF Wake
    <2>8. \A s : Out(s) /\ s # x => Out(s)'
      BY <2>5, <2>7 DEF Out
    <2>9. \A s \in Serials, n \in 0..MaxSpent :
             /\ <<s, n>> \in asked' =>
                   n = round' /\ Out(s)' /\ Event("results", s, n) \notin wire'
             /\ Event("results", s, n) \in wire' => n = round' /\ Out(s)'
      BY <2>5, <2>6, <2>8 DEF Owned
    <2>10. \A s \in Serials : results'[s] = IF s \in mine' \ remaining' THEN round' ELSE 0
      BY <2>3, <2>4, <2>5 DEF Owned, Evaluating
    <2>11. pc' = "sending" => todo' \subseteq remaining'
      BY <2>3, <2>5, <2>7 DEF Owned, Out
    <2>. QED BY <2>3, <2>7, <2>9, <2>10, <2>11 DEF Owned
  <1>. QED BY <1>1, <1>2, <1>3 DEF Handle

(* The caller's steps.                                                     *)
LEMMA CallOwned ==
    ASSUME IInv, Owned, pc = "idle",
           \/ \E S \in SUBSET Serials : Reserve(S) \/ End(S)
           \/ Stop
    PROVE  Owned'
  <1>1. ASSUME NEW S \in SUBSET Serials, Reserve(S) PROVE Owned'
    BY <1>1, IdleStep DEF Reserve, Evaluating, Results
  <1>2. ASSUME NEW S \in SUBSET Serials, End(S) PROVE Owned'
    <2>1. asked' \subseteq asked /\ Results' \subseteq Results
      BY <1>2, EndRequestEnds, ControlOwned DEF End
    <2>. QED BY <1>2, <2>1, IdleStep DEF End, EndRequest, Evaluating
  <1>3. CASE Stop
    BY <1>3, IdleStep DEF Stop, world, Evaluating, Results
  <1>. QED BY <1>1, <1>2, <1>3

LEMMA EvaluateOwned ==
    ASSUME IInv, Owned, Evaluate
    PROVE  Owned'
  <1>1. \A s \in Serials, n \in 0..MaxSpent :
           <<s, n>> \notin asked /\ Event("results", s, n) \notin wire
    BY DEF Owned, Out, Evaluate
  <1>2. /\ pc' = "listing" /\ remaining' = info' /\ mine' = info'
        /\ results' = [s \in Serials |-> 0] /\ UNCHANGED <<asked, wire>>
    BY DEF Evaluate, ClearResults, world
  <1>. QED BY <1>1, <1>2 DEF Owned

LEMMA ReservingOwned ==
    ASSUME IInv, Owned,
           \/ AddSerials \/ ConnectWorker \/ SetAwaiting \/ CheckAwaiting
           \/ \E s \in Serials : LookUp(s)
           \/ RemoveEnded \/ CloseNext
    PROVE  Owned'
  <1>1. pc \notin Evaluating /\ pc' \notin Evaluating
    BY DEF AddSerials, ConnectWorker, SetAwaiting, CheckAwaiting, LookUp, RemoveEnded, CloseNext,
           EndRequest, Return, caller, Evaluating
  <1>2. CASE CloseNext
    <2>1. asked' \subseteq asked /\ Results' \subseteq Results
      BY <1>2, EndRequestEnds, ControlOwned DEF CloseNext, world, Results
    <2>. QED BY <1>1, <2>1, IdleStep
  <1>3. CASE UNCHANGED world
    BY <1>1, <1>3, IdleStep DEF world, Results
  <1>. QED BY <1>2, <1>3 DEF AddSerials, ConnectWorker, SetAwaiting, CheckAwaiting, LookUp, RemoveEnded

LEMMA EvaluatingOwned ==
    ASSUME IInv, Owned,
           \/ ListSerials \/ CheckRemaining \/ ReturnValues
           \/ \E s \in Serials : SkipGroup(s)
    PROVE  Owned'
  <1>1. CASE ListSerials
    <2>1. /\ pc = "listing" /\ pc' = "sending" /\ todo' = info
          /\ UNCHANGED <<asked, wire, info, mine, remaining, results, round>>
      BY <1>1 DEF ListSerials, world, client
    <2>2. \A s : ~Out(s)
      BY <2>1 DEF Out
    <2>. QED BY <2>1, <2>2 DEF Owned, Evaluating
  <1>2. CASE CheckRemaining
    <2>1. /\ pc = "count" \/ (pc = "sending" /\ todo = {})
          /\ pc' = IF remaining = {} THEN "evaluated" ELSE "waiting"
          /\ UNCHANGED <<asked, wire, info, mine, todo, remaining, results, round>>
      BY <1>2 DEF CheckRemaining, world, client
    <2>2. \A s : Out(s) => Out(s)'
      BY <2>1 DEF Out
    <2>. QED BY <2>1, <2>2 DEF Owned, Evaluating
  <1>3. CASE ReturnValues
    <2>1. /\ pc = "evaluated" /\ pc' = "idle" /\ UNCHANGED <<asked, wire>>
      BY <1>3 DEF ReturnValues, Return, world
    <2>2. \A s : ~Out(s)
      BY <2>1 DEF Out
    <2>. QED BY <2>1, <2>2 DEF Owned, Evaluating
  <1>4. ASSUME NEW x \in Serials, SkipGroup(x) PROVE Owned'
    <2>1. /\ pc = "sending" /\ todo' = todo \ {x}
          /\ UNCHANGED <<asked, wire, info, pc, mine, remaining, results, round>>
      BY <1>4 DEF SkipGroup, world, client
    <2>2. \A s : Out(s) => Out(s)'
      BY <2>1 DEF Out
    <2>. QED BY <2>1, <2>2 DEF Owned, Evaluating
  <1>. QED BY <1>1, <1>2, <1>3, <1>4

LEMMA SendOwned ==
    ASSUME IInv, Owned, NEW x \in Serials, SendGroup(x)
    PROVE  Owned'
  <1>1. /\ pc = "sending" /\ x \in todo /\ todo' = todo \ {x}
        /\ asked' \subseteq asked \union {<<x, round>>}
        /\ UNCHANGED <<wire, info, pc, mine, remaining, results, round>>
    BY SendEffect DEF client
  <1>2. x \in remaining /\ ~Out(x)
    BY <1>1 DEF Owned, Out
  <1>3. Out(x)' /\ \A s : Out(s) => Out(s)'
    BY <1>1, <1>2 DEF Out
  <1>4. \A n \in 0..MaxSpent : Event("results", x, n) \notin wire
    BY <1>2 DEF Owned
  <1>5. \A s \in Serials, n \in 0..MaxSpent :
           /\ <<s, n>> \in asked' =>
                 n = round' /\ Out(s)' /\ Event("results", s, n) \notin wire'
           /\ Event("results", s, n) \in wire' => n = round' /\ Out(s)'
    BY <1>1, <1>3, <1>4 DEF Owned
  <1>. QED BY <1>1, <1>5 DEF Owned, Evaluating

LEMMA NextOwned == ASSUME IInv, [Next]_vars, ~raised' PROVE Owned'
  <1>1. ~raised => Owned
    BY DEF IInv
  <1>2. ~raised
    <2>1. CASE UNCHANGED raised
      BY <2>1
    <2>2. CASE raised' # raised
      BY <2>2 DEF Next, Calls, Running, Removing, Handle, vars, history, Reserve, End, EndRequest,
         Evaluate, Stop, AddSerials, ConnectWorker, SetAwaiting, CheckAwaiting, LookUp, SendGroup,
         SkipGroup, ListSerials, SendRaises, CheckRemaining, ReturnValues, RemoveEnded, CloseNext,
         GetInfo, Delete, CheckUsing, Disconnect, HandleInitialized, HandleNotice, HandleResults,
         Initialized, BoardFails, Evaluated, WorkerDies
    <2>. QED BY <2>1, <2>2
  <1>3. CASE Calls
    BY <1>1, <1>2, <1>3, CallOwned, EvaluateOwned DEF Calls, Reserve, End, Stop
  <1>4. CASE Running
    <2>1. ~SendRaises
      BY DEF SendRaises
    <2>. QED BY <1>1, <1>2, <1>4, <2>1, ReservingOwned, EvaluatingOwned, SendOwned DEF Running
  <1>5. CASE ~Calls /\ ~Running
    <2>1. CASE \E s \in Serials, n \in 1..MaxSpent : Evaluated(s, n)
      BY <1>1, <1>2, <2>1, EvaluatedOwned
    <2>2. CASE \E e \in wire : Handle(e)
      BY <1>1, <1>2, <2>2, HandlerOwned
    <2>. QED BY <1>1, <1>2, <1>5, <2>1, <2>2, OthersOwned DEF Next
  <1>. QED BY <1>3, <1>4, <1>5

-----------------------------------------------------------------------------
(* The notices.                                                            *)
Removed(s) == \/ \E e \in wire : e.serial = s /\ e.type \in Notices
              \/ \E r \in removers : r.serial = s /\ r.at \in {"look", "delete", "drop"}
              \/ pc = "removing" /\ s \in todo

LEMMA NoticeOf == NoticeUnderWay <=> \A s \in info \ (held \union ghosts) : Removed(s)
  BY DEF NoticeUnderWay, Removed

LEMMA NoticeNext ==
    NoticeUnderWay' <=> \A s \in info' \ (held' \union ghosts') : Removed(s)'
  BY DEF NoticeUnderWay, Removed

(* A step that ends no reservation, adds no board, and takes no notice.    *)
LEMMA NoticeKept ==
    ASSUME NoticeUnderWay, info' \subseteq info, held \subseteq held', UNCHANGED ghosts,
           {e \in wire : e.type \in Notices} \subseteq wire', removers \subseteq removers',
           pc' # "removing" => pc # "removing", pc = "removing" => UNCHANGED todo
    PROVE  NoticeUnderWay'
  <1>1. \A s : Removed(s) => Removed(s)'
    BY DEF Removed
  <1>. QED BY <1>1, NoticeOf, NoticeNext

LEMMA ControlNotice ==
    ASSUME NoticeUnderWay, NEW S, NEW told, ControlEnds(S, told),
           UNCHANGED <<info, removers>>, pc # "removing" \/ UNCHANGED <<pc, todo>>
    PROVE  NoticeUnderWay'
  <1>1. \A s : Removed(s) => Removed(s)'
    BY DEF Removed, ControlEnds
  <1>2. \A s \in (info \intersect held) \ (held' \union ghosts') : Removed(s)'
    <2>1. \A s \in told : Removed(s)'
      BY EventParts DEF Removed, ControlEnds, Notices
    <2>. QED BY <2>1 DEF ControlEnds
  <1>3. ghosts \subseteq ghosts'
    BY DEF ControlEnds
  <1>. QED BY <1>1, <1>2, <1>3, NoticeOf, NoticeNext

LEMMA RemovalParts ==
    \A by, s : Removal(by, s, "look").serial = s /\ Removal(by, s, "look").at = "look"
  BY DEF Removal

LEMMA CallerNotice ==
    ASSUME IInv, Calls \/ Running
    PROVE  NoticeUnderWay'
  <1>0. NoticeUnderWay
    BY DEF IInv
  <1>1. ASSUME NEW S \in SUBSET Serials, Reserve(S) PROVE NoticeUnderWay'
    BY <1>0, <1>1, NoticeKept DEF Reserve, client
  <1>2. ASSUME NEW S, EndRequest(S), pc \in {"idle", "closing"} PROVE NoticeUnderWay'
    BY <1>0, <1>2, EndRequestEnds, ControlNotice DEF EndRequest, client
  <1>3. CASE AddSerials
    <2>1. /\ info' = info \union mine /\ ghosts' = (ghosts \ mine) \union (mine \ held)
          /\ UNCHANGED <<held, wire, removers>> /\ pc = "adding"
      BY <1>3 DEF AddSerials, world
    <2>2. \A s : Removed(s) => Removed(s)'
      BY <2>1 DEF Removed
    <2>. QED BY <1>0, <2>1, <2>2, NoticeOf, NoticeNext
  <1>4. CASE RemoveEnded
    <2>0. pc = "removing" /\ UNCHANGED wire /\ removers \subseteq removers'
      BY <1>4 DEF RemoveEnded, world
    <2>1. \A s : Removed(s) => Removed(s)'
      <3>1. ASSUME NEW x \in todo, todo' = todo \ {x}, UNCHANGED pc,
                   removers' = removers \union {Removal("call", x, "look")}
            PROVE  \A s : Removed(s) => Removed(s)'
        BY <2>0, <3>1, RemovalParts DEF Removed
      <3>2. CASE todo = {}
        BY <2>0, <3>2 DEF Removed
      <3>. QED BY <1>4, <3>1, <3>2 DEF RemoveEnded
    <2>. QED BY <1>0, <1>4, <2>1, NoticeOf, NoticeNext DEF RemoveEnded, world, client, history
  <1>5. CASE CloseNext
    BY <1>0, <1>2, <1>5, NoticeKept DEF CloseNext, caller, world, history
  <1>6. CASE Evaluate \/ Stop \/ ListSerials
    BY <1>0, <1>6, NoticeKept DEF Evaluate, Stop, ListSerials, world, client, history
  <1>7. CASE ConnectWorker \/ SetAwaiting \/ CheckAwaiting
    BY <1>0, <1>7, NoticeKept DEF ConnectWorker, SetAwaiting, CheckAwaiting, Return, world, client, history
  <1>8. CASE SendRaises \/ CheckRemaining \/ ReturnValues
    BY <1>0, <1>8, NoticeKept DEF SendRaises, CheckRemaining, ReturnValues, Return, world, client, history
  <1>9. ASSUME NEW s \in Serials, LookUp(s) \/ SkipGroup(s) PROVE NoticeUnderWay'
    BY <1>0, <1>9, NoticeKept DEF LookUp, SkipGroup, Return, world, client
  <1>10. ASSUME NEW s \in Serials, SendGroup(s) PROVE NoticeUnderWay'
    BY <1>0, <1>10, SendEffect, NoticeKept DEF client, history
  <1>. QED BY <1>1, <1>2, <1>3, <1>4, <1>5, <1>6, <1>7, <1>8, <1>9, <1>10 DEF Calls, Running, End

LEMMA RemoverNotice ==
    ASSUME IInv, NEW r \in removers, Removing(r)
    PROVE  NoticeUnderWay'
  <1>0. NoticeUnderWay /\ r \in Removals
    BY DEF IInv, TypeOK, Removals
  <1>1. CASE GetInfo(r)
    <2>1. \E q \in removers' : q.serial = r.serial /\ q.at \in {"look", "delete", "drop"}
      <3>1. PICK at \in {"delete", "drop"} : Become(r, at)
        BY <1>1 DEF GetInfo
      <3>2. [r EXCEPT !.at = at].serial = r.serial /\ [r EXCEPT !.at = at].at = at
        BY <1>0 DEF Removals
      <3>3. [r EXCEPT !.at = at] \in removers'
        BY <3>1 DEF Become
      <3>. QED BY <3>2, <3>3
    <2>2. /\ \A q \in removers : q = r \/ q \in removers'
          /\ UNCHANGED <<wire, pc, todo>>
      BY <1>1 DEF GetInfo, Become, world, caller
    <2>3. \A s : Removed(s) => Removed(s)'
      BY <2>1, <2>2 DEF Removed
    <2>. QED BY <1>0, <1>1, <2>3, NoticeOf, NoticeNext DEF GetInfo, world, client, history
  <1>2. CASE Delete(r)
    <2>1. \A s : s # r.serial /\ Removed(s) => Removed(s)'
      BY <1>2 DEF Delete, Become, Leave, Removed, world, caller
    <2>. QED BY <1>0, <1>2, <2>1, NoticeOf, NoticeNext DEF Delete, world
  <1>3. CASE CheckUsing(r) \/ Disconnect(r)
    <2>1. \A s : Removed(s) => Removed(s)'
      BY <1>3 DEF CheckUsing, Disconnect, Become, Leave, Removed, world, caller
    <2>. QED BY <1>0, <1>3, <2>1, NoticeOf, NoticeNext
             DEF CheckUsing, Disconnect, world, client, history
  <1>. QED BY <1>1, <1>2, <1>3 DEF Removing

LEMMA HandlerNotice ==
    ASSUME IInv, NEW e \in wire, Handle(e)
    PROVE  NoticeUnderWay'
  <1>0. NoticeUnderWay
    BY DEF IInv
  <1>1. CASE HandleNotice(e)
    <2>1. /\ Removal("event", e.serial, "look") \in removers' /\ removers \subseteq removers'
          /\ wire' = wire \ {e} /\ UNCHANGED <<pc, todo>>
      BY <1>1 DEF HandleNotice, Arrives, caller
    <2>2. Removed(e.serial)'
      BY <2>1, RemovalParts DEF Removed
    <2>3. \A s : Removed(s) => Removed(s)'
      BY <2>1, <2>2 DEF Removed
    <2>. QED BY <1>0, <1>1, <2>3, NoticeOf, NoticeNext DEF HandleNotice, Arrives, client, history
  <1>2. CASE HandleInitialized(e)
    BY <1>0, <1>2, NoticeKept DEF HandleInitialized, Arrives, Wake, Notices
  <1>3. CASE HandleResults(e)
    BY <1>0, <1>3, NoticeKept DEF HandleResults, Arrives, Wake, Notices, history
  <1>. QED BY <1>1, <1>2, <1>3 DEF Handle

LEMMA WorldNotice ==
    ASSUME IInv,
           \/ \E s \in Serials : \/ Initialized(s) \/ BoardFails(s)
                                 \/ \E n \in 1..MaxSpent : Evaluated(s, n)
           \/ \E w \in Workers : WorkerDies(w)
           \/ UNCHANGED vars
    PROVE  NoticeUnderWay'
  <1>0. NoticeUnderWay
    BY DEF IInv
  <1>1. ASSUME NEW s \in Serials,
               Initialized(s) \/ BoardFails(s) \/ \E n \in 1..MaxSpent : Evaluated(s, n)
        PROVE  NoticeUnderWay'
    BY <1>0, <1>1, NoticeKept DEF Initialized, BoardFails, Evaluated, client, caller, history
  <1>2. ASSUME NEW w \in Workers, WorkerDies(w) PROVE NoticeUnderWay'
    <2>1. PICK told : ControlEnds(Hosted(w), told)
      BY <1>2 DEF WorkerDies
    <2>. QED BY <1>0, <1>2, <2>1, ControlNotice DEF WorkerDies, client, caller
  <1>3. CASE UNCHANGED vars
    BY <1>0, <1>3, NoticeKept DEF vars, world, client, caller, history
  <1>. QED BY <1>1, <1>2, <1>3

LEMMA NextNotice == ASSUME IInv, [Next]_vars PROVE NoticeUnderWay'
  BY CallerNotice, RemoverNotice, HandlerNotice, WorldNotice DEF Next

-----------------------------------------------------------------------------
(* The inductive invariant holds in every state.                           *)
THEOREM Inductive == Spec => []IInv
  <1>1. Init => IInv
    <2>1. Init => Counted /\ Called /\ Reserving /\ Answering /\ Owned /\ NoticeUnderWay
      BY DEF Init, Counted, Called, Reserving, Answering, Owned, NoticeUnderWay, Evaluating
    <2>. QED BY <2>1, InitTypes DEF IInv
  <1>2. IInv /\ [Next]_vars => IInv'
    <2>. SUFFICES ASSUME IInv, [Next]_vars PROVE IInv'
      OBVIOUS
    <2>1. TypeOK' /\ Counted'
      BY NextTypes, NextCounted DEF IInv
    <2>. QED BY <2>1, NextCalls, NextOwned, NextNotice DEF IInv
  <1>. QED BY <1>1, <1>2, PTL DEF Spec

(* The client's objects and threads keep their types.                      *)
THEOREM TypeCorrect == Spec => []TypeOK
  <1>1. IInv => TypeOK
    BY DEF IInv
  <1>. QED BY <1>1, Inductive, PTL

(* A call sleeps only while each board it waits for can still answer, or   *)
(* its answer is lost (BaseClient.py, PulseCountClient.py).                *)
THEOREM AwaitedComesHolds == Spec => []AwaitedComes
  <1>1. IInv => AwaitedComes
    BY DEF IInv, Reserving, Answering, Coming, Due, AwaitedComes, Answer
  <1>. QED BY <1>1, Inductive, PTL

(* evaluate returns its own results (PulseCountClient.py).                 *)
THEOREM AnswersOwnHolds == Spec => []AnswersOwn
  <1>1. IInv => AnswersOwn
    BY DEF IInv, TypeOK, Owned, Evaluating, AnswersOwn
  <1>. QED BY <1>1, Inductive, PTL

(* A board is about to leave connection_info when its reservation is over, *)
(* but for one whose end was not announced, or announced before it was     *)
(* added (BaseClient.py, BaseAPI.py).                                      *)
THEOREM NoticeUnderWayHolds == Spec => []NoticeUnderWay
  <1>1. IInv => NoticeUnderWay
    BY DEF IInv
  <1>. QED BY <1>1, Inductive, PTL
=============================================================================
