----------------------------- MODULE ClientLib -----------------------------
(***************************************************************************)
(* The client library with the pulse-count driver on top: BaseAPI,         *)
(* BaseClient, EventServer and PulseCountClient, in one client process.    *)
(*                                                                         *)
(* One thread calls it ("intended only for single threaded use", as        *)
(* PulseCountClient says); every event that arrives is handled in a thread *)
(* of its own.  A step is what runs under one lock, so the pieces of       *)
(* removeSerial interleave with the calls.  A ConnectionInfo is known by   *)
(* its board: two of them never compare equal (SameInfo).                  *)
(*                                                                         *)
(* Control and the workers are external: the reservations they hold for    *)
(* this client, the boards that start or evaluate, and the events on their *)
(* way.  What a worker sends waits for a socket to it.                     *)
(***************************************************************************)
EXTENDS Naturals, FiniteSets

CONSTANTS
    Serials, Workers,
    Host,           \* the worker of each board
    MaxSpent,       \* bound: calls of reserve and evaluate, and faults
    MaxHandlers,    \* bound: event threads in removeSerial
    None

ASSUME HostAssumption == Host \in [Serials -> Workers]
ASSUME BoundsAssumption == MaxSpent \in Nat /\ MaxHandlers \in Nat
ASSUME NoneAssumption == None \notin Serials

VARIABLES
    \* control and the workers (external)
    held,       \* boards reserved under the client's name
    starting,   \* boards asked to become pulse counters
    asked,      \* evaluations a board was asked for: board and round
    wire,       \* events on their way
    \* the objects of the client
    info,       \* keys of connection_info
    sockets,    \* worker_sockets
    awaiting,   \* awaiting_serials
    remaining,  \* remaining_serials
    results,    \* the round of each board's results, 0 for none
    round,      \* the evaluation uuid_map belongs to
    \* threads
    pc,         \* the calling thread
    mine,       \* the boards its call is about
    todo,       \* those its loop has not come to
    cur,        \* the one its loop is at
    removers,   \* calls of removeSerial under way
    \* history
    lost,       \* boards whose answer to the last call does not come
    raised,     \* an evaluate raised
    ghosts,     \* boards in info of whose end no notice is to come any more
    spent       \* what the bound counts

world == <<held, starting, asked, wire>>
client == <<info, sockets, awaiting, remaining, results, round>>
caller == <<pc, mine, todo, cur>>
history == <<lost, raised, ghosts, spent>>
vars == <<world, client, caller, removers, history>>

Event(type, s, n) == [type |-> type, serial |-> s, round |-> n]
Notices == {"end", "failure"}    \* of control, of the worker
Removal(by, s, at) == [by |-> by, serial |-> s, at |-> at]

TypeOK ==
    /\ held \subseteq Serials /\ starting \subseteq Serials
    /\ asked \subseteq Serials \X (1..MaxSpent)
    /\ wire \subseteq [type: Notices \union {"initialized", "results"},
                       serial: Serials, round: 0..MaxSpent]
    /\ info \subseteq Serials
    /\ sockets \in [Workers -> {"none", "open", "failed"}]
    /\ awaiting \subseteq Serials /\ remaining \subseteq Serials
    /\ results \in [Serials -> 0..MaxSpent]
    /\ round \in 0..MaxSpent
    /\ pc \in {"idle", "adding", "looking", "connecting", "check", "blocked",
               "listing", "sending", "count", "waiting", "evaluated",
               "removing", "closing"}
    /\ mine \subseteq Serials /\ todo \subseteq Serials /\ cur \in Serials \union {None}
    /\ removers \subseteq [by: {"event", "call"}, serial: Serials,
                           at: {"look", "delete", "drop", "using", "close"}]
    /\ lost \subseteq Serials /\ raised \in BOOLEAN /\ ghosts \subseteq Serials
    /\ spent \in 0..MaxSpent

Init ==
    /\ held = {} /\ starting = {} /\ asked = {} /\ wire = {}
    /\ info = {} /\ sockets = [w \in Workers |-> "none"]
    /\ awaiting = {} /\ remaining = {} /\ results = [s \in Serials |-> 0] /\ round = 0
    /\ pc = "idle" /\ mine = {} /\ todo = {} /\ cur = None /\ removers = {}
    /\ lost = {} /\ raised = FALSE /\ ghosts = {} /\ spent = 0

Hosted(w) == {s \in Serials : Host[s] = w}

(* A call returns, or raises.                                              *)
Return ==
    /\ pc' = "idle"
    /\ mine' = {} /\ todo' = {} /\ cur' = None
    /\ lost' = {}

Spend(n) == spent + n <= MaxSpent /\ spent' = spent + n

(* The answers of boards S will not come to the call under way.            *)
Lose(S) == lost' = lost \union (S \intersect mine)

\* mutant: ConnectionInfo compares addresses
SameAddress(r, s) == Host[r] = Host[s]

(* ConnectionInfo.__eq__ compares the port with the address, and each      *)
(* board has an object of its own.                                         *)
SameInfo(r, s) == FALSE

-----------------------------------------------------------------------------
(* BaseClient.reserve.  Control's answer, or its loss: then the boards are *)
(* reserved and the client does not know.                                  *)
Reserve(S) ==
    /\ pc = "idle"
    /\ S # {} /\ S \intersect held = {}
    /\ held' = held \union S
    /\ starting' = starting \union S
    /\ \/ pc' = "adding" /\ mine' = S /\ Spend(1)
       \/ UNCHANGED <<pc, mine>> /\ Spend(2)
    /\ UNCHANGED <<asked, wire, client, todo, cur, removers, lost, raised, ghosts>>

AddSerials ==
    /\ pc = "adding"
    /\ info' = info \union mine
    /\ ghosts' = (ghosts \ mine) \union (mine \ held)
    /\ todo' = mine
    /\ pc' = "looking"
    /\ UNCHANGED <<world, sockets, awaiting, remaining, results, round, mine, cur,
                   removers, lost, raised, spent>>

(* getConnectionInfo answers None for a board that is gone again, and      *)
(* info.url() raises.                                                      *)
LookUp(s) ==
    /\ pc = "looking"
    /\ s \in todo
    /\ \/ s \in info /\ pc' = "connecting" /\ cur' = s /\ todo' = todo \ {s}
          /\ UNCHANGED <<mine, lost>>
       \/ s \notin info /\ Return
    /\ UNCHANGED <<world, client, removers, raised, ghosts, spent>>

(* connectWorker keeps what the first attempt gave, False too.             *)
ConnectWorker ==
    /\ pc = "connecting"
    /\ pc' = "looking"
    /\ cur' = None
    /\ LET w == Host[cur]
       IN \/ sockets[w] = "none" /\ sockets' = [sockets EXCEPT ![w] = "open"]
             /\ UNCHANGED <<lost, spent>>
          \/ sockets[w] = "none" /\ sockets' = [sockets EXCEPT ![w] = "failed"]
             /\ Lose(Hosted(w)) /\ Spend(1)
          \/ sockets[w] = "open" /\ UNCHANGED <<sockets, lost, spent>>
          \/ sockets[w] = "failed" /\ Lose(Hosted(w)) /\ UNCHANGED <<sockets, spent>>
    /\ UNCHANGED <<world, info, awaiting, remaining, results, round, mine, todo,
                   removers, raised, ghosts>>

(* waitUntilInitilized: the assignment, outside cond; then the test of the *)
(* predicate, under it.                                                    *)
SetAwaiting ==
    /\ pc = "looking"
    /\ todo = {}
    /\ awaiting' = mine
    /\ pc' = "check"
    /\ UNCHANGED <<world, info, sockets, remaining, results, round, mine, todo, cur,
                   removers, history>>

CheckAwaiting ==
    /\ pc = "check"
    /\ \/ awaiting = {} /\ Return
       \/ awaiting # {} /\ pc' = "blocked" /\ UNCHANGED <<mine, todo, cur, lost>>
    /\ UNCHANGED <<world, client, removers, raised, ghosts, spent>>

-----------------------------------------------------------------------------
\* mutant: the results of the last call are kept
ClearNothing == UNCHANGED results

\* mutant: only what the boards now tracked had is cleared
ClearTracked == results' = [s \in info |-> 0]

ClearResults == results' = [s \in Serials |-> 0]

(* PulseCountClient.evaluate asks twice which boards there are.            *)
Evaluate ==
    /\ pc = "idle"
    /\ info # {}
    /\ Spend(1)
    /\ round' = round + 1
    /\ ClearResults
    /\ remaining' = info
    /\ mine' = info
    /\ pc' = "listing"
    /\ UNCHANGED <<world, info, sockets, awaiting, todo, cur, removers,
                   lost, raised, ghosts>>

ListSerials ==
    /\ pc = "listing"
    /\ todo' = info
    /\ Lose(Serials \ info)
    /\ pc' = "sending"
    /\ UNCHANGED <<world, client, mine, cur, removers, raised, ghosts, spent>>

(* requestBatchWorker: groupby puts boards with equal infos in one request.*)
Group(s) == {r \in todo \intersect info : r = s \/ SameInfo(r, s)}

(* The worker's handler starts a thread per board of the request; their    *)
(* closures share the variable s, which may be at a later board by then.   *)
(* The results go to the holder: for a board whose reservation is over they*)
(* do not come back.                                                       *)
Dispatched(G) == (SUBSET G) \ {{}}

SendGroup(s) ==
    /\ pc = "sending"
    /\ s \in todo \intersect info
    /\ sockets[Host[s]] = "open"
    /\ todo' = todo \ Group(s)
    /\ \E T \in Dispatched(Group(s)) : asked' = asked \union ((T \intersect held) \X {round})
    /\ Lose(Group(s) \ held)
    /\ UNCHANGED <<held, starting, wire, client, pc, mine, cur, removers,
                   raised, ghosts, spent>>

(* A board without info is skipped; one without socket is a failed serial, *)
(* which evaluate does not look at.                                        *)
SkipGroup(s) ==
    /\ pc = "sending"
    /\ s \in todo
    /\ s \in info => sockets[Host[s]] # "open"
    /\ todo' = todo \ {s}
    /\ Lose({s})
    /\ UNCHANGED <<world, client, pc, mine, cur, removers, raised, ghosts, spent>>

(* groupby compares an info with None, or emit finds no connection.        *)
SendRaises ==
    /\ pc = "sending"
    /\ todo # {}
    /\ \/ \E s \in todo \ info : mine # {s}
       \/ \E s \in todo \intersect info : sockets[Host[s]] = "open"
    /\ Return
    /\ raised' = TRUE
    /\ UNCHANGED <<world, client, removers, ghosts, spent>>

CheckRemaining ==
    /\ \/ pc = "sending" /\ todo = {}
       \/ pc = "count"
    /\ pc' = IF remaining = {} THEN "evaluated" ELSE "waiting"
    /\ UNCHANGED <<world, client, mine, todo, cur, removers, history>>

ReturnValues ==
    /\ pc = "evaluated"
    /\ Return
    /\ UNCHANGED <<world, client, removers, raised, ghosts, spent>>

-----------------------------------------------------------------------------
(* Control ends the reservations of S, and announces those of told.        *)
ControlEnds(S, told) ==
    /\ held' = held \ S
    /\ starting' = starting \ S
    /\ asked' = {a \in asked : a[1] \notin S}
    /\ wire' = wire \union {Event("end", s, 0) : s \in told}
    /\ ghosts' = ghosts \union ((info \intersect held \intersect S) \ told)

(* end and endAll.  Control's answer may be lost; or the database's, and   *)
(* then Control.end raises where it would go through the rows of it.       *)
EndRequest(S) ==
    /\ \/ ControlEnds(S, held \intersect S) /\ pc' = "removing" /\ todo' = S /\ UNCHANGED spent
       \/ ControlEnds(S, held \intersect S) /\ pc' = "idle" /\ UNCHANGED todo /\ Spend(1)
       \/ ControlEnds(S, {}) /\ pc' = "idle" /\ UNCHANGED todo /\ Spend(1)
    /\ UNCHANGED <<client, mine, cur, removers, lost, raised>>

End(S) == pc = "idle" /\ S \subseteq held /\ S # {} /\ EndRequest(S)

(* For each board of the answer, removeSerial.                             *)
RemoveEnded ==
    /\ pc = "removing"
    /\ \A r \in removers : r.by # "call"
    /\ \/ \E s \in todo : /\ todo' = todo \ {s}
                          /\ removers' = removers \union {Removal("call", s, "look")}
                          /\ UNCHANGED pc
       \/ todo = {} /\ pc' = "idle" /\ UNCHANGED <<todo, removers>>
    /\ UNCHANGED <<world, client, mine, cur, history>>

(* stop: EventServer.exit closes the sockets in turn; then endAll.         *)
Stop ==
    /\ pc = "idle"
    /\ pc' = "closing"
    /\ UNCHANGED <<world, client, mine, todo, cur, removers, history>>

Opened(w) == sockets[w] = "open"

CloseNext ==
    \/ /\ pc = "closing"
       /\ \E w \in Workers : Opened(w) /\ sockets' = [sockets EXCEPT ![w] = "none"]
       /\ UNCHANGED <<world, info, awaiting, remaining, results, round, caller,
                      removers, history>>
    \/ pc = "closing" /\ (\A w \in Workers : ~Opened(w)) /\ EndRequest(held)

-----------------------------------------------------------------------------
(* BaseClient.removeSerial, of an event or of the caller.                  *)
Become(r, at) == removers' = (removers \ {r}) \union {[r EXCEPT !.at = at]}
Leave(r) == removers' = removers \ {r}

GetInfo(r) ==
    /\ r.at = "look"
    /\ Become(r, IF r.serial \in info THEN "delete" ELSE "drop")
    /\ UNCHANGED <<world, client, caller, history>>

Delete(r) ==
    /\ r.at \in {"delete", "drop"}
    /\ info' = info \ {r.serial}
    /\ Lose({r.serial})
    /\ IF r.at = "delete" THEN Become(r, "using") ELSE Leave(r)
    /\ UNCHANGED <<world, sockets, awaiting, remaining, results, round, caller,
                   raised, ghosts, spent>>

UsingConnection(r) == \E s \in info : SameInfo(s, r.serial)

CheckUsing(r) ==
    /\ r.at = "using"
    /\ IF UsingConnection(r) THEN Leave(r) ELSE Become(r, "close")
    /\ UNCHANGED <<world, client, caller, history>>

(* disconnectWorker leaves a False where it is.                            *)
Disconnect(r) ==
    /\ r.at = "close"
    /\ LET w == Host[r.serial]
       IN IF Opened(w) THEN /\ sockets' = [sockets EXCEPT ![w] = "none"]
                            /\ Lose(Hosted(w))
                       ELSE UNCHANGED <<sockets, lost>>
    /\ Leave(r)
    /\ UNCHANGED <<world, info, awaiting, remaining, results, round, caller,
                   raised, ghosts, spent>>

-----------------------------------------------------------------------------
(* The handlers.  A worker's event comes over the socket to it.            *)
Arrives(e) ==
    /\ e \in wire
    /\ e.type = "end" \/ Opened(Host[e.serial])
    /\ wire' = wire \ {e}
    /\ UNCHANGED <<held, starting, asked>>

\* mutant: nobody is notified
WakeNobody(left, from, to) == pc

(* cond.notify_all, when nothing is left to wait for.                      *)
Wake(left, from, to) == IF left = {} /\ pc = from THEN to ELSE pc

HandleInitialized(e) ==
    /\ e.type = "initialized"
    /\ Arrives(e)
    /\ awaiting' = awaiting \ {e.serial}
    /\ pc' = Wake(awaiting', "blocked", "check")
    /\ Lose(IF pc \in {"adding", "looking", "connecting"} THEN {e.serial} ELSE {})
    /\ UNCHANGED <<info, sockets, remaining, results, round, mine, todo, cur,
                   removers, raised, ghosts, spent>>

\* mutant: a notice that comes during a call is for the call to deal with
HandleNoticeIdle(e) ==
    /\ e.type \in Notices
    /\ Arrives(e)
    /\ removers' = IF pc = "idle" THEN removers \union {Removal("event", e.serial, "look")}
                                  ELSE removers
    /\ UNCHANGED <<client, caller, history>>

HandleNotice(e) ==
    /\ e.type \in Notices
    /\ Cardinality({r \in removers : r.by = "event"}) < MaxHandlers
    /\ Arrives(e)
    /\ removers' = removers \union {Removal("event", e.serial, "look")}
    /\ UNCHANGED <<client, caller, history>>

(* _addResult: list.remove raises for a board that is not waited for.      *)
HandleResults(e) ==
    /\ e.type = "results"
    /\ Arrives(e)
    /\ results' = [results EXCEPT ![e.serial] = e.round]
    /\ remaining' = remaining \ {e.serial}
    /\ pc' = IF e.serial \in remaining THEN Wake(remaining', "waiting", "count") ELSE pc
    /\ UNCHANGED <<info, sockets, awaiting, round, mine, todo, cur, removers, history>>

-----------------------------------------------------------------------------
(* The world.  A worker looks up the holder when it sends.                 *)
Initialized(s) ==
    /\ s \in starting
    /\ starting' = starting \ {s}
    /\ wire' = wire \union {Event("initialized", s, 0)}
    /\ UNCHANGED <<held, asked, client, caller, removers, history>>

Evaluated(s, n) ==
    /\ <<s, n>> \in asked
    /\ asked' = asked \ {<<s, n>>}
    /\ wire' = wire \union {Event("results", s, n)}
    /\ UNCHANGED <<held, starting, client, caller, removers, history>>

(* A reserve request is lost, or the board breaks, which is announced.     *)
BoardFails(s) ==
    /\ s \in held
    /\ Spend(1)
    /\ starting' = starting \ {s}
    /\ asked' = {a \in asked : a[1] # s}
    /\ wire' = wire \union {Event("failure", s, 0)} \/ UNCHANGED wire
    /\ Lose({s})
    /\ UNCHANGED <<held, client, caller, removers, raised, ghosts>>

(* handleWorkerTimeouts announces the reservations its SELECT found and    *)
(* ends those its DELETE finds, with those made in between.                *)
WorkerDies(w) ==
    /\ Spend(1)
    /\ held \intersect Hosted(w) # {}
    /\ \E told \in SUBSET (held \intersect Hosted(w)) : ControlEnds(Hosted(w), told)
    /\ Lose(Hosted(w))
    /\ UNCHANGED <<client, caller, removers, raised>>

-----------------------------------------------------------------------------
Calls ==
    \/ \E S \in SUBSET Serials : Reserve(S) \/ End(S)
    \/ Evaluate \/ Stop

Running ==
    \/ AddSerials \/ ConnectWorker \/ SetAwaiting \/ CheckAwaiting
    \/ \E s \in Serials : LookUp(s) \/ SendGroup(s) \/ SkipGroup(s)
    \/ ListSerials \/ SendRaises \/ CheckRemaining \/ ReturnValues
    \/ RemoveEnded \/ CloseNext

Removing(r) == GetInfo(r) \/ Delete(r) \/ CheckUsing(r) \/ Disconnect(r)

Handle(e) == HandleInitialized(e) \/ HandleNotice(e) \/ HandleResults(e)

Next ==
    \/ Calls \/ Running
    \/ \E r \in removers : Removing(r)
    \/ \E e \in wire : Handle(e)
    \/ \E s \in Serials : \/ Initialized(s) \/ BoardFails(s)
                          \/ \E n \in 1..MaxSpent : Evaluated(s, n)
    \/ \E w \in Workers : WorkerDies(w)

Spec == Init /\ [][Next]_vars

(* Threads run; an event arrives when it can; a board that was asked       *)
(* answers, unless it fails.                                               *)
Answers(s) ==
    \/ Initialized(s) \/ HandleInitialized(Event("initialized", s, 0))
    \/ \E n \in 1..MaxSpent : Evaluated(s, n) \/ HandleResults(Event("results", s, n))

Fairness ==
    /\ WF_vars(Running)
    /\ WF_vars(\E r \in removers : Removing(r))
    /\ \A s \in Serials : WF_vars(Answers(s))

FairSpec == Spec /\ Fairness
-----------------------------------------------------------------------------
(* What a thread that waits needs: an answer that can still reach it, for  *)
(* each board it waits for and has not lost (connectWorker failed, the     *)
(* board or its worker failed, it was removed, or it was initialized before*)
(* waitUntilInitilized).  Events that come between the requests and the    *)
(* wait, and boards of an earlier call, leave no thread asleep for nothing *)
(* (BaseClient.py:28-45, PulseCountClient.py:28-51).                       *)
Answer(s) == CASE pc = "blocked" -> Event("initialized", s, 0)
               [] OTHER -> Event("results", s, round)

AwaitedComes ==
    /\ pc = "blocked" => awaiting # {}
    /\ pc = "waiting" => remaining # {}
    /\ \A s \in (CASE pc = "blocked" -> awaiting [] pc = "waiting" -> remaining
                   [] OTHER -> {}) \ lost :
          /\ Opened(Host[s])
          /\ \/ Answer(s) \in wire
             \/ pc = "blocked" /\ s \in starting
             \/ pc = "waiting" /\ <<s, round>> \in asked

(* evaluate returns the pulses of its own bitstreams, for each board it    *)
(* asked and for no other, whatever came late of earlier calls; unless one *)
(* of these raised with requests out (PulseCountClient.py:38-59).          *)
AnswersOwn ==
    pc = "evaluated" /\ ~raised =>
        results = [s \in Serials |-> IF s \in mine THEN round ELSE 0]

(* A board whose end was announced does not stay in connection_info: until *)
(* it is removed its notice is on its way, a thread removes it, or the     *)
(* caller is about to, whichever of the notices, the threads and the next  *)
(* reservation comes first.  Three kinds of board do stay for good: one    *)
(* whose notice was handled before addSerial (BaseClient.py:20-26,         *)
(* BaseAPI.py:105-108), one reserved while handleWorkerTimeouts ran        *)
(* (V1.1__WorkerProc.sql:71-78), and one whose end was stored but not      *)
(* answered by the database (Control.py:40).                               *)
NoticeUnderWay ==
    \A s \in info \ (held \union ghosts) :
        \/ \E e \in wire : e.serial = s /\ e.type \in Notices
        \/ \E r \in removers : r.serial = s /\ r.at \in {"look", "delete", "drop"}
        \/ pc = "removing" /\ s \in todo

(* The parts of the inductive invariant of these.                          *)
Evaluating == {"listing", "sending", "count", "waiting", "evaluated"}

\* the evaluations are counted
Counted == round <= spent /\ (pc \in Evaluating => round >= 1)

\* only a call of reserve or evaluate is about boards, and loses answers
Called == lost \subseteq mine /\ (pc \in {"idle", "removing", "closing"} => mine = {})

\* what becomes of each board of a reserve
Coming(s) == s \in starting \/ Event("initialized", s, 0) \in wire

Reserving ==
    /\ pc \in {"adding", "looking", "connecting"} => \A s \in mine \ lost : Coming(s)
    /\ pc = "looking" => \A s \in mine \ (lost \union todo) : Opened(Host[s])
    /\ pc = "connecting" =>
          \A s \in mine \ (lost \union todo \union {cur}) : Opened(Host[s])
    /\ pc \in {"check", "blocked"} =>
          awaiting \subseteq mine /\ \A s \in awaiting \ lost : Opened(Host[s]) /\ Coming(s)
    /\ pc = "blocked" => awaiting # {}

\* and of an evaluate
Due(s) == <<s, round>> \in asked \/ Event("results", s, round) \in wire

Answering ==
    /\ pc \in Evaluating => remaining \subseteq mine
    /\ pc = "sending" =>
          \A s \in remaining \ (lost \union todo) : Opened(Host[s]) /\ Due(s)
    /\ pc \in {"waiting", "count"} =>
          \A s \in remaining \ lost : Opened(Host[s]) /\ Due(s)
    /\ pc = "waiting" => remaining # {}

\* unless a call raised, an answer on its way is of this call, and its first
Out(s) == s \in remaining /\ (pc \in {"waiting", "count"} \/ (pc = "sending" /\ s \notin todo))

Owned ==
    /\ \A s \in Serials, n \in 0..MaxSpent :
          /\ <<s, n>> \in asked => n = round /\ Out(s) /\ Event("results", s, n) \notin wire
          /\ Event("results", s, n) \in wire => n = round /\ Out(s)
    /\ pc \in Evaluating =>
          \A s \in Serials : results[s] = IF s \in mine \ remaining THEN round ELSE 0
    /\ pc = "listing" => info \subseteq remaining
    /\ pc = "sending" => todo \subseteq remaining
    /\ pc = "evaluated" => remaining = {}

IInv ==
    /\ TypeOK /\ Counted /\ Called /\ Reserving /\ Answering
    /\ ~raised => Owned
    /\ NoticeUnderWay

(* A call returns, or the answer of one of its boards is lost: then reserve*)
(* and evaluate wait for ever (BaseClient.py:43, PulseCountClient.py:51).  *)
CallsReturn == pc # "idle" ~> pc = "idle" \/ mine \intersect lost # {}

(* "Returns whether a connection is currently in use by a device"          *)
(* (usingConnection, BaseAPI.py:53): an end call does not close the        *)
(* connection that another of its client's boards needs.  (The calls' own  *)
(* removals only: no board is added while one is under way.)               *)
InUseIsSeen ==
    [][\A r \in removers \ removers' :
          r.by = "call" /\ Opened(Host[r.serial]) /\ sockets'[Host[r.serial]] # "open"
              => Hosted(Host[r.serial]) \intersect info \intersect held = {}]_vars
=============================================================================
