---------------------------- MODULE EventSession ----------------------------
(***************************************************************************)
(* The event sessions of one client: utils/EventSender.py, as the handlers *)
(* of control/app.py and worker/app.py drive it.                           *)
(*                                                                         *)
(* Sends, socket connections and disconnections, and timers run in threads *)
(* of their own.  EventSender.lock and Session.lock are held for single    *)
(* statements only, so a thread's steps are what it does under one lock,   *)
(* and the emit of a message, which is done outside.  Each message is sent *)
(* once, and each socket connects and disconnects once.                    *)
(*                                                                         *)
(* The network is external: a client opens and closes sockets, a message   *)
(* to a closed socket is dropped or raises.                                *)
(***************************************************************************)
EXTENDS Naturals, Sequences, Functions

CONSTANTS
    Messages,       \* events sent to the client
    Sockets,        \* its connections, by sid
    None,           \* no socket
    MaxSessions     \* bound: Session objects made for the client

ASSUME SocketAssumption == None \notin Sockets /\ Messages \intersect Sockets = {}
ASSUME MaxSessionsAssumption == MaxSessions \in Nat

Sessions == 1..MaxSessions

VARIABLES
    current,        \* EventSender.sessions[client_id], 0 when there is none
    made,           \* Session objects made so far
    session,        \* their fields and timers
    thread,         \* the threads that send, and those that connect
    leaver,         \* the threads that disconnect
    net,            \* the sockets (external)
    received,       \* how often the client got each message (external)
    returned        \* messages a failed emit put back (history)

vars == <<current, made, session, thread, leaver, net, received, returned>>

Outside(pc) == [pc |-> pc, sess |-> 0, batch |-> <<>>, to |-> None]
Idle == Outside("idle")
Done == Outside("done")

Phases == {"idle", "join", "append", "set", "cancel", "flush", "emit", "done"}

Fields == [sock: Sockets \union {None},     \* sock_id
           queue: Seq(Messages),            \* message_queue
           timer: BOOLEAN,                  \* self.timeout is running
           old: Nat,                        \* timers it was before
           firing: Nat]                     \* timers past their time

Locals == [pc: Phases, sess: 0..MaxSessions,
           batch: Seq(Messages),            \* messages of flush
           to: Sockets \union {None}]       \* sock_id of flush

TypeOK ==
    /\ current \in 0..MaxSessions
    /\ made \in 0..MaxSessions
    /\ session \in [Sessions -> Fields]
    /\ thread \in [Messages \union Sockets -> Locals]
    /\ leaver \in [Sockets -> [pc: {"idle", "unset", "arm", "done"}, sess: 0..MaxSessions]]
    /\ net \in [Sockets -> {"new", "open", "closed"}]
    /\ received \in [Messages -> Nat]
    /\ returned \in SUBSET Messages

Init ==
    /\ current = 0
    /\ made = 0
    /\ session = [s \in Sessions |-> [sock |-> None, queue |-> <<>>, timer |-> FALSE,
                                      old |-> 0, firing |-> 0]]
    /\ thread = [t \in Messages \union Sockets |-> Idle]
    /\ leaver = [k \in Sockets |-> [pc |-> "idle", sess |-> 0]]
    /\ net = [k \in Sockets |-> "new"]
    /\ received = [m \in Messages |-> 0]
    /\ returned = {}

-----------------------------------------------------------------------------
Goto(t, pc) == thread' = [thread EXCEPT ![t].pc = pc]

(* EventSender.startSession; a new Session starts its timer.               *)
StartSession(t, pc) ==
    /\ \/ current # 0 /\ UNCHANGED <<current, made, session>>
       \/ /\ current = 0 /\ made < MaxSessions
          /\ made' = made + 1
          /\ current' = made'
          /\ session' = [session EXCEPT ![made'].timer = TRUE]
    /\ thread' = [thread EXCEPT ![t].pc = pc, ![t].sess = current']
    /\ UNCHANGED <<leaver, net, received, returned>>

(* sendClient: the session first, then its queue.                          *)
Send(m) == thread[m].pc = "idle" /\ StartSession(m, "append")

Enqueue(m) ==
    /\ thread[m].pc = "append"
    /\ session' = [session EXCEPT ![thread[m].sess].queue = Append(@, m)]
    /\ Goto(m, "flush")
    /\ UNCHANGED <<current, made, leaver, net, received, returned>>

(* A connection: addSocket, and the three steps of setSocket.              *)
Open(k) ==
    /\ net[k] = "new"
    /\ net' = [net EXCEPT ![k] = "open"]
    /\ Goto(k, "join")
    /\ UNCHANGED <<current, made, session, leaver, received, returned>>

AddSocket(k) == thread[k].pc = "join" /\ StartSession(k, "set")

SetSocket(k) ==
    /\ thread[k].pc = "set"
    /\ session' = [session EXCEPT ![thread[k].sess].sock = k]
    /\ Goto(k, "cancel")
    /\ UNCHANGED <<current, made, leaver, net, received, returned>>

\* mutant: what was queued before the connection is not flushed
StopTimeoutOnly(k) ==
    /\ thread[k].pc = "cancel"
    /\ session' = [session EXCEPT ![thread[k].sess].timer = FALSE]
    /\ thread' = [thread EXCEPT ![k] = Done]
    /\ UNCHANGED <<current, made, leaver, net, received, returned>>

(* A timer that is past its time can no longer be cancelled.               *)
StopTimeout(k) ==
    /\ thread[k].pc = "cancel"
    /\ session' = [session EXCEPT ![thread[k].sess].timer = FALSE]
    /\ Goto(k, "flush")
    /\ UNCHANGED <<current, made, leaver, net, received, returned>>

(* flush: the messages and the socket are taken under the lock.            *)
NothingToDo(s) == session[s].queue = <<>> \/ session[s].sock = None

\* mutant: flush leaves the messages in the queue until they are sent
TakeCopy(t, s) ==
    /\ thread' = [thread EXCEPT ![t].pc = "emit", ![t].batch = session[s].queue,
                                ![t].to = session[s].sock]
    /\ UNCHANGED session

Take(t, s) ==
    /\ thread' = [thread EXCEPT ![t].pc = "emit", ![t].batch = session[s].queue,
                                ![t].to = session[s].sock]
    /\ session' = [session EXCEPT ![s].queue = <<>>]

Flush(t) ==
    /\ thread[t].pc = "flush"
    /\ LET s == thread[t].sess
       IN \/ /\ NothingToDo(s)
             /\ thread' = [thread EXCEPT ![t] = Done]
             /\ UNCHANGED session
          \/ ~NothingToDo(s) /\ Take(t, s)
    /\ UNCHANGED <<current, made, leaver, net, received, returned>>

(* The loop of flush goes on after a message that was sent or dropped.     *)
Proceed(t) ==
    LET rest == Tail(thread[t].batch)
    IN thread' = [thread EXCEPT ![t] = IF rest = <<>> THEN Done ELSE [@ EXCEPT !.batch = rest]]

Emit(t) ==
    /\ thread[t].pc = "emit"
    /\ \/ /\ net[thread[t].to] = "open"
          /\ received' = [received EXCEPT ![Head(thread[t].batch)] = @ + 1]
          /\ Proceed(t)
       \/ /\ net[thread[t].to] = "closed"
          /\ UNCHANGED received
          /\ Proceed(t)
    /\ UNCHANGED <<current, made, session, leaver, net, returned>>

(* An exception puts its message back and forgets those behind it.         *)
EmitRaises(t) ==
    /\ thread[t].pc = "emit"
    /\ net[thread[t].to] = "closed"
    /\ LET m == Head(thread[t].batch)
       IN /\ session' = [session EXCEPT ![thread[t].sess].queue = Append(@, m)]
          /\ returned' = returned \union {m}
    /\ thread' = [thread EXCEPT ![t] = Done]
    /\ UNCHANGED <<current, made, leaver, net, received>>

-----------------------------------------------------------------------------
(* A disconnection, handled some time after the socket closed: removeSocket*)
(* of the session the client has by then, whatever socket that one has.    *)
Close(k) ==
    /\ net[k] = "open"
    /\ net' = [net EXCEPT ![k] = "closed"]
    /\ UNCHANGED <<current, made, session, thread, leaver, received, returned>>

RemoveSocket(k) ==
    /\ net[k] = "closed"
    /\ leaver[k].pc = "idle"
    /\ leaver' = [leaver EXCEPT ![k] = [pc |-> IF current = 0 THEN "done" ELSE "unset",
                                        sess |-> current]]
    /\ UNCHANGED <<current, made, session, thread, net, received, returned>>

UnsetSocket(k) ==
    /\ leaver[k].pc = "unset"
    /\ session' = [session EXCEPT ![leaver[k].sess].sock = None]
    /\ leaver' = [leaver EXCEPT ![k].pc = "arm"]
    /\ UNCHANGED <<current, made, thread, net, received, returned>>

(* startTimeout does not cancel the timer it replaces.                     *)
StartTimeout(k) ==
    /\ leaver[k].pc = "arm"
    /\ LET s == leaver[k].sess
       IN session' = [session EXCEPT ![s].timer = TRUE,
                                     ![s].old = @ + IF session[s].timer THEN 1 ELSE 0]
    /\ leaver' = [leaver EXCEPT ![k] = [pc |-> "done", sess |-> 0]]
    /\ UNCHANGED <<current, made, thread, net, received, returned>>

(* Timers: the time is over, and then endSession, which takes the session  *)
(* of that name, be it another one.                                        *)
\* mutant: a timer that was never started
TimeoutOfNone(s) ==
    /\ session' = [session EXCEPT ![s].old = @ - 1, ![s].firing = @ + 1]
    /\ UNCHANGED <<current, made, thread, leaver, net, received, returned>>

Timeout(s) ==
    /\ \/ /\ session[s].timer
          /\ session' = [session EXCEPT ![s].timer = FALSE, ![s].firing = @ + 1]
       \/ /\ session[s].old > 0
          /\ session' = [session EXCEPT ![s].old = @ - 1, ![s].firing = @ + 1]
    /\ UNCHANGED <<current, made, thread, leaver, net, received, returned>>

EndSession(s) ==
    /\ session[s].firing > 0
    /\ session' = [session EXCEPT ![s].firing = @ - 1]
    /\ current' = 0
    /\ UNCHANGED <<made, thread, leaver, net, received, returned>>

Next ==
    \/ \E m \in Messages : Send(m) \/ Enqueue(m)
    \/ \E k \in Sockets : \/ Open(k) \/ AddSocket(k) \/ SetSocket(k) \/ StopTimeout(k)
                          \/ Close(k) \/ RemoveSocket(k) \/ UnsetSocket(k) \/ StartTimeout(k)
    \/ \E t \in Messages \union Sockets : Flush(t) \/ Emit(t) \/ EmitRaises(t)
    \/ \E s \in Sessions : Timeout(s) \/ EndSession(s)

Spec == Init /\ [][Next]_vars

-----------------------------------------------------------------------------
(* A client gets no event twice, although several threads flush the same   *)
(* queue to its old and its new socket and put back what they could not    *)
(* send.                                                                   *)
OnlyOnce == \A m \in Messages : received[m] <= 1

(* No event waits in the queue of a session with an open socket unless a   *)
(* thread is about to flush it: a send that finds no socket and a          *)
(* connection that finds no message never miss each other.  Only what a    *)
(* failed emit put back may wait for the next send.                        *)
NothingStranded ==
    \A s \in Sessions :
        /\ ~NothingToDo(s)
        /\ net[session[s].sock] = "open"
        /\ ~(Range(session[s].queue) \subseteq returned)
        => \E t \in Messages \union Sockets :
              thread[t].sess = s /\ thread[t].pc \in {"cancel", "flush"}

(* The parts of the inductive invariant of NothingStranded.                *)
\* a thread that works on a session has one, and one that emits has messages
Engaged ==
    /\ \A t \in Messages \union Sockets :
          /\ thread[t].pc \in {"append", "set", "cancel", "flush", "emit"} =>
                thread[t].sess \in Sessions
          /\ thread[t].pc = "emit" => thread[t].batch # <<>>
    /\ \A k \in Sockets : leaver[k].pc \in {"unset", "arm"} => leaver[k].sess \in Sessions

\* a session's socket, and one that a thread handles, was opened
Opened ==
    /\ \A k \in Sockets : thread[k].pc # "idle" => net[k] # "new"
    /\ \A s \in Sessions : session[s].sock # None => net[session[s].sock] # "new"

IInv == TypeOK /\ Engaged /\ Opened /\ NothingStranded

(* The parts of the inductive invariant of OnlyOnce.                       *)
Has(q, m) == \E i \in DOMAIN q : q[i] = m
Distinct(q) == \A i, j \in DOMAIN q : q[i] = q[j] => i = j

Queued(s, m) == Has(session[s].queue, m)
Held(t, m) == Has(thread[t].batch, m)

\* a message is once in one queue, or in the batch of one thread that emits
OnePlace ==
    /\ \A s \in Sessions : Distinct(session[s].queue)
    /\ \A t \in Messages \union Sockets :
          /\ Distinct(thread[t].batch)
          /\ thread[t].pc # "emit" => thread[t].batch = <<>>
    /\ \A m \in Messages :
          /\ \A s, r \in Sessions : Queued(s, m) /\ Queued(r, m) => s = r
          /\ \A t, u \in Messages \union Sockets : Held(t, m) /\ Held(u, m) => t = u
          /\ \A s \in Sessions, t \in Messages \union Sockets : ~(Queued(s, m) /\ Held(t, m))

\* one that was received, or that send has yet to append, is in neither
Elsewhere ==
    \A m \in Messages :
        /\ received[m] \in {0, 1}
        /\ thread[m].pc \in {"idle", "append"} => received[m] = 0
        /\ received[m] = 1 \/ thread[m].pc \in {"idle", "append"} =>
              /\ \A s \in Sessions : ~Queued(s, m)
              /\ \A t \in Messages \union Sockets : ~Held(t, m)

(* Session.startTimeout ends a session with "client did not connect in     *)
(* time".  No timer of a session runs out while the session has an open    *)
(* socket whose setSocket has stopped the timeout.                         *)
TimeoutsOnlyUnconnected ==
    [][\A s \in Sessions : session'[s].firing > session[s].firing =>
         \/ session[s].sock = None
         \/ net[session[s].sock] = "closed"
         \/ thread[session[s].sock].pc = "cancel"]_vars
=============================================================================
