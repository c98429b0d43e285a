------------------------- MODULE EventSessionProofs -------------------------
(***************************************************************************)
(* Proofs about EventSession for any messages, sockets and number of       *)
(* sessions.                                                               *)
(***************************************************************************)
EXTENDS EventSession, TLAPS

Threads == Messages \union Sockets

(* What NothingStranded says of one session.                               *)
Waiting(s) ==
    /\ ~NothingToDo(s)
    /\ net[session[s].sock] = "open"
    /\ ~(Range(session[s].queue) \subseteq returned)

Flusher(s, t) == thread[t].sess = s /\ thread[t].pc \in {"cancel", "flush"}

LEMMA PerSession ==
    NothingStranded <=> \A s \in Sessions : Waiting(s) => \E t \in Threads : Flusher(s, t)
  BY DEF NothingStranded, Waiting, Flusher, Threads

LEMMA PerSessionNext ==
    NothingStranded' <=>
        \A s \in Sessions : Waiting(s)' => \E t \in Threads : Flusher(s, t)'
  BY DEF NothingStranded, Waiting, Flusher, Threads

(* What a queue holds after a message was put into it.                     *)
LEMMA RangeOfAppend ==
    ASSUME NEW q \in Seq(Messages), NEW m \in Messages
    PROVE  Range(Append(q, m)) = Range(q) \union {m}
  <1>1. DOMAIN Append(q, m) = DOMAIN q \union {Len(q) + 1}
    OBVIOUS
  <1>2. \A i \in DOMAIN q : Append(q, m)[i] = q[i]
    OBVIOUS
  <1>3. Append(q, m)[Len(q) + 1] = m
    OBVIOUS
  <1>. QED BY <1>1, <1>2, <1>3 DEF Range

(* A session that waits after a step waited before, or has the socket or   *)
(* the message that the step gave it; a flusher of it is still one.        *)
LEMMA Stays ==
    ASSUME NothingStranded,
           \A s \in Sessions : Waiting(s)' =>
               \/ \E t \in Threads : Flusher(s, t)'
               \/ Waiting(s) /\ \A t \in Threads : Flusher(s, t) => Flusher(s, t)'
    PROVE  NothingStranded'
  <1>. SUFFICES ASSUME NEW s \in Sessions, Waiting(s)'
                PROVE  \E t \in Threads : Flusher(s, t)'
    BY PerSessionNext
  <1>1. CASE \E t \in Threads : Flusher(s, t)'
    BY <1>1
  <1>2. CASE Waiting(s) /\ \A t \in Threads : Flusher(s, t) => Flusher(s, t)'
    <2>1. PICK t \in Threads : Flusher(s, t)
      BY <1>2, PerSession
    <2>. QED BY <1>2, <2>1
  <1>. QED BY <1>1, <1>2

-----------------------------------------------------------------------------
(* What an update of one session or of one thread does.                    *)
LEMMA SessionTyped ==
    ASSUME TypeOK, NEW s \in Sessions
    PROVE  /\ session[s] \in Fields
           /\ session[s].queue \in Seq(Messages)
           /\ session[s].old \in Nat /\ session[s].firing \in Nat
           /\ session[s].timer \in BOOLEAN
           /\ session[s].sock \in Sockets \union {None}
  <1>1. session[s] \in Fields
    BY DEF TypeOK
  <1>. QED BY <1>1 DEF Fields

LEMMA SessionUpdate ==
    ASSUME TypeOK, NEW s \in Sessions, NEW r \in Fields, session' = [session EXCEPT ![s] = r]
    PROVE  /\ session' \in [Sessions -> Fields]
           /\ session'[s] = r
           /\ \A x \in Sessions \ {s} : session'[x] = session[x]
  BY DEF TypeOK

LEMMA TimerUpdate ==
    ASSUME TypeOK, NEW s \in Sessions, NEW r \in Fields, session' = [session EXCEPT ![s] = r],
           r.sock = session[s].sock, r.queue = session[s].queue
    PROVE  /\ session' \in [Sessions -> Fields]
           /\ \A x \in Sessions : /\ session'[x].sock = session[x].sock
                                  /\ session'[x].queue = session[x].queue
  BY SessionUpdate

LEMMA ThreadUpdate ==
    ASSUME TypeOK, NEW t \in Threads, NEW w \in Locals, thread' = [thread EXCEPT ![t] = w]
    PROVE  /\ thread' \in [Threads -> Locals]
           /\ thread'[t] = w
           /\ \A x \in Threads \ {t} : thread'[x] = thread[x]
  BY DEF TypeOK, Threads

LEMMA GotoDoes ==
    ASSUME TypeOK, NEW t \in Threads, NEW pc \in Phases, Goto(t, pc)
    PROVE  /\ thread' \in [Threads -> Locals]
           /\ thread'[t].pc = pc
           /\ thread'[t].sess = thread[t].sess
           /\ \A x \in Threads \ {t} : thread'[x] = thread[x]
  <1>. DEFINE w == [thread[t] EXCEPT !.pc = pc]
  <1>1. thread[t] \in Locals
    BY DEF TypeOK, Threads
  <1>2. w \in Locals /\ w.pc = pc /\ w.sess = thread[t].sess
    BY <1>1 DEF Locals
  <1>3. thread' = [thread EXCEPT ![t] = w]
    BY DEF Goto
  <1>. HIDE DEF w
  <1>. QED BY <1>2, <1>3, ThreadUpdate

LEMMA DoneDoes ==
    ASSUME TypeOK, NEW t \in Threads, thread' = [thread EXCEPT ![t] = Done]
    PROVE  /\ thread' \in [Threads -> Locals]
           /\ thread'[t].pc = "done"
           /\ \A x \in Threads \ {t} : thread'[x] = thread[x]
  <1>1. Done \in Locals /\ Done.pc = "done"
    BY MaxSessionsAssumption DEF Done, Outside, Locals, Phases
  <1>. QED BY <1>1, ThreadUpdate

-----------------------------------------------------------------------------
(* A step that gives no session a socket or a message, opens no socket and *)
(* ends no flush.                                                          *)
LEMMA Quiet ==
    ASSUME IInv,
           \A s \in Sessions : /\ session'[s].sock = session[s].sock
                               /\ session'[s].queue = session[s].queue,
           \A k \in Sockets : net'[k] = "open" /\ net[k] # "new" => net[k] = "open",
           returned' = returned,
           \A t \in Threads : thread[t].pc \in {"cancel", "flush"} => thread'[t] = thread[t]
    PROVE  NothingStranded'
  <1>1. ASSUME NEW s \in Sessions, Waiting(s)'
        PROVE  Waiting(s) /\ \A t \in Threads : Flusher(s, t) => Flusher(s, t)'
    <2>1. /\ session[s].sock # None /\ session[s].queue # <<>>
          /\ net'[session[s].sock] = "open"
          /\ ~(Range(session[s].queue) \subseteq returned)
      BY <1>1 DEF Waiting, NothingToDo
    <2>2. session[s].sock \in Sockets /\ net[session[s].sock] # "new"
      BY <2>1, SessionTyped DEF IInv, Opened
    <2>3. Waiting(s)
      BY <2>1, <2>2 DEF Waiting, NothingToDo
    <2>4. \A t \in Threads : Flusher(s, t) => Flusher(s, t)'
      BY DEF Flusher
    <2>. QED BY <2>3, <2>4
  <1>. QED BY <1>1, Stays DEF IInv

(* A step of one thread that may change the session objects: what it has   *)
(* to respect for the types, Engaged and Opened.                           *)
LEMMA ThreadStep ==
    ASSUME IInv, NEW t \in Threads,
           current' \in 0..MaxSessions, made' \in 0..MaxSessions,
           session' \in [Sessions -> Fields], thread' \in [Threads -> Locals],
           received' \in [Messages -> Nat], returned' \in SUBSET Messages,
           leaver' = leaver, net' = net,
           \A x \in Threads \ {t} : thread'[x] = thread[x],
           thread'[t].pc \in {"append", "set", "cancel", "flush", "emit"} =>
               thread'[t].sess \in Sessions,
           thread'[t].pc = "emit" => thread'[t].batch # <<>>,
           thread[t].pc # "idle" \/ t \notin Sockets,
           \A s \in Sessions : \/ session'[s].sock \in {None, session[s].sock}
                               \/ session'[s].sock = t /\ t \in Sockets
    PROVE  TypeOK' /\ Engaged' /\ Opened'
  <1>1. TypeOK'
    BY DEF IInv, TypeOK, Threads
  <1>2. Engaged'
    BY DEF IInv, Engaged, Threads
  <1>3. \A k \in Sockets : thread'[k].pc # "idle" => net'[k] # "new"
    BY DEF IInv, Opened, Threads
  <1>4. ASSUME NEW s \in Sessions, session'[s].sock # None
        PROVE  net'[session'[s].sock] # "new"
    BY <1>4 DEF IInv, Opened
  <1>. QED BY <1>1, <1>2, <1>3, <1>4 DEF Opened

-----------------------------------------------------------------------------
(* The steps of startSession.                                              *)
LEMMA StartSessionKeeps ==
    ASSUME IInv, NEW t \in Threads, NEW pc \in {"append", "set"}, StartSession(t, pc),
           thread[t].pc \in {"idle", "join"}, thread[t].pc # "idle" \/ t \notin Sockets
    PROVE  IInv'
  <1>1. /\ current' \in Sessions /\ made' \in 0..MaxSessions
        /\ \/ session' = session
           \/ made' \in Sessions /\ session' = [session EXCEPT ![made'].timer = TRUE]
    BY MaxSessionsAssumption DEF IInv, TypeOK, StartSession, Sessions
  <1>2. /\ session' \in [Sessions -> Fields]
        /\ \A s \in Sessions : /\ session'[s].sock = session[s].sock
                               /\ session'[s].queue = session[s].queue
    <2>1. CASE session' = session
      BY <2>1 DEF IInv, TypeOK
    <2>2. ASSUME NEW s \in Sessions, session' = [session EXCEPT ![s].timer = TRUE]
          PROVE  /\ session' \in [Sessions -> Fields]
                 /\ \A x \in Sessions : /\ session'[x].sock = session[x].sock
                                        /\ session'[x].queue = session[x].queue
      <3>. DEFINE r == [session[s] EXCEPT !.timer = TRUE]
      <3>1. r \in Fields /\ r.sock = session[s].sock /\ r.queue = session[s].queue
        BY SessionTyped DEF IInv, Fields
      <3>2. session' = [session EXCEPT ![s] = r]
        BY <2>2
      <3>. QED BY <3>1, <3>2, TimerUpdate DEF IInv
    <2>. QED BY <1>1, <2>1, <2>2
  <1>3. /\ thread' \in [Threads -> Locals]
        /\ thread'[t].pc = pc
        /\ thread'[t].sess = current'
        /\ \A x \in Threads \ {t} : thread'[x] = thread[x]
    <2>. DEFINE w == [thread[t] EXCEPT !.pc = pc, !.sess = current']
    <2>1. thread[t] \in Locals
      BY DEF IInv, TypeOK, Threads
    <2>2. current' \in 0..MaxSessions /\ pc \in Phases
      BY <1>1 DEF Sessions, Phases
    <2>3. w \in Locals /\ w.pc = pc /\ w.sess = current'
      BY <2>1, <2>2 DEF Locals
    <2>4. thread' = [thread EXCEPT ![t] = w]
      BY DEF StartSession
    <2>. HIDE DEF w
    <2>. QED BY <2>3, <2>4, ThreadUpdate DEF IInv
  <1>4. UNCHANGED <<leaver, net, received, returned>>
    BY DEF StartSession
  <1>5. TypeOK' /\ Engaged' /\ Opened'
    <2>1. /\ received' \in [Messages -> Nat] /\ returned' \in SUBSET Messages
          /\ current' \in 0..MaxSessions
      BY <1>1, <1>4 DEF IInv, TypeOK, Sessions
    <2>. QED BY <1>1, <1>2, <1>3, <1>4, <2>1, ThreadStep
  <1>6. NothingStranded'
    BY <1>2, <1>3, <1>4, Quiet
  <1>. QED BY <1>5, <1>6 DEF IInv

(* The append of send: its thread will flush.                              *)
LEMMA EnqueueKeeps ==
    ASSUME IInv, NEW m \in Messages, Enqueue(m)
    PROVE  IInv'
  <1>. DEFINE z == thread[m].sess
              q == Append(session[z].queue, m)
              r == [session[z] EXCEPT !.queue = q]
  <1>1. z \in Sessions /\ thread[m].pc = "append" /\ m \in Threads /\ m \notin Sockets
    BY SocketAssumption DEF IInv, Engaged, Enqueue, Threads
  <1>2. r \in Fields /\ r.sock = session[z].sock
    <2>1. q \in Seq(Messages)
      BY <1>1, SessionTyped DEF IInv
    <2>. HIDE DEF q
    <2>. QED BY <1>1, <2>1, SessionTyped DEF IInv, Fields
  <1>3. session' = [session EXCEPT ![z] = r] /\ Goto(m, "flush")
    BY DEF Enqueue
  <1>4. UNCHANGED <<current, made, leaver, net, received, returned>>
    BY DEF Enqueue
  <1>. HIDE DEF z, r
  <1>5. /\ session' \in [Sessions -> Fields]
        /\ session'[z] = r
        /\ \A x \in Sessions \ {z} : session'[x] = session[x]
    BY <1>1, <1>2, <1>3, SessionUpdate DEF IInv
  <1>6. /\ thread' \in [Threads -> Locals]
        /\ thread'[m].pc = "flush"
        /\ thread'[m].sess = z
        /\ \A x \in Threads \ {m} : thread'[x] = thread[x]
    BY <1>1, <1>3, GotoDoes DEF IInv, Phases, z
  <1>7. TypeOK' /\ Engaged' /\ Opened'
    BY <1>1, <1>2, <1>4, <1>5, <1>6, ThreadStep DEF IInv, TypeOK
  <1>8. ASSUME NEW s \in Sessions, Waiting(s)'
        PROVE  \/ \E t \in Threads : Flusher(s, t)'
               \/ Waiting(s) /\ \A t \in Threads : Flusher(s, t) => Flusher(s, t)'
    <2>1. CASE s = z
      BY <1>1, <1>6, <2>1 DEF Flusher
    <2>2. CASE s # z
      BY <1>1, <1>4, <1>5, <1>6, <1>8, <2>2 DEF Waiting, NothingToDo, Flusher
    <2>. QED BY <2>1, <2>2
  <1>. QED BY <1>7, <1>8, Stays DEF IInv

(* The steps of a connection.                                              *)
LEMMA OpenKeeps ==
    ASSUME IInv, NEW k \in Sockets, Open(k)
    PROVE  IInv'
  <1>1. thread[k].pc = "idle" /\ k \in Threads
    BY DEF IInv, Opened, Open, Threads
  <1>2. /\ UNCHANGED <<current, made, session, leaver, received, returned>>
        /\ net' = [net EXCEPT ![k] = "open"]
    BY DEF Open
  <1>3. /\ thread' \in [Threads -> Locals]
        /\ thread'[k].pc = "join"
        /\ \A x \in Threads \ {k} : thread'[x] = thread[x]
    BY <1>1, GotoDoes DEF IInv, Phases, Open
  <1>4. net' \in [Sockets -> {"new", "open", "closed"}]
        /\ net'[k] = "open" /\ net[k] = "new"
        /\ \A j \in Sockets \ {k} : net'[j] = net[j]
    BY <1>2 DEF IInv, TypeOK, Open
  <1>5. TypeOK'
    BY <1>2, <1>3, <1>4 DEF IInv, TypeOK, Threads
  <1>6. Engaged'
    BY <1>2, <1>3 DEF IInv, Engaged, Threads
  <1>7. Opened'
    <2>1. \A j \in Sockets : thread'[j].pc # "idle" => net'[j] # "new"
      <3>1. ASSUME NEW j \in Sockets \ {k}, thread'[j].pc # "idle"
            PROVE  net'[j] # "new"
        BY <1>3, <1>4, <3>1 DEF IInv, Opened, Threads
      <3>. QED BY <1>4, <3>1
    <2>2. ASSUME NEW s \in Sessions, session[s].sock # None
          PROVE  net'[session[s].sock] # "new"
      BY <1>4, <2>2, SessionTyped DEF IInv, Opened
    <2>. QED BY <1>2, <2>1, <2>2 DEF Opened
  <1>8. NothingStranded'
    BY <1>1, <1>2, <1>3, <1>4, Quiet
  <1>. QED BY <1>5, <1>6, <1>7, <1>8 DEF IInv

LEMMA SetSocketKeeps ==
    ASSUME IInv, NEW k \in Sockets, SetSocket(k)
    PROVE  IInv'
  <1>. DEFINE z == thread[k].sess
              r == [session[z] EXCEPT !.sock = k]
  <1>1. z \in Sessions /\ thread[k].pc = "set" /\ k \in Threads
    BY DEF IInv, Engaged, SetSocket, Threads
  <1>2. r \in Fields /\ r.sock = k
    BY <1>1, SessionTyped DEF IInv, Fields
  <1>3. session' = [session EXCEPT ![z] = r] /\ Goto(k, "cancel")
    BY DEF SetSocket
  <1>4. UNCHANGED <<current, made, leaver, net, received, returned>>
    BY DEF SetSocket
  <1>. HIDE DEF z, r
  <1>5. /\ session' \in [Sessions -> Fields]
        /\ session'[z] = r
        /\ \A x \in Sessions \ {z} : session'[x] = session[x]
    BY <1>1, <1>2, <1>3, SessionUpdate DEF IInv
  <1>6. /\ thread' \in [Threads -> Locals]
        /\ thread'[k].pc = "cancel"
        /\ thread'[k].sess = z
        /\ \A x \in Threads \ {k} : thread'[x] = thread[x]
    BY <1>1, <1>3, GotoDoes DEF IInv, Phases, z
  <1>7. TypeOK' /\ Engaged' /\ Opened'
    BY <1>1, <1>2, <1>4, <1>5, <1>6, ThreadStep DEF IInv, TypeOK
  <1>8. ASSUME NEW s \in Sessions, Waiting(s)'
        PROVE  \/ \E t \in Threads : Flusher(s, t)'
               \/ Waiting(s) /\ \A t \in Threads : Flusher(s, t) => Flusher(s, t)'
    <2>1. CASE s = z
      BY <1>1, <1>6, <2>1 DEF Flusher
    <2>2. CASE s # z
      BY <1>1, <1>4, <1>5, <1>6, <1>8, <2>2 DEF Waiting, NothingToDo, Flusher
    <2>. QED BY <2>1, <2>2
  <1>. QED BY <1>7, <1>8, Stays DEF IInv

LEMMA StopTimeoutKeeps ==
    ASSUME IInv, NEW k \in Sockets, StopTimeout(k)
    PROVE  IInv'
  <1>. DEFINE z == thread[k].sess
              r == [session[z] EXCEPT !.timer = FALSE]
  <1>1. z \in Sessions /\ thread[k].pc = "cancel" /\ k \in Threads
    BY DEF IInv, Engaged, StopTimeout, Threads
  <1>2. r \in Fields /\ r.sock = session[z].sock /\ r.queue = session[z].queue
    BY <1>1, SessionTyped DEF IInv, Fields
  <1>3. session' = [session EXCEPT ![z] = r] /\ Goto(k, "flush")
    BY DEF StopTimeout
  <1>4. UNCHANGED <<current, made, leaver, net, received, returned>>
    BY DEF StopTimeout
  <1>. HIDE DEF z, r
  <1>5. /\ session' \in [Sessions -> Fields]
        /\ \A x \in Sessions : /\ session'[x].sock = session[x].sock
                               /\ session'[x].queue = session[x].queue
    BY <1>1, <1>2, <1>3, TimerUpdate DEF IInv
  <1>6. /\ thread' \in [Threads -> Locals]
        /\ thread'[k].pc = "flush"
        /\ thread'[k].sess = z
        /\ \A x \in Threads \ {k} : thread'[x] = thread[x]
    BY <1>1, <1>3, GotoDoes DEF IInv, Phases, z
  <1>7. TypeOK' /\ Engaged' /\ Opened'
    BY <1>1, <1>4, <1>5, <1>6, ThreadStep DEF IInv, TypeOK
  <1>8. ASSUME NEW s \in Sessions, Waiting(s)'
        PROVE  Waiting(s) /\ \A t \in Threads : Flusher(s, t) => Flusher(s, t)'
    BY <1>4, <1>5, <1>6, <1>8 DEF Waiting, NothingToDo, Flusher, z
  <1>. QED BY <1>7, <1>8, Stays DEF IInv

-----------------------------------------------------------------------------
(* The steps of flush: after the first, its session has nothing to send or *)
(* no socket.                                                              *)
LEMMA FlushKeeps ==
    ASSUME IInv, NEW t \in Threads, Flush(t)
    PROVE  IInv'
  <1>. DEFINE z == thread[t].sess
              q == <<>>
              r == [session[z] EXCEPT !.queue = q]
              w == [thread[t] EXCEPT !.pc = "emit", !.batch = session[z].queue,
                                     !.to = session[z].sock]
  <1>1. z \in Sessions /\ thread[t].pc = "flush"
    BY DEF IInv, Engaged, Flush, Threads
  <1>2. UNCHANGED <<current, made, leaver, net, received, returned>>
    BY DEF Flush
  <1>3. /\ session' \in [Sessions -> Fields]
        /\ session'[z].queue = <<>> \/ session'[z].sock = None
        /\ session'[z].sock = session[z].sock
        /\ \A x \in Sessions \ {z} : session'[x] = session[x]
    <2>1. CASE NothingToDo(z) /\ session' = session
      BY <1>1, <2>1 DEF NothingToDo, IInv, TypeOK
    <2>2. CASE Take(t, z)
      <3>1. session' = [session EXCEPT ![z] = r]
        BY <2>2 DEF Take
      <3>2. r \in Fields /\ r.queue = q /\ r.sock = session[z].sock
        <4>1. q \in Seq(Messages)
          OBVIOUS
        <4>. HIDE DEF q
        <4>. QED BY <1>1, <4>1, SessionTyped DEF IInv, Fields
      <3>. HIDE DEF r
      <3>. QED BY <1>1, <3>1, <3>2, SessionUpdate DEF IInv
    <2>. QED BY <2>1, <2>2 DEF Flush
  <1>4. /\ thread' \in [Threads -> Locals]
        /\ \/ thread'[t].pc = "done"
           \/ /\ thread'[t].pc = "emit" /\ thread'[t].sess = z
              /\ thread'[t].batch # <<>>
        /\ \A x \in Threads \ {t} : thread'[x] = thread[x]
    <2>1. CASE thread' = [thread EXCEPT ![t] = Done]
      BY <2>1, DoneDoes DEF IInv
    <2>2. CASE ~NothingToDo(z) /\ Take(t, z)
      <3>1. thread' = [thread EXCEPT ![t] = w]
        BY <2>2 DEF Take
      <3>2. thread[t] \in Locals /\ session[z].queue \in Seq(Messages)
            /\ session[z].sock \in Sockets \union {None} /\ "emit" \in Phases
        BY <1>1, SessionTyped DEF IInv, TypeOK, Threads, Phases
      <3>3. w \in Locals /\ w.pc = "emit" /\ w.sess = z /\ w.batch = session[z].queue
        BY <3>2 DEF Locals
      <3>. HIDE DEF w
      <3>. QED BY <2>2, <3>1, <3>3, ThreadUpdate DEF IInv, NothingToDo
    <2>. QED BY <2>1, <2>2 DEF Flush
  <1>5. TypeOK' /\ Engaged' /\ Opened'
    <2>1. \A s \in Sessions : session'[s].sock = session[s].sock
      BY <1>3
    <2>. QED BY <1>1, <1>2, <1>3, <1>4, <2>1, ThreadStep DEF IInv, TypeOK
  <1>6. ASSUME NEW s \in Sessions, Waiting(s)'
        PROVE  Waiting(s) /\ \A x \in Threads : Flusher(s, x) => Flusher(s, x)'
    <2>1. s # z
      BY <1>3, <1>6 DEF Waiting, NothingToDo
    <2>2. Waiting(s)
      BY <1>2, <1>3, <1>6, <2>1 DEF Waiting, NothingToDo
    <2>3. \A x \in Threads : Flusher(s, x) => Flusher(s, x)'
      BY <1>4, <2>1 DEF Flusher
    <2>. QED BY <2>2, <2>3
  <1>. QED BY <1>5, <1>6, Stays DEF IInv

LEMMA EmitKeeps ==
    ASSUME IInv, NEW t \in Threads, Emit(t)
    PROVE  IInv'
  <1>. DEFINE rest == Tail(thread[t].batch)
              w == [thread[t] EXCEPT !.batch = rest]
  <1>1. /\ thread[t] \in Locals /\ thread[t].pc = "emit" /\ thread[t].sess \in Sessions
        /\ thread[t].batch \in Seq(Messages) /\ thread[t].batch # <<>>
    <2>1. thread[t] \in Locals
      BY DEF IInv, TypeOK, Threads
    <2>. QED BY <2>1 DEF IInv, Engaged, Emit, Threads, Locals
  <1>2. rest \in Seq(Messages) /\ Head(thread[t].batch) \in Messages
    BY <1>1
  <1>3. /\ thread' \in [Threads -> Locals]
        /\ \/ thread'[t].pc = "done"
           \/ /\ thread'[t].pc = "emit" /\ thread'[t].sess = thread[t].sess
              /\ thread'[t].batch # <<>>
        /\ \A x \in Threads \ {t} : thread'[x] = thread[x]
    <2>1. CASE rest = <<>>
      <3>1. thread' = [thread EXCEPT ![t] = Done]
        BY <2>1 DEF Emit, Proceed
      <3>. QED BY <3>1, DoneDoes DEF IInv
    <2>2. CASE rest # <<>>
      <3>1. thread' = [thread EXCEPT ![t] = w]
        BY <2>2 DEF Emit, Proceed
      <3>2. w \in Locals /\ w.pc = "emit" /\ w.sess = thread[t].sess /\ w.batch = rest
        BY <1>1, <1>2 DEF Locals
      <3>. HIDE DEF w
      <3>. QED BY <2>2, <3>1, <3>2, ThreadUpdate DEF IInv
    <2>. QED BY <2>1, <2>2
  <1>4. UNCHANGED <<current, made, session, leaver, net, returned>>
    BY DEF Emit
  <1>5. received' \in [Messages -> Nat]
    <2>. DEFINE h == Head(thread[t].batch)
                n == received[h] + 1
    <2>1. h \in Messages /\ n \in Nat
      BY <1>2 DEF IInv, TypeOK
    <2>2. received' = [received EXCEPT ![h] = n] \/ received' = received
      BY DEF Emit
    <2>. HIDE DEF h, n
    <2>. QED BY <2>1, <2>2 DEF IInv, TypeOK
  <1>6. TypeOK' /\ Engaged' /\ Opened'
    BY <1>1, <1>3, <1>4, <1>5, ThreadStep DEF IInv, TypeOK
  <1>7. NothingStranded'
    BY <1>1, <1>3, <1>4, Quiet
  <1>. QED BY <1>6, <1>7 DEF IInv

LEMMA EmitRaisesKeeps ==
    ASSUME IInv, NEW t \in Threads, EmitRaises(t)
    PROVE  IInv'
  <1>. DEFINE z == thread[t].sess
              m == Head(thread[t].batch)
              q == Append(session[z].queue, m)
              r == [session[z] EXCEPT !.queue = q]
  <1>1. thread[t].pc = "emit" /\ z \in Sessions /\ thread[t].batch # <<>>
    BY DEF IInv, Engaged, EmitRaises, Threads
  <1>2. m \in Messages
    <2>1. thread[t] \in Locals
      BY DEF IInv, TypeOK, Threads
    <2>. QED BY <1>1, <2>1 DEF Locals
  <1>3. /\ session' = [session EXCEPT ![z] = r]
        /\ thread' = [thread EXCEPT ![t] = Done]
        /\ returned' = returned \union {m}
    BY DEF EmitRaises
  <1>4. UNCHANGED <<current, made, leaver, net, received>>
    BY DEF EmitRaises
  <1>. HIDE DEF m
  <1>5. r \in Fields /\ r.sock = session[z].sock /\ r.queue = q
    <2>1. q \in Seq(Messages)
      BY <1>1, <1>2, SessionTyped DEF IInv
    <2>. HIDE DEF q
    <2>. QED BY <1>1, <2>1, SessionTyped DEF IInv, Fields
  <1>. HIDE DEF z, r
  <1>6. /\ session' \in [Sessions -> Fields]
        /\ session'[z] = r
        /\ \A x \in Sessions \ {z} : session'[x] = session[x]
    BY <1>1, <1>3, <1>5, SessionUpdate DEF IInv
  <1>7. /\ thread' \in [Threads -> Locals]
        /\ thread'[t].pc = "done"
        /\ \A x \in Threads \ {t} : thread'[x] = thread[x]
    BY <1>3, DoneDoes DEF IInv
  <1>8. TypeOK' /\ Engaged' /\ Opened'
    <2>1. \A s \in Sessions : session'[s].sock = session[s].sock
      BY <1>5, <1>6
    <2>. QED BY <1>1, <1>2, <1>3, <1>4, <1>6, <1>7, <2>1, ThreadStep DEF IInv, TypeOK
  <1>9. ASSUME NEW s \in Sessions, Waiting(s)'
        PROVE  Waiting(s) /\ \A x \in Threads : Flusher(s, x) => Flusher(s, x)'
    <2>1. \A x \in Threads : Flusher(s, x) => Flusher(s, x)'
      BY <1>1, <1>7 DEF Flusher
    <2>2. CASE s # z
      BY <1>3, <1>4, <1>6, <1>9, <2>1, <2>2 DEF Waiting, NothingToDo
    <2>3. CASE s = z
      <3>1. session[z].queue \in Seq(Messages)
        BY <1>1, SessionTyped DEF IInv
      <3>2. Range(session'[z].queue) = Range(session[z].queue) \union {m}
        BY <1>2, <1>5, <1>6, <3>1, RangeOfAppend
      <3>3. ~(Range(session[z].queue) \subseteq returned)
        BY <1>3, <1>9, <2>3, <3>2 DEF Waiting
      <3>4. session[z].queue # <<>>
        BY <3>3 DEF Range
      <3>. QED BY <1>4, <1>5, <1>6, <1>9, <2>1, <2>3, <3>3, <3>4 DEF Waiting, NothingToDo
    <2>. QED BY <2>2, <2>3
  <1>. QED BY <1>8, <1>9, Stays DEF IInv

-----------------------------------------------------------------------------
(* The steps of a disconnection, and the timers, which change no thread:   *)
(* what they have to respect for the types, Engaged and Opened.            *)
LEMMA OtherStep ==
    ASSUME IInv,
           current' \in 0..MaxSessions, session' \in [Sessions -> Fields],
           leaver' \in [Sockets -> [pc: {"idle", "unset", "arm", "done"}, sess: 0..MaxSessions]],
           net' \in [Sockets -> {"new", "open", "closed"}],
           UNCHANGED <<made, thread, received, returned>>,
           \A k \in Sockets : leaver'[k].pc \in {"unset", "arm"} => leaver'[k].sess \in Sessions,
           \A k \in Sockets : net[k] # "new" => net'[k] # "new",
           \A s \in Sessions : session'[s].sock \in {None, session[s].sock}
    PROVE  TypeOK' /\ Engaged' /\ Opened'
  <1>1. TypeOK'
    BY DEF IInv, TypeOK
  <1>2. Engaged'
    BY DEF IInv, Engaged
  <1>3. \A k \in Sockets : thread'[k].pc # "idle" => net'[k] # "new"
    BY DEF IInv, Opened
  <1>4. ASSUME NEW s \in Sessions, session'[s].sock # None
        PROVE  net'[session'[s].sock] # "new"
    BY <1>4, SessionTyped DEF IInv, Opened
  <1>. QED BY <1>1, <1>2, <1>3, <1>4 DEF Opened

LEMMA CloseKeeps ==
    ASSUME IInv, NEW k \in Sockets, Close(k)
    PROVE  IInv'
  <1>1. /\ net' \in [Sockets -> {"new", "open", "closed"}]
        /\ \A j \in Sockets : net[j] # "new" => net'[j] # "new"
        /\ \A j \in Sockets : net'[j] = "open" => net[j] = "open"
    BY DEF Close, IInv, TypeOK
  <1>2. UNCHANGED <<current, made, session, thread, leaver, received, returned>>
    BY DEF Close
  <1>3. TypeOK' /\ Engaged' /\ Opened'
    BY <1>1, <1>2, OtherStep DEF IInv, TypeOK, Engaged
  <1>4. NothingStranded'
    BY <1>1, <1>2, Quiet
  <1>. QED BY <1>3, <1>4 DEF IInv

LEMMA RemoveSocketKeeps ==
    ASSUME IInv, NEW k \in Sockets, RemoveSocket(k)
    PROVE  IInv'
  <1>1. UNCHANGED <<current, made, session, thread, net, received, returned>>
    BY DEF RemoveSocket
  <1>2. current \in 0..MaxSessions /\ (current # 0 => current \in Sessions)
    BY MaxSessionsAssumption DEF IInv, TypeOK, Sessions
  <1>3. /\ leaver' \in [Sockets -> [pc: {"idle", "unset", "arm", "done"}, sess: 0..MaxSessions]]
        /\ \A j \in Sockets : leaver'[j].pc \in {"unset", "arm"} => leaver'[j].sess \in Sessions
    BY <1>2 DEF RemoveSocket, IInv, TypeOK, Engaged
  <1>4. TypeOK' /\ Engaged' /\ Opened'
    BY <1>1, <1>3, OtherStep DEF IInv, TypeOK
  <1>5. NothingStranded'
    BY <1>1, Quiet
  <1>. QED BY <1>4, <1>5 DEF IInv

LEMMA UnsetSocketKeeps ==
    ASSUME IInv, NEW k \in Sockets, UnsetSocket(k)
    PROVE  IInv'
  <1>. DEFINE z == leaver[k].sess
              r == [session[z] EXCEPT !.sock = None]
  <1>1. z \in Sessions /\ leaver[k].pc = "unset"
    BY DEF IInv, Engaged, UnsetSocket
  <1>2. r \in Fields /\ r.sock = None
    BY <1>1, SessionTyped DEF IInv, Fields
  <1>3. session' = [session EXCEPT ![z] = r]
    BY DEF UnsetSocket
  <1>4. UNCHANGED <<current, made, thread, net, received, returned>>
    BY DEF UnsetSocket
  <1>5. /\ leaver' \in [Sockets -> [pc: {"idle", "unset", "arm", "done"}, sess: 0..MaxSessions]]
        /\ \A j \in Sockets : leaver'[j].pc \in {"unset", "arm"} => leaver'[j].sess \in Sessions
    BY <1>1 DEF UnsetSocket, IInv, TypeOK, Engaged
  <1>. HIDE DEF z, r
  <1>6. /\ session' \in [Sessions -> Fields]
        /\ session'[z] = r
        /\ \A x \in Sessions \ {z} : session'[x] = session[x]
    BY <1>1, <1>2, <1>3, SessionUpdate DEF IInv
  <1>7. TypeOK' /\ Engaged' /\ Opened'
    BY <1>2, <1>4, <1>5, <1>6, OtherStep DEF IInv, TypeOK
  <1>8. ASSUME NEW s \in Sessions, Waiting(s)'
        PROVE  Waiting(s) /\ \A t \in Threads : Flusher(s, t) => Flusher(s, t)'
    <2>1. s # z
      BY <1>2, <1>6, <1>8 DEF Waiting, NothingToDo
    <2>. QED BY <1>4, <1>6, <1>8, <2>1 DEF Waiting, NothingToDo, Flusher
  <1>. QED BY <1>7, <1>8, Stays DEF IInv

LEMMA StartTimeoutKeeps ==
    ASSUME IInv, NEW k \in Sockets, StartTimeout(k)
    PROVE  IInv'
  <1>. DEFINE z == leaver[k].sess
              n == session[z].old + IF session[z].timer THEN 1 ELSE 0
              r == [session[z] EXCEPT !.timer = TRUE, !.old = n]
  <1>1. z \in Sessions
    BY DEF IInv, Engaged, StartTimeout
  <1>2. session[z] \in Fields /\ n \in Nat
    BY <1>1, SessionTyped DEF IInv
  <1>3. session' = [session EXCEPT ![z] = r]
    BY DEF StartTimeout
  <1>. HIDE DEF n
  <1>4. r \in Fields /\ r.sock = session[z].sock /\ r.queue = session[z].queue
    BY <1>2 DEF Fields
  <1>. HIDE DEF r
  <1>5. /\ session' \in [Sessions -> Fields]
        /\ \A x \in Sessions : /\ session'[x].sock = session[x].sock
                               /\ session'[x].queue = session[x].queue
    BY <1>1, <1>3, <1>4, TimerUpdate DEF IInv
  <1>6. /\ leaver' \in [Sockets -> [pc: {"idle", "unset", "arm", "done"}, sess: 0..MaxSessions]]
        /\ \A j \in Sockets : leaver'[j].pc \in {"unset", "arm"} => leaver'[j].sess \in Sessions
    BY MaxSessionsAssumption DEF StartTimeout, IInv, TypeOK, Engaged
  <1>7. UNCHANGED <<current, made, thread, net, received, returned>>
    BY DEF StartTimeout
  <1>8. TypeOK' /\ Engaged' /\ Opened'
    BY <1>5, <1>6, <1>7, OtherStep DEF IInv, TypeOK
  <1>9. NothingStranded'
    BY <1>5, <1>7, Quiet
  <1>. QED BY <1>8, <1>9 DEF IInv

LEMMA TimerKeeps ==
    ASSUME IInv, NEW z \in Sessions, Timeout(z) \/ EndSession(z)
    PROVE  IInv'
  <1>. DEFINE f == session[z].firing + 1
              a == [session[z] EXCEPT !.timer = FALSE, !.firing = f]
              o == session[z].old - 1
              b == [session[z] EXCEPT !.old = o, !.firing = f]
              g == session[z].firing - 1
              c == [session[z] EXCEPT !.firing = g]
  <1>1. session[z] \in Fields /\ f \in Nat
        /\ (session[z].old > 0 => o \in Nat) /\ (session[z].firing > 0 => g \in Nat)
    BY SessionTyped DEF IInv
  <1>2. \/ session' = [session EXCEPT ![z] = a]
        \/ session' = [session EXCEPT ![z] = b] /\ session[z].old > 0
        \/ session' = [session EXCEPT ![z] = c] /\ session[z].firing > 0
    BY DEF Timeout, EndSession
  <1>. HIDE DEF f, o, g
  <1>3. /\ a \in Fields /\ a.sock = session[z].sock /\ a.queue = session[z].queue
        /\ session[z].old > 0 =>
             b \in Fields /\ b.sock = session[z].sock /\ b.queue = session[z].queue
        /\ session[z].firing > 0 =>
             c \in Fields /\ c.sock = session[z].sock /\ c.queue = session[z].queue
    BY <1>1 DEF Fields
  <1>. HIDE DEF a, b, c
  <1>4. /\ session' \in [Sessions -> Fields]
        /\ \A x \in Sessions : /\ session'[x].sock = session[x].sock
                               /\ session'[x].queue = session[x].queue
    BY <1>2, <1>3, TimerUpdate DEF IInv
  <1>5. UNCHANGED <<made, thread, leaver, net, received, returned>> /\ current' \in {current, 0}
    BY DEF Timeout, EndSession
  <1>6. TypeOK' /\ Engaged' /\ Opened'
    BY <1>4, <1>5, OtherStep, MaxSessionsAssumption DEF IInv, TypeOK, Engaged
  <1>7. NothingStranded'
    BY <1>4, <1>5, Quiet
  <1>. QED BY <1>6, <1>7 DEF IInv

-----------------------------------------------------------------------------
(* IInv holds of every behaviour: no thread leaves an event in the queue   *)
(* of a session that has an open socket, unless a failed emit put it back. *)
THEOREM Inductive == Spec => []IInv
  <1>1. Init => IInv
    <2>. SUFFICES ASSUME Init PROVE IInv
      OBVIOUS
    <2>1. TypeOK
      BY MaxSessionsAssumption DEF Init, TypeOK, Idle, Outside, Fields, Locals, Phases
    <2>. QED BY <2>1, SocketAssumption
          DEF Init, IInv, Engaged, Opened, NothingStranded, NothingToDo, Idle, Outside
  <1>2. IInv /\ [Next]_vars => IInv'
    <2>. SUFFICES ASSUME IInv, [Next]_vars PROVE IInv'
      OBVIOUS
    <2>1. ASSUME NEW m \in Messages, Send(m) PROVE IInv'
      <3>1. m \notin Sockets
        BY SocketAssumption
      <3>. QED BY <2>1, <3>1, StartSessionKeeps DEF Send, Threads
    <2>2. ASSUME NEW k \in Sockets, AddSocket(k) PROVE IInv'
      BY <2>2, StartSessionKeeps DEF AddSocket, Threads
    <2>3. CASE UNCHANGED vars
      BY <2>3 DEF vars, IInv, TypeOK, Engaged, Opened, NothingStranded, NothingToDo
    <2>. QED BY <2>1, <2>2, <2>3, EnqueueKeeps, OpenKeeps, SetSocketKeeps, StopTimeoutKeeps,
                FlushKeeps, EmitKeeps, EmitRaisesKeeps, CloseKeeps, RemoveSocketKeeps,
                UnsetSocketKeeps, StartTimeoutKeeps, TimerKeeps DEF Next, Threads
  <1>. QED BY <1>1, <1>2, PTL DEF Spec

(* Sessions, queues and threads keep their types; the counts of timers     *)
(* never go below zero.                                                    *)
THEOREM TypeCorrect == Spec => []TypeOK
  BY Inductive, PTL DEF IInv

(* Send and connect never miss each other: an event in the queue of a      *)
(* connected session has a thread that will flush it.                      *)
THEOREM NothingStrandedHolds == Spec => []NothingStranded
  BY Inductive, PTL DEF IInv
=============================================================================
