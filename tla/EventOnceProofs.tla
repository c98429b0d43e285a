-------------------------- MODULE EventOnceProofs --------------------------
(***************************************************************************)
(* The proof of OnlyOnce of EventSession.  Each message has one place: a   *)
(* queue, the batch of one thread, or nowhere any more; a step moves one   *)
(* message, or the messages of one queue, and leaves the others where they *)
(* are.  Enqueue and a failed emit put a message in a queue, Take moves a  *)
(* queue to an empty batch, Emit takes the first message of a batch.       *)
(***************************************************************************)
EXTENDS EventSessionProofs

(* What a sequence of messages has after the operations of the code.       *)
LEMMA EmptyHas == (\A m : ~Has(<<>>, m)) /\ Distinct(<<>>)
  BY DEF Has, Distinct

LEMMA AppendHas ==
    ASSUME NEW q \in Seq(Messages), NEW x \in Messages
    PROVE  /\ \A m : Has(Append(q, x), m) <=> Has(q, m) \/ m = x
           /\ Distinct(q) /\ ~Has(q, x) => Distinct(Append(q, x))
  <1>1. /\ DOMAIN Append(q, x) = DOMAIN q \union {Len(q) + 1}
        /\ Len(q) + 1 \notin DOMAIN q
        /\ \A i \in DOMAIN q : Append(q, x)[i] = q[i]
        /\ Append(q, x)[Len(q) + 1] = x
    OBVIOUS
  <1>. DEFINE p == Append(q, x)  n == Len(q) + 1
  <1>. HIDE DEF p, n
  <1>2. /\ DOMAIN p = DOMAIN q \union {n} /\ n \notin DOMAIN q
        /\ \A i \in DOMAIN q : p[i] = q[i]
        /\ p[n] = x
    BY <1>1 DEF p, n
  <1>3. \A m : Has(p, m) <=> Has(q, m) \/ m = x
    BY <1>2 DEF Has
  <1>4. Distinct(q) /\ ~Has(q, x) => Distinct(p)
    BY <1>2 DEF Has, Distinct
  <1>. QED BY <1>3, <1>4 DEF p

LEMMA TailHas ==
    ASSUME NEW q \in Seq(Messages), q # <<>>
    PROVE  /\ Head(q) \in Messages /\ Has(q, Head(q))
           /\ \A m : Has(Tail(q), m) => Has(q, m)
           /\ Distinct(q) => Distinct(Tail(q)) /\ ~Has(Tail(q), Head(q))
  <1>1. /\ 1 \in DOMAIN q /\ Head(q) = q[1] /\ Head(q) \in Messages
        /\ \A i \in DOMAIN Tail(q) : /\ i + 1 \in DOMAIN q /\ i + 1 # 1
                                     /\ Tail(q)[i] = q[i + 1]
        /\ \A i, j \in DOMAIN Tail(q) : i + 1 = j + 1 => i = j
    OBVIOUS
  <1>2. Has(q, Head(q)) /\ \A m : Has(Tail(q), m) => Has(q, m)
    BY <1>1 DEF Has
  <1>3. Distinct(q) => Distinct(Tail(q)) /\ ~Has(Tail(q), Head(q))
    BY <1>1 DEF Has, Distinct
  <1>. QED BY <1>1, <1>2, <1>3

-----------------------------------------------------------------------------
OnceInv == OnePlace /\ Elsewhere

Fresh(m) == thread[m].pc \in {"idle", "append"}

(* A step that moves nothing.                                              *)
LEMMA NoMove ==
    ASSUME OnceInv, received' = received,
           \A s \in Sessions : session'[s].queue = session[s].queue,
           \A t \in Threads : /\ thread'[t].batch = thread[t].batch
                              /\ thread'[t].pc = "emit" \/ thread'[t].batch = <<>>,
           \A m \in Messages : Fresh(m)' => Fresh(m)
    PROVE  OnceInv'
  <1>1. /\ \A s \in Sessions : \A m : Queued(s, m)' <=> Queued(s, m)
        /\ \A t \in Threads : \A m : Held(t, m)' <=> Held(t, m)
    BY DEF Queued, Held
  <1>2. OnePlace'
    BY <1>1 DEF OnceInv, OnePlace, Threads
  <1>3. Elsewhere'
    BY <1>1 DEF OnceInv, Elsewhere, Fresh, Threads
  <1>. QED BY <1>2, <1>3 DEF OnceInv

LEMMA EnqueueOnce ==
    ASSUME IInv, OnceInv, NEW x \in Messages, Enqueue(x)
    PROVE  OnceInv'
  <1>. DEFINE z == thread[x].sess  q == session[z].queue
  <1>1. z \in Sessions /\ thread[x].pc = "append" /\ x \in Threads /\ q \in Seq(Messages)
    BY SessionTyped DEF IInv, Engaged, Enqueue, Threads
  <1>2. /\ \A s \in Sessions : session'[s].queue = IF s = z THEN Append(q, x)
                                                   ELSE session[s].queue
        /\ received' = received
    <2>1. session' = [session EXCEPT ![z].queue = Append(@, x)] /\ received' = received
      BY DEF Enqueue
    <2>2. ASSUME NEW s \in Sessions
          PROVE  session'[s].queue = IF s = z THEN Append(q, x) ELSE session[s].queue
      <3>1. session[z] \in Fields /\ session \in [Sessions -> Fields]
        BY <1>1 DEF IInv, TypeOK
      <3>. QED BY <1>1, <2>1, <3>1 DEF Fields
    <2>. QED BY <2>1, <2>2
  <1>3. \A t \in Threads : /\ thread'[t].batch = thread[t].batch
                           /\ thread'[t].pc = IF t = x THEN "flush" ELSE thread[t].pc
    <2>1. thread' = [thread EXCEPT ![x].pc = "flush"] /\ thread \in [Threads -> Locals]
      BY DEF Enqueue, Goto, IInv, TypeOK, Threads
    <2>. QED BY <1>1, <2>1 DEF Locals
  <1>4. /\ received[x] = 0 /\ \A s \in Sessions : ~Queued(s, x)
        /\ \A t \in Threads : ~Held(t, x)
    BY <1>1 DEF OnceInv, Elsewhere, Threads
  <1>. HIDE DEF z, q
  <1>5. /\ \A s \in Sessions : \A m : Queued(s, m)' <=> Queued(s, m) \/ (s = z /\ m = x)
        /\ \A t \in Threads : \A m : Held(t, m)' <=> Held(t, m)
    BY <1>1, <1>2, <1>3, AppendHas DEF Queued, Held, q
  <1>6. \A s \in Sessions : Distinct(session'[s].queue)
    <2>1. Distinct(q) /\ ~Has(q, x)
      BY <1>1, <1>4 DEF OnceInv, OnePlace, Queued, q
    <2>. QED BY <1>1, <1>2, <2>1, AppendHas DEF OnceInv, OnePlace
  <1>7. OnePlace'
    BY <1>1, <1>3, <1>4, <1>5, <1>6 DEF OnceInv, OnePlace, Threads
  <1>8. Elsewhere'
    BY <1>1, <1>2, <1>3, <1>4, <1>5 DEF OnceInv, Elsewhere, Threads
  <1>. QED BY <1>7, <1>8 DEF OnceInv

(* The queue becomes the batch.                                            *)
LEMMA TakeOnce ==
    ASSUME IInv, OnceInv, NEW t \in Threads, Flush(t), Take(t, thread[t].sess)
    PROVE  OnceInv'
  <1>. DEFINE z == thread[t].sess  q == session[z].queue
  <1>1. z \in Sessions /\ thread[t].pc = "flush" /\ received' = received
    BY DEF IInv, Engaged, Flush, Threads
  <1>2. \A s \in Sessions : session'[s].queue = IF s = z THEN <<>> ELSE session[s].queue
    <2>1. session' = [session EXCEPT ![z].queue = <<>>] /\ session \in [Sessions -> Fields]
      BY DEF Take, IInv, TypeOK
    <2>. QED BY <1>1, <2>1 DEF Fields
  <1>3. \A u \in Threads : /\ thread'[u].batch = IF u = t THEN q ELSE thread[u].batch
                           /\ thread'[u].pc = IF u = t THEN "emit" ELSE thread[u].pc
    <2>1. thread' = [thread EXCEPT ![t].pc = "emit", ![t].batch = q, ![t].to = session[z].sock]
          /\ thread \in [Threads -> Locals]
      BY DEF Take, IInv, TypeOK, Threads
    <2>. HIDE DEF q, z
    <2>. QED BY <2>1 DEF Locals
  <1>4. \A m : ~Held(t, m)
    BY <1>1, EmptyHas DEF OnceInv, OnePlace, Held, Threads
  <1>. HIDE DEF z, q
  <1>5. /\ \A s \in Sessions : \A m : Queued(s, m)' <=> Queued(s, m) /\ s # z
        /\ \A u \in Threads : \A m : Held(u, m)' <=> Held(u, m) \/ (u = t /\ Queued(z, m))
    BY <1>1, <1>2, <1>3, <1>4, EmptyHas DEF Queued, Held, q
  <1>6. /\ \A s \in Sessions : Distinct(session'[s].queue)
        /\ \A u \in Threads : Distinct(thread'[u].batch)
    BY <1>1, <1>2, <1>3, EmptyHas DEF OnceInv, OnePlace, q, Threads
  <1>7. OnePlace'
    <2>1. \A u \in Threads : thread'[u].pc # "emit" => thread'[u].batch = <<>>
      BY <1>3 DEF OnceInv, OnePlace, Threads
    <2>. QED BY <1>1, <1>4, <1>5, <1>6, <2>1 DEF OnceInv, OnePlace, Threads
  <1>8. Elsewhere'
    BY <1>1, <1>3, <1>5 DEF OnceInv, Elsewhere, Threads
  <1>. QED BY <1>7, <1>8 DEF OnceInv

(* The first message of a batch is received, or dropped.                   *)
LEMMA EmitOnce ==
    ASSUME IInv, OnceInv, NEW t \in Threads, Emit(t)
    PROVE  OnceInv'
  <1>. DEFINE q == thread[t].batch  rest == Tail(q)
              w == [thread[t] EXCEPT !.batch = rest]
  <1>1. /\ thread[t] \in Locals /\ thread[t].pc = "emit"
        /\ q \in Seq(Messages) /\ q # <<>>
    <2>1. thread[t] \in Locals
      BY DEF IInv, TypeOK, Threads
    <2>. QED BY <2>1 DEF IInv, Engaged, Emit, Threads, Locals
  <1>. PICK x \in Messages : x = Head(q)
    BY <1>1
  <1>2. session' = session
    BY DEF Emit
  <1>3. /\ thread'[t].batch = rest /\ thread'[t].pc \in {"emit", "done"}
        /\ thread'[t].pc = "emit" \/ rest = <<>>
        /\ \A u \in Threads \ {t} : thread'[u] = thread[u]
    <2>1. CASE rest = <<>>
      <3>1. thread' = [thread EXCEPT ![t] = Done]
        BY <2>1 DEF Emit, Proceed
      <3>2. Done.batch = <<>> /\ Done.pc = "done"
        BY DEF Done, Outside
      <3>3. thread'[t] = Done
        BY <3>1 DEF IInv, TypeOK, Threads
      <3>. QED BY <2>1, <3>1, <3>2, <3>3 DEF IInv, TypeOK, Threads
    <2>2. CASE rest # <<>>
      <3>1. thread' = [thread EXCEPT ![t] = w]
        BY <2>2 DEF Emit, Proceed
      <3>2. w.pc = "emit" /\ w.batch = rest
        BY <1>1 DEF Locals
      <3>. HIDE DEF w
      <3>. QED BY <3>1, <3>2 DEF IInv, TypeOK, Threads
    <2>. QED BY <2>1, <2>2
  <1>4. received' = received \/ received' = [received EXCEPT ![x] = @ + 1]
    BY DEF Emit
  <1>. HIDE DEF q, rest, w
  <1>5. /\ x \in Messages /\ Has(q, x) /\ Distinct(q)
        /\ \A m : Has(rest, m) => Has(q, m)
        /\ Distinct(rest) /\ ~Has(rest, x)
    <2>1. Distinct(q)
      BY DEF OnceInv, OnePlace, Threads, q
    <2>. QED BY <1>1, <2>1, TailHas DEF rest
  <1>6. Held(t, x) /\ received[x] = 0 /\ thread[x].pc \notin {"idle", "append"}
    <2>1. Held(t, x)
      BY <1>5 DEF Held, q
    <2>. QED BY <1>5, <2>1 DEF OnceInv, Elsewhere, Threads
  <1>7. /\ \A s \in Sessions : \A m : Queued(s, m)' <=> Queued(s, m)
        /\ \A u \in Threads : \A m : Held(u, m)' => Held(u, m)
        /\ ~Held(t, x)'
    <2>1. \A s \in Sessions : \A m : Queued(s, m)' <=> Queued(s, m)
      BY <1>2 DEF Queued
    <2>2. \A u \in Threads \ {t} : \A m : Held(u, m)' <=> Held(u, m)
      BY <1>3 DEF Held
    <2>3. \A m : Held(t, m)' => Held(t, m)
      BY <1>3, <1>5 DEF Held, q
    <2>4. ~Held(t, x)'
      BY <1>3, <1>5 DEF Held
    <2>. QED BY <2>1, <2>2, <2>3, <2>4
  <1>8. /\ \A u \in Threads \ {t} : ~Held(u, x)
        /\ \A s \in Sessions : ~Queued(s, x)
    BY <1>5, <1>6 DEF OnceInv, OnePlace, Threads
  <1>9. OnePlace'
    <2>1. /\ \A s \in Sessions : Distinct(session'[s].queue)
          /\ \A u \in Threads : Distinct(thread'[u].batch)
      BY <1>2, <1>3, <1>5 DEF OnceInv, OnePlace, Threads
    <2>2. \A u \in Threads : thread'[u].pc # "emit" => thread'[u].batch = <<>>
      BY <1>3 DEF OnceInv, OnePlace, Threads
    <2>. QED BY <1>7, <2>1, <2>2 DEF OnceInv, OnePlace, Threads
  <1>10. Elsewhere'
    <2>1. \A m \in Messages : Fresh(m)' => Fresh(m)
      BY <1>1, <1>3 DEF Fresh, Threads
    <2>2. /\ received'[x] \in {0, 1}
          /\ \A m \in Messages \ {x} : received'[m] = received[m]
      <3>1. received \in [Messages -> Nat]
        BY DEF IInv, TypeOK
      <3>2. CASE received' = received
        BY <1>6, <3>2
      <3>3. CASE received' = [received EXCEPT ![x] = @ + 1]
        <4>1. received'[x] = 1
          BY <1>5, <1>6, <3>1, <3>3
        <4>. QED BY <1>5, <3>1, <3>3, <4>1
      <3>. QED BY <1>4, <3>2, <3>3
    <2>3. ~Fresh(x)'
      <3>1. ~Fresh(x)
        BY <1>6 DEF Fresh
      <3>. QED BY <1>5, <2>1, <3>1
    <2>4. (\A s \in Sessions : ~Queued(s, x)') /\ \A u \in Threads : ~Held(u, x)'
      BY <1>7, <1>8
    <2>5. ASSUME NEW m \in Messages
          PROVE  /\ received'[m] \in {0, 1}
                 /\ thread'[m].pc \in {"idle", "append"} => received'[m] = 0
                 /\ received'[m] = 1 \/ thread'[m].pc \in {"idle", "append"} =>
                       /\ \A s \in Sessions : ~Queued(s, m)'
                       /\ \A u \in Threads : ~Held(u, m)'
      <3>1. CASE m = x
        BY <2>2, <2>3, <2>4, <3>1 DEF Fresh
      <3>2. CASE m # x
        BY <1>7, <2>1, <2>2, <3>2 DEF OnceInv, Elsewhere, Fresh, Threads
      <3>. QED BY <3>1, <3>2
    <2>. QED BY <2>5 DEF Elsewhere, Threads
  <1>. QED BY <1>9, <1>10 DEF OnceInv

(* The first message of a batch goes back, those behind it are forgotten.  *)
LEMMA EmitRaisesOnce ==
    ASSUME IInv, OnceInv, NEW t \in Threads, EmitRaises(t)
    PROVE  OnceInv'
  <1>. DEFINE z == thread[t].sess  b == thread[t].batch  x == Head(b)  q == session[z].queue
  <1>1. /\ z \in Sessions /\ thread[t].pc = "emit" /\ received' = received
        /\ b \in Seq(Messages) /\ b # <<>> /\ q \in Seq(Messages)
    <2>1. thread[t] \in Locals
      BY DEF IInv, TypeOK, Threads
    <2>2. z \in Sessions
      BY DEF IInv, Engaged, EmitRaises, Threads
    <2>. QED BY <2>1, <2>2, SessionTyped DEF IInv, Engaged, EmitRaises, Threads, Locals
  <1>2. \A s \in Sessions : session'[s].queue = IF s = z THEN Append(q, x)
                                                ELSE session[s].queue
    <2>1. session' = [session EXCEPT ![z].queue = Append(@, x)]
      BY DEF EmitRaises
    <2>2. session[z] \in Fields /\ session \in [Sessions -> Fields]
      BY <1>1 DEF IInv, TypeOK
    <2>. HIDE DEF x
    <2>. QED BY <1>1, <2>1, <2>2 DEF Fields
  <1>3. /\ thread'[t].batch = <<>> /\ thread'[t].pc = "done"
        /\ \A u \in Threads \ {t} : thread'[u] = thread[u]
    <2>1. thread' = [thread EXCEPT ![t] = Done]
      BY DEF EmitRaises
    <2>2. Done.batch = <<>> /\ Done.pc = "done"
      BY DEF Done, Outside
    <2>3. thread'[t] = Done
      BY <2>1 DEF IInv, TypeOK, Threads
    <2>. QED BY <2>1, <2>2, <2>3 DEF IInv, TypeOK, Threads
  <1>. HIDE DEF z, b, x, q
  <1>4. x \in Messages /\ Held(t, x)
    BY <1>1, TailHas DEF Held, x, b
  <1>5. /\ \A u \in Threads \ {t} : ~Held(u, x)
        /\ \A s \in Sessions : ~Queued(s, x)
        /\ received[x] = 0 /\ thread[x].pc \notin {"idle", "append"}
    BY <1>4 DEF OnceInv, OnePlace, Elsewhere, Threads
  <1>6. /\ \A s \in Sessions : \A m : Queued(s, m)' <=> Queued(s, m) \/ (s = z /\ m = x)
        /\ \A u \in Threads : \A m : Held(u, m)' <=> Held(u, m) /\ u # t
    BY <1>1, <1>2, <1>3, <1>4, AppendHas, EmptyHas DEF Queued, Held, q
  <1>7. OnePlace'
    <2>1. \A s \in Sessions : Distinct(session'[s].queue)
      <3>1. Distinct(q) /\ ~Has(q, x)
        BY <1>1, <1>5 DEF OnceInv, OnePlace, Queued, q
      <3>. QED BY <1>1, <1>2, <1>4, <3>1, AppendHas DEF OnceInv, OnePlace
    <2>2. \A u \in Threads : /\ Distinct(thread'[u].batch)
                             /\ thread'[u].pc # "emit" => thread'[u].batch = <<>>
      BY <1>3, EmptyHas DEF OnceInv, OnePlace, Threads
    <2>. QED BY <1>5, <1>6, <2>1, <2>2 DEF OnceInv, OnePlace, Threads
  <1>8. Elsewhere'
    <2>1. \A m \in Messages : Fresh(m)' => Fresh(m)
      BY <1>3 DEF Fresh, Threads
    <2>. QED BY <1>1, <1>5, <1>6, <2>1 DEF OnceInv, Elsewhere, Fresh, Threads
  <1>. QED BY <1>7, <1>8 DEF OnceInv

-----------------------------------------------------------------------------
(* The steps that move no message.                                         *)
LEMMA QuietOnce ==
    ASSUME IInv, OnceInv, received' = received,
           \A s \in Sessions : session'[s].queue = session[s].queue,
           NEW t \in Threads, thread[t].pc # "emit",
           thread' = thread \/
               /\ \A u \in Threads \ {t} : thread'[u] = thread[u]
               /\ thread'[t].batch = thread[t].batch
               /\ thread'[t].pc \in {"idle", "append"} => thread[t].pc \in {"idle", "append"}
    PROVE  OnceInv'
  <1>1. thread[t].batch = <<>>
    BY DEF OnceInv, OnePlace, Threads
  <1>2. \A u \in Threads : /\ thread'[u].batch = thread[u].batch
                           /\ thread'[u].pc = "emit" \/ thread'[u].batch = <<>>
    BY <1>1 DEF OnceInv, OnePlace, Threads
  <1>3. \A m \in Messages : Fresh(m)' => Fresh(m)
    BY DEF Fresh, Threads
  <1>. QED BY <1>2, <1>3, NoMove

LEMMA QueuesKept ==
    ASSUME TypeOK, NEW z \in Sessions, NEW r \in Fields,
           session' = [session EXCEPT ![z] = r], r.queue = session[z].queue
    PROVE  \A s \in Sessions : session'[s].queue = session[s].queue
  BY SessionUpdate

LEMMA GotoKeeps ==
    ASSUME TypeOK, NEW t \in Threads, NEW pc \in Phases, Goto(t, pc)
    PROVE  /\ \A u \in Threads \ {t} : thread'[u] = thread[u]
           /\ thread'[t].batch = thread[t].batch /\ thread'[t].pc = pc
  <1>1. thread[t] \in Locals /\ thread \in [Threads -> Locals]
    BY DEF TypeOK, Threads
  <1>2. thread' = [thread EXCEPT ![t].pc = pc]
    BY DEF Goto
  <1>. QED BY <1>1, <1>2 DEF Locals

LEMMA StartSessionOnce ==
    ASSUME IInv, OnceInv, NEW t \in Threads, NEW pc \in {"append", "set"}, StartSession(t, pc),
           thread[t].pc = "idle" \/ (thread[t].pc = "join" /\ pc = "set")
    PROVE  OnceInv'
  <1>1. \A s \in Sessions : session'[s].queue = session[s].queue
    <2>1. CASE session' = session
      BY <2>1
    <2>2. CASE /\ made' \in Sessions
               /\ session' = [session EXCEPT ![made'].timer = TRUE]
      <3>1. session \in [Sessions -> Fields]
        BY DEF IInv, TypeOK
      <3>. QED BY <2>2, <3>1 DEF Fields
    <2>3. made < MaxSessions /\ made' = made + 1 => made' \in Sessions
      BY MaxSessionsAssumption DEF IInv, TypeOK, Sessions
    <2>. QED BY <2>1, <2>2, <2>3 DEF StartSession
  <1>2. /\ \A u \in Threads \ {t} : thread'[u] = thread[u]
        /\ thread'[t].batch = thread[t].batch /\ thread'[t].pc = pc
    <2>1. thread[t] \in Locals /\ thread \in [Threads -> Locals]
      BY DEF IInv, TypeOK, Threads
    <2>2. thread' = [thread EXCEPT ![t].pc = pc, ![t].sess = current']
      BY DEF StartSession
    <2>. QED BY <2>1, <2>2 DEF Locals
  <1>3. received' = received
    BY DEF StartSession
  <1>. QED BY <1>1, <1>2, <1>3, QuietOnce

LEMMA SocketOnce ==
    ASSUME IInv, OnceInv, NEW k \in Sockets, Open(k) \/ SetSocket(k) \/ StopTimeout(k)
    PROVE  OnceInv'
  <1>0. k \in Threads
    BY DEF Threads
  <1>1. CASE Open(k)
    <2>1. thread[k].pc = "idle"
      BY <1>1 DEF IInv, Opened, Open
    <2>2. Goto(k, "join") /\ session' = session /\ received' = received
      BY <1>1 DEF Open
    <2>. QED BY <1>0, <2>1, <2>2, GotoKeeps, QuietOnce DEF IInv, Phases
  <1>2. CASE SetSocket(k)
    <2>. DEFINE z == thread[k].sess  r == [session[z] EXCEPT !.sock = k]
    <2>1. thread[k].pc = "set" /\ z \in Sessions
      BY <1>0, <1>2 DEF SetSocket, IInv, Engaged, Threads
    <2>2. r \in Fields /\ r.queue = session[z].queue
      BY <2>1, SessionTyped DEF IInv, Fields
    <2>3. /\ session' = [session EXCEPT ![z] = r] /\ Goto(k, "cancel")
          /\ received' = received
      BY <1>2 DEF SetSocket
    <2>. HIDE DEF z, r
    <2>4. \A s \in Sessions : session'[s].queue = session[s].queue
      BY <2>1, <2>2, <2>3, QueuesKept DEF IInv
    <2>. QED BY <1>0, <2>1, <2>3, <2>4, GotoKeeps, QuietOnce DEF IInv, Phases
  <1>3. CASE StopTimeout(k)
    <2>. DEFINE z == thread[k].sess  r == [session[z] EXCEPT !.timer = FALSE]
    <2>1. thread[k].pc = "cancel" /\ z \in Sessions
      BY <1>0, <1>3 DEF StopTimeout, IInv, Engaged, Threads
    <2>2. r \in Fields /\ r.queue = session[z].queue
      BY <2>1, SessionTyped DEF IInv, Fields
    <2>3. /\ session' = [session EXCEPT ![z] = r] /\ Goto(k, "flush")
          /\ received' = received
      BY <1>3 DEF StopTimeout
    <2>. HIDE DEF z, r
    <2>4. \A s \in Sessions : session'[s].queue = session[s].queue
      BY <2>1, <2>2, <2>3, QueuesKept DEF IInv
    <2>. QED BY <1>0, <2>1, <2>3, <2>4, GotoKeeps, QuietOnce DEF IInv, Phases
  <1>. QED BY <1>1, <1>2, <1>3

LEMMA FlushOnce ==
    ASSUME IInv, OnceInv, NEW t \in Threads, Flush(t)
    PROVE  OnceInv'
  <1>1. CASE Take(t, thread[t].sess)
    BY <1>1, TakeOnce
  <1>2. CASE thread' = [thread EXCEPT ![t] = Done] /\ session' = session
    <2>1. thread[t].pc = "flush" /\ received' = received
      BY DEF Flush
    <2>2. thread[t].batch = <<>>
      BY <2>1 DEF OnceInv, OnePlace, Threads
    <2>3. Done.batch = <<>> /\ Done.pc = "done"
      BY DEF Done, Outside
    <2>4. thread'[t] = Done /\ \A u \in Threads \ {t} : thread'[u] = thread[u]
      BY <1>2 DEF IInv, TypeOK, Threads
    <2>. QED BY <1>2, <2>1, <2>2, <2>3, <2>4, QuietOnce
  <1>. QED BY <1>1, <1>2 DEF Flush

(* The steps of leavers and timers touch no queue and no thread.           *)
LEMMA StillOnce ==
    ASSUME OnceInv, thread' = thread, received' = received,
           \A s \in Sessions : session'[s].queue = session[s].queue
    PROVE  OnceInv'
  <1>1. \A t \in Threads : thread'[t].pc = "emit" \/ thread'[t].batch = <<>>
    BY DEF OnceInv, OnePlace, Threads
  <1>. QED BY <1>1, NoMove DEF Fresh

LEMMA LeaverOnce ==
    ASSUME IInv, OnceInv, NEW k \in Sockets,
           Close(k) \/ RemoveSocket(k) \/ UnsetSocket(k) \/ StartTimeout(k)
    PROVE  OnceInv'
  <1>0. session \in [Sessions -> Fields]
    BY DEF IInv, TypeOK
  <1>1. CASE Close(k) \/ RemoveSocket(k)
    BY <1>1, StillOnce DEF Close, RemoveSocket
  <1>2. CASE UnsetSocket(k)
    <2>1. leaver[k].sess \in Sessions
      BY <1>2 DEF UnsetSocket, IInv, Engaged
    <2>2. session' = [session EXCEPT ![leaver[k].sess].sock = None]
          /\ thread' = thread /\ received' = received
      BY <1>2 DEF UnsetSocket
    <2>3. \A s \in Sessions : session'[s].queue = session[s].queue
      BY <1>0, <2>1, <2>2 DEF Fields
    <2>. QED BY <2>2, <2>3, StillOnce
  <1>3. CASE StartTimeout(k)
    <2>. DEFINE z == leaver[k].sess
                n == session[z].old + IF session[z].timer THEN 1 ELSE 0
                r == [session[z] EXCEPT !.timer = TRUE, !.old = n]
    <2>1. z \in Sessions
      BY <1>3 DEF StartTimeout, IInv, Engaged
    <2>2. session' = [session EXCEPT ![z] = r]
          /\ thread' = thread /\ received' = received
      BY <1>3 DEF StartTimeout
    <2>3. r \in Fields /\ r.queue = session[z].queue
      <3>1. n \in Nat
        BY <2>1, SessionTyped DEF IInv
      <3>. HIDE DEF n
      <3>. QED BY <2>1, <3>1, SessionTyped DEF IInv, Fields
    <2>. HIDE DEF z, r
    <2>. QED BY <2>1, <2>2, <2>3, QueuesKept, StillOnce DEF IInv
  <1>. QED BY <1>1, <1>2, <1>3

LEMMA TimerOnce ==
    ASSUME IInv, OnceInv, NEW z \in Sessions, Timeout(z) \/ EndSession(z)
    PROVE  OnceInv'
  <1>1. session[z] \in Fields /\ session \in [Sessions -> Fields]
    BY DEF IInv, TypeOK
  <1>2. thread' = thread /\ received' = received
    BY DEF Timeout, EndSession
  <1>3. \A s \in Sessions : session'[s].queue = session[s].queue
    <2>1. CASE session' = [session EXCEPT ![z].timer = FALSE, ![z].firing = @ + 1]
      BY <1>1, <2>1 DEF Fields
    <2>2. CASE session' = [session EXCEPT ![z].old = @ - 1, ![z].firing = @ + 1]
      BY <1>1, <2>2 DEF Fields
    <2>3. CASE session' = [session EXCEPT ![z].firing = @ - 1]
      BY <1>1, <2>3 DEF Fields
    <2>. QED BY <2>1, <2>2, <2>3 DEF Timeout, EndSession
  <1>. QED BY <1>2, <1>3, StillOnce

LEMMA OnceInit == Init => OnceInv
  BY EmptyHas DEF Init, OnceInv, OnePlace, Elsewhere, Queued, Held, Idle, Outside

LEMMA OnceNext == ASSUME IInv, OnceInv, [Next]_vars PROVE OnceInv'
  <1>1. ASSUME NEW m \in Messages, Send(m) PROVE OnceInv'
    BY <1>1, StartSessionOnce DEF Send, Threads
  <1>2. ASSUME NEW k \in Sockets, AddSocket(k) PROVE OnceInv'
    BY <1>2, StartSessionOnce DEF AddSocket, Threads
  <1>3. CASE UNCHANGED vars
    BY <1>3, StillOnce DEF vars
  <1>. QED BY <1>1, <1>2, <1>3, EnqueueOnce, SocketOnce, FlushOnce, EmitOnce, EmitRaisesOnce,
              LeaverOnce, TimerOnce DEF Next, Threads

-----------------------------------------------------------------------------
(* Each message always has one place.                                      *)
THEOREM OncePlaced == Spec => [](OnePlace /\ Elsewhere)
  <1>1. OnceInv <=> OnePlace /\ Elsewhere
    BY DEF OnceInv
  <1>2. Spec => []OnceInv
    BY OnceInit, OnceNext, Inductive, PTL DEF Spec
  <1>. QED BY <1>1, <1>2, PTL

(* A client gets no event twice, over however many sockets and threads     *)
(* (utils/EventSender.py).                                                 *)
THEOREM OnlyOnceHolds == Spec => []OnlyOnce
  <1>1. Elsewhere => OnlyOnce
    BY DEF Elsewhere, OnlyOnce
  <1>. QED BY <1>1, OncePlaced, PTL
=============================================================================
