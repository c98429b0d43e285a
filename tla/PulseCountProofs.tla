------------------------- MODULE PulseCountProofs -------------------------
(***************************************************************************)
(* Proofs about PulseCount, for any requests that share no bitstream, any  *)
(* lengths of files and any size of the buffers.                           *)
(*                                                                         *)
(* IInv says where a bitstream can be: in one place, together with those   *)
(* of its request.  Only the host's steps move a bitstream; the Reader and *)
(* the firmware, its watchdog included, decide which of them it takes.     *)
(* OwnInv adds, until a watchdog runs out, that one bitstream is under way *)
(* between thread and firmware: its chunks, or the one message with its    *)
(* pulses.                                                                 *)
(***************************************************************************)
EXTENDS PulseCount, FiniteSetTheorems, TLAPS

LEMMA EmptyHas == (\A b : ~Has(<<>>, b)) /\ Distinct(<<>>)
  BY DEF Has, Distinct

LEMMA AppendHas ==
    ASSUME NEW S, NEW q \in Seq(S), NEW x \in S
    PROVE  /\ Append(q, x) \in Seq(S)
           /\ \A b : Has(Append(q, x), b) <=> Has(q, b) \/ b = x
           /\ Distinct(q) /\ ~Has(q, x) => Distinct(Append(q, x))
  <1>1. /\ DOMAIN Append(q, x) = DOMAIN q \union {Len(q) + 1}
        /\ Len(q) + 1 \notin DOMAIN q
        /\ \A i \in DOMAIN q : Append(q, x)[i] = q[i]
        /\ Append(q, x)[Len(q) + 1] = x
    OBVIOUS
  <1>. DEFINE p == Append(q, x)  n == Len(q) + 1
  <1>. HIDE DEF p, n
  <1>2. /\ DOMAIN p = DOMAIN q \union {n} /\ n \notin DOMAIN q
        /\ \A i \in DOMAIN q : p[i] = q[i]
        /\ p[n] = x
    BY <1>1 DEF p, n
  <1>3. \A b : Has(p, b) <=> Has(q, b) \/ b = x
    BY <1>2 DEF Has
  <1>4. Distinct(q) /\ ~Has(q, x) => Distinct(p)
    BY <1>2 DEF Has, Distinct
  <1>. QED BY <1>3, <1>4 DEF p

(* The order in which the files of a request are queued has each once.     *)
LEMMA OrderHas ==
    ASSUME NEW R, IsFiniteSet(R), NEW order \in SetToSeqs(R)
    PROVE  /\ order \in Seq(R) /\ Distinct(order)
           /\ \A b : Has(order, b) <=> b \in R
  <1>. DEFINE n == Cardinality(R)
  <1>1. /\ order \in [1..n -> R]
        /\ \A i, j \in 1..n : i # j => order[i] # order[j]
    BY DEF SetToSeqs
  <1>2. n \in Nat
    BY FS_CardinalityType
  <1>3. Cardinality(1..n) = n
    BY <1>2, FS_Interval
  <1>. HIDE DEF n
  <1>4. order \in Injection(1..n, R)
    BY <1>1 DEF Injection, IsInjective
  <1>5. order \in Surjection(1..n, R)
    BY <1>3, <1>4, FS_Injection DEF n
  <1>6. DOMAIN order = 1..n /\ \A b \in R : \E i \in 1..n : order[i] = b
    BY <1>1, <1>5 DEF Surjection
  <1>7. order \in Seq(R)
    BY <1>1, <1>2
  <1>. QED BY <1>1, <1>6, <1>7 DEF Has, Distinct

LEMMA ConcatHas ==
    ASSUME NEW S, NEW q \in Seq(S), NEW r \in Seq(S)
    PROVE  /\ q \o r \in Seq(S)
           /\ \A b : Has(q \o r, b) <=> Has(q, b) \/ Has(r, b)
           /\ Distinct(q) /\ Distinct(r) /\ (\A b : ~(Has(q, b) /\ Has(r, b)))
                => Distinct(q \o r)
  <1>. DEFINE p == q \o r
  <1>1. /\ p \in Seq(S) /\ Len(q) \in Nat /\ Len(r) \in Nat
        /\ DOMAIN p = 1..(Len(q) + Len(r)) /\ DOMAIN q = 1..Len(q) /\ DOMAIN r = 1..Len(r)
        /\ \A i \in 1..Len(q) : p[i] = q[i]
        /\ \A i \in 1..Len(r) : p[Len(q) + i] = r[i]
    OBVIOUS
  <1>. HIDE DEF p
  <1>2. \A i \in DOMAIN p : \/ i \in DOMAIN q /\ p[i] = q[i]
                            \/ /\ i - Len(q) \in DOMAIN r /\ p[i] = r[i - Len(q)]
                               /\ i > Len(q)
    <2>1. ASSUME NEW i \in DOMAIN p, i > Len(q)
          PROVE  i - Len(q) \in DOMAIN r /\ p[i] = r[i - Len(q)]
      <3>1. i - Len(q) \in 1..Len(r) /\ Len(q) + (i - Len(q)) = i
        BY <1>1, <2>1
      <3>. QED BY <1>1, <3>1
    <2>. QED BY <1>1, <2>1
  <1>3. \A b : Has(p, b) => Has(q, b) \/ Has(r, b)
    BY <1>2 DEF Has
  <1>4. \A b : Has(q, b) => Has(p, b)
    BY <1>1 DEF Has
  <1>5. \A b : Has(r, b) => Has(p, b)
    <2>1. \A i \in DOMAIN r : Len(q) + i \in DOMAIN p
      BY <1>1
    <2>. QED BY <1>1, <2>1 DEF Has
  <1>6. ASSUME Distinct(q), Distinct(r), \A b : ~(Has(q, b) /\ Has(r, b))
        PROVE  Distinct(p)
    <2>. SUFFICES ASSUME NEW i \in DOMAIN p, NEW j \in DOMAIN p, p[i] = p[j]
                  PROVE  i = j
      BY DEF Distinct
    <2>1. CASE i \in DOMAIN q /\ p[i] = q[i] /\ j \in DOMAIN q /\ p[j] = q[j]
      BY <1>6, <2>1 DEF Distinct
    <2>2. CASE /\ i - Len(q) \in DOMAIN r /\ p[i] = r[i - Len(q)]
               /\ j - Len(q) \in DOMAIN r /\ p[j] = r[j - Len(q)]
      <3>1. i - Len(q) = j - Len(q)
        BY <1>6, <2>2 DEF Distinct
      <3>. QED BY <1>1, <3>1
    <2>3. CASE i \in DOMAIN q /\ p[i] = q[i] /\ j - Len(q) \in DOMAIN r /\ p[j] = r[j - Len(q)]
      BY <1>6, <2>3 DEF Has
    <2>4. CASE j \in DOMAIN q /\ p[j] = q[j] /\ i - Len(q) \in DOMAIN r /\ p[i] = r[i - Len(q)]
      BY <1>6, <2>4 DEF Has
    <2>. QED BY <1>2, <2>1, <2>2, <2>3, <2>4
  <1>. QED BY <1>1, <1>3, <1>4, <1>5, <1>6 DEF p

(* What pop leaves.                                                        *)
LEMMA PopHas ==
    ASSUME NEW S, NEW q \in Seq(S), q # <<>>
    PROVE  /\ Last(q) \in S /\ Front(q) \in Seq(S)
           /\ \A b : Has(q, b) => Has(Front(q), b) \/ b = Last(q)
           /\ \A b : Has(Front(q), b) => Has(q, b)
           /\ Has(q, Last(q))
           /\ Distinct(q) => Distinct(Front(q)) /\ ~Has(Front(q), Last(q))
  <1>. DEFINE n == Len(q)  p == SubSeq(q, 1, Len(q) - 1)
  <1>1. /\ n \in Nat /\ n # 0 /\ DOMAIN q = 1..n /\ q[n] \in S
        /\ p \in Seq(S) /\ DOMAIN p = 1..(n - 1)
        /\ \A i \in 1..(n - 1) : p[i] = q[i]
    OBVIOUS
  <1>2. Last(q) = q[n] /\ Front(q) = p
    BY DEF Last, Front
  <1>. HIDE DEF p, n
  <1>3. n \in DOMAIN q /\ n \notin DOMAIN p /\ \A i \in DOMAIN q : i = n \/ i \in DOMAIN p
    BY <1>1
  <1>4. \A i \in DOMAIN p : i \in DOMAIN q /\ p[i] = q[i]
    BY <1>1
  <1>5. /\ \A b : Has(q, b) => Has(p, b) \/ b = q[n]
        /\ \A b : Has(p, b) => Has(q, b)
        /\ Has(q, q[n])
    BY <1>3, <1>4 DEF Has
  <1>6. Distinct(q) => Distinct(p) /\ ~Has(p, q[n])
    BY <1>3, <1>4 DEF Has, Distinct
  <1>. QED BY <1>1, <1>2, <1>5, <1>6

-----------------------------------------------------------------------------
(* Types.  Reading: each pattern finds the first of its messages.          *)
USE DEF HostTypes, ReaderTypes, FirmwareTypes

LEMMA Least ==
    ASSUME NEW T \in SUBSET Nat, T # {}
    PROVE  \E x \in T : \A y \in T : x <= y
  <1>1. \E x \in T : \A y \in T : ~(<<y, x>> \in OpToRel(<, Nat))
    BY WFMin, NatLessThanWellFounded
  <1>2. ASSUME NEW x \in T, NEW y \in T, y < x PROVE <<y, x>> \in OpToRel(<, Nat)
    <2>1. <<y, x>> \in Nat \X Nat /\ <<y, x>>[1] < <<y, x>>[2]
      BY <1>2
    <2>. QED BY <2>1, Zenon DEF OpToRel
  <1>3. \A x, y \in T : x <= y \/ y < x
    OBVIOUS
  <1>. QED BY <1>1, <1>2, <1>3

LEMMA FirstTypes ==
    ASSUME NEW data \in Seq(Messages), NEW S
    PROVE  First(data, S) \in Seq(Messages)
  <1>. DEFINE at == {i \in DOMAIN data : data[i] \in S}
              i == CHOOSE i \in at : \A j \in at : i <= j
  <1>1. CASE at = {}
    BY <1>1 DEF First
  <1>2. CASE at # {}
    <2>1. at \subseteq Nat
      OBVIOUS
    <2>2. \E k \in at : \A j \in at : k <= j
      BY <1>2, <2>1, Least
    <2>3. i \in at
      BY <2>2
    <2>4. data[i] \in Messages
      BY <2>3
    <2>5. First(data, S) = <<data[i]>>
      BY <1>2 DEF First
    <2>. HIDE DEF i
    <2>. QED BY <2>4, <2>5
  <1>. QED BY <1>1, <1>2

LEMMA MatchesTypes ==
    ASSUME NEW data \in Seq(Messages)
    PROVE  Matches(data) \in Seq(Messages)
  <1>1. /\ First(data, Values) \in Seq(Messages)
        /\ First(data, {"watchdog"}) \in Seq(Messages)
        /\ First(data, {"waiting"}) \in Seq(Messages)
    BY FirstTypes
  <1>. QED BY <1>1 DEF Matches

LEMMA CutTypes ==
    ASSUME NEW data \in Seq(Messages), data # <<>>, NEW c \in Cut(data)
    PROVE  c \in Seq(Messages)
  <1>1. Front(data) \in Seq(Messages)
    BY PopHas
  <1>2. Mixed \in Messages
    BY DEF Messages, Values
  <1>3. Append(Front(data), Mixed) \in Seq(Messages)
    BY <1>1, <1>2
  <1>. QED BY <1>1, <1>3 DEF Cut

LEMMA ReadTypes == ASSUME TypeOK, Read PROVE TypeOK'
  <1>1. PICK n \in 1..Len(line) :
          /\ line' = SubSeq(line, n + 1, Len(line))
          /\ \/ found' = Matches(SubSeq(line, 1, n)) /\ UNCHANGED cut
             \/ /\ \E data \in Cut(SubSeq(line, 1, n)) : found' = Matches(data)
                /\ cut' = TRUE
    BY DEF Read
  <1>2. line \in Seq(Messages)
    BY DEF TypeOK
  <1>. DEFINE head == SubSeq(line, 1, n)
  <1>3. head \in Seq(Messages) /\ head # <<>> /\ line' \in Seq(Messages)
    BY <1>1, <1>2
  <1>. HIDE DEF head
  <1>4. found' \in Seq(Messages) /\ cut' \in BOOLEAN
    <2>1. CASE found' = Matches(head) /\ UNCHANGED cut
      BY <1>3, <2>1, MatchesTypes DEF TypeOK
    <2>2. CASE (\E data \in Cut(head) : found' = Matches(data)) /\ cut' = TRUE
      BY <1>3, <2>2, CutTypes, MatchesTypes
    <2>. QED BY <1>1, <2>1, <2>2 DEF head
  <1>5. UNCHANGED <<host, ready, last_pulse, firmware, usb, barked>>
    BY DEF Read
  <1>. QED BY <1>3, <1>4, <1>5 DEF TypeOK, host, firmware

LEMMA MatchTypes == ASSUME TypeOK, Match PROVE TypeOK'
  <1>1. found \in Seq(Messages) /\ found # <<>>
    BY DEF TypeOK, Match
  <1>2. Head(found) \in Messages /\ Tail(found) \in Seq(Messages)
    BY <1>1
  <1>3. found' \in Seq(Messages) /\ ready' \in BOOLEAN
        /\ last_pulse' \in Values \union {None, "watchdog"}
    BY <1>2 DEF Match, TypeOK, Messages
  <1>. QED BY <1>3 DEF Match, TypeOK, host, firmware, wires, history

LEMMA FirmwareKeepsTypes ==
    ASSUME TypeOK, StartTransfer \/ Receive \/ Watchdog \/ FlashFPGA PROVE TypeOK'
  <1>. DEFINE Chunks == Bitstreams \X Nat
  <1>1. usb # <<>> => Head(usb) \in Chunks /\ Tail(usb) \in Seq(Chunks)
    BY DEF TypeOK
  <1>2. Take /\ usb # <<>> => usb' \in Seq(Chunks) /\ buffer' \in Seq(Chunks)
    <2>. SUFFICES ASSUME Take, usb # <<>> PROVE usb' \in Seq(Chunks) /\ buffer' \in Seq(Chunks)
      OBVIOUS
    <2>. HIDE DEF Chunks
    <2>1. buffer \in Seq(Chunks)
      BY DEF TypeOK, Chunks
    <2>. QED BY <1>1, <2>1 DEF Take
  <1>3. /\ <<>> \in Seq(Chunks)
        /\ Measured \in Messages /\ "waiting" \in Messages /\ "watchdog" \in Messages
    BY DEF Measured, Messages, Values
  <1>4. /\ line \o <<"watchdog", "waiting">> \in Seq(Messages)
        /\ line \o <<"watchdog">> \in Seq(Messages)
        /\ line \o <<Measured, "waiting">> \in Seq(Messages)
    <2>1. line \in Seq(Messages)
      BY DEF TypeOK
    <2>. QED BY <1>3, <2>1
  <1>. HIDE DEF Chunks
  <1>5. CASE StartTransfer
    BY <1>3, <1>5 DEF StartTransfer, TypeOK, host, reader, wires, history, Chunks
  <1>6. CASE Receive
    <2>1. usb' \in Seq(Chunks) /\ buffer' \in Seq(Chunks) /\ board' \in {"transfer", "flash"}
      BY <1>2, <1>6 DEF Receive
    <2>. QED BY <1>6, <2>1 DEF Receive, TypeOK, host, reader, history, Chunks
  <1>7. CASE Watchdog
    <2>1. usb' \in Seq(Chunks) /\ buffer' \in Seq(Chunks) /\ board' \in {"wait", "flash"}
      BY <1>2, <1>7 DEF Watchdog, TypeOK, AfterWatchdog, Chunks
    <2>2. line' \in Seq(Messages) /\ barked' \in BOOLEAN
      BY <1>4, <1>7 DEF Watchdog
    <2>3. UNCHANGED <<host, reader, cut>>
      BY <1>7 DEF Watchdog
    <2>. QED BY <2>1, <2>2, <2>3 DEF TypeOK, host, reader, Chunks
  <1>8. CASE FlashFPGA
    BY <1>4, <1>8 DEF FlashFPGA, TypeOK, host, reader, history
  <1>. QED BY <1>5, <1>6, <1>7, <1>8

LEMMA InitTypes == Init => TypeOK
  <1>. SUFFICES ASSUME Init PROVE TypeOK
    OBVIOUS
  <1>1. line \in Seq(Messages)
    BY DEF Init, Messages
  <1>2. results \in [Bitstreams -> Values \union {None}]
    BY DEF Init, Nothing
  <1>3. /\ queue = <<>> /\ events = <<>> /\ found = <<>> /\ buffer = <<>> /\ usb = <<>>
        /\ exiting \in BOOLEAN /\ ready \in BOOLEAN /\ cut \in BOOLEAN /\ barked \in BOOLEAN
    BY DEF Init
  <1>4. /\ asked = {} /\ pc = "pop" /\ current = None /\ result = None /\ sent = 0
        /\ last_pulse = None /\ board = "wait"
    BY DEF Init
  <1>5. HostTypes
    BY <1>2, <1>3, <1>4
  <1>6. ReaderTypes
    BY <1>1, <1>3, <1>4
  <1>7. FirmwareTypes
    BY <1>3, <1>4
  <1>. QED BY <1>5, <1>6, <1>7 DEF TypeOK

LEMMA HostKeepsTypes ==
    ASSUME TypeOK, Working, Run \/ Exit \/ \E R \in Requests : Queue(R) PROVE TypeOK'
  <1>0. TypeOK' <=> HostTypes' /\ ReaderTypes' /\ FirmwareTypes'
    BY DEF TypeOK
  <1>1. ASSUME NEW R \in Requests, Queue(R) PROVE TypeOK'
    <2>1. queue' \in Seq(Bitstreams)
      <3>1. PICK order \in SetToSeqs(R) : queue' = queue \o order
        BY <1>1 DEF Queue, Queued
      <3>2. R \subseteq Bitstreams
        BY DEF Bitstreams
      <3>3. order \in Seq(Bitstreams)
        BY <3>1, <3>2, OrderHas, RequestsAssumption
      <3>. QED BY <3>1, <3>3 DEF TypeOK
    <2>. QED BY <1>1, <2>1 DEF Queue, TypeOK, reader, firmware, wires, history
  <1>2. CASE Pop
    <2>1. current' \in Bitstreams /\ queue' \in Seq(Bitstreams)
      BY <1>2, PopHas DEF Pop, TypeOK
    <2>. QED BY <1>2, <2>1 DEF Pop, TypeOK, reader, firmware, wires, history
  <1>3. CASE End
    BY <1>3 DEF End, TypeOK, reader, firmware, wires, history
  <1>4. CASE WaitUntilReady
    BY <1>4 DEF WaitUntilReady, TypeOK, firmware, wires, history
  <1>5. CASE Upload
    <2>1. current \in Bitstreams /\ sent + 1 \in Nat
      BY <1>5 DEF Upload, Working, TypeOK
    <2>2. usb' \in Seq(Bitstreams \X Nat)
      BY <1>5, <2>1 DEF Upload, TypeOK
    <2>. QED BY <1>5, <2>1, <2>2 DEF Upload, TypeOK, reader, firmware, history
  <1>6. CASE WaitUntilPulse
    BY <1>6 DEF WaitUntilPulse, Taken, TypeOK, firmware, wires, history
  <1>7. CASE Requeue
    <2>1. current \in Bitstreams
      BY <1>7 DEF Requeue, Working, TypeOK
    <2>2. queue' \in Seq(Bitstreams)
      BY <1>7, <2>1 DEF Requeue, TypeOK
    <2>. QED BY <1>7, <2>2 DEF Requeue, TypeOK, reader, firmware, wires, history
  <1>8. CASE Store
    BY <1>8 DEF Store, TypeOK, reader, firmware, wires, history
  <1>9. CASE Send
    <2>1. /\ events' \in Seq([Bitstreams -> Values \union {None}])
          /\ results' \in [Bitstreams -> Values \union {None}]
      <3>. DEFINE Results == [Bitstreams -> Values \union {None}]
      <3>1. Nothing \in Results /\ results \in Results /\ events \in Seq(Results)
        BY DEF Nothing, TypeOK
      <3>. HIDE DEF Results
      <3>2. events' \in Seq(Results) /\ results' \in Results
        BY <1>9, <3>1 DEF Send
      <3>. QED BY <3>2 DEF Results
    <2>. QED BY <1>9, <2>1 DEF Send, TypeOK, reader, firmware, wires, history
  <1>10. CASE Exit
    BY <1>10 DEF Exit, TypeOK, reader, firmware, wires, history
  <1>. QED BY <1>1, <1>2, <1>3, <1>4, <1>5, <1>6, <1>7, <1>8, <1>9, <1>10 DEF Run

-----------------------------------------------------------------------------
(* The places of the bitstreams.                                           *)
Parts == Working /\ OnePlace /\ Together

(* A step that moves none.                                                 *)
LEMMA QuietStep ==
    ASSUME IInv, Working', UNCHANGED <<asked, queue, current, results, events>>
    PROVE  Parts'
  <1>1. \A b : Pending(b)' <=> Pending(b)
    BY DEF Pending
  <1>2. OnePlace'
    BY <1>1 DEF IInv, OnePlace
  <1>3. Together'
    BY <1>1 DEF IInv, Together
  <1>. QED BY <1>2, <1>3 DEF Parts

(* A step after which the same bitstreams are pending, elsewhere.          *)
LEMMA MoveStep ==
    ASSUME IInv, Working', Distinct(queue'), UNCHANGED <<asked, events>>,
           \A b \in Bitstreams :
               /\ Pending(b)' <=> Pending(b)
               /\ Has(queue', b) => current' # b /\ results'[b] = None
               /\ current' = b => results'[b] = None
    PROVE  Parts'
  <1>1. OnePlace'
    BY DEF IInv, OnePlace
  <1>2. Together'
    <2>1. \A R \in asked : \A b \in R : b \in Bitstreams
      BY DEF IInv, TypeOK, Bitstreams
    <2>. QED BY <2>1 DEF IInv, Together
  <1>. QED BY <1>1, <1>2 DEF Parts

LEMMA NoneIsNoBitstream == \A b \in Bitstreams : b # None
  BY NamesAssumption

LEMMA QueueStep ==
    ASSUME IInv, NEW R \in Requests, Queue(R)
    PROVE  Parts'
  <1>1. PICK order \in SetToSeqs(R) : queue' = queue \o order
    BY DEF Queue, Queued
  <1>2. R \subseteq Bitstreams /\ R \notin asked /\ asked \subseteq Requests
    BY DEF Bitstreams, Queue, IInv, TypeOK
  <1>3. /\ order \in Seq(R) /\ Distinct(order) /\ \A b : Has(order, b) <=> b \in R
    BY OrderHas, RequestsAssumption
  <1>4. order \in Seq(Bitstreams) /\ queue \in Seq(Bitstreams)
    BY <1>2, <1>3 DEF IInv, TypeOK
  <1>5. \A b \in R : b \notin UNION asked
    BY <1>2, RequestsAssumption
  <1>6. \A b \in R : ~Pending(b) /\ \A i \in DOMAIN events : events[i][b] = None
    BY <1>2, <1>5 DEF IInv, Together
  <1>7. /\ asked' = asked \union {R}
        /\ UNCHANGED <<pc, current, result, results, events>>
    BY DEF Queue
  <1>8. \A b : Has(queue', b) <=> Has(queue, b) \/ b \in R
    BY <1>1, <1>3, <1>4, ConcatHas
  <1>9. Distinct(queue')
    <2>1. \A b : ~(Has(queue, b) /\ Has(order, b))
      BY <1>3, <1>6 DEF Pending
    <2>. QED BY <1>1, <1>3, <1>4, <2>1, ConcatHas DEF IInv, OnePlace
  <1>10. \A b : Pending(b)' <=> Pending(b) \/ b \in R
    BY <1>7, <1>8 DEF Pending
  <1>11. Working'
    BY <1>7 DEF IInv, Working
  <1>12. OnePlace'
    <2>1. ASSUME NEW b \in Bitstreams
          PROVE  /\ Has(queue', b) => current' # b /\ results'[b] = None
                 /\ current' = b => results'[b] = None
                 /\ \A i, j \in DOMAIN events' :
                       events'[i][b] # None => ~Pending(b)' /\ (events'[j][b] # None => i = j)
      <3>1. CASE b \in R
        BY <1>6, <1>7, <3>1 DEF Pending
      <3>2. CASE b \notin R
        BY <1>7, <1>8, <1>10, <3>2 DEF IInv, OnePlace
      <3>. QED BY <3>1, <3>2
    <2>. QED BY <1>9, <2>1 DEF OnePlace
  <1>13. Together'
    BY <1>7, <1>10 DEF IInv, Together
  <1>. QED BY <1>11, <1>12, <1>13 DEF Parts

LEMMA PopStep ==
    ASSUME IInv, Pop
    PROVE  Parts'
  <1>1. queue \in Seq(Bitstreams) /\ queue # <<>> /\ current = None
    BY DEF IInv, TypeOK, Pop, Working
  <1>2. PICK x \in Bitstreams : x = Last(queue)
    BY <1>1, PopHas
  <1>3. /\ queue' = Front(queue) /\ current' = x /\ pc' = "ready"
        /\ UNCHANGED <<asked, result, results, events>>
    BY <1>2 DEF Pop
  <1>4. /\ \A b : Has(queue, b) => Has(queue', b) \/ b = x
        /\ \A b : Has(queue', b) => Has(queue, b)
        /\ Has(queue, x) /\ Distinct(queue') /\ ~Has(queue', x)
    BY <1>1, <1>2, <1>3, PopHas DEF IInv, OnePlace
  <1>5. Working'
    BY <1>3, NoneIsNoBitstream DEF Working
  <1>6. \A b \in Bitstreams :
               /\ Pending(b)' <=> Pending(b)
               /\ Has(queue', b) => current' # b /\ results'[b] = None
               /\ current' = b => results'[b] = None
    BY <1>1, <1>3, <1>4, NoneIsNoBitstream DEF Pending, IInv, OnePlace
  <1>. QED BY <1>3, <1>4, <1>5, <1>6, MoveStep

LEMMA RequeueStep ==
    ASSUME IInv, Requeue
    PROVE  Parts'
  <1>1. queue \in Seq(Bitstreams) /\ current \in Bitstreams
    BY DEF IInv, TypeOK, Requeue, Working
  <1>2. PICK x \in Bitstreams : x = current
    BY <1>1
  <1>3. /\ queue' = Append(queue, x) /\ current' = None /\ pc' = "pop"
        /\ UNCHANGED <<asked, result, results, events>>
    BY <1>2 DEF Requeue
  <1>4. ~Has(queue, x) /\ results[x] = None
    BY <1>2 DEF IInv, OnePlace
  <1>5. (\A b : Has(queue', b) <=> Has(queue, b) \/ b = x) /\ Distinct(queue')
    BY <1>1, <1>3, <1>4, AppendHas DEF IInv, OnePlace
  <1>6. Working'
    BY <1>3 DEF Working
  <1>7. \A b \in Bitstreams :
               /\ Pending(b)' <=> Pending(b)
               /\ Has(queue', b) => current' # b /\ results'[b] = None
               /\ current' = b => results'[b] = None
    BY <1>2, <1>3, <1>4, <1>5, NoneIsNoBitstream DEF Pending, IInv, OnePlace
  <1>. QED BY <1>3, <1>5, <1>6, <1>7, MoveStep

LEMMA StoreStep ==
    ASSUME IInv, Store
    PROVE  Parts'
  <1>1. current \in Bitstreams /\ result # None
    BY DEF IInv, TypeOK, Store, Working
  <1>2. PICK x \in Bitstreams : x = current
    BY <1>1
  <1>3. /\ results' = [results EXCEPT ![x] = result] /\ current' = None /\ pc' = "send"
        /\ UNCHANGED <<asked, queue, result, events>>
    BY <1>2 DEF Store
  <1>4. \A b \in Bitstreams : results'[b] = IF b = x THEN result ELSE results[b]
    BY <1>3 DEF IInv, TypeOK
  <1>5. ~Has(queue, x) /\ results[x] = None /\ Distinct(queue)
    BY <1>2 DEF IInv, OnePlace
  <1>6. Working'
    BY <1>3 DEF Working
  <1>7. \A b \in Bitstreams :
               /\ Pending(b)' <=> Pending(b)
               /\ Has(queue', b) => current' # b /\ results'[b] = None
               /\ current' = b => results'[b] = None
    BY <1>1, <1>2, <1>3, <1>4, <1>5, NoneIsNoBitstream DEF Pending, IInv, OnePlace
  <1>. QED BY <1>3, <1>5, <1>6, <1>7, MoveStep

(* When the queue is empty, all that is pending is in the results.         *)
LEMMA SendStep ==
    ASSUME IInv, Send
    PROVE  Parts'
  <1>1. /\ UNCHANGED <<asked, queue, current, result>> /\ pc = "send" /\ pc' = "pop"
        /\ current = None
    BY DEF Send, IInv, Working
  <1>2. Working'
    BY <1>1 DEF Working
  <1>3. CASE UNCHANGED <<events, results>>
    BY <1>1, <1>2, <1>3, QuietStep
  <1>4. CASE AllDone /\ events' = Append(events, results) /\ results' = Nothing
    <2>. DEFINE n == Len(events) + 1
    <2>1. events \in Seq([Bitstreams -> Values \union {None}])
          /\ results \in [Bitstreams -> Values \union {None}]
      BY DEF IInv, TypeOK
    <2>2. /\ DOMAIN events' = DOMAIN events \union {n} /\ n \notin DOMAIN events
          /\ \A i \in DOMAIN events : events'[i] = events[i]
          /\ events'[n] = results
      BY <1>4, <2>1
    <2>. HIDE DEF n
    <2>3. PICK k : k = n
      OBVIOUS
    <2>4. /\ \A b \in Bitstreams : Pending(b) <=> results[b] # None
          /\ \A b \in Bitstreams : ~Pending(b)' /\ results'[b] = None
      BY <1>1, <1>4, EmptyHas, NoneIsNoBitstream DEF AllDone, Pending, Nothing
    <2>5. queue' = <<>> /\ current' = None
      BY <1>1, <1>4 DEF AllDone
    <2>6. OnePlace'
      <3>1. ASSUME NEW b \in Bitstreams, NEW i \in DOMAIN events', NEW j \in DOMAIN events',
                   events'[i][b] # None
            PROVE  ~Pending(b)' /\ (events'[j][b] # None => i = j)
        BY <2>2, <2>4, <3>1 DEF IInv, OnePlace
      <3>. QED BY <2>4, <2>5, <3>1, EmptyHas, NoneIsNoBitstream DEF OnePlace
    <2>7. Together'
      <3>1. ASSUME NEW R \in asked'
            PROVE  \E i \in DOMAIN events' : \A b \in R : events'[i][b] # None
        <4>1. R \in asked /\ \A b \in R : b \in Bitstreams
          BY <1>1 DEF IInv, TypeOK, Bitstreams
        <4>2. CASE \A b \in R : Pending(b)
          BY <2>2, <2>4, <4>1, <4>2
        <4>3. CASE \E i \in DOMAIN events : \A b \in R : events[i][b] # None
          BY <2>2, <4>3
        <4>. QED BY <4>1, <4>2, <4>3 DEF IInv, Together
      <3>2. ASSUME NEW b \in Bitstreams, NEW i \in DOMAIN events', events'[i][b] # None
            PROVE  b \in UNION asked'
        BY <1>1, <2>2, <2>4, <3>2 DEF IInv, Together
      <3>. QED BY <2>4, <3>1, <3>2 DEF Together
    <2>. QED BY <1>2, <2>6, <2>7 DEF Parts
  <1>. QED BY <1>3, <1>4 DEF Send

LEMMA NextParts ==
    ASSUME IInv, [Next]_vars
    PROVE  Parts'
  <1>1. CASE \/ Read \/ Match \/ StartTransfer \/ Receive \/ Watchdog \/ FlashFPGA
             \/ UNCHANGED vars
    <2>1. UNCHANGED host
      BY <1>1 DEF Read, Match, StartTransfer, Receive, Watchdog, FlashFPGA, vars
    <2>2. Working'
      BY <2>1 DEF host, IInv, Working
    <2>. QED BY <2>1, <2>2, QuietStep DEF host
  <1>2. CASE End \/ WaitUntilReady \/ Upload \/ WaitUntilPulse \/ Exit
    <2>1. UNCHANGED <<asked, queue, current, results, events>>
      BY <1>2 DEF End, WaitUntilReady, Upload, WaitUntilPulse, Exit
    <2>2. Working'
      BY <1>2 DEF End, WaitUntilReady, Upload, WaitUntilPulse, Taken, Exit, IInv, Working
    <2>. QED BY <2>1, <2>2, QuietStep
  <1>. QED BY <1>1, <1>2, QueueStep, PopStep, RequeueStep, StoreStep, SendStep DEF Next, Run

LEMMA NextTypes ==
    ASSUME IInv, [Next]_vars
    PROVE  TypeOK'
  <1>1. CASE UNCHANGED vars
    BY <1>1 DEF IInv, TypeOK, vars, host, reader, firmware, wires, history
  <1>. QED BY <1>1, HostKeepsTypes, ReadTypes, MatchTypes, FirmwareKeepsTypes DEF IInv, Next

-----------------------------------------------------------------------------
(* The inductive invariant holds in every state.                           *)
THEOREM Inductive == Spec => []IInv
  <1>1. Init => IInv
    <2>1. Init => Working /\ OnePlace /\ Together
      BY EmptyHas, NoneIsNoBitstream
         DEF Init, Working, OnePlace, Together, Pending, Nothing
    <2>. QED BY <2>1, InitTypes DEF IInv
  <1>2. IInv /\ [Next]_vars => IInv'
    BY NextTypes, NextParts DEF IInv, Parts
  <1>. QED BY <1>1, <1>2, PTL DEF Spec

(* The threads, the wires and the firmware keep their types.               *)
THEOREM TypeCorrect == Spec => []TypeOK
  <1>1. IInv => TypeOK
    BY DEF IInv
  <1>. QED BY <1>1, Inductive, PTL

(* A results event has all bitstreams of a request or none, and each       *)
(* request is in one event only (PulseCountState.py, pulse_count events).  *)
THEOREM EventsWholeHolds == Spec => []EventsWhole
  <1>1. IInv => EventsWhole
    <2>. SUFFICES ASSUME IInv, NEW R \in Requests
                  PROVE  /\ \A i \in DOMAIN events : R \intersect Named(events[i]) \in {{}, R}
                         /\ \A i, j \in DOMAIN events :
                               R \intersect Named(events[i]) # {} /\ R \intersect Named(events[j]) # {}
                                 => i = j
      BY DEF EventsWhole
    <2>0. R \subseteq Bitstreams
      BY DEF Bitstreams
    <2>1. CASE \A i \in DOMAIN events : \A b \in R : events[i][b] = None
      BY <2>1 DEF Named
    <2>2. ASSUME NEW k \in DOMAIN events, \A b \in R : events[k][b] # None
          PROVE  /\ \A i \in DOMAIN events : R \intersect Named(events[i]) \in {{}, R}
                 /\ \A i, j \in DOMAIN events :
                       R \intersect Named(events[i]) # {} /\ R \intersect Named(events[j]) # {}
                         => i = j
      <3>1. R \intersect Named(events[k]) = R
        BY <2>0, <2>2 DEF Named
      <3>2. \A i \in DOMAIN events \ {k} : R \intersect Named(events[i]) = {}
        BY <2>0, <2>2 DEF IInv, OnePlace, Named
      <3>. QED BY <3>1, <3>2
    <2>3. CASE R \in asked
      <3>1. CASE \A b \in R : Pending(b)
        <4>1. \A i \in DOMAIN events : \A b \in R : events[i][b] = None
          BY <2>0, <3>1 DEF IInv, OnePlace
        <4>. QED BY <2>1, <4>1
      <3>2. CASE \E i \in DOMAIN events : \A b \in R : events[i][b] # None
        BY <2>2, <3>2
      <3>. QED BY <2>3, <3>1, <3>2 DEF IInv, Together
    <2>4. CASE R \notin asked
      <3>1. \A b \in R : b \notin UNION asked
        BY <2>4, RequestsAssumption DEF IInv, TypeOK
      <3>2. \A i \in DOMAIN events : \A b \in R : events[i][b] = None
        BY <2>0, <3>1 DEF IInv, Together
      <3>. QED BY <2>1, <3>2
    <2>. QED BY <2>3, <2>4
  <1>. QED BY <1>1, Inductive, PTL

(* No bitstream that was asked for is lost or kept twice, whatever times   *)
(* out and is queued again.                                                *)
THEOREM KeptHolds == Spec => []Kept
  <1>1. IInv => Kept
    <2>. SUFFICES ASSUME IInv, NEW b \in UNION asked
                  PROVE  LET places == {<<"queue", i>> : i \in {i \in DOMAIN queue : queue[i] = b}}
                              \union (IF current = b THEN {<<"current", 0>>} ELSE {})
                              \union (IF results[b] # None THEN {<<"results", 0>>} ELSE {})
                              \union {<<"events", i>> : i \in {i \in DOMAIN events : events[i][b] # None}}
                         IN \E p \in places : places = {p}
      BY DEF Kept
    <2>. DEFINE inQueue == {<<"queue", i>> : i \in {i \in DOMAIN queue : queue[i] = b}}
                inCurrent == IF current = b THEN {<<"current", 0>>} ELSE {}
                inResults == IF results[b] # None THEN {<<"results", 0>>} ELSE {}
                inEvents == {<<"events", i>> : i \in {i \in DOMAIN events : events[i][b] # None}}
    <2>0. b \in Bitstreams
      BY DEF IInv, TypeOK, Bitstreams
    <2>1. /\ Has(queue, b) <=> inQueue # {}
          /\ current = b <=> inCurrent # {}
          /\ results[b] # None <=> inResults # {}
          /\ (\E i \in DOMAIN events : events[i][b] # None) <=> inEvents # {}
      BY DEF Has
    <2>2. /\ \A p, q \in inQueue : p = q
          /\ \A p, q \in inCurrent : p = q
          /\ \A p, q \in inResults : p = q
          /\ \A p, q \in inEvents : p = q
      BY <2>0 DEF IInv, OnePlace, Distinct
    <2>3. Pending(b) \/ \E i \in DOMAIN events : events[i][b] # None
      BY DEF IInv, Together
    <2>4. /\ Has(queue, b) => current # b /\ results[b] = None
          /\ current = b => results[b] = None
          /\ Pending(b) => ~\E i \in DOMAIN events : events[i][b] # None
      BY <2>0 DEF IInv, OnePlace
    <2>. HIDE DEF inQueue, inCurrent, inResults, inEvents
    <2>5. \E p \in inQueue \union inCurrent \union inResults \union inEvents :
             inQueue \union inCurrent \union inResults \union inEvents = {p}
      BY <2>1, <2>2, <2>3, <2>4 DEF Pending
    <2>. QED BY <2>5 DEF inQueue, inCurrent, inResults, inEvents
  <1>. QED BY <1>1, Inductive, PTL

-----------------------------------------------------------------------------
(* The pulses.  InStep follows the one bitstream that is under way: its    *)
(* chunks to the firmware, and its pulses back.                            *)
LEMMA Names ==
    /\ "waiting" \notin Values /\ "watchdog" \notin Values /\ None \notin Values
    /\ "waiting" # "watchdog"
  BY NamesAssumption DEF Values

LEMMA SingleNotSilent ==
    ASSUME NEW s, NEW x \in Values, Single(s, x) PROVE ~Silence(s)
  BY Names DEF Single, Silence

(* What the firmware adds when it has flashed.                             *)
LEMMA SingleAppended ==
    ASSUME NEW s \in Seq(Messages), Silence(s), NEW x \in Values
    PROVE  Single(s \o <<x, "waiting">>, x)
  <1>. DEFINE t == s \o <<x, "waiting">>  n == Len(s)
  <1>1. /\ n \in Nat /\ DOMAIN s = 1..n /\ DOMAIN t = 1..(n + 2)
        /\ \A i \in 1..n : t[i] = s[i]
        /\ t[n + 1] = x /\ t[n + 2] = "waiting"
    OBVIOUS
  <1>. HIDE DEF t, n
  <1>2. n + 1 \in DOMAIN t /\ \A j \in DOMAIN t : j \in 1..n \/ j = n + 1 \/ j = n + 2
    BY <1>1
  <1>3. Single(t, x)
    BY <1>1, <1>2 DEF Single, Silence
  <1>. QED BY <1>3 DEF t

LEMMA TailOf ==
    ASSUME NEW s \in Seq(Messages), s # <<>>, NEW x \in Values
    PROVE  /\ Silence(s) => Silence(Tail(s)) /\ Head(s) = "waiting"
           /\ Single(s, x) => \/ Head(s) = "waiting" /\ Single(Tail(s), x)
                              \/ Head(s) = x /\ Silence(Tail(s))
  <1>. DEFINE t == Tail(s)  n == Len(s)
  <1>1. /\ n \in Nat \ {0} /\ DOMAIN s = 1..n /\ DOMAIN t = 1..(n - 1) /\ Head(s) = s[1]
        /\ \A i \in 1..(n - 1) : t[i] = s[i + 1]
    OBVIOUS
  <1>. HIDE DEF t, n
  <1>2. 1 \in DOMAIN s /\ \A i \in DOMAIN t : i + 1 \in DOMAIN s /\ i + 1 # 1 /\ t[i] = s[i + 1]
    BY <1>1
  <1>3. Silence(s) => Silence(t) /\ Head(s) = "waiting"
    BY <1>1, <1>2 DEF Silence
  <1>4. ASSUME Single(s, x)
        PROVE  (Head(s) = "waiting" /\ Single(t, x)) \/ (Head(s) = x /\ Silence(t))
    <2>1. PICK i \in DOMAIN s : s[i] = x /\ \A j \in DOMAIN s : j = i \/ s[j] = "waiting"
      BY <1>4 DEF Single
    <2>2. CASE i = 1
      BY <1>1, <1>2, <2>1, <2>2 DEF Silence
    <2>3. CASE i # 1
      <3>1. i - 1 \in DOMAIN t /\ t[i - 1] = x
        BY <1>1, <2>1, <2>3
      <3>2. \A j \in DOMAIN t : j + 1 = i => j = i - 1
        BY <1>1
      <3>3. Single(t, x)
        BY <1>2, <2>1, <3>1, <3>2 DEF Single
      <3>. QED BY <1>1, <1>2, <2>1, <2>3, <3>3
    <2>. QED BY <2>2, <2>3
  <1>. QED BY <1>3, <1>4 DEF t

(* A read takes the pulse, or leaves it on the line.                       *)
LEMMA SplitOf ==
    ASSUME NEW s \in Seq(Messages), NEW n \in 1..Len(s), NEW x \in Values
    PROVE  LET a == SubSeq(s, 1, n)
               b == SubSeq(s, n + 1, Len(s))
           IN /\ Silence(s) => Silence(a) /\ Silence(b)
              /\ Single(s, x) => \/ Single(a, x) /\ Silence(b)
                                 \/ Silence(a) /\ Single(b, x)
  <1>. DEFINE a == SubSeq(s, 1, n)  b == SubSeq(s, n + 1, Len(s))  m == Len(s)
  <1>1. /\ m \in Nat /\ n \in Nat /\ n <= m
        /\ DOMAIN s = 1..m /\ DOMAIN a = 1..n /\ DOMAIN b = 1..(m - n)
        /\ \A i \in 1..n : a[i] = s[i]
        /\ \A i \in 1..(m - n) : b[i] = s[n + i]
    OBVIOUS
  <1>. HIDE DEF a, b, m
  <1>2. /\ \A i \in DOMAIN a : i \in DOMAIN s /\ a[i] = s[i] /\ i <= n
        /\ \A i \in DOMAIN b : n + i \in DOMAIN s /\ b[i] = s[n + i] /\ n + i > n
    BY <1>1
  <1>3. Silence(s) => Silence(a) /\ Silence(b)
    BY <1>2 DEF Silence
  <1>4. ASSUME Single(s, x)
        PROVE  (Single(a, x) /\ Silence(b)) \/ (Silence(a) /\ Single(b, x))
    <2>1. PICK i \in DOMAIN s : s[i] = x /\ \A j \in DOMAIN s : j = i \/ s[j] = "waiting"
      BY <1>4 DEF Single
    <2>2. CASE i <= n
      <3>1. i \in DOMAIN a /\ a[i] = x
        BY <1>1, <2>1, <2>2
      <3>2. \A j \in DOMAIN b : n + j # i
        BY <1>1, <2>2
      <3>. QED BY <1>2, <2>1, <3>1, <3>2 DEF Single, Silence
    <2>3. CASE i > n
      <3>1. i - n \in DOMAIN b /\ b[i - n] = x
        BY <1>1, <2>1, <2>3
      <3>2. \A j \in DOMAIN b : n + j = i => j = i - n
        BY <1>1
      <3>3. \A j \in DOMAIN a : j # i
        BY <1>1, <2>3
      <3>. QED BY <1>2, <2>1, <3>1, <3>2, <3>3 DEF Single, Silence
    <2>. QED BY <1>1, <2>2, <2>3
  <1>. QED BY <1>3, <1>4 DEF a, b, m

LEMMA FirstOf ==
    ASSUME NEW data \in Seq(Messages), NEW S
    PROVE  /\ (\A i \in DOMAIN data : data[i] \notin S) => First(data, S) = <<>>
           /\ (\E i \in DOMAIN data : data[i] \in S) =>
                 \E i \in DOMAIN data : data[i] \in S /\ First(data, S) = <<data[i]>>
  <1>. DEFINE at == {i \in DOMAIN data : data[i] \in S}
              i == CHOOSE i \in at : \A j \in at : i <= j
  <1>1. CASE at = {}
    BY <1>1 DEF First
  <1>2. CASE at # {}
    <2>1. at \subseteq Nat
      OBVIOUS
    <2>2. \E k \in at : \A j \in at : k <= j
      BY <1>2, <2>1, Least
    <2>3. i \in at
      BY <2>2
    <2>4. First(data, S) = <<data[i]>>
      BY <1>2 DEF First
    <2>. HIDE DEF i
    <2>. QED BY <1>2, <2>3, <2>4
  <1>. QED BY <1>1, <1>2

LEMMA MatchesOf ==
    ASSUME NEW data \in Seq(Messages), NEW x \in Values
    PROVE  /\ Silence(data) => Silence(Matches(data))
           /\ Single(data, x) => Single(Matches(data), x)
  <1>1. First(data, {"waiting"}) \in {<<>>, <<"waiting">>}
    BY FirstOf
  <1>2. ASSUME Silence(data) PROVE Silence(Matches(data))
    <2>1. First(data, Values) = <<>> /\ First(data, {"watchdog"}) = <<>>
      BY <1>2, Names, FirstOf DEF Silence
    <2>2. Matches(data) = (<<>> \o <<>>) \o First(data, {"waiting"})
      BY <2>1 DEF Matches
    <2>3. Matches(data) \in {<<>>, <<"waiting">>}
      BY <1>1, <2>2
    <2>. QED BY <2>3 DEF Silence
  <1>3. ASSUME Single(data, x) PROVE Single(Matches(data), x)
    <2>1. \A i \in DOMAIN data : data[i] \in {x, "waiting"}
      BY <1>3 DEF Single
    <2>2. First(data, {"watchdog"}) = <<>>
      BY <2>1, Names, FirstOf
    <2>3. \E i \in DOMAIN data : data[i] \in Values
      BY <1>3 DEF Single
    <2>4. First(data, Values) = <<x>>
      BY <2>1, <2>3, Names, FirstOf
    <2>5. Matches(data) = (<<x>> \o <<>>) \o First(data, {"waiting"})
      BY <2>2, <2>4 DEF Matches
    <2>. DEFINE w == First(data, {"waiting"})  m == (<<x>> \o <<>>) \o w
    <2>6. /\ w \in Seq(Messages) /\ Len(w) \in {0, 1}
          /\ \A i \in DOMAIN w : w[i] = "waiting"
      BY <1>1, FirstTypes
    <2>. HIDE DEF w
    <2>7. /\ x \in Messages
          /\ DOMAIN w = 1..Len(w) /\ DOMAIN m = 1..(1 + Len(w))
          /\ m[1] = x /\ \A i \in 1..Len(w) : m[i + 1] = w[i]
      BY <2>6 DEF Messages
    <2>. HIDE DEF m
    <2>8. 1 \in DOMAIN m /\ \A i \in DOMAIN m : i = 1 \/ (i - 1 \in DOMAIN w /\ m[i] = w[i - 1])
      <3>1. ASSUME NEW i \in DOMAIN m, i # 1 PROVE i - 1 \in 1..Len(w) /\ (i - 1) + 1 = i
        BY <2>6, <2>7, <3>1
      <3>. QED BY <2>6, <2>7, <3>1
    <2>9. Single(m, x)
      BY <2>6, <2>7, <2>8 DEF Single
    <2>. QED BY <2>5, <2>9 DEF m, w
  <1>. QED BY <1>2, <1>3

(* Reading and handling what was read lose no pulse and make none.         *)
LEMMA ReadPulses ==
    ASSUME TypeOK, Read, ~cut'
    PROVE  /\ NoPulse => NoPulse'
           /\ \A x \in Bitstreams : OnePulse(x) => OnePulse(x)'
  <1>1. PICK n \in 1..Len(line) :
          /\ line' = SubSeq(line, n + 1, Len(line))
          /\ found' = Matches(SubSeq(line, 1, n))
    BY DEF Read
  <1>2. found = <<>> /\ UNCHANGED last_pulse /\ line \in Seq(Messages)
    BY DEF Read, TypeOK
  <1>. DEFINE a == SubSeq(line, 1, n)
  <1>3. a \in Seq(Messages) /\ found' = Matches(a)
    BY <1>1, <1>2
  <1>4. \A x \in Values :
          /\ Silence(line) => Silence(a) /\ Silence(line')
          /\ Single(line, x) => \/ Single(a, x) /\ Silence(line')
                                \/ Silence(a) /\ Single(line', x)
    BY <1>1, <1>2, SplitOf
  <1>. HIDE DEF a
  <1>5. \A x \in Values : /\ Silence(a) => Silence(found')
                          /\ Single(a, x) => Single(found', x)
    BY <1>3, MatchesOf
  <1>6. \A x \in Values : ~Single(found, x)
    BY <1>2 DEF Single
  <1>7. Mixed \in Values /\ Bitstreams \subseteq Values
    BY DEF Values
  <1>8. NoPulse => NoPulse'
    BY <1>2, <1>4, <1>5, <1>7 DEF NoPulse
  <1>9. ASSUME NEW x \in Bitstreams, OnePulse(x) PROVE OnePulse(x)'
    BY <1>2, <1>4, <1>5, <1>6, <1>7, <1>9 DEF OnePulse
  <1>. QED BY <1>8, <1>9

LEMMA MatchPulses ==
    ASSUME TypeOK, Match
    PROVE  /\ NoPulse => NoPulse'
           /\ \A x \in Bitstreams : OnePulse(x) => OnePulse(x)'
  <1>1. found \in Seq(Messages) /\ found # <<>> /\ found' = Tail(found) /\ UNCHANGED line
    BY DEF Match, TypeOK, wires
  <1>2. \A x \in Values :
          /\ Silence(found) => Silence(found') /\ Head(found) = "waiting"
          /\ Single(found, x) => \/ Head(found) = "waiting" /\ Single(found', x)
                                 \/ Head(found) = x /\ Silence(found')
    BY <1>1, TailOf
  <1>3. /\ Head(found) = "waiting" => UNCHANGED last_pulse
        /\ Head(found) # "waiting" => last_pulse' = Head(found)
    BY DEF Match
  <1>4. Mixed \in Values /\ Bitstreams \subseteq Values
    BY DEF Values
  <1>5. NoPulse => NoPulse'
    BY <1>1, <1>2, <1>3, <1>4 DEF NoPulse
  <1>6. ASSUME NEW x \in Bitstreams, OnePulse(x) PROVE OnePulse(x)'
    <2>1. x \in Values /\ x # "waiting"
      BY <1>4, Names
    <2>. QED BY <1>1, <1>2, <1>3, <1>6, <2>1 DEF OnePulse
  <1>. QED BY <1>5, <1>6

(* A step that leaves the thread and the chunks alone.                     *)
LEMMA PulsesStep ==
    ASSUME IInv, InStep, UNCHANGED <<pc, current, result, sent, board, buffer, usb>>,
           NoPulse => NoPulse',
           \A x \in Bitstreams : OnePulse(x) => OnePulse(x)'
    PROVE  InStep'
  <1>1. /\ Quiet' <=> Quiet
        /\ Streaming' <=> Streaming
    BY DEF Quiet, Streaming, Got
  <1>2. pc = "pulse" => current \in Bitstreams
    BY DEF IInv, Working, TypeOK
  <1>. QED BY <1>1, <1>2 DEF InStep

LEMMA HostInStep ==
    ASSUME IInv, Fits, InStep, Run \/ Exit \/ \E R \in Requests : Queue(R)
    PROVE  InStep'
  <1>. USE DEF Quiet, NoPulse
  <1>1. CASE Exit \/ \E R \in Requests : Queue(R)
    <2>1. UNCHANGED <<pc, current, result, sent, reader, firmware, wires>>
      BY <1>1 DEF Exit, Queue
    <2>. QED BY <2>1, PulsesStep DEF reader, firmware, wires, OnePulse
  <1>2. CASE Pop
    BY <1>2 DEF Pop, InStep, reader, firmware, wires
  <1>3. CASE End
    BY <1>3 DEF End, InStep, reader, firmware, wires
  <1>4. CASE WaitUntilReady
    <2>1. current \in Bitstreams /\ 0 < Length[current]
      BY <1>4, LengthAssumption DEF WaitUntilReady, IInv, Working, TypeOK
    <2>2. pc' = "upload" /\ sent' = 0 /\ UNCHANGED <<current, last_pulse, found, firmware, wires>>
      BY <1>4 DEF WaitUntilReady
    <2>3. board = "wait" /\ usb = <<>> /\ NoPulse
      BY <1>4 DEF WaitUntilReady, InStep
    <2>4. Streaming'
      <3>1. Got' = 0 /\ usb' = <<>> /\ board' = "wait" /\ sent' = 0
        BY <2>2, <2>3 DEF Got, firmware, wires
      <3>2. Len(<<>>) = 0 /\ DOMAIN <<>> = {} /\ 1..0 = {}
        OBVIOUS
      <3>. QED BY <3>1, <3>2 DEF Streaming
    <2>. QED BY <2>1, <2>2, <2>3, <2>4 DEF InStep, wires
  <1>5. CASE Upload
    <2>1. /\ current \in Bitstreams /\ Length[current] \in Nat /\ sent \in Nat
          /\ usb \in Seq(Bitstreams \X Nat) /\ buffer \in Seq(Bitstreams \X Nat)
      BY <1>5, LengthAssumption DEF Upload, IInv, Working, TypeOK
    <2>2. /\ usb' = Append(usb, <<current, sent + 1>>) /\ sent' = sent + 1
          /\ pc' = IF sent' = Length[current] THEN "pulse" ELSE "upload"
          /\ UNCHANGED <<current, reader, firmware, line>>
      BY <1>5 DEF Upload
    <2>3. Streaming /\ sent < Length[current] /\ NoPulse
      BY <1>5 DEF Upload, InStep
    <2>4. Got' = Got /\ Got \in Nat
      BY <2>1, <2>2 DEF firmware, Got
    <2>5. Streaming'
      <3>1. /\ Got + Len(usb) = sent /\ Len(usb') = Len(usb) + 1
            /\ DOMAIN usb' = DOMAIN usb \union {Len(usb) + 1}
            /\ \A i \in DOMAIN usb : usb'[i] = usb[i]
            /\ usb'[Len(usb) + 1] = <<current, sent + 1>>
            /\ Len(usb) \in Nat
        BY <2>1, <2>2, <2>3 DEF Streaming
      <3>2. Got + (Len(usb) + 1) = sent + 1
        BY <2>1, <2>4, <3>1
      <3>3. \A i \in DOMAIN usb' : usb'[i] = <<current, Got + i>>
        BY <2>3, <3>1, <3>2 DEF Streaming
      <3>. QED BY <2>2, <2>3, <2>4, <3>1, <3>2, <3>3 DEF Streaming, firmware
    <2>6. NoPulse'
      BY <2>2, <2>3 DEF reader
    <2>7. sent' = Length[current] \/ sent' < Length[current]
      BY <2>1, <2>2, <2>3
    <2>. QED BY <2>2, <2>5, <2>6, <2>7 DEF InStep
  <1>6. CASE WaitUntilPulse
    <2>1. current \in Bitstreams
      BY <1>6 DEF WaitUntilPulse, IInv, Working, TypeOK
    <2>2. /\ Quiet /\ Silence(line) /\ Silence(found) /\ last_pulse = current
      BY <1>6 DEF WaitUntilPulse, InStep, OnePulse
    <2>. QED BY <1>6, <2>2 DEF WaitUntilPulse, Taken, InStep, firmware, wires
  <1>7. CASE Requeue
    <2>1. current \in Bitstreams /\ result = current /\ result = "watchdog"
      BY <1>7 DEF Requeue, IInv, Working, TypeOK, InStep
    <2>. QED BY <2>1, NamesAssumption
  <1>8. CASE Store
    BY <1>8 DEF Store, InStep, reader, firmware, wires
  <1>9. CASE Send
    BY <1>9 DEF Send, InStep, reader, firmware, wires
  <1>. QED BY <1>1, <1>2, <1>3, <1>4, <1>5, <1>6, <1>7, <1>8, <1>9 DEF Run

LEMMA MeasuresCurrent ==
    ASSUME NEW x \in Bitstreams, buffer \in Seq(Bitstreams \X Nat), Len(buffer) = Size,
           \A i \in 1..Size : buffer[i] = <<x, i>>
    PROVE  Measured = x
  <1>1. buffer = [i \in 1..Size |-> <<x, i>>]
    BY LengthAssumption
  <1>2. 1 \in 1..Size
    BY LengthAssumption
  <1>3. buffer[1] = <<x, 1>>
    BY <1>2
  <1>4. \A b \in Bitstreams : buffer[1] = <<b, 1>> => b = x
    BY <1>3
  <1>5. (CHOOSE b \in Bitstreams : buffer[1] = <<b, 1>>) = x
    BY <1>3, <1>4
  <1>. QED BY <1>1, <1>5 DEF Measured

(* A chunk that is taken continues what is in the buffer.                  *)
LEMMA ReceiveKeeps ==
    ASSUME IInv, Streaming, Receive
    PROVE  Streaming'
  <1>. DEFINE k == Len(buffer)  Chunks == Bitstreams \X Nat
  <1>1. /\ buffer \in Seq(Chunks) /\ usb \in Seq(Chunks) /\ usb # <<>> /\ board = "transfer"
        /\ usb' = Tail(usb) /\ buffer' = Append(buffer, Head(usb))
        /\ board' = IF Len(buffer') = Size THEN "flash" ELSE "transfer"
        /\ UNCHANGED <<current, sent>>
    BY DEF Receive, Take, IInv, TypeOK, host
  <1>2. /\ Got = k /\ k < Size /\ Size \in Nat /\ k + Len(usb) = sent
        /\ \A i \in 1..k : buffer[i] = <<current, i>>
        /\ \A i \in DOMAIN usb : usb[i] = <<current, k + i>>
    BY <1>1, LengthAssumption DEF Streaming, Got
  <1>. HIDE DEF Chunks
  <1>3. /\ k \in Nat /\ Len(usb) \in Nat \ {0} /\ DOMAIN usb = 1..Len(usb)
        /\ Head(usb) \in Chunks /\ Head(usb) = usb[1]
        /\ Len(usb') = Len(usb) - 1 /\ DOMAIN usb' = 1..(Len(usb) - 1)
        /\ \A i \in 1..(Len(usb) - 1) : usb'[i] = usb[i + 1]
    BY <1>1
  <1>4. /\ Len(buffer') = k + 1 /\ buffer'[k + 1] = Head(usb)
        /\ \A i \in 1..k : buffer'[i] = buffer[i]
    BY <1>1, <1>3
  <1>. HIDE DEF k
  <1>5. Head(usb) = <<current, k + 1>>
    <2>1. 1 \in DOMAIN usb
      BY <1>3
    <2>. QED BY <1>2, <1>3, <2>1
  <1>6. Got' = k + 1
    BY <1>1, <1>4 DEF Got
  <1>7. \A i \in 1..(k + 1) : buffer'[i] = <<current', i>>
    <2>1. \A i \in 1..(k + 1) : i \in 1..k \/ i = k + 1
      BY <1>3
    <2>. QED BY <1>1, <1>2, <1>4, <1>5, <2>1
  <1>8. \A i \in DOMAIN usb' : usb'[i] = <<current', (k + 1) + i>>
    <2>1. \A i \in DOMAIN usb' : i + 1 \in DOMAIN usb /\ k + (i + 1) = (k + 1) + i
      BY <1>3
    <2>. QED BY <1>1, <1>2, <1>3, <2>1
  <1>9. (k + 1) + Len(usb') = sent'
    BY <1>1, <1>2, <1>3
  <1>10. /\ board' = "transfer" => Len(buffer') < Size
         /\ board' = "flash" => Len(buffer') = Size
    BY <1>1, <1>2, <1>3, <1>4
  <1>. QED BY <1>6, <1>7, <1>8, <1>9, <1>10 DEF Streaming

LEMMA FirmwareInStep ==
    ASSUME IInv, Fits, InStep, StartTransfer \/ Receive \/ FlashFPGA
    PROVE  InStep'
  <1>. USE DEF NoPulse
  <1>0. /\ board # "wait" \/ usb # <<>> =>
              /\ pc \in {"upload", "pulse"} /\ Streaming /\ NoPulse
              /\ pc = "upload" => sent < Length[current]
              /\ pc = "pulse" => sent = Length[current]
    BY DEF IInv, TypeOK, InStep, Quiet
  <1>1. CASE StartTransfer
    <2>1. /\ board = "wait" /\ usb # <<>> /\ board' = "transfer" /\ buffer' = <<>>
          /\ UNCHANGED <<host, reader, wires>>
      BY <1>1 DEF StartTransfer
    <2>2. Len(<<>>) = 0 /\ 1..0 = {} /\ 0 < Size
      BY LengthAssumption
    <2>3. Got = 0 /\ Got' = 0
      BY <2>1, <2>2 DEF Got
    <2>4. Streaming'
      BY <1>0, <2>1, <2>2, <2>3 DEF Streaming, host, wires
    <2>. QED BY <1>0, <2>1, <2>4 DEF InStep, host, reader, wires
  <1>2. CASE Receive
    <2>1. board = "transfer" /\ UNCHANGED <<host, reader, line>>
      BY <1>2 DEF Receive
    <2>2. Streaming'
      BY <1>0, <1>2, <2>1, ReceiveKeeps
    <2>. QED BY <1>0, <2>1, <2>2 DEF InStep, host, reader
  <1>3. CASE FlashFPGA
    <2>1. /\ board = "flash" /\ board' = "wait" /\ line' = line \o <<Measured, "waiting">>
          /\ UNCHANGED <<host, reader, buffer, usb>>
      BY <1>3 DEF FlashFPGA
    <2>2. /\ current \in Bitstreams /\ Length[current] \in Nat /\ Length[current] <= Size
          /\ Size \in Nat /\ sent \in Nat
          /\ buffer \in Seq(Bitstreams \X Nat) /\ usb \in Seq(Bitstreams \X Nat)
          /\ line \in Seq(Messages)
      BY <1>0, <2>1, LengthAssumption DEF IInv, Working, TypeOK, Fits
    <2>3. /\ Len(buffer) = Size /\ Size + Len(usb) = sent
          /\ \A i \in 1..Size : buffer[i] = <<current, i>>
      BY <1>0, <2>1 DEF Streaming, Got
    <2>4. Len(usb) \in Nat
      BY <2>2
    <2>5. pc = "pulse" /\ Len(usb) = 0
      BY <1>0, <2>1, <2>2, <2>3, <2>4
    <2>6. usb = <<>>
      BY <2>2, <2>5
    <2>7. Measured = current
      BY <2>2, <2>3, MeasuresCurrent
    <2>8. Single(line', current)
      BY <1>0, <2>1, <2>2, <2>7, SingleAppended DEF Values
    <2>. QED BY <1>0, <2>1, <2>5, <2>6, <2>8 DEF InStep, Quiet, OnePulse, host, reader
  <1>. QED BY <1>1, <1>2, <1>3

LEMMA NextInStep ==
    ASSUME IInv, Fits, InStep, [Next]_vars, ~barked', ~cut'
    PROVE  InStep'
  <1>1. CASE UNCHANGED vars
    BY <1>1, PulsesStep
       DEF vars, host, reader, firmware, wires, NoPulse, OnePulse
  <1>2. CASE Read
    BY <1>2, ReadPulses, PulsesStep DEF Read, IInv, host, firmware
  <1>3. CASE Match
    BY <1>3, MatchPulses, PulsesStep DEF Match, IInv, host, firmware, wires
  <1>4. CASE Watchdog
    BY <1>4 DEF Watchdog
  <1>. QED BY <1>1, <1>2, <1>3, <1>4, HostInStep, FirmwareInStep DEF Next

(* Only Store and Send write results.                                      *)
LEMMA NextOwn ==
    ASSUME IInv, InStep, [Next]_vars,
           Own(results), \A i \in DOMAIN events : Own(events[i])
    PROVE  Own(results') /\ \A i \in DOMAIN events' : Own(events'[i])
  <1>1. CASE Store
    <2>1. /\ results' = [results EXCEPT ![current] = current] /\ UNCHANGED events
          /\ results \in [Bitstreams -> Values \union {None}]
      BY <1>1 DEF Store, InStep, IInv, TypeOK
    <2>. QED BY <2>1 DEF Own
  <1>2. CASE Send
    <2>1. Own(Nothing)
      BY DEF Own, Nothing
    <2>2. /\ events \in Seq([Bitstreams -> Values \union {None}])
          /\ results \in [Bitstreams -> Values \union {None}]
      BY DEF IInv, TypeOK
    <2>3. CASE events' = Append(events, results) /\ results' = Nothing
      <3>1. \A i \in DOMAIN events' : events'[i] = results \/ \E j \in DOMAIN events : events'[i] = events[j]
        BY <2>2, <2>3
      <3>. QED BY <2>1, <2>3, <3>1
    <2>4. CASE UNCHANGED <<events, results>>
      BY <2>4
    <2>. QED BY <1>2, <2>3, <2>4 DEF Send
  <1>3. CASE ~Store /\ ~Send
    <2>1. UNCHANGED <<results, events>>
      BY <1>3 DEF Next, Run, vars, host, Queue, Pop, End, WaitUntilReady, Upload, WaitUntilPulse,
                  Requeue, Exit, Read, Match, StartTransfer, Receive, Watchdog, FlashFPGA
    <2>. QED BY <2>1
  <1>. QED BY <1>1, <1>2, <1>3

LEMMA HistoryKept == ASSUME [Next]_vars, TypeOK, ~barked', ~cut' PROVE ~barked /\ ~cut
  BY DEF Next, Run, vars, host, history, Queue, Pop, End, WaitUntilReady, Upload, WaitUntilPulse,
         Requeue, Store, Send, Exit, Read, Match, StartTransfer, Receive, Watchdog, FlashFPGA, TypeOK

(* While no watchdog ran out and no message was cut, results map each      *)
(* bitstream to its own pulses, if the files fit the firmware              *)
(* (PulseCountState.py run and Reader, pulse_count/main.cpp).              *)
THEOREM OwnPulsesHolds == Spec => []OwnPulses
  <1>1. Init => OwnInv
    <2>. SUFFICES ASSUME Init PROVE OwnInv
      OBVIOUS
    <2>1. Silence(<<"waiting">>) /\ Silence(<<>>)
      BY DEF Silence
    <2>2. InStep
      BY <2>1 DEF Init, InStep, Quiet, NoPulse
    <2>3. Own(results) /\ \A i \in DOMAIN events : Own(events[i])
      BY DEF Init, Nothing, Own
    <2>. QED BY <2>2, <2>3 DEF OwnInv, OwnPulses
  <1>2. IInv /\ OwnInv /\ [Next]_vars => OwnInv'
    <2>. SUFFICES ASSUME IInv, OwnInv, [Next]_vars, Fits, ~barked', ~cut'
                  PROVE  InStep' /\ Own(results') /\ \A i \in DOMAIN events' : Own(events'[i])
      BY DEF OwnInv, OwnPulses, Fits
    <2>1. ~barked /\ ~cut
      BY HistoryKept DEF IInv
    <2>2. InStep /\ Own(results) /\ \A i \in DOMAIN events : Own(events[i])
      BY <2>1 DEF OwnInv, OwnPulses
    <2>. QED BY <2>2, NextInStep, NextOwn
  <1>3. OwnInv => OwnPulses
    BY DEF OwnInv
  <1>. QED BY <1>1, <1>2, <1>3, Inductive, PTL DEF Spec

-----------------------------------------------------------------------------
(* Wake-ups.  What is on its way stays so through the Reader's hands.      *)
Signals == Values \union {"watchdog"}

LEMMA AmongParts ==
    ASSUME NEW s \in Seq(Messages), NEW n \in 1..Len(s), NEW S, Among(S, s)
    PROVE  Among(S, SubSeq(s, 1, n)) \/ Among(S, SubSeq(s, n + 1, Len(s)))
  <1>. DEFINE a == SubSeq(s, 1, n)  b == SubSeq(s, n + 1, Len(s))  m == Len(s)
  <1>1. /\ m \in Nat /\ n \in Nat /\ n <= m
        /\ DOMAIN s = 1..m /\ DOMAIN a = 1..n /\ DOMAIN b = 1..(m - n)
        /\ \A i \in 1..n : a[i] = s[i]
        /\ \A i \in 1..(m - n) : b[i] = s[n + i]
    OBVIOUS
  <1>. HIDE DEF a, b, m
  <1>2. PICK i \in 1..m : s[i] \in S
    BY <1>1 DEF Among
  <1>3. CASE i <= n
    <2>1. i \in DOMAIN a /\ a[i] \in S
      BY <1>1, <1>2, <1>3
    <2>2. Among(S, a)
      BY <2>1 DEF Among
    <2>. QED BY <2>2 DEF a
  <1>4. CASE i > n
    <2>1. i - n \in 1..(m - n) /\ n + (i - n) = i
      BY <1>1, <1>4
    <2>2. b[i - n] \in S
      BY <1>1, <1>2, <2>1
    <2>3. Among(S, b)
      BY <1>1, <2>1, <2>2 DEF Among
    <2>. QED BY <2>3 DEF b
  <1>. QED BY <1>1, <1>3, <1>4

LEMMA AmongAppended ==
    ASSUME NEW s \in Seq(Messages), NEW t \in Seq(Messages), NEW S, Among(S, s) \/ Among(S, t)
    PROVE  Among(S, s \o t)
  <1>. DEFINE u == s \o t
  <1>1. /\ Len(s) \in Nat /\ Len(t) \in Nat
        /\ DOMAIN s = 1..Len(s) /\ DOMAIN t = 1..Len(t) /\ DOMAIN u = 1..(Len(s) + Len(t))
        /\ \A i \in 1..Len(s) : u[i] = s[i]
        /\ \A i \in 1..Len(t) : u[Len(s) + i] = t[i]
    OBVIOUS
  <1>. HIDE DEF u
  <1>2. /\ \A i \in DOMAIN s : i \in DOMAIN u
        /\ \A i \in DOMAIN t : Len(s) + i \in DOMAIN u
    BY <1>1
  <1>. QED BY <1>1, <1>2 DEF Among, u

LEMMA AmongTail ==
    ASSUME NEW s \in Seq(Messages), s # <<>>, NEW S, Among(S, s), Head(s) \notin S
    PROVE  Among(S, Tail(s))
  <1>. DEFINE t == Tail(s)
  <1>1. /\ Len(s) \in Nat /\ DOMAIN s = 1..Len(s) /\ DOMAIN t = 1..(Len(s) - 1) /\ Head(s) = s[1]
        /\ \A i \in 1..(Len(s) - 1) : t[i] = s[i + 1]
    OBVIOUS
  <1>. HIDE DEF t
  <1>2. PICK i \in 1..Len(s) : s[i] \in S /\ i # 1
    BY <1>1 DEF Among
  <1>3. i - 1 \in 1..(Len(s) - 1) /\ (i - 1) + 1 = i
    BY <1>1, <1>2
  <1>. QED BY <1>1, <1>2, <1>3 DEF Among, t

LEMMA AmongMatches ==
    ASSUME NEW data \in Seq(Messages)
    PROVE  /\ Among({"waiting"}, data) => Among({"waiting"}, Matches(data))
           /\ Among(Signals, data) => Among(Signals, Matches(data))
  <1>. DEFINE F(S) == First(data, S)
  <1>1. \A S : F(S) \in Seq(Messages)
    BY FirstTypes
  <1>2. ASSUME NEW S, Among(S, data) PROVE Among(S, F(S))
    <2>1. PICK i \in DOMAIN data : data[i] \in S /\ F(S) = <<data[i]>>
      BY <1>2, FirstOf DEF Among
    <2>. QED BY <2>1 DEF Among
  <1>. HIDE DEF F
  <1>3. Matches(data) = (F(Values) \o F({"watchdog"})) \o F({"waiting"})
    BY DEF Matches, F
  <1>4. F(Values) \o F({"watchdog"}) \in Seq(Messages)
    BY <1>1
  <1>5. Among({"waiting"}, data) => Among({"waiting"}, Matches(data))
    BY <1>1, <1>2, <1>3, <1>4, AmongAppended
  <1>6. ASSUME Among(Signals, data) PROVE Among(Signals, Matches(data))
    <2>1. Among(Values, data) \/ Among({"watchdog"}, data)
      BY <1>6 DEF Among, Signals
    <2>2. Among(Values, F(Values)) \/ Among({"watchdog"}, F({"watchdog"}))
      BY <1>2, <2>1
    <2>3. Among(Signals, F(Values)) \/ Among(Signals, F({"watchdog"}))
      BY <2>2 DEF Among, Signals
    <2>4. Among(Signals, F(Values) \o F({"watchdog"}))
      BY <1>1, <2>3, AmongAppended
    <2>. QED BY <1>1, <1>3, <1>4, <2>4, AmongAppended
  <1>. QED BY <1>5, <1>6

LEMMA ReadWakes ==
    ASSUME TypeOK, Read, ~cut', NEW S \in {{"waiting"}, Signals}, Coming(S)
    PROVE  Coming(S)'
  <1>1. PICK n \in 1..Len(line) :
          /\ line' = SubSeq(line, n + 1, Len(line))
          /\ found' = Matches(SubSeq(line, 1, n))
    BY DEF Read
  <1>2. found = <<>> /\ line \in Seq(Messages)
    BY DEF Read, TypeOK
  <1>3. SubSeq(line, 1, n) \in Seq(Messages)
    BY <1>1, <1>2
  <1>4. Among(S, SubSeq(line, 1, n)) \/ Among(S, line')
    <2>1. Among(S, line)
      BY <1>2 DEF Coming, Among
    <2>. QED BY <1>1, <1>2, <2>1, AmongParts
  <1>5. Among(S, SubSeq(line, 1, n)) => Among(S, found')
    BY <1>1, <1>3, AmongMatches
  <1>. QED BY <1>4, <1>5 DEF Coming

(* The Reader handles a match: the thread's condition holds, or the match  *)
(* is of the other kind.                                                   *)
LEMMA MatchWakes ==
    ASSUME TypeOK, Match
    PROVE  /\ ready \/ Coming({"waiting"}) => ready' \/ Coming({"waiting"})'
           /\ last_pulse # None \/ Coming(Signals) => last_pulse' # None \/ Coming(Signals)'
  <1>1. found \in Seq(Messages) /\ found # <<>> /\ found' = Tail(found) /\ UNCHANGED line
    BY DEF Match, TypeOK, wires
  <1>2. \/ Head(found) = "waiting" /\ ready' = TRUE /\ UNCHANGED last_pulse
        \/ Head(found) # "waiting" /\ last_pulse' = Head(found) /\ UNCHANGED ready
    BY DEF Match
  <1>3. \A S : Among(S, found) => Head(found) \in S \/ Among(S, found')
    BY <1>1, AmongTail
  <1>4. /\ Head(found) = "waiting" => Head(found) \notin Signals
        /\ Head(found) # "waiting" => Head(found) # None
    <2>1. Head(found) \in Messages
      BY <1>1
    <2>. QED BY <2>1, Names, NamesAssumption DEF Signals, Messages
  <1>. QED BY <1>1, <1>2, <1>3, <1>4 DEF Coming

(* The firmware stays busy, or puts what the thread may wait for on line.  *)
LEMMA FirmwareWakes ==
    ASSUME TypeOK, StartTransfer \/ Receive \/ Watchdog \/ FlashFPGA, NEW S
    PROVE  /\ Coming(S) => Coming(S)'
           /\ S \in {{"waiting"}, Signals} /\ Busy => Coming(S)' \/ Busy'
  <1>0. line \in Seq(Messages)
    BY DEF TypeOK
  <1>1. CASE StartTransfer \/ Receive
    <2>1. UNCHANGED <<found, line>>
      BY <1>1 DEF StartTransfer, Receive, reader, wires
    <2>2. board' # "wait"
      BY <1>1 DEF StartTransfer, Receive
    <2>. QED BY <2>1, <2>2 DEF Coming, Busy
  <1>. DEFINE Adds(t) == /\ t \in Seq(Messages) /\ UNCHANGED found /\ line' = line \o t
                         /\ S \in {{"waiting"}, Signals} => Among(S, t) \/ board' # "wait"
  <1>2. ASSUME NEW t, Adds(t)
        PROVE  /\ Coming(S) => Coming(S)'
               /\ S \in {{"waiting"}, Signals} => Coming(S)' \/ Busy'
    <2>1. Among(S, line) \/ Among(S, t) => Among(S, line')
      BY <1>0, <1>2, AmongAppended
    <2>. QED BY <1>2, <2>1 DEF Coming, Busy
  <1>3. /\ "watchdog" \in Signals /\ Measured \in Signals /\ Measured \in Messages
        /\ "waiting" \in Messages /\ "watchdog" \in Messages
    BY DEF Signals, Measured, Messages, Values
  <1>4. \A x \in {"watchdog", Measured} :
            /\ Among({"waiting"}, <<x, "waiting">>) /\ Among(Signals, <<x, "waiting">>)
            /\ <<x, "waiting">> \in Seq(Messages)
    <2>. SUFFICES ASSUME NEW x \in {"watchdog", Measured}
                  PROVE  /\ Among({"waiting"}, <<x, "waiting">>)
                         /\ Among(Signals, <<x, "waiting">>)
                         /\ <<x, "waiting">> \in Seq(Messages)
      OBVIOUS
    <2>1. x \in Signals /\ x \in Messages
      BY <1>3
    <2>2. /\ DOMAIN <<x, "waiting">> = {1, 2}
          /\ <<x, "waiting">>[1] = x /\ <<x, "waiting">>[2] = "waiting"
      OBVIOUS
    <2>. QED BY <1>3, <2>1, <2>2 DEF Among
  <1>5. CASE Watchdog
    <2>1. CASE board' = "wait"
      <3>1. line' = line \o <<"watchdog", "waiting">> /\ UNCHANGED found
        BY <1>5, <2>1 DEF Watchdog, reader
      <3>2. Adds(<<"watchdog", "waiting">>)
        BY <1>4, <3>1
      <3>. QED BY <1>2, <3>2
    <2>2. CASE board' # "wait"
      <3>1. line' = line \o <<"watchdog">> /\ UNCHANGED found
        BY <1>5, <2>2 DEF Watchdog, reader
      <3>2. Adds(<<"watchdog">>)
        BY <1>3, <2>2, <3>1
      <3>. QED BY <1>2, <3>2
    <2>. QED BY <2>1, <2>2
  <1>6. CASE FlashFPGA
    <2>1. line' = line \o <<Measured, "waiting">> /\ UNCHANGED found
      BY <1>6 DEF FlashFPGA, reader
    <2>2. Adds(<<Measured, "waiting">>)
      BY <1>4, <2>1
    <2>. QED BY <1>2, <2>2
  <1>. QED BY <1>1, <1>5, <1>6

LEMMA HostWakes ==
    ASSUME TypeOK, WakeUpComes, ~cut, Run \/ Exit \/ \E R \in Requests : Queue(R)
    PROVE  WakeUpComes'
  <1>. USE DEF WakeUpComes
  <1>1. CASE Upload
    <2>1. usb' # <<>>
      <3>1. usb \in Seq(Bitstreams \X Nat) /\ usb' = Append(usb, <<current, sent + 1>>)
        BY <1>1 DEF Upload, TypeOK
      <3>. QED BY <3>1
    <2>. QED BY <2>1 DEF Busy
  <1>2. CASE WaitUntilReady
    BY <1>2 DEF WaitUntilReady
  <1>3. CASE ~Upload /\ ~WaitUntilReady
    <2>1. /\ UNCHANGED <<ready, found, line, board, usb>>
          /\ pc' # "upload" => pc # "upload"
          /\ pc' = "pulse" => pc = "pulse" /\ UNCHANGED last_pulse
      BY <1>3 DEF Run, Exit, Queue, Pop, End, WaitUntilPulse, Requeue, Store, Send,
                  reader, firmware, wires
    <2>2. Busy' = Busy /\ \A S : Coming(S)' = Coming(S)
      BY <2>1 DEF Busy, Coming
    <2>. QED BY <2>1, <2>2
  <1>. QED BY <1>1, <1>2, <1>3

(* The thread waits for its board only while its wake-up is on its way or  *)
(* the firmware has something in hand that makes it come, unless a message *)
(* was cut (PulseCountState.py:110, 123, 161-193, main.cpp): the safety    *)
(* half of Answered and ExitEnds.                                          *)
THEOREM WakeUpComesHolds == Spec => []WakeUpComes
  <1>1. Init => WakeUpComes
    BY DEF Init, WakeUpComes
  <1>2. TypeOK /\ WakeUpComes /\ [Next]_vars => WakeUpComes'
    <2>. SUFFICES ASSUME TypeOK, WakeUpComes, [Next]_vars, ~cut' PROVE WakeUpComes'
      BY DEF WakeUpComes
    <2>0. ~cut
      BY DEF Next, Run, vars, history, Queue, Pop, End, WaitUntilReady, Upload, WaitUntilPulse,
             Requeue, Store, Send, Exit, Read, Match, StartTransfer, Receive, Watchdog,
             FlashFPGA, TypeOK
    <2>1. /\ pc # "upload" => ready \/ Coming({"waiting"}) \/ Busy
          /\ pc = "pulse" => last_pulse # None \/ Coming(Signals) \/ Busy
      BY <2>0 DEF WakeUpComes, Signals
    <2>. DEFINE Goal == /\ pc' # "upload" => ready' \/ Coming({"waiting"})' \/ Busy'
                        /\ pc' = "pulse" => last_pulse' # None \/ Coming(Signals)' \/ Busy'
    <2>2. CASE UNCHANGED vars
      BY <2>2 DEF vars, host, reader, firmware, wires, history, Busy, Coming, Among, WakeUpComes
    <2>3. CASE Read
      <3>1. UNCHANGED <<pc, ready, last_pulse, board, usb>>
        BY <2>3 DEF Read, host, firmware
      <3>2. Goal
        BY <2>1, <2>3, <3>1, ReadWakes DEF Busy
      <3>. QED BY <3>2 DEF WakeUpComes, Signals
    <2>4. CASE Match
      <3>1. UNCHANGED <<pc, board, usb>>
        BY <2>4 DEF Match, host, firmware, wires
      <3>2. Goal
        BY <2>1, <2>4, <3>1, MatchWakes DEF Busy
      <3>. QED BY <3>2 DEF WakeUpComes, Signals
    <2>5. CASE StartTransfer \/ Receive \/ Watchdog \/ FlashFPGA
      <3>1. UNCHANGED <<pc, ready, last_pulse>>
        BY <2>5 DEF StartTransfer, Receive, Watchdog, FlashFPGA, host, reader
      <3>2. Goal
        BY <2>1, <2>5, <3>1, FirmwareWakes
      <3>. QED BY <3>2 DEF WakeUpComes, Signals
    <2>. QED BY <2>0, <2>2, <2>3, <2>4, <2>5, HostWakes DEF Next
  <1>. QED BY <1>1, <1>2, TypeCorrect, PTL DEF Spec

-----------------------------------------------------------------------------
(* The refinement of Evaluations.  A thread about to send has a result.    *)
Sending == pc = "send" => Named(results) # {}

LEMMA NextSending ==
    ASSUME TypeOK, Working, Sending, [Next]_vars
    PROVE  Sending'
  <1>1. CASE Store
    <2>1. /\ current \in Bitstreams /\ result # None
          /\ results' = [results EXCEPT ![current] = result]
          /\ results \in [Bitstreams -> Values \union {None}]
      BY <1>1 DEF Store, Working, TypeOK
    <2>. QED BY <2>1 DEF Sending, Named
  <1>2. CASE ~Store
    <2>1. pc' = "send" => pc = "send" /\ UNCHANGED results
      BY <1>2 DEF Next, Run, vars, host, Queue, Pop, End, WaitUntilReady, Upload, WaitUntilPulse,
                  Requeue, Send, Exit, Read, Match, StartTransfer, Receive, Watchdog, FlashFPGA
    <2>. QED BY <2>1 DEF Sending, Named
  <1>. QED BY <1>1, <1>2

Answers == [i \in DOMAIN events |-> Answering(events[i])]

LEMMA AppendIs ==
    ASSUME NEW T, NEW q \in Seq(T), NEW y \in T
    PROVE  Append(q, y) = [i \in 1..(Len(q) + 1) |-> IF i = Len(q) + 1 THEN y ELSE q[i]]
  <1>. DEFINE p == Append(q, y)
  <1>1. /\ Len(q) \in Nat /\ p \in Seq(T) /\ Len(p) = Len(q) + 1
        /\ \A i \in 1..Len(q) : p[i] = q[i]
        /\ p[Len(q) + 1] = y
    OBVIOUS
  <1>. HIDE DEF p
  <1>2. p = [i \in 1..(Len(q) + 1) |-> p[i]]
    BY <1>1
  <1>3. \A i \in 1..(Len(q) + 1) : p[i] = IF i = Len(q) + 1 THEN y ELSE q[i]
    BY <1>1
  <1>. QED BY <1>2, <1>3 DEF p

LEMMA AnswersAppended ==
    ASSUME NEW S, events \in Seq(S), NEW e \in S, events' = Append(events, e)
    PROVE  Answers' = Append(Answers, Answering(e))
  <1>. DEFINE n == Len(events)  A == Answers  B == Append(A, Answering(e))
  <1>1. /\ n \in Nat /\ DOMAIN events = 1..n /\ DOMAIN events' = 1..(n + 1)
        /\ \A i \in 1..n : events'[i] = events[i]
        /\ events'[n + 1] = e
    OBVIOUS
  <1>2. Answers' = [i \in 1..(n + 1) |-> Answering(events'[i])]
    BY <1>1 DEF Answers
  <1>3. A = [i \in 1..n |-> Answering(events[i])]
    BY <1>1 DEF Answers
  <1>. DEFINE T == {Answering(x) : x \in S}
  <1>4. A \in Seq(T) /\ Len(A) = n /\ Answering(e) \in T
    <2>1. \A i \in 1..n : events[i] \in S
      BY <1>1
    <2>. QED BY <1>1, <1>3, <2>1
  <1>. HIDE DEF n, A, T
  <1>5. B = [i \in 1..(n + 1) |-> IF i = n + 1 THEN Answering(e) ELSE A[i]]
    BY <1>4, AppendIs
  <1>6. \A i \in 1..(n + 1) : i = n + 1 \/ i \in 1..n
    BY <1>1
  <1>. HIDE DEF B
  <1>7. Answers' = B
    BY <1>1, <1>2, <1>3, <1>5, <1>6
  <1>. QED BY <1>7 DEF A, B

(* The requests that are open when nothing is queued are the ones whose    *)
(* bitstreams have results.                                                *)
LEMMA ResultsAnswerAll ==
    ASSUME IInv, pc = "send", queue = <<>>
    PROVE  Answering(results) =
             {R \in asked \ {{}} : \A i \in DOMAIN events : R \notin Answering(events[i])}
  <1>. DEFINE Opened == {R \in asked \ {{}} : \A i \in DOMAIN events : R \notin Answering(events[i])}
  <1>1. /\ current = None /\ \A b : ~Has(queue, b)
        /\ asked \subseteq Requests
    BY EmptyHas DEF IInv, TypeOK, Working
  <1>2. \A b \in Bitstreams : Pending(b) <=> results[b] # None
    BY <1>1, NoneIsNoBitstream DEF Pending
  <1>3. ASSUME NEW R \in Opened PROVE R \in Answering(results)
    <2>1. R \in Requests /\ R # {} /\ R \subseteq Bitstreams
      BY <1>1 DEF Bitstreams
    <2>2. \A i \in DOMAIN events : ~ \A b \in R : events[i][b] # None
      BY <2>1 DEF Answering, Named
    <2>3. \A b \in R : Pending(b)
      BY <2>2 DEF IInv, Together
    <2>. QED BY <1>2, <2>1, <2>3 DEF Answering, Named
  <1>4. ASSUME NEW R \in Answering(results) PROVE R \in Opened
    <2>1. PICK b \in R : TRUE
      BY DEF Answering
    <2>2. R \in Requests /\ b \in Bitstreams /\ Pending(b)
      BY <1>2 DEF Answering, Named
    <2>3. PICK Q \in asked : b \in Q
      BY <2>2 DEF IInv, Together
    <2>4. R = Q
      BY <1>1, <2>2, <2>3, RequestsAssumption
    <2>5. \A i \in DOMAIN events : events[i][b] = None
      BY <2>2 DEF IInv, OnePlace
    <2>. QED BY <2>2, <2>3, <2>4, <2>5 DEF Answering, Named
  <1>. QED BY <1>3, <1>4

(* Each event answers all open requests, in whole and once                 *)
(* (PulseCountState.py:61-143): PulseCount implements Evaluations.         *)
THEOREM AnswersAllHolds == Spec => AnswersAll
  <1>. DEFINE EvalVars == <<asked \ {{}}, Answers>>
  <1>1. Init => Eval!EvalInit /\ Sending
    BY DEF Init, Eval!EvalInit, Sending
  <1>2. TypeOK /\ Working /\ Sending /\ [Next]_vars => Sending'
    BY NextSending
  <1>3. IInv /\ Sending /\ [Next]_vars => [Eval!Ask \/ Eval!Answer]_EvalVars
    <2>. SUFFICES ASSUME IInv, Sending, [Next]_vars
                  PROVE  Eval!Ask \/ Eval!Answer \/ UNCHANGED EvalVars
      OBVIOUS
    <2>1. ASSUME NEW R \in Requests, Queue(R) PROVE Eval!Ask \/ UNCHANGED EvalVars
      <3>1. R \notin asked /\ asked' = asked \union {R} /\ UNCHANGED events
        BY <2>1 DEF Queue
      <3>2. UNCHANGED Answers
        BY <3>1 DEF Answers
      <3>3. CASE R = {}
        BY <3>1, <3>2, <3>3
      <3>4. CASE R # {}
        <4>1. R \in (Requests \ {{}}) \ (asked \ {{}}) /\ asked' \ {{}} = (asked \ {{}}) \union {R}
          BY <3>1, <3>4
        <4>. QED BY <3>2, <4>1 DEF Eval!Ask, Answers
      <3>. QED BY <3>3, <3>4
    <2>2. CASE Send /\ events' # events
      <3>1. /\ pc = "send" /\ queue = <<>> /\ events' = Append(events, results)
            /\ UNCHANGED asked
        BY <2>2 DEF Send, AllDone
      <3>2. /\ events \in Seq([Bitstreams -> Values \union {None}])
            /\ results \in [Bitstreams -> Values \union {None}]
        BY DEF IInv, TypeOK
      <3>3. Answers' = Append(Answers, Answering(results))
        BY <3>1, <3>2, AnswersAppended
      <3>4. Answering(results) = Eval!Open
        <4>1. DOMAIN Answers = DOMAIN events /\ \A i \in DOMAIN events : Answers[i] = Answering(events[i])
          BY DEF Answers
        <4>. QED BY <3>1, <4>1, ResultsAnswerAll DEF Eval!Open, Answers
      <3>5. Answering(results) # {}
        <4>1. PICK b \in Bitstreams : results[b] # None
          BY <3>1 DEF Sending, Named
        <4>2. Pending(b)
          BY <4>1 DEF Pending
        <4>3. PICK R \in asked : b \in R
          BY <4>2 DEF IInv, Together
        <4>4. \A i \in DOMAIN events : events[i][b] = None
          BY <4>2 DEF IInv, OnePlace
        <4>5. R \in asked \ {{}} /\ \A i \in DOMAIN events : R \notin Answering(events[i])
          BY <4>3, <4>4 DEF Answering, Named
        <4>. QED BY <3>1, <4>5, ResultsAnswerAll
      <3>. QED BY <3>1, <3>3, <3>4, <3>5 DEF Eval!Answer, Answers
    <2>3. CASE UNCHANGED <<asked, events>>
      BY <2>3 DEF Answers
    <2>. QED BY <2>1, <2>2, <2>3
         DEF Next, Run, vars, host, Pop, End, WaitUntilReady, Upload, WaitUntilPulse, Requeue,
             Store, Send, Exit, Read, Match, StartTransfer, Receive, Watchdog, FlashFPGA
  <1>4. IInv => TypeOK /\ Working
    BY DEF IInv
  <1>5. EvalVars = <<asked \ {{}}, [i \in DOMAIN events |-> Answering(events[i])]>>
    BY DEF Answers
  <1>. QED BY <1>1, <1>2, <1>3, <1>4, <1>5, Inductive, PTL DEF Spec, AnswersAll, Eval!EvalSpec, Answers
=============================================================================
