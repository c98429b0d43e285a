----------------------------- MODULE PulseCount -----------------------------
(***************************************************************************)
(* The pulse counter of a reserved board: the evaluation thread and the    *)
(* Reader of PulseCountState, and the firmware they talk to over a serial  *)
(* line, worker/firmware/pulse_count/main.cpp.                             *)
(*                                                                         *)
(* A bitstream is written in Length[b] chunks, of which the firmware takes *)
(* Size.  A message on the line is "waiting", "watchdog", or the pulses    *)
(* of what was flashed: a bitstream, or Mixed when the firmware's buffer   *)
(* held anything but one whole bitstream.                                  *)
(***************************************************************************)
EXTENDS Naturals, Sequences, SequencesExt

CONSTANTS
    Requests,       \* the evaluate requests, each a set of bitstreams
    Length,         \* chunks a bitstream's file has
    Size,           \* chunks the firmware takes (bitstreamSizeLengthBytes)
    Fifo,           \* chunks the board's USB buffer takes before writes block
    MaxLine,        \* bound: messages on the line that the Reader has not read
    Mixed,          \* pulses of something else than one bitstream
    None            \* no pulses, no bitstream

Bitstreams == UNION Requests

ASSUME RequestsAssumption ==
    /\ \A R, S \in Requests : R = S \/ R \intersect S = {}
    /\ \A R \in Requests : IsFiniteSet(R)
ASSUME LengthAssumption ==
    Length \in [Bitstreams -> Nat \ {0}] /\ Size \in Nat \ {0} /\ Fifo \in Nat \ {0}
ASSUME NamesAssumption ==
    /\ {None, Mixed, "waiting", "watchdog"} \intersect Bitstreams = {}
    /\ Mixed \notin {None, "waiting", "watchdog"}
    /\ None \notin {"waiting", "watchdog"}

VARIABLES
    \* PulseCountState
    asked,          \* requests received
    queue,          \* bitstream_queue
    pc,             \* where the thread is in run
    current,        \* bitstream
    result,
    sent,           \* chunks of it written
    results,        \* self.results
    exiting,
    events,         \* the results events sent
    \* Reader
    ready,
    last_pulse,
    found,          \* matches of the last read, not handled yet
    \* the firmware
    board,          \* currentState
    buffer,         \* bitstream
    usb,            \* chunks on the way to it
    line,           \* messages on the way to the host
    \* history
    barked,         \* the watchdog ran out
    cut             \* a read ended inside a message

host == <<asked, queue, pc, current, result, sent, results, exiting, events>>
reader == <<ready, last_pulse, found>>
firmware == <<board, buffer>>
wires == <<usb, line>>
history == <<barked, cut>>
vars == <<host, reader, firmware, wires, history>>

Values == Bitstreams \union {Mixed}
Messages == Values \union {"waiting", "watchdog"}
Nothing == [b \in Bitstreams |-> None]

HostTypes ==
    /\ asked \subseteq Requests
    /\ queue \in Seq(Bitstreams)
    /\ pc \in {"pop", "ready", "upload", "pulse", "store", "send", "ended"}
    /\ current \in Bitstreams \union {None}
    /\ result \in Values \union {None, "watchdog"}
    /\ sent \in Nat
    /\ results \in [Bitstreams -> Values \union {None}]
    /\ exiting \in BOOLEAN
    /\ events \in Seq([Bitstreams -> Values \union {None}])

ReaderTypes ==
    /\ ready \in BOOLEAN
    /\ last_pulse \in Values \union {None, "watchdog"}
    /\ found \in Seq(Messages)
    /\ line \in Seq(Messages)
    /\ cut \in BOOLEAN

FirmwareTypes ==
    /\ board \in {"wait", "transfer", "flash"}
    /\ buffer \in Seq(Bitstreams \X Nat)
    /\ usb \in Seq(Bitstreams \X Nat)
    /\ barked \in BOOLEAN

TypeOK == HostTypes /\ ReaderTypes /\ FirmwareTypes

(* The firmware says that it waits when the host opens the port.           *)
Init ==
    /\ asked = {} /\ queue = <<>> /\ pc = "pop" /\ current = None /\ result = None
    /\ sent = 0 /\ results = Nothing /\ exiting = FALSE /\ events = <<>>
    /\ ready = TRUE /\ last_pulse = None /\ found = <<>>
    /\ board = "wait" /\ buffer = <<>> /\ usb = <<>> /\ line = <<"waiting">>
    /\ barked = FALSE /\ cut = FALSE

-----------------------------------------------------------------------------
(* The host.  queue(files), the handler of evaluate: the request's files   *)
(* are appended at once.  The device is not asked any more when it exits.  *)
\* mutant: one file of the request is left for later
QueuePart(R) == \E b \in R : \E order \in SetToSeqs(R \ {b}) : queue' = queue \o order

Queued(R) == \E order \in SetToSeqs(R) : queue' = queue \o order

Queue(R) ==
    /\ R \notin asked /\ ~exiting
    /\ asked' = asked \union {R}
    /\ Queued(R)
    /\ UNCHANGED <<pc, current, result, sent, results, exiting, events,
                   reader, firmware, wires, history>>

(* The loop of run: exiting is looked at before a bitstream is popped, the *)
(* last one first.                                                         *)
Pop ==
    /\ pc = "pop"
    /\ ~exiting
    /\ queue # <<>>
    /\ current' = Last(queue)
    /\ queue' = Front(queue)
    /\ pc' = "ready"
    /\ UNCHANGED <<asked, result, sent, results, exiting, events,
                   reader, firmware, wires, history>>

End ==
    /\ pc = "pop"
    /\ exiting
    /\ pc' = "ended"
    /\ UNCHANGED <<asked, queue, current, result, sent, results, exiting, events,
                   reader, firmware, wires, history>>

WaitUntilReady ==
    /\ pc = "ready"
    /\ ready
    /\ ready' = FALSE
    /\ pc' = "upload"
    /\ sent' = 0
    /\ UNCHANGED <<asked, queue, current, result, results, exiting, events,
                   last_pulse, found, firmware, wires, history>>

(* A write blocks while the board's buffer is full.                        *)
Upload ==
    /\ pc = "upload"
    /\ Len(usb) < Fifo
    /\ usb' = Append(usb, <<current, sent + 1>>)
    /\ sent' = sent + 1
    /\ pc' = IF sent' = Length[current] THEN "pulse" ELSE "upload"
    /\ UNCHANGED <<asked, queue, current, result, results, exiting, events,
                   reader, firmware, line, history>>

\* mutant: last_pulse is kept
TakenKept == result' = last_pulse /\ UNCHANGED last_pulse

Taken == result' = last_pulse /\ last_pulse' = None

(* Nobody sets Reader.exiting before the thread has ended.                 *)
WaitUntilPulse ==
    /\ pc = "pulse"
    /\ last_pulse # None
    /\ Taken
    /\ pc' = "store"
    /\ UNCHANGED <<asked, queue, current, sent, results, exiting, events,
                   ready, found, firmware, wires, history>>

(* A bitstream whose upload timed out is queued again.                     *)
Requeue ==
    /\ pc = "store"
    /\ result = "watchdog"
    /\ queue' = Append(queue, current)
    /\ current' = None
    /\ pc' = "pop"
    /\ UNCHANGED <<asked, result, sent, results, exiting, events,
                   reader, firmware, wires, history>>

Store ==
    /\ pc = "store"
    /\ result # "watchdog"
    /\ results' = [results EXCEPT ![current] = result]
    /\ current' = None
    /\ pc' = "send"
    /\ UNCHANGED <<asked, queue, result, sent, exiting, events,
                   reader, firmware, wires, history>>

\* mutant: results are sent as they come
AllDoneAlways == TRUE

AllDone == queue = <<>>

Send ==
    /\ pc = "send"
    /\ \/ /\ AllDone
          /\ events' = Append(events, results)
          /\ results' = Nothing
       \/ ~AllDone /\ UNCHANGED <<events, results>>
    /\ pc' = "pop"
    /\ UNCHANGED <<asked, queue, current, result, sent, exiting,
                   reader, firmware, wires, history>>

(* handleExit, which then joins the thread.                                *)
Exit ==
    /\ ~exiting
    /\ exiting' = TRUE
    /\ UNCHANGED <<asked, queue, pc, current, result, sent, results, events,
                   reader, firmware, wires, history>>

-----------------------------------------------------------------------------
(* The Reader.  One read may take several messages, of which each pattern  *)
(* finds the first, and handles them in the order of the code.             *)
First(data, S) ==
    LET at == {i \in DOMAIN data : data[i] \in S}
    IN IF at = {} THEN <<>> ELSE <<data[CHOOSE i \in at : \A j \in at : i <= j]>>

\* mutant: one pattern per read, as with elif
MatchesOne(data) ==
    SubSeq(First(data, Values) \o First(data, {"watchdog"}) \o First(data, {"waiting"}), 1,
           IF data = <<>> THEN 0 ELSE 1)

Matches(data) ==
    First(data, Values) \o First(data, {"watchdog"}) \o First(data, {"waiting"})

(* A read that ends inside a message misses it, or takes some digits of    *)
(* the pulses for all of them.                                             *)
Cut(data) ==
    {Front(data)} \union IF Last(data) \in Values THEN {Append(Front(data), Mixed)} ELSE {}

Read ==
    /\ found = <<>>
    /\ \E n \in 1..Len(line) :
          /\ line' = SubSeq(line, n + 1, Len(line))
          /\ \/ found' = Matches(SubSeq(line, 1, n)) /\ UNCHANGED cut
             \/ /\ \E data \in Cut(SubSeq(line, 1, n)) : found' = Matches(data)
                /\ cut' = TRUE
    /\ UNCHANGED <<host, ready, last_pulse, firmware, usb, barked>>

Match ==
    /\ found # <<>>
    /\ found' = Tail(found)
    /\ \/ /\ Head(found) = "waiting"
          /\ ready' = TRUE
          /\ UNCHANGED last_pulse
       \/ /\ Head(found) # "waiting"
          /\ last_pulse' = Head(found)
          /\ UNCHANGED ready
    /\ UNCHANGED <<host, firmware, wires, history>>

-----------------------------------------------------------------------------
(* The firmware.  A transfer starts with an empty buffer.                  *)
StartTransfer ==
    /\ board = "wait"
    /\ usb # <<>>
    /\ board' = "transfer"
    /\ buffer' = <<>>
    /\ UNCHANGED <<host, reader, wires, history>>

(* What the loop does with a chunk that is there.                          *)
Take ==
    /\ usb' = Tail(usb)
    /\ buffer' = Append(buffer, Head(usb))

Receive ==
    /\ board = "transfer"
    /\ usb # <<>>
    /\ Take
    /\ board' = IF Len(buffer') = Size THEN "flash" ELSE "transfer"
    /\ UNCHANGED <<host, reader, line, history>>

\* mutant: the timeout leaves the firmware in the transfer
AfterWatchdogStays == "transfer"

\* mutant: the timeout sends the firmware to IDLE, which does not wait
AfterWatchdogIdle == "idle"

AfterWatchdog == "wait"

(* The watchdog, whose iteration still takes what has arrived: when that   *)
(* was the last chunk, the bitstream is flashed all the same.              *)
Watchdog ==
    /\ board = "transfer"
    /\ Len(line) + 2 <= MaxLine
    /\ \/ /\ usb = <<>>
          /\ board' = AfterWatchdog
          /\ UNCHANGED <<usb, buffer>>
       \/ /\ usb # <<>>
          /\ Take
          /\ board' = IF Len(buffer') = Size THEN "flash" ELSE AfterWatchdog
    /\ line' = line \o IF board' = "wait" THEN <<"watchdog", "waiting">> ELSE <<"watchdog">>
    /\ barked' = TRUE
    /\ UNCHANGED <<host, reader, cut>>

Measured ==
    IF \E b \in Bitstreams : buffer = [i \in 1..Size |-> <<b, i>>]
    THEN CHOOSE b \in Bitstreams : buffer[1] = <<b, 1>>
    ELSE Mixed

(* The FPGA is flashed and measured for five seconds; then the firmware    *)
(* goes through IDLE and starts over.                                      *)
FlashFPGA ==
    /\ board = "flash"
    /\ Len(line) + 2 <= MaxLine
    /\ board' = "wait"
    /\ line' = line \o <<Measured, "waiting">>
    /\ UNCHANGED <<host, reader, buffer, usb, history>>

-----------------------------------------------------------------------------
Run == Pop \/ End \/ WaitUntilReady \/ Upload \/ WaitUntilPulse \/ Requeue \/ Store \/ Send
Next ==
    \/ \E R \in Requests : Queue(R)
    \/ Run \/ Exit
    \/ Read \/ Match
    \/ StartTransfer \/ Receive \/ Watchdog \/ FlashFPGA

Spec == Init /\ [][Next]_vars

(* The threads run, the firmware loops, and its watchdog runs out when a   *)
(* transfer does not end.                                                  *)
Fairness ==
    /\ WF_vars(Run)
    /\ WF_vars(Read) /\ WF_vars(Match)
    /\ WF_vars(StartTransfer) /\ WF_vars(Receive) /\ WF_vars(FlashFPGA)
    /\ WF_vars(Watchdog)

FairSpec == Spec /\ Fairness

-----------------------------------------------------------------------------
Named(r) == {b \in Bitstreams : r[b] # None}

(* PulseCountEventHandler.results is "called when ALL bitstreams have been *)
(* evaluated": an event has all bitstreams of a request or none of them,   *)
(* and each request is in one event only, whatever is queued meanwhile,    *)
(* times out or is tried again.                                            *)
EventsWhole ==
    \A R \in Requests :
        /\ \A i \in DOMAIN events : R \intersect Named(events[i]) \in {{}, R}
        /\ \A i, j \in DOMAIN events :
              R \intersect Named(events[i]) # {} /\ R \intersect Named(events[j]) # {} => i = j

(* What comes of it: whatever is queued meanwhile, times out or is tried   *)
(* again, an event answers all requests that are open then, and no event   *)
(* is empty.  (A request without files is dropped: nothing is queued.)     *)
Answering(e) == {R \in Requests \ {{}} : R \subseteq Named(e)}

Eval == INSTANCE Evaluations WITH
    Requests <- Requests \ {{}},
    asked <- asked \ {{}},
    answers <- [i \in DOMAIN events |-> Answering(events[i])]

AnswersAll == Eval!EvalSpec

(* No bitstream is lost: one that was asked for waits, is evaluated, or    *)
(* has its result, in one place only.                                      *)
Kept ==
    \A b \in UNION asked :
        LET places == {<<"queue", i>> : i \in {i \in DOMAIN queue : queue[i] = b}}
                      \union (IF current = b THEN {<<"current", 0>>} ELSE {})
                      \union (IF results[b] # None THEN {<<"results", 0>>} ELSE {})
                      \union {<<"events", i>> : i \in {i \in DOMAIN events : events[i][b] # None}}
        IN \E p \in places : places = {p}

(* The parts of the inductive invariant of EventsWhole and Kept.           *)
Has(q, b) == \E i \in DOMAIN q : q[i] = b
Distinct(q) == \A i, j \in DOMAIN q : q[i] = q[j] => i = j

Pending(b) == Has(queue, b) \/ current = b \/ results[b] # None

\* the thread has a bitstream from its pop until its result is stored
Working ==
    /\ current # None <=> pc \in {"ready", "upload", "pulse", "store"}
    /\ pc = "store" => result # None

\* a bitstream is in one place
OnePlace ==
    /\ Distinct(queue)
    /\ \A b \in Bitstreams :
          /\ Has(queue, b) => current # b /\ results[b] = None
          /\ current = b => results[b] = None
          /\ \A i, j \in DOMAIN events :
                events[i][b] # None => ~Pending(b) /\ (events[j][b] # None => i = j)

\* those of a request are all under way or all in one event
Together ==
    /\ \A R \in asked : \/ \A b \in R : Pending(b)
                        \/ \E i \in DOMAIN events : \A b \in R : events[i][b] # None
    /\ \A b \in Bitstreams : Pending(b) => b \in UNION asked
    /\ \A b \in Bitstreams, i \in DOMAIN events : events[i][b] # None => b \in UNION asked

IInv == TypeOK /\ Working /\ OnePlace /\ Together

(* Results map a bitstream to its own pulses, as long as no watchdog ran   *)
(* out and no message was cut, although the thread uploads on stale ready  *)
(* flags and takes whatever pulse comes.  A file longer than the firmware  *)
(* takes would leave chunks that open the next transfer.                   *)
Fits == \A b \in Bitstreams : Length[b] <= Size

Own(r) == \A b \in Bitstreams : r[b] \in {b, None}

OwnPulses ==
    Fits /\ ~barked /\ ~cut => Own(results) /\ \A i \in DOMAIN events : Own(events[i])

(* The parts of the inductive invariant of OwnPulses.                      *)
Silence(s) == \A i \in DOMAIN s : s[i] = "waiting"
Single(s, x) == \E i \in DOMAIN s : s[i] = x /\ \A j \in DOMAIN s : j = i \/ s[j] = "waiting"

\* no pulse is on its way to the thread, or exactly one
NoPulse == Silence(line) /\ Silence(found) /\ last_pulse = None
OnePulse(x) ==
    \/ Single(line, x) /\ Silence(found) /\ last_pulse = None
    \/ Silence(line) /\ Single(found, x) /\ last_pulse = None
    \/ Silence(line) /\ Silence(found) /\ last_pulse = x

Quiet == board = "wait" /\ usb = <<>>

\* what was written of current is in the buffer and, behind it, on its way
Got == IF board = "wait" THEN 0 ELSE Len(buffer)
Streaming ==
    /\ \A i \in 1..Got : buffer[i] = <<current, i>>
    /\ \A i \in DOMAIN usb : usb[i] = <<current, Got + i>>
    /\ Got + Len(usb) = sent
    /\ board = "transfer" => Len(buffer) < Size
    /\ board = "flash" => Len(buffer) = Size

InStep ==
    /\ pc \in {"pop", "ready", "send", "ended"} => Quiet /\ NoPulse
    /\ pc = "upload" => Streaming /\ sent < Length[current] /\ NoPulse
    /\ pc = "pulse" => \/ Streaming /\ sent = Length[current] /\ NoPulse
                       \/ Quiet /\ OnePulse(current)
    /\ pc = "store" => Quiet /\ NoPulse /\ result = current

OwnInv == OwnPulses /\ (Fits /\ ~barked /\ ~cut => InStep)

(* The thread, its Reader and the firmware never all wait for each other:  *)
(* unless a message was cut, the thread waits for its board only while what*)
(* it waits for is on its way, or the firmware has something in hand that  *)
(* makes it send that; also when the watchdog runs out, the thread uploads *)
(* on a stale ready, or one read takes several messages                    *)
(* (PulseCountState.py:110, 123, 161-193).                                 *)
Among(S, s) == \E i \in DOMAIN s : s[i] \in S
Coming(S) == Among(S, found) \/ Among(S, line)
Busy == board # "wait" \/ usb # <<>>

WakeUpComes ==
    ~cut => /\ pc # "upload" => ready \/ Coming({"waiting"}) \/ Busy
            /\ pc = "pulse" => last_pulse # None \/ Coming(Values \union {"watchdog"}) \/ Busy

(* Every request is answered, unless the state is left, if no watchdog     *)
(* runs out and no message is cut.                                         *)
Answered ==
    []~(barked \/ cut) =>
        \A R \in Requests : R \in asked ~> exiting \/ \E i \in DOMAIN events : R \subseteq Named(events[i])

(* handleExit, which joins the thread under the lock of the device,        *)
(* returns, even when the watchdog keeps running out, if no message is cut.*)
ExitEnds == []~cut => (exiting ~> pc = "ended")
=============================================================================
