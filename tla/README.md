# usbip-ice: verification project

TLA+ models of usbip-ice (the iCE FPGA array resource manager), the TLC runs that
check them on small instances and the TLAPS proofs about them. Paths are relative to
the repository; `.../` stands for `src/usbipice/`, and `V1.3` and the like for the
migrations in `.../control/flyway/migrations/`. `PROJECT.json` holds the lists a tool
can read: components, runs, mutants, the map of definitions to source lines,
findings, hazards and theorems.

## The system

| part | state it keeps | operations | talks to |
|---|---|---|---|
| control database (`V1*.sql`, `ControlDatabase.py`, `WorkerDatabase.py`) | rows of Worker, Device, Reservations | the stored procedures | called by control and workers, a connection per call |
| control API (`.../control/Control.py`, `app.py`) | none of its own | reserve, extend, end, and their "all" forms | database; then HTTP `/reserve`, `/unreserve` to workers; events to clients |
| heartbeat (`.../control/Heartbeat.py`) | none of its own | four polls: worker heartbeats, worker timeouts, reservation timeouts, ending soon | database, HTTP `/heartbeat`, `/unreserve` |
| worker, device manager (`.../worker/app.py`, `device/DeviceManager.py`) | its boards by serial | udev events, reserve, unreserve, socket requests, exit | database, boards, clients |
| device and its states (`device/Device.py`, `device/state/`) | the state object of a board, its timers | switch, events, requests, exit | database (status), board |
| event sessions (`.../utils/EventSender.py`) | a session per client: socket, queue, timer | connect, disconnect, send, flush, timeout | clients |
| client library (`.../client/lib/`) | `connection_info`, a socket per worker, `awaiting_serials` | reserve, end, endAll, stop, removeSerial, three event handlers | control, workers |
| pulse-count driver (`.../client/drivers/pulse_count/`) | `uuid_map`, `results`, `remaining_serials` | evaluate, the handler of results | client library |
| firmware flasher (`.../utils/FirmwareFlasher.py`) | the queue of boards, their `Device` objects, `failed_serials` | start, flash, wait, stop, udev events, its timer | boards |

What ties them together is the life of a board. A worker finds it, registers it,
flashes the default firmware, tests it and writes `available`; control gives it to a
client (`reserved`) and asks the worker to switch it to the state the client wants; at
the end control writes `await_flash_default` and asks the worker to reset it. The
database and the worker learn of each other only by calls that may be lost, late or
made by a process that has restarted since, and neither side acknowledges anything.

What is hard in it: transactions that read, then write, at READ COMMITTED; a status
column that both sides write without looking; requests nobody repeats; timers of states
that were replaced; udev events in threads of their own; workers that die with their
rows left behind. `hazards` in `PROJECT.json` lists each at its line.

What makes each part correct: the database keeps its keys, one holder per device and no
device that is lost to everybody; the control API gives each board to its holder
undisturbed; the heartbeat drops exactly the silent workers; a device always comes out
of flashing and testing and is offered only with the right firmware; a session neither
keeps no event from a connected client and sends none twice; a client that waits is woken
by every answer it can still get and takes no late answer for its own; a flasher reports
each board it was given, and none as done that was not programmed.

## The modules

* `Tables`: the three tables and what one committed change does to them. Keys and
  `ON DELETE CASCADE` are in the shape of the state: `owner` (Device.Worker), `status`
  and `holder` (Reservations.ClientName) are functions of the serial. Of the heartbeat
  time only "older than the timeout" is kept (`late`).
* `ReservationDB` (extends `Tables`): the procedures as interleaving transactions.
  Each statement is a step: the one that reads (into `txn[t].rows`, its temporary table `res`),
  the first write, and the last write with the commit; `Rollback` may end any. Nobody sees
  a write before the commit. `hit` is which rows the first write found: they are locked
  (`Marked`, `Cleared`), and who would write them waits. Two writes of one transaction may
  find different rows, as one may be registered again in between. What a timeout reports is not
  kept. `cut` is what `LastHeartbeat < t` selects; a heartbeat takes its worker out of
  it, as the DELETE evaluates the condition anew. `overdue` is `Until < now`.
  Two specifications with the same actions restrict the environment: `CallerSpec` has
  callers that wait for their answer (`OneCall`, as `BaseAPI.request` does) and no serial that
  is registered anew while an open end call has it in `res`; `CalmSpec` also has a board that
  `makeReservations` has selected neither ended nor reported broken before the commit.
* `Leases`: the abstract promise of the reservation procedures; `ReservationDB`
  implements it with `holder` as it is.
* `Handover`: the abstract promise to a client about the board it is given: since its last
  holder it was flashed with the default firmware, tested and offered. Each board of `Farm`
  implements it, with the phase read off the database (`holder`, `available`) and off the worker
  (`mode`).
* `DeviceState`: the state object of one board and the threads that race to replace it.
  `Device._device_lock` makes a switch or an event handler one step; outside it are the
  status write of `__flashDefault` and the first half of a timer's switch.
  `cur.switching` and `cur.timer` are `_switching` and `timer` of the current state;
  `stale` counts the timers of states that `Device.switch` replaced, which nobody
  cancels. The firmware (`board`) and the udev events it causes are external.
* `BoardLife`: the abstract promise of a board in a worker, which states follow which and
  when a timer of a replaced state may still act (`haunted`). `DeviceState` implements it
  (`LifeRefinement`, by way of `Mode` and `Haunted`), and so does each board of `Farm`
  (`BoardsLive`): the farm takes for granted of a board what its threads do.
* `Farm` (extends `Tables`): control, database, workers and boards together. A board is
  its current state (`mode`), as in `BoardLife`; `reserves` and `unreserves` are requests on their way,
  `resetting` unreserves that have written the status and not switched yet, `haunted`
  boards with a stale timer, `probed` heartbeat answers not stored yet. `stray` remembers the
  boards that a reserve request may load which is not the one request of their holder
  (it outlived its reservation, or is a second one). The closures of
  `Control.reserve`, which share their loop variable, are `Bound` and `Sent`.
* `EventSession`: the sessions of one client in one app's `EventSender`. Sends, connects,
  disconnects and timers run in threads of their own; `thread[t].pc` says which lock block
  or emit comes next, so a step is what runs under one lock. `session[s]` holds the
  fields of a `Session` object: `sock` (`sock_id`), `queue` (`message_queue`), `timer`
  (the timer `self.timeout` names is running), `old` (running timers it named before),
  `firing` (timers past their time, `endSession` still to come). An object that
  `endSession` forgot lives on in the threads that still hold it. Sockets (`net`) are
  external; an emit to a closed one is dropped or raises.
* `PulseCount`: the evaluation thread of `PulseCountState` (`pc` is its place in `run`), its
  `Reader`, and the firmware at the other end of the serial line (`board` is `currentState`).
  A file is `Length[b]` chunks, of which the firmware takes `Size`; `usb` and `line` are the
  bytes and messages under way. `Read` takes any number of messages; `found` are its matches,
  handled one by one. A read may end inside a message (`Cut`), which is then missed, or gives
  a wrong number. The iteration in which the watchdog runs out goes on to take what has
  arrived, as the firmware's does, and may still flash. `barked` and `cut` remember that
  one or the other happened.
* `Evaluations`: the abstract promise of a pulse counter to its holder: each results event
  answers all requests that are open, whole and once. `PulseCount` implements it.
* `ClientLib`: `BaseAPI`, `BaseClient`, `EventServer` and `PulseCountClient` in one client.
  `pc` is where the calling thread is in `reserve`, `evaluate`, `end` or `stop`, with `mine`
  the boards the call is about and `todo` those its loop has still to reach. `removers` are the
  calls of `removeSerial` under way (each event has a thread), one step per lock or field.
  `info`, `sockets`, `awaiting`, `remaining` are the keys of `connection_info`,
  `worker_sockets`, `awaiting_serials`, `remaining_serials`; a `uuid_map` is known by its
  `round`. Control, workers and boards are external: what is reserved (`held`), what starts
  or evaluates (`starting`, `asked`), and the events on their way (`wire`). `lost` remembers
  the boards whose answer cannot come to the call under way any more.
* `Flasher`: `FirmwareFlasher`. `remaining[s]` is the `Device` in `remaining_serials`,
  numbered by its flash call; `observer` is the thread that handles udev events, which looks
  a `Device` up under `cv` and uses it outside; `timer` and `late` are the timers of
  `waitUntilFlashingFinished`, `pc` the caller. The boards, their firmware (`fw`) and their
  udev events are external.
* `ReservationDBProofs`, `DeviceStateProofs`, `FarmProofs`, `EventSessionProofs`,
  `EventOnceProofs`, `PulseCountProofs`, `ClientLibProofs`, `FlasherProofs`: the theorems.
  `MCReservationDB`, `MCFarm`, `MCEventSession`, `MCPulseCount`, `MCClientLib`: symmetry and
  the placement of boards for TLC.

Definitions whose comment says "mutant" are faulty variants of the definition that
follows. They are used by nothing; each shows that a property notices a plausible bug.

## The runs

| run | instance | distinct states | shows |
|---|---|---|---|
| `reservation` | 2 workers, 2 devices, 2 clients, 2 connections | 756 000 | `Integrity`, `ReservedIsHeld`, `OnlySilentWorkersDropped`, `LeaseRefinement`, `Serial` |
| `ends_own` | 1 worker, 2 devices, 2 clients, 2 connections | violation | finding 1 |
| `device` | 1 board, 3 requests, 1 replug | 25 500 | `FirmwareMatches`, `StatusTracksState`, `Watched`, `Settles`, `LifeRefinement` |
| `stale_timer` | 1 board, a reserve request that its unreserve overtook | violation | finding 2 |
| `farm` | 1 worker, 2 boards, 2 clients, 2 reserve requests under way | 345 000 | `HolderUndisturbed`, `OfferedIsSettled`, `OneUnreserve`, `HeldStatus`, `DeadIsForgotten`, `BoardsLive`, `CleanHandover` |
| `session` | 2 messages, 2 sockets, 2 session objects | 3 660 000 | `OnlyOnce`, `NothingStranded` |
| `session_ended` | 1 message, 2 sockets, 1 session object | violation | finding 3 |
| `pulses` | requests of 2 and 1 bitstreams, one file too short | 1 910 000 | `Kept`, `OwnPulses`, `WakeUpComes`, `AnswersAll` |
| `pulses_end` | any 2 of 3 requests of 1 bitstream, one file too short | 556 000 | `Answered`, `ExitEnds` |
| `client` | 2 boards on one worker, 3 calls or faults, 1 event thread | 559 000 | `AwaitedComes`, `AnswersOwn`, `NoticeUnderWay`, `CallsReturn` |
| `client_closed` | the same with 1 call | violation | finding 4 |
| `flasher` | 2 boards, 2 flash calls or replugs | 1 130 000 | `Accounted`, `DoneIsUploaded`, `DiesOnlyRaced`, `WaitEnds` |

Each module's `TypeOK` is checked by the first passing run in the table that is of it.
No run checks `EventsWhole`, which follows from `AnswersAll` and `Kept`, nor `SleepsForABoard`,
`ClaimsOwn` and `SelectedCalm`: they are theorems, and TLC agreed before they were proved.

Bounds. Every race of the procedures is between two transactions, or a transaction and
a worker's write; two devices let an answer be partly stale, two workers let a cascade
take one of them, and two clients let a device change hands. Of the states that a worker
writes (`WorkerStatus`) the procedures tell only `available` from the others, so `available` and
`broken` stand for all of them; the theorems are about any that do not include `reserved`. For `Farm` two boards on
one worker share its process, and a second host adds no shared state (two workers with a
board each are millions of states, too many for a run; the theorems are about any placement).
`MaxWire` bounds the reserve requests under way; two is one of an old and one of a new
reservation, or two that the late binding sends to one board. `MaxRequests = 3` lets a request follow two that were
superseded, so two stale timers exist with a current one. `stale_timer` takes the two requests
of one reservation, in the wrong order (`LateSpec`). `MaxReplugs = 1` gives a
board events it did not cause itself. Two messages make a batch whose first fails while
the second is forgotten, two sockets an old and a new connection, and two session objects
a session that ends and is made anew under threads that hold the old one. In `PulseCount`
a file of two chunks can be taken in part; `Fifo = 1` has the board's buffer block the
host at once, and `MaxLine = 2` lets the firmware report again when the host has read its last
report (seconds apart in fact). `pulses_end` has any two of three requests (`TwoAskedUncut`): two whose
files fit, which overlap on a quiet line, or one of these and the short file. It does not follow a
behaviour in which a message was cut, of which its properties say nothing. In `ClientLib` `MaxSpent = 3` counts the calls of reserve
and evaluate and the faults: a reserve whose answer is lost counts as two, a worker
that cannot be reached, a lost answer of end, a board or a worker that fails as one each.
So a reserve can be followed by an evaluation and a fault, or by two evaluations of which
the second could meet late results of the first; `end` is free. Two boards on one worker
share its socket, which is where `removeSerial` can go wrong. `MaxHandlers` bounds the event threads in
`removeSerial`; the caller may be in it too. In `Flasher` `MaxSpent = 2` counts flash calls,
each of one or both boards, and boards plugged out and in: a board is flashed again while events
of the first flash are still to come, and another is in the queue with it. The short file makes the watchdog run out for ever, and
a request that comes while another is tried again makes their results meet. The safety results do not rest on the bounds
where a theorem repeats them.

Deadlock is checked except for `DeviceState`, where a board may really stop (no more
events, or its lock held by a thread that waits for ever), `EventSession`, where
everything may have been sent and every socket gone, and `PulseCount`, where all may be
evaluated, `ClientLib`, where the client may have no call to make or wait for ever, and
`Flasher`, where a wait without a timeout may last for ever.

Fairness. `ReservationDB` and `EventSession` have safety properties only. `DeviceState`: weak fairness of the timers of the
current state; nothing is assumed of the board, of events or of requests. `Farm`: time
passes (`WorkerLate`) and the timeout poll runs (`WorkerTimeouts`); no process is
assumed to live, restart or answer.
`PulseCount`: weak fairness of the two threads and of the firmware's loop, its watchdog
included; none of requests, of the exit, or of an upload being in time.
`ClientLib`: weak fairness of the calling thread, of the threads in `removeSerial`, and of
each board's answer, from the board to its handler, while nothing loses it (a board that
fails, a worker that dies or cannot be reached are actions of their own); none of calls or
of notices. `Flasher`: the caller's own steps and the timers; nothing of boards, of udev or of
the observer, so `WaitEnds` holds with an observer that is dead.

Reading of some properties:

* `ReservedIsHeld`: a status `reserved` without a reservation would hide the device
  from `makeReservations` and from every end call.
* `Watched`, and with it `Settles`: in default flashing and in the test, the timer is
  running or is the one that already marked the state as switching. A failed upload, an
  event that comes too early or a lost board thus ends in `BrokenState`. (The flashing
  of a pulse-count reservation has no timer and no such guarantee.)
* `HolderUndisturbed`: no unreserve of an earlier reservation is on its way to a board
  with a holder, and the board is not being reset or tested (`Settled`). A reserve request also
  flashes the board; the one on its way is the holder's and finds the board not loaded
  (`LoadedOnce`), unless the board is `stray`. That exception is a defect of the code:
  `Control.reserve` neither calls a request back nor waits for it, so one that outlives its
  reservation, or a second one that the late-bound `row` sends to the board, loads the board again
  under its holder. The property says that this is the only way it happens, and that a stray board
  is no longer stray when it has been reset with no request under way.
* `OfferedIsSettled` is what makes it so: `available` is written only by the test at the
  end of a reset, which no unreserve is then waiting to repeat; and, but for a stray board,
  no reserve request is on its way to it either (`Unloaded`).
* `CleanHandover`: between two holders a board goes through a flash, the test and an offer, in
  this order and without a gap; a board that drops out (an end, a failed test, a crash, a
  timeout of its worker, a request that overtakes another) starts over. `HolderUndisturbed`
  says that nothing wipes the board of a holder; this says that nobody holds a board that was
  not wiped. Its phases are read off the database: a stray reserve request that loads
  a board between its offer and its next holder does not end the offer, which the database
  does not notice either.
* `Serial`: a step changes the tables like one whole call at its commit (`OneByOne`: a
  grant is of boards that are available then, an end of the caller's boards, a timeout of silent
  workers), as long as the open calls still have what they selected. For the ends that is
  `ClaimsOwn`: what an end call found in `Reservations` still belongs to its caller when it
  deletes, and its DELETE finds it; or it is gone with its device. For the grants it is `SelectedCalm`: what
  `makeReservations` found is available still, or reserved by another, or gone, and is gone if
  its UPDATE did not find it. The code does not
  ensure either, as the run `ends_own` shows of the first. `CallerSpec` and `CalmSpec` are
  conditions on the callers under which the first, or both, always hold; this is proved (below) and was checked
  once with TLC (the instance of `ends_own`, 40 000 and 18 000 states).
* `NothingStranded`: the send appends and then looks for a socket, the connection sets
  the socket and then looks for messages, each under `Session.lock`; so one of the two
  sees the other. A message that a failed emit puts back is exempt: nobody flushes it
  before the next send or connection. The messages behind it in its batch are lost and
  events may overtake each other, which the model has and no property denies.
* `OnlyOnce` assumes of the socket library that an emit which raises has sent nothing
  (`EmitRaises`, for a socket that is closed). `EventSender.py:90-97` catches any exception and
  sends the message again, also one that was raised after it went out.
* `OwnPulses` and `Answered` have conditions that the code needs. Once the watchdog ran
  out in the iteration that took the last chunk, the pulses of that upload come when
  another bitstream may be under way, and are stored for it; once it ran out with chunks of
  the upload still to come, these open the next transfer and the pulses are of a mixture.
  `OwnPulses` also needs files that fit the firmware (`Fits`): nothing checks their size, and
  the rest of a longer one would open the next transfer in the same way.
  A message that was cut leaves `waitUntilPulse` or `waitUntilReady` waiting for ever, and
  with it the exit and, under `_device_lock`, the whole device (`wedged` in `DeviceState`).
  A short file is tried again before everything else, since `pop` takes what was queued last.
  So `Answered` says nothing once a short file is asked for, until the state is left.
* `WakeUpComes` is the safety half of `Answered` and of `ExitEnds`: while the evaluation thread
  waits for `ready` or for pulses, these have come, are among the messages on their way, or the
  firmware has something in hand that makes it send them. It holds after watchdogs too; only
  a message that was cut breaks it.
* `AnswersAll`: a results event answers all open requests together, also those that came
  while others were tried again. Requests without files are left out: nothing is queued for
  them and no event answers them.
* `DeadIsForgotten`: needs the timeouts, not the clean exit, which does not work.
* `LifeRefinement` and `BoardsLive`: a board is offered only by way of a flash and then a test,
  serves only by way of a load, and only a board whose reset was interrupted by a request can
  break out of turn. This is what ties the two models: every step of the threads of
  `DeviceState` is one that `BoardLife` allows, and what `Farm` does to `mode` stays within it.
* `AwaitedComes` is the safety half of `CallsReturn`: a sleeping call has, for each board it
  waits for, an answer on the wire over an open socket or a board that will send it, or the
  answer is in `lost`. In `lost` are the boards that failed, ended or were removed, those of a
  worker the client could not reach (`connectWorker` keeps the `False` and never tries again),
  those whose socket was closed for another board, and those whose `initialized` came
  before `waitUntilInitilized` set `awaiting_serials`. The library has no timeout for any of these:
  a call then waits for ever, which the model has and `CallsReturn` excludes by name. The
  properties say that nothing else is lost: no wake-up, no late event of another call.
* `AnswersOwn`: the handler takes the results of a board for those of the call under way,
  whichever call asked for them (the names of another call would all become `None`); what makes
  them the right ones is that `evaluate` returns only when all boards have answered. An
  evaluate that raises breaks this, hence `~raised`. (In the model no results come late
  unless a call raised: `evaluate` has no other way to return without its answers.)
* `NoticeUnderWay`: a board whose end was announced does not stay in `connection_info`, however
  notices, removals and a new reservation cross. `ghosts` are the boards that do stay for good, of
  three kinds: the notice was handled before `addSerial`; the board was reserved while
  `handleWorkerTimeouts` ran, whose DELETE ends what its SELECT did not report (`V1.1:71-78`;
  `WorkerDies` announces any part of what it ends); or the database's answer to an end was
  lost, and `Control.end` raises before it notifies anybody (`Control.py:40`, the last disjunct
  of `EndRequest`).
* `Accounted`, `DoneIsUploaded`: `done` is what `handleDone` popped. A board may be popped by the
  timeout or the stop while the observer holds its `Device`; it is then reported as
  failed although its upload may succeed. An upload that `upload_firmware_path` refuses
  (`False` for a drive that does not mount) is taken for a finished one by `partExport`, which is
  the exception in `DoneIsUploaded`.
* `SleepsForABoard` is the safety half of `WaitEnds`: the caller is asleep only while
  `remaining_serials` has a board, so no wake-up is lost between its check and its sleep.
* `DiesOnlyRaced`: `handleDone` pops with `KeyError` when the timeout or a stop was first, and
  the exception ends the observer; `startFlasher` cannot start it again. Nothing else kills it.

## What the farm takes for granted

1. *Calls for a board do not overlap in the database.* `Farm` makes a database call one
   step. Procedures that do overlap are in `ReservationDB`: there the second of two end
   calls may end another client's reservation (finding 1), both calls may report the
   board, and `makeReservations` may give out a board that was reserved and ended since
   its SELECT. After such a race the board can be reset under its holder. How much this
   assumes is proved: `CalmOneByOne` says that under the conditions of `CalmSpec` the
   transactions change the tables like calls that do not overlap, and `FarmOneByOne` that
   `Farm` needs nothing else of its tables. Of the conditions, the client library keeps
   the first (`BaseAPI.request` waits for its answer, and `PulseCountClient` is for a single
   thread), unless a transaction outlasts the client's 20 seconds or a client runs several
   threads; nothing in the code enforces the others, which a transaction that stalls between its
   statements breaks. For the ends alone the first two are enough (`EndsOnlyOwnHolds`).
2. *A request is on a connection from the moment its call answers.* It is refused if the
   process is down then and lost when it ends; it never reaches the next process of
   that name. `Control.__notifyEnd` in fact sends the unreserves of one call one after
   the other, up to 10 seconds each, so with six or more hung rows a later one could
   still reach a worker that was timed out and restarted meanwhile.
3. Status writes are in the order of the steps that make them; each may fail.
4. A name is used by one host, and a board stays in its host (`Plugged`).

TLC needed assumption 2: without it an unreserve of a dead process's reservation wipes
the board of a new holder.

## Findings

1. `endReservations` (`V1.3:98`) deletes by serial alone: a stalled repeat of an end call
   ends another client's reservation.
2. `Device.switch` (`Device.py:88`) leaves the old state's timer able to switch: it says that
   flashing timed out and breaks the board up to a minute later, in whatever state it is in.
   In the run the unreserve of a reservation overtakes its reserve request, which then replaces
   the flashing state.
3. `removeSocket` (`EventSender.py:75`) does not ask whose socket it removes: when the
   disconnect of a client's old socket is handled after the connection of its new one, it
   starts a timer that nobody cancels, which ends the connected session.
4. `ConnectionInfo.__eq__` (`BaseAPI.py:14`) compares a port with an address, so
   `usingConnection` never finds another board of the worker and `removeSerial` closes the socket
   that the others still use. In the run a client holds two boards, is connected and ends one.

Defects that the models contain as the code has them, without a run of their own:

* `handleReservationTimeouts` (`V1.3:160`) always raises: reservations never end by time.
* `removeWorker` (`V1.1:33`) always raises: a worker's clean exit leaves its rows, which go
  with the timeout (`DeadIsForgotten`).
* `handleWorkerTimeouts` (`V1.1:71-78`) reports what its SELECT saw and deletes what its DELETE sees: a
  reservation made in between goes with its worker and its client gets no failure event. The board
  stays in the client's `connection_info` (`NoticeUnderWay`).
* A reserve request that comes after its reservation ended, or a second one for the same board
  (`Control.py:58`), is carried out: the board is loaded again under its next holder
  (`stray` in `Farm`).
* A refused upload counts as done (`FirmwareFlasher.py:37`), and `flash` returns at the first file
  that is no tty: the boards behind it are not sent to the bootloader.
* Pulses of an upload that timed out may be stored for another bitstream (`OwnPulses`).
* A batch request would reach the wrong boards (`worker/app.py:96`) if `ConnectionInfo` compared
  correctly: with that repaired, `AwaitedComes` fails. Finding 4 hides it, since every request
  then has one board.
* `ReservationExtender` (`client/lib/utils.py:38`) is never registered, so nothing calls it; nothing
  extends a client's reservations.

## What is proved

For every value of the constants that their assumptions admit (`None` no worker, client,
socket or board, and so on):

* `ReservationDBProofs`: `TypeCorrect`, `IntegrityHolds`, `ReservedIsHeldHolds`,
  `OnlySilentWorkersDroppedHolds` and `LeasesImplemented`. The inductive invariant is
  `IInv == TypeOK /\ Integrity /\ ReservedIsHeld /\ CutSilent`. `CutSilent` (what a DELETE
  of the timeouts will find is still silent) is what the action property needs and what
  `Fresh` and `DeleteWorkers` keep. There is a lemma per action, or per group of actions
  that change the same variables. The refinement maps commits to `Grant` and `Drop` and
  everything else to a stutter.
  Under `CallerSpec`: `CallerInductive`, `ClaimsOwnHolds` and `EndsOnlyOwnHolds`. `ClaimsOwn`
  carries the induction: a step leaves an open end call its rows, has just selected them or
  just found them with its DELETE (`ClaimsOldOrNew`), and no step takes a claimed board from its holder but with its row
  (`ClaimedIsKept`): another end is another client's, a grant needs a free board, and a row that
  went does not come back. `SerialHolds` needs `IInv` alone: each of the three commits is shown to be
  a call of one step. A grant is of available boards because a selected board is `available`,
  `reserved` and so held (`ReservedIsHeld`), or without a row, and the keys of the tables refuse
  the last two. `CalmInductive` has the conditions of `Serial` under `CalmSpec`, `CalmOneByOne` joins the two.
* `FarmProofs`, with the devices a finite set, any placement of the boards and any
  `MaxWire`: `TypeCorrect`, `HolderUndisturbedHolds`, `OfferedIsSettledHolds`,
  `OneUnreserveHolds`, `HeldStatusHolds`. Neither of the four is inductive alone: a
  board's reset must find the board as its holder left it (`UnreserveFirst`), a process
  that is down has nothing under way (`DownIsEmpty`), a row belongs to the board's
  host (`RowOfHost`), and a reserve request for a board that nobody holds makes it stray
  (`StrayOrHeld`). `IInv` is their conjunction; the proof regroups it by board
  (`Board(d)`, lemma `PerBoard`), since an action touches one board or treats all alike.
  `BoardsLiveHolds` adds that every step is, for every board, one of `BoardLife` or a stutter,
  and `CleanHandoverHolds` the same of `Handover`. The latter needs `IInv` at each step: a flash that
  begins is not of a held or offered board, and an unreserve that arrives finds its board neither
  held nor offered. `FarmOneByOne` is about the tables alone (above, 1).
* `DeviceStateProofs`, for any number of requests and replugs: `TypeCorrect`,
  `FirmwareMatchesHolds`, `StatusTracksStateHolds`, `WatchedHolds` and `LifeImplemented`. `IInv` adds
  to the invariants `Untimed` (only flashing and testing have a timer), `TimersCounted` (one stale
  timer per request at most) and `Found`; one lemma treats the handler of the flash states, which
  the event threads and the switches to a new state share. The refinement maps `cur.kind` to
  `mode`, the stale timers to `haunted`.
* `EventSessionProofs`, for any messages and sockets (disjoint, `None` no socket) and any
  `MaxSessions`: `TypeCorrect` and `NothingStrandedHolds`. `IInv` adds to `NothingStranded`
  that a thread inside a session has one (`Engaged`) and that a session's socket was
  opened (`Opened`): without the latter a socket could open under a queue that has no
  flusher. Lemma `Stays` reduces each step to the sessions it gives a socket or a message.
* `EventOnceProofs`: `OncePlaced` and `OnlyOnceHolds`. `OnlyOnce` is far from inductive: a
  message is moved from a queue to a batch, may be put back, and its queue may be dropped with
  its session. The invariant is that it has one place (`OnePlace`: one position of one queue, or
  of one thread's batch) and, once received or before it is appended, none (`Elsewhere`).
* `PulseCountProofs`, for any disjoint finite requests, any lengths and buffers: `TypeCorrect`,
  `EventsWholeHolds` (a results event has all bitstreams of a request or none), `KeptHolds` and `OwnPulsesHolds`. `IInv` is `TypeOK`, `Working` (when the thread has a bitstream),
  `OnePlace` (queue, hand, results or one event) and `Together` (the bitstreams of a request are all
  pending or all in one event). Five lemmas treat the steps that move a bitstream;
  for the Reader, the wires and the firmware nothing of it changes. `OwnPulses` needs
  what passes between the two (`InStep`): outside `upload` and `pulse` the firmware waits,
  no chunk and no pulse is on its way; inside, the buffer and the wire behind it hold the chunks of
  `current` in order, `sent` of them (`Streaming`), or exactly one message of pulses is on
  the line, among the matches or in `last_pulse` (`OnePulse`). A stale `ready` does no harm because of
  the first part, and the firmware measures `current` because of the second.
  `WakeUpComesHolds` adds to this where the wake-up of a waiting thread is, message by message; it
  needs that the absence of a value is not taken for a message (`None \notin {"waiting",
  "watchdog"}` in `NamesAssumption`). `AnswersAllHolds` is the refinement of
  `Evaluations`: the step that sends an event has nothing pending (`Together`), so what it names is all
  that is open, and the other steps change neither requests nor events or only add a request.
* `ClientLibProofs`, for any boards on any workers, any number of calls and faults: `TypeCorrect`,
  `AwaitedComesHolds`, `AnswersOwnHolds` and `NoticeUnderWayHolds`. `AwaitedComes` speaks of a sleeping
  call only; `IInv` says what holds of each board at the places before it. `Reserving`: the board still
  starts or its event is on the wire, and once the loop came by its socket is open, or it is lost.
  `Answering`: the same of an evaluation. `Owned`, as long as no call raised: a result on its way is of
  the evaluation under way, the first of its board, and its board is still waited for. So the
  results of an earlier call cannot be on their way when the next one starts. `Called` has `lost`
  empty between calls, `Counted` the evaluations within their bound. `NoticeUnderWay` is inductive.
* `FlasherProofs`, for any boards and any number of flash calls: `TypeCorrect`,
  `AccountedHolds`, `DoneIsUploadedHolds`, `DiesOnlyRacedHolds` and `SleepsForABoardHolds`. `IInv` adds `Ordered` (the Device in
  the queue is the newest of its board, and none was uploaded after the one in use), `InQueue` (a
  Device in use left the queue only by a timeout or stop) and `Uploads` (what counts as uploaded
  is on the board). Without `Ordered`, an old `Device` could count for a new one.

Only model-checked: the liveness properties `Settles`, `DeadIsForgotten`, `Answered`,
`ExitEnds`, `CallsReturn` and `WaitEnds` (liveness under fairness is
outside what the proof system does here). Where waiting could go wrong the safety half is proved:
`Watched` for `Settles`, `WakeUpComes` for `Answered` and `ExitEnds`, `AwaitedComes` for `CallsReturn`,
`SleepsForABoard` for `WaitEnds`; what is left to TLC is that the threads go on.
The findings are counterexamples of TLC.

## Not modelled

The usbip state cannot be constructed (`UsbipState.py:46` calls a method that does not exist), so
nothing behind it runs; `ReserveUsbip` is what does happen. Its driver cannot run either:
`UsbipClient` imports `usbipice.client.utils`, which does not exist. Left out for good: argument
injection and web adapters, log forwarding, configuration, deployment, examples, the
default firmware beyond its test, and procedures that only read.
Within `DeviceState`, at most one pending udev event of each kind is kept, a board is
found with an application firmware, and remove events do nothing (as in the code, where no
modelled state handles them). Within `PulseCount`, the line is not unplugged: the firmware's
`USB_DISCONNECTED` state and the serial errors of the host are left out, and names of
bitstreams are unique, as `client/lib/pulsecount.py` asks. Within `ClientLib`, `extend` and
`extendAll` only forward their call, and a socket that is open stays so until the client
closes it (the reconnections of the socket library are those of `EventSession`). Within
`Flasher`, one caller at a time queues and waits, as in the code's users; the stop may come from
anywhere.

## Plan

Done, in this order: `Tables`, `Leases`, `ReservationDB` and its proofs, `DeviceState`,
`Farm` and its proofs, `EventSession` and its proofs, `PulseCount`, `ClientLib`, `Flasher`, `BoardLife`
with the two refinements, the proofs of `DeviceState`, `ClientLib`, `Flasher`, `PulseCount` and
`OnlyOnce`; then `CallerSpec`, `CalmSpec` and their theorems, `Handover`, `Evaluations`, and the safety
halves of the liveness properties. Left:

1. `Farm` with the answers of the end calls apart from their commits: a board that is reported
   although it went with its worker, and the unreserves of one call sent one after the other.
2. `ClientLib` with several threads, or against the workers of `Farm` and the sessions of
   `EventSession` in place of its external world.
