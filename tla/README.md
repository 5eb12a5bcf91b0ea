# Verification of the ESEP sorting line

ESEP controls a sorting line of two conveyor modules. Each module has a belt with five light
barriers (start, height sensor, switch, ramp, end), a switch that lets an item pass or drops it
into a ramp, and a handler program. One of the two programs also runs the *master*, which knows
where every item is, decides what happens to it, and puts both modules into the same mode. The
modules talk over a serial line. This directory holds TLA+ models of that program, the TLC
configurations that check them, and proofs for TLAPS.

Paths below are relative to `ESEP/src`.

## 1. Inventory

| Part | State it keeps | Operations | Talks to | What is hard |
|---|---|---|---|---|
| **Item tracker** `master/hsm/run.cpp`, `lib/petri_net.h`, `lib/segmented_buffer.h` | marking of a Petri net (16 places), item buffer cut into 11 segments, buffered errors | `handle`, `enter`, `isEmpty`, `flush` | reports of both modules in; motor commands, EXPECT_NEW and errors out | two transitions on one trigger, automatic transitions, hand-over between modules, net and buffer updated separately |
| **Master state machine** `master/logic.cpp`, `lib/hsm.h`, `master/master.cpp` | active leaf, history of `run`, ramp flags | `Master::accept`, `evaluate`, `analyse` | packets from one queue | the master writes to its own queue; what it decided comes after what the modules sent meanwhile; history states |
| **Communication layer** `communication` | a queue, two threads, `mRunning` | `accept`, `send`, processing, `shutdown` | watchdog client, master, base | mixing of two senders, death of the line, shutdown of threads that wait |
| **BSP link** `serial/client` | send buffer, id, timer; history, chain, last answer; reset handshake | `write`, `read`, reader thread, timer callback | the other end | damaged bytes, retransmission, duplicates, id wrap-around, late callbacks, crossing resets |
| **Error recovery** `base/error_manager.cpp`, `base/error`, `base/handler.cpp` | current error and its state, `mFixed`, current manager | accept a packet, handle a hardware event | master, buttons, barriers | errors that overlap, FIXED of an older error, buttons read when the event is handled |
| **Run manager** `base/run_manager.cpp`, `base/run` | Petri net (16 places), a queue of timers per place | hardware events, timers, RESUME/SUSPEND | master | stale timers, pausing and delayed resuming on another thread |
| **Item scanner** `base/run/item_scanner.cpp` | the height map being made, the finished ones | measure, finish, suspend, resume | run manager, timer thread | shared without a lock; the belt stops under the sensor |
| **Configuration** `base/config_manager.cpp`, `base/config_object.cpp`, `base/idle` | step of the calibration, values, a file | hardware events, mode changes, save, load | master, motor, file | delayed motor start that nobody cancels; setters that throw half-way; a crash while saving |
| **Watchdog** `serial/watchdog.cpp` | time of last read and write, `mTimedOut` | reader thread, heartbeat callback, `read` | BSP link, communication layer | a callback that interrupts a reader which is not waiting yet |
| **Container** `lib/sync/container.h` | blocking queue, `mInterrupted`, count of readers | insert, remove, interrupt | every thread | lost interruption |
| **Timer service** `lib/timer` | table of timers, queue of new ones | register, cancel, pause | its own thread, one thread per async timer | cancelling against running |
| **Hardware abstraction** `hal`, `qnx` | shadow of the pins, state of lights and motor | interrupt, read, notify; set and reset bits | GPIO, handler, timer thread | edges between reading and clearing; pulses that overtake each other |
| **Analogue converter** `hal/adc` | registers, sample buffer | set-up, service routine | converter hardware | write protection, flags against samples |
| **Sorting plugins** `master/plugin` | none; they read the history of the line | `decide` | master | a history with items that were lost or sent on since |
| **Profile analysis** `lib/analyse`, `lib/processor.h`, `lib/utils/items` | process tree, kept by address | `match`, `analyse` | master | numerical; memory that is used again |
| **Serial port, recorder, viewer, tests** | - | - | - | I/O, or not part of the running system |


`PROJECT.json` lists each of these with its status, the hazards of the code at their lines, and
the properties that would notice them.

What makes each part correct:

* *Item tracker*: the net and the item buffer agree; module 2 gets one item at a time; module 1
  stops when, and only while, it has to; no item is forgotten without an error.
* *Master*: both modules are in the mode of the master; belts move only in run and calibration and
  then as the tracker says; no item is sent into a full ramp; an error that has been decided takes
  effect.
* *BSP link*: a FIFO in each direction, and it does not stop.
* *Error recovery*: the line leaves an error only if the error is gone on both modules, and always
  can.
* *Run manager*: each item on the belt is in one place of the net and each place's tokens have one
  timer each.
* *Item scanner*: each item gets its own height map, whole, and in the time of the belt.
* *Configuration*: what is saved was measured in one pass; the belt stands when calibration is left.
* *Communication, watchdog, container, timers*: what is sent is processed once and in order, a dead
  line is noticed, shutdown ends, a cancelled timer is quiet and is released.
* *Hardware abstraction, converter*: what a pin is gets to the handler, what was last asked of an
  output is what it does, and a sample is read only when there is one.
* *Plugins, analysis*: a known item is taken for what it is, and those that leave the line are in
  order.

## 2. Modules

```
RunNet ──┬── MasterRun ──┬── MasterRunProofs     ReliableLink ── BspLink ──┬── MCBspLink
   │     │               │        │                (promise)        │      └── BspLinkProofs
   │     │               │        └──────────┐                      │
   │     │             Parts ──┬── PartsProofs                  Services ──┬── ServicesProofs
   │     │               │     └── MCParts                          │      └── MCServices
   │     │               ├── Sensors, Actuators, Converter,         ├── Connection ── Container
   │     │               │   Calibration, Scanner                   ├── Timers
   │     │               └── Sorter ── SortedLine (promise)         └── Analyser ── Recordings
   │     └── MasterLogic ─┬─ MCMasterLogic       MCConnection ── Connection
   │                      └─ MasterLogicProofs
   └── RunNetProofs (extended by MasterRunProofs and MasterLogicProofs)
ErrorRecovery ── ErrorRecoveryProofs    RunManager ── RunManagerProofs
```

Components that have no state in common are put together in one specification, `Parts` or `Services`:
the variable `part` is chosen in the initial state and only that part moves, so the reachable states
are the union of those of each part by itself, and the formula `part = "X" => P` is the property `P`
of `X`. One run cannot hide a fault of one part behind another, since no part reads or writes the
variables of another while it is chosen; it saves a run per component. The constants of the parts are
constants of `Parts` and `Services` too; `MCParts` and `MCServices` say which values TLC is to use for
those that a configuration cannot write, and nothing else. So the theorems about `PartsSpec` and
`ServicesSpec` are about the very specifications that TLC checks.

### RunNet: the item tracker as functions
The state of `hsm::Run` is one record: `tok` is the marking (`PetriNet::mStates`), `size` the
lengths of the segments of `mItems`, `buf` the errors in `mBuffer`, `out` the packets the call has
given to the communication layer. Two fields are history: `motor`, the last command each belt was
sent, and `expecting`, the EXPECT_NEWs module 2 still holds.

`Transition` mirrors the arguments of `PetriNet::transition`: trigger, places that need a token,
places that must be empty (weight 0 in the code), places that get one, and the effect on the item
buffer and the error buffer. `Moves`, `LossesOnM1`, `LossesOnM2`, `NewOnM1`... are the table of
the constructor of `Run`. `Fire` is `PetriNet::fire` with the listeners: places that lose tokens
are announced first, in the order of the places, and the order of `out` follows from that.
`Process` is `PetriNet::process`: all ready transitions of the trigger, the last declared first
(they are collected in a `forward_list`), each checked again before it fires, then the automatic
ones until none is enabled. The code loops; `Settle` does four rounds, which is the
loop: nothing is enabled afterwards (`Settled`, checked and proved). `Handle` is `Run::handle`
including the exception `SegmentedBuffer::get` throws for an ANALYSE nobody can be matched with,
which skips `flush`. `Resend` is `Run::enter`.

An event is module, message and light barrier. `LB_START` is encoded as 0, so a message without a
location is the same event as one at `LB_START`, as in `Run::handle`.

### MasterRun: the tracker as a state machine
`Receive(e)` is `Run::handle` of any report a run manager can send (`Event`, read from
`base/run/init_logic.cpp`), `Enter` is the master entering run again. Two guards describe the
modules: an item gets onto module 1 only up to the bound, and module 2 reports a lost hand-over
only while it holds an EXPECT_NEW (the place `BF_LB_START` of its net).

### MasterLogic: the master
`Rules` is the table of transitions of `Logic`, `Above` its tree, `Target` is
`Hierarchy::process` with the history of `run`. `Accept` is `Master::accept`: the answer to a stop
request, the functions on transitions, what entered states announce, the packet given to the
active state (`Run::handle`, `Error::handle` or nothing), in that order, and what of it the master
wrote to itself. `loop` is the part of the communication queue the master wrote; a packet of a
module may come before any of it (`ReceiveRequest`, `ReceiveItem`), its own come in order
(`ReceiveOwn`). `Evaluate` is `Master::evaluate`; the plugins' decision and the analysis are
arbitrary. `told` and `belt` say what each module does once it has obeyed all it was sent.

### RunManager: one module in run mode
`T` mirrors one call of `PetriNet::transition` in `initLogic` together with its listener: the places
it takes from and puts to, the timers the listener deletes and sets, and what it tells the master;
`Lost`, `Step` and `Unexpected` name the three forms most of them have. `After` is
`PetriNet::process`; no trigger has more than two transitions, so it tries the second one declared
and then the first. `timers` holds `TimeCtrl::mTimer`, per place a queue of running, halted and
expired timers. `Expire` is the timer thread, which only queues a TIMER packet (`ticks`); `Tick` is
`accept` taking one. Barriers may report anything (`Sense`) and the master's decision comes any time
after ANALYSE (`Decide`). `Suspend`, `Resume`, `Leave` and `Enter` are the methods of that name;
`DelayOver` and `ResumeAll` are the thread of the delayed resume, which a suspend can overtake: then
each timer and `mPaused` end up as one of the two threads left them. Other inputs of the handler's
queue are not kept in it: since a barrier may report anything, one that is handled before a TIMER
packet is one that was queued before it. `present`, `dropped` and `raced` are history.

Timers of a place expire in the order they were set. They run for the same time, but those set in
the 120 ms after a resume run while older ones stand still. The order can change only if two items
enter one place within 240 ms of each other; that is assumed not to happen.

### Container and Connection: threads, queues, heartbeat, shutdown
`Container` is `sync::Container`: `Enter`, `Wait`, `Take` and `Throw` are the parts of `remove()`,
which counts the reader before it has the mutex and gives the mutex away while it waits;
`BeginInterrupt`, `NotifyAll` and `EndInterrupt` are the loop of `interrupt()`, which takes no mutex.
`Connection` has two of them (`Watchdog::mReadBuf` and `Base::mBuffer`) and the five threads that use
them: the serial and the processing thread of `communication::Base`, the reader thread and the timer
callback of `Watchdog`, and the main thread in `shutdown()`. `pc` is where each thread is between two
points at which another can come in. A pointer that is used after `reset()` crashes the program or,
where only memory that was freed is read, may. `late` remembers which threads an interruption has
missed: the properties except those by name, and section 4 says what they stand for.

### Timers: the timer service
`Tick`, `Visit` and `EndUpdate` are an `update()` of the timer thread, one timer at a time and in the
order of the ids, which holds the lock from beginning to end; `Register`, `Unregister` and
`PauseOrResume` are other threads and need the lock; `CallbackRegisters`, `CallbackUnregisters` and
`CallbackReturns` are what a callback does on the timer thread, which has the lock already: what it
registers waits in `mQueue` until the update is over. `AsyncThread` is the thread of an async timer.

### Sensors and Actuators: the hardware abstraction
`Sensors` follows a change of a pin (`Change`) through the interrupt and its mask (`Receive`), the
thread of `hal::Physical` (`Read`, `Notify`, `Clear`), and the handler (`Handle`), and has the start
of the program in it, where the field is read before anybody has subscribed. `Actuators` follows a
call of `Lights`, `Motor` or `Switch`, as the steps it consists of, through two priorities of pulses to
the bits. Three threads make such steps: the handler's (`Call`, `Step`), that of the callback that flashes
a light (`Toggle`), and that of calibration's delayed start (`DelayedStart`, `StepOfDelayed`), which calls
`right()` and `start()` beside whatever the handler does (`config_manager.cpp:84`). `start()` reads `mRight`
and sends in two steps (`SetDirection`, `Rest`). `torn` is history: the delayed start has overlapped a call
for the belt, and nothing has put the direction right since.

### Converter: the analogue converter
`Setup` is the sequence of calls in `ADC`'s constructor and `registerAdcISR`, down to the register
writes of `TSCADC`; the hardware writes a protected register as nothing. `EnterISR`, `ClearISR` and
`ReadISR` are the service routine, which interrupts the set-up at any point. The FIFO is assumed to hold
two samples or more: the second one may come between reading the status and
clearing it.

### Scanner: height maps
The thread of the hardware sends a HEIGHT_SENSOR pulse when the height has changed (`Noticed`) and at no
other time; `waiting` are those the handler has not come to. It measures anew when it does, up to `MaxLag`
ticks later, and what it then finds may be the belt. `MeasureItem`, `AddValue` and `MeasureBelt` are
`takeMeasurement` where the callback on the timer's thread (`FinishMeasurement`) can come in between;
`MeasureNothing` is the same while suspended, which throws the change away (`dropped`). `Suspend`, `Resume`
and `Arrive` (`addItem`) are the run manager. Items lie on a belt, so a value of a map is known by the place it
shows. `Places` says where each begins and how high it is from there on: heights may stay the same, fall and
rise, and be that of the belt in between (a hole). What the code needs of those who put items on the
belt is `ScannerAssumption`: the belt before and after each item (`Gap`) is longer than the belt goes until a
map is finished, an item begins high enough for long enough to be measured, and its holes are shorter than
`Delay`. `onHole` remembers that the belt was stopped at one, where the delay goes on and the item does not.

### Calibration: from measuring to the file
`Advance` is a state of `ConfigManager`, `Finish` the last one with the setters of `ConfigObject`, in
their order, one of which may throw; `Accept` and `Switch` are the handler, `DelayedStart` the two steps of
the timer's callback, of which the second sets the bit that `mRight` says by then,
`Start`, `Stop` and `Saved` the program's start, end or crash, and the end of a save. A value stands
for the pass that measured it, or is zero.

### Sorter and SortedLine: what leaves the line
`Sorter` has the items of `mItems` with what Master has decided of each, `Evaluated` is
`Master::evaluate`, `Follows`, `predictNext` and `decideSorted` the template library of `sortable.h`. The
history a plugin gets is written as the set of the positions on the line whose items are in it; that the
oldest ones are forgotten until something fits is `Since`. The assumption on `Type` is that each type has
a plugin with a rule. `SortedLine`
says what comes out at the end: kept types only, the hollow ones in the order of the cycle. The
property `KeptInOrder` of `Parts` is `SortedLine!Spec` with `delivered` mapped to the types of the
items that are done.

### Recordings and Analyser: which item it is
`Recordings` are the height maps of `lib/utils/items`, by their turning points: a pair that differs by at
most one per cent of the scale from the last one kept is left out, and a height is per mille. `Analyser`
computes what the program does with one: `Trimmed`, `Sampled`, `Filtered`, `Normalized`, the distance
to the ideal profiles and the choice of `Master::analyse`, with integers where the code has floating
point. Around that is the life of the height maps: they are put where memory is free, used again when
an item leaves, and the process tree is kept by address (`Use`, `Clear`). That each recording is matched
by the plugin of its type, and better than `Enough`, is a calculation about the recordings and no
property of behaviours: it is `RecordingsAssumption`, and TLC computes it in the run `services` before it
begins. What the run checks is that the program gets that result although memory is used again.

### ReliableLink and BspLink: the serial link
`ReliableLink` is what `serial::Client` promises: each end reads the messages the other wrote, in
order, whole and once. `BspLink` has one action per thing that happens at an end: `Write`
(`Writer::put`), `Read`, `Expire` and `Timeout` (the timer and its callback, which may come after
the timer was cancelled), and what the reader thread does with the first packet on its wire:
`ReceiveData`, `ReceiveAnswer`, `ReceiveFailed` (a damaged header), and the handshake of `Resetter`. A pattern
is one element of the wire, but it takes from `BeginReset`, `AnswerReset` or `StartOver` to `PatternSent` to be
sent: while `sending`, the other end cannot have read all of it, and a packet that `Write` or `Timeout` puts on
the line falls into it (`Meanwhile`, `Torn`). It is swallowed then, and the pattern is `torn`, or `shredded`
when it was no longer whole. `Resetter::receive` counts eight of the sixteen pairs, and takes the first byte that
fits neither a pair nor the end for a reason to start over; so what is left of a torn pattern can count for
nothing, for a handshake or for one with a wrong end, which is what `Rest` says and from which `AnswerReset` and
`StartOver` choose. `EndReset` takes a pattern that ends as it should, `Discard` everything else.
`Damage` is the line. A message is a sequence of parts,
each in a packet of its own. `BspLink!ReliablyInOrder` is `ReliableLink!Spec` under the identity
mapping of `sent` and `received`.

### ErrorRecovery: getting out of an error
Two handler threads with one channel each for packets and hardware events, the error manager and
its kinds of error, the master's queue, the serial line, and the error states of the master. The
handler reads buttons and barriers when it handles the event, so `pressed` and `blocked` are the
plant as it is then. `AcceptError` is `ErrorManager::accept` after `Handler::doSwitch`,
`AcceptMode` a change of mode, `HandleStop` and `HandleEvent` are `Handler::processHAL`,
`MasterAccept` is the master, `Arrive` the serial line; the remaining actions are the plant. `Barriers(m)` are
the light barriers of module `m` that items break, the ramp's and one where an item can be in error.

## 3. Runs

| Run | Module, configuration | Bounds | Shows |
|---|---|---|---|
| `parts` | `MCParts`, `MCParts.cfg` | tracker: 3 items on module 1, 1 finished; 2 pins; 2 pulses of each priority; 3 samples; 2 passes; 2 items and 2 stops under the sensor, 25 ticks; 2 items to sort | the tracker is consistent, settles and loses nothing in silence; `NoEdgeLost`, `OutputsFollowCalls`, `ReadsOnlySamples`, `CalibrationIsSound`, `ItemsGetTheirMaps`; the sorter implements `SortedLine` |
| `double_loss` | `MasterRun`, `MCDoubleLoss.cfg` | 2 items | **violated**: one report, two items dropped |
| `master_logic` | `MCMasterLogic`, `MCMasterLogic.cfg` | 1 item per module, 2 packets to itself | modes, belts and ramps agree; errors and stops take effect |
| `bsp_link` | `MCBspLink`, `MCBspLink.cfg` | 2 packets damaged or in the middle of a pattern, 2 messages one way and 1 the other, 2 packets each | the link implements `ReliableLink`, with torn patterns too; handshakes meet until one is torn |
| `services` | `MCServices`, `MCServices.cfg` | a heartbeat and a packet, 1 own packet; 2 timers; 2 damaged payloads or types; 2 addresses, 2 items | death noticed; shutdown ends; cancelled timers quiet and released; everything arrives; every recording identified |
| `connection` | `MCConnection`, `MCConnection.cfg` | two packets with a heartbeat between them, 1 own packet | the packets are processed once and in order, and the heartbeat is not |
| `bsp_wedge` | `MCBspLink`, `MCBspLinkWedge.cfg` | 1 damaged header | **violated**: the link stops for ever |
| `run_manager` | `RunManager`, `MCRunManager.cfg` | 2 items, 1 stop | timers, alarms and reports fit the net |
| `run_manager_live` | `RunManager`, `MCRunManagerLive.cfg` | 1 item, 1 hand-over, 2 stops, 1 mode switch | pausing, the switch, the belt clears |
| `error_recovery` | `ErrorRecovery`, `MCErrorRecovery.cfg` | 2 errors of four kinds or emergency stops, the ramp of module 1 and a barrier of module 2, 1 thing waiting when an event comes | truth of `mFixed`, modes, a single error needs both modules, the line recovers |
| `error_stop` | `ErrorRecovery`, `MCErrorRecoveryStop.cfg` | 2 emergency stops | **violated**: ready with the stop pressed |
| `start_race` | `MCConnection`, `MCConnectionStart.cfg` | 1 packet | **violated**: nobody reads the line |

### Bounds, and why they are enough
* *Items* (`MaxItems`). With three items on module 1, two are in front of one that waits for module
  2, and every place can hold two; more items only repeat markings of the same pattern, and the
  theorems of section 5 hold for every number. `MasterLogic` uses one item per module, because its
  questions are about modes and not about items.
* *Items on a module* (`RunManager`). Two items are what it takes for a late TIMER packet to hit another
  item's token, for both transitions of the switch barrier to fire at once and for two timers in one
  queue. Mode switches and the hand-over do not depend on a second item, so they are checked with one;
  two stops are needed for a suspend that overtakes a resume.
* *Packets to itself* (`MaxLoop`). One packet of a module makes at most two of them; with two waiting
  and one more step the master is ahead of itself by a whole mode change.
* *Packet ids.* `IdMod` 2 with a history of one keeps what matters of 256 and 10: the history is
  shorter than the cycle, and ids wrap around within the run. Since one packet is on its way at a
  time, a history of one already recognises every retransmission.
* *Damage, wire, late callbacks.* Two damages suffice for a damaged packet and a damaged repetition or
  answer, or for damage during a reset. A timer expires only while the wires hold fewer than
  `MaxWire` packets and one callback is late at a time: the packets a timeout adds are repetitions
  of those on the wire.
* *Pins, pulses.* Two pins are needed for one event before another in one `update()`; the interrupt is
  masked while a pulse waits, so there is never more than one. Two pulses of each priority let a later
  one overtake an earlier one.
* *Samples, passes.* The buffer of the converter goes round with three samples. Two passes of
  calibration are what it takes to mix two; either end of the values may be zero.
* *Items under the sensor.* Two items are one map being finished while the next item comes. The first has a
  hole in it, the second more heights than the bound of a map (`UB`), and both are flat in between. Two
  stops are one that follows the other without the belt going on, or one for each item. A pulse waits for
  one tick at most; the distances are the smallest the assumption allows, and 25 ticks let both items
  pass the switch with two ticks of standing, or the first with more.
* *Items to sort.* Two on the line at a time and the last three that left: as many as the cycle has.
* *Threads.* `Connection` has all five threads. Where the order matters two packets go with a heartbeat between
  them, so that both queues hold two; for liveness a heartbeat and a packet, one of which could be taken for
  the other. Two timers are a callback and the timer it registers or cancels. Two addresses for two items
  that are measured on two modules mean that memory is used again at once.
* *Errors, events.* Two errors are one that comes while the other is being fixed, on the same module
  or on both, of the same or a higher priority. Each barrier of interest is there on one module; on the other the
  errors of its kind are fixed as soon as they are entered. Four of the five kinds are checked; ANALYSE differs
  from ITEM_APPEARED in name only here. The emergency stops come in addition, and count as errors.

### Deadlock
`CHECK_DEADLOCK FALSE` appears where the system may really stop: when all messages are written and
read, when no more errors come, when the program is down, or when a bound on time or stops is reached.

### Fairness
* `MasterLogic`: the master's thread takes packets off its queue. Nothing is assumed of the modules.
  That a packet of a module can always come first does not defer its own for ever: `ReceiveOwn` is
  enabled while the queue is not empty, and the queue is a FIFO. It is stated as `WF_served(Served)`:
  only `ReceiveOwn` changes `served`, so TLC need not work out a whole step of the master to see
  whether it is fair.
* `Connection`: the four threads and the main thread in `shutdown()` go on when they can. The watchdog
  timer may expire at any time; the other module need not send.
* `Timers`: the pulse comes every millisecond, the timer thread and the threads of async timers run.
  Nothing is assumed of callers.
* `BspLink`: the reader threads, the readers of the messages, the timers and their threads run. No
  fairness of `Write` and `Damage`.
* `RunManager`: the timer thread, the thread of the delayed resume and the handler's thread run. Items
  and the master need not do anything. That the handler's thread runs is `WF_ticks(TakesPacket)`: the
  queue gets shorter by `Tick` alone, and TLC need not work out the whole net to see that it is fair.
* `ErrorRecovery`: the threads run and the line carries its bytes; the people release the emergency
  stop, clear the barriers, and push reset again and again. Reset is `SF` because other events may
  be in the way of any single push (`MaxEvents`).

## 4. Where the code disagrees with its tests

* **double_loss** (`master/hsm/run.cpp:147`). `PetriNet::process` fires every ready transition of a
  trigger. With one item before the switch and one on it, ITEM_DISAPPEARED at LB_SWITCH drops both.
* **bsp_wedge** (`serial/client/m_write.cpp:117`). For a packet with a damaged header the reader
  repeats its last answer, the AP_OK of the packet before. The writer cancels its timer for every
  answer and only then compares the id. No timer is left and nothing is sent again.
* **error_stop** (`base/error_manager.cpp:121`). A second ESTOP does not replace a fixed first one of
  the same priority, so the module answers FIXED from `mFixed` while the button is pressed.
* **start_race** (`communication/base.cpp:46`). The serial thread runs `while(mRunning.load())`, which
  the processing thread sets. If it tests it first, it ends without an error and nothing that the other
  module sends is heard, while `test/ut/communication_layer.cpp:114` says that it reaches the master.

Besides these, there are cases which the code does not handle and no test or document decides. Where a
property holds except in such a case its definition names it, and TLC shows the case when the name is
taken out (the last two have no such name):

* `ResetsBalanced` holds until a packet of another thread has fallen into a reset pattern (`torn`), for
  `Resetter::send` writes 33 bytes without the writer's mutex (`m_reset.cpp:12`). After that one pattern can be
  answered twice, an end that waits for none answers the second answer, and so on: with `"type"` and
  `"torn"` in `Damages`, two damages and messages of one end, TLC finds a run in which both ends exchange
  patterns for ever and `EverythingArrives` is violated. Nothing is lost or doubled even then (`ReliablyInOrder`).
* `AlwaysRecovers` excepts an item that has left its barrier before its error is entered (`Stranded`):
  `enter()` of ITEM_APPEARED and ANALYSE (`item_appeared.cpp:28`, `analyse.cpp:26`) does not look at the barrier,
  as ITEM_STUCK and RAMP_FULL do, and the line stays in error until somebody breaks and clears the
  barrier by hand.
* `DeathIsNoticed` excepts a serial thread that tests `mTimedOut` just before the time-out and is counted as a
  reader just after its interruption: it waits for ever (`"ST" \in late`). `ShutdownEnds` excepts a processing thread or a time-out
  callback that an interruption has missed, and a pointer that is used after `reset()`.
* `OutputsFollowCalls` excepts the direction of the belt once the delayed start of calibration has overlapped a
  call of the handler's for the belt (`torn`): both bits can be set then, or none while `mRunning` is.
  `LeftMeansStopped` excepts the delayed start that goes on after the mode was left.
* `ItemsGetTheirMaps` excepts a change of the height that is handled while the scanner is suspended
  (`dropped`), since nothing measures again afterwards and the next item is appended to the map; a belt that stops at a
  hole (`onHole`); a belt that is suspended twice without going on, and what comes after a map that is too long.
* `SwitchIsClosedAgain` excepts a switch in which an item was reported stuck (`StuckInSwitch`): the token in
  the switch stays (`init_logic.cpp:239`), and with it the switch can stay open with nothing in it.
* `SavedTogether` excepts a pass whose setters threw, `NoEdgeLost` a pin that changes between the test of the
  emergency stop and the subscription. `NothingLost`, `BeltClears` and `QuietWhilePaused` end with a TIMER
  packet that another manager was given (`dropped`) or a suspend that overtook a resume (`raced`).
* `CancelledStaysQuiet` does not count a timer as cancelled that a callback cancels while it still waits in
  `mQueue`, where `unregisterCallback` does not find it (`impl.cpp:112`).
* `file.is = "empty"` after a crash in `save()` makes the program refuse to start.

## 5. Proofs

The proofs hold for every value of the constants that satisfies the assumptions in the modules. The
assumptions say what the constants are: bounds are natural numbers, a message has at least one packet,
the history of a reader is shorter than the circle of ids (10 against 256 in the code).

### The tracker: `RunNetProofs`, `MasterRunProofs`

| Theorem | States |
|---|---|
| `TrackerSound` | `Spec => []TrackerInv`, the inductive invariant |
| `TypeCorrect` | `Spec => []TypeOK` |
| `CountIsAlwaysLoad` | COUNT is the number of items tracked on module 1 |
| `AtMostOneItemOnM2` | module 2 is ready, promised or holds one item |
| `SegmentsAlwaysTrackTokens` | the item buffer agrees with the marking |
| `MotorsAlwaysFollowNet` | one running mode, and the last motor commands fit the marking |
| `AlwaysSettled` | `Settled`: the net rests, a pause has a reason, module 2 was told what it was promised |
| `NeverSilent` | `NoSilentLoss`: an item that is dropped is announced, or left the line (`[][...]_vars`) |

The inductive invariant is `Sound(net) /\ net.buf = <<>>`. None of its parts is inductive alone:
the lengths of the segments stay natural numbers only because they equal tokens that the firing
needed; COUNT balances only because the hand-over takes its token when it takes PRESTART; the motor
of module 2 follows only if M2RDY and the places of module 2 sum to one.

The argument has three layers. `Balanced` says of a transition that it keeps the three sums and
treats tokens and segments alike; one lemma per group of transitions shows it by enumeration
(`AllBalanced`). `FireSound` shows that firing any enabled balanced transition keeps `Sound`, one step
per part. `FireOneOfSound`, `RoundSound`, `ProcessSound`, `HandleSound` and `ResendSound` carry that
through `process`, `handle` and `enter`. Since it holds of each firing it holds in the middle of a
call too, where the listeners run. `HandleFlushes` shows that no error stays in the buffer. No lemma
uses the value of `Depth` or `MaxItems`.

`Settled` is about what is left when `process` returns, so it needs that the loop of the automatic
transitions ends. `Left` counts the automatic firings a marking still has before it: it is three at
most (the belt goes on, the item is handed over, the empty belt stops), `RoundLeft` shows that each round takes at
least one off, and `SettleRests` that the four rounds of `Settle` therefore leave none. So writing four
rounds for the loop in the code is no abstraction. A pause keeps its reason because only the start of
the hand-over takes an item from the end of module 1, and a pause forbids it (`FireWaits`); that
EXPECT_NEW is sent once per promise is `FireUntold`. Both depend on what went before the call, so they
are in the invariant (`RestInv`).

`NeverSilent` weighs each transition: `Weight` is what it does to the number of items, and `AllAccounted`
shows by enumeration that a transition buffers one error for each item it drops, or is a new item, or one
that left the line. Items and buffered losses together are therefore kept by both firings of an
event (`TriggeredAccounts`), by the automatic ones (`SettleAccounts`), and by what `handle` sends in the
end (`HandleAccounts`). That an event of the third kind has no second transition is part of it.

### The master: `MasterLogicProofs`

| Theorem | States |
|---|---|
| `Invariance` | `Spec => []LogicInv`, the inductive invariant |
| `TypeCorrect` | `Spec => []TypeOK` |
| `ModulesAlwaysFollow` | both modules are in the mode of the master |
| `BeltsAlwaysAgree` | in run the belts do what the tracker says; outside run and config they stand |
| `RampsAlwaysRespected` | the flags agree with the leaf, and no item goes into a full ramp |
| `RecoveryAlwaysNeedsBoth` | an error is left only when both modules have fixed theirs (`[][...]_vars`) |

`BeltsAgree` is not inductive alone, for three reasons that `LogicInv` names: what the master resends
when it enters run again is right only if the tracker is `Sound` (`Tracker`); an event takes the master
to the leaf `lastRun` says, so that has to be the last leaf of run (`Remembers`); and in the
leaves that wait for one module the other has answered (`Healing`).

`Course` is the state machine: for every leaf and every event, where the master goes. One packet makes the
master send several, so the proof has to say what a sequence of packets does to a module. `Told` and
`Belt` take the last packet that matters, and `Last` of a concatenation is the `Last` of the second part if that
has one (`LastIs` and the lemmas behind it); so each part of `Accept` is reasoned about by itself:
`AnnounceTells`, `ForwardTells`, `ResendTells`, and `HandleFollows` for the packets of the tracker, which
rests on the motors of `RunNetProofs`. `SentJoined` puts them together in the order of the code.
Packets the master sends to itself may be overtaken by any packet of a module (`Queue` says only that
they are the master's own), so all of this holds of them in any order.

### The BSP link: `BspLinkProofs`

| Theorem | States |
|---|---|
| `Invariance` | `Spec => []Inv`, the inductive invariant |
| `TypeCorrect` | `Spec => []TypeOK` |
| `DroppedWhenStored` | `NothingDroppedEarly`: the writer drops no packet that was not stored |
| `Reliable` | `Spec => ReliablyInOrder`: the link implements `ReliableLink` |
| `HandshakesBalanced` | `ResetsBalanced`: the two ends' resets do not get out of step until a pattern is torn |

`Inv` takes the two directions apart; `Direction(e)` relates the writer at one end, the two wires and
the reader at the other. Everything in the writer's buffer is consecutive, and only its first packet
can have been stored already (`Stored`); the reader's history is the ids before the one that is due
(`Window`). On the wire to the reader are copies of the packet stored last and, *behind* them, of the one
that is due (`DataLine`); on the wire back, answers to the packet before the first one and, behind them,
to that one (`AckLine`). The order is what makes it inductive: without it an old answer could come after
a new packet with the same id and take it out of the buffer. Since the history is shorter than the
circle, the packet that is due is never taken for an old one (`DueIsNew`).

`StreamWrite`, `StreamStore`, `StreamRead` and the `...Puts` lemmas show what each elementary step does to a
direction; there is one lemma per action (`WriteInv` ... `ReceiveDataInv`). `Reliable` is the refinement:
`Write` and `Read` map to the actions of the same name, everything else to a stutter. What makes `Read` do
so is `Delivered`: what has been read and what waits is a prefix of what was written. A packet that falls into a
pattern is neither data nor an answer any more, so it leaves both lines as they are (`TornKeeps`,
`MeanwhileMoves`): `Reliable` holds with torn patterns. `HandshakesBalanced` counts patterns: until one is torn
the sum over the wires equals the number of ends that wait for one, and no pattern on a wire is other than
good or damaged at its end. It is an invariant by itself, but its steps need the types of `Inv`.

### A module in run mode: `RunManagerProofs`

| Theorem | States |
|---|---|
| `Invariance` | `Spec => []Inv`, the first inductive invariant |
| `OneTimerPerToken` | each token in a place with timers has one timer |
| `PausedTimersAreQuiet` | no timer runs while paused, unless a suspend overtook a resume |
| `SwitchAlwaysKnowsItem` | an item in the switch barrier is in the switch |
| `Completeness` | `Spec => []Complete`, the second inductive invariant |
| `TypeCorrect` | `Spec => []TypeOK` |
| `NothingIsLost` | `NothingLost`: reports balance with items, expired timers have a packet to come |
| `SwitchAlwaysClosed` | `SwitchIsClosedAgain`: an open switch is going to be closed, until an item is reported stuck in it |

`RowsMatch` checks the table of transitions: each listener deletes and sets timers for just the places
its transition takes from and puts to, KEEP_NEXT marks an item, and only CLOSE_SWITCH ends the
marking without a timer. `FireMatches`, `FireSwitch` and `FireQuiet` lift that to one firing, where a
token in the place is what makes `deleteTimer` find a timer; `ProcessKeeps` to an event; pausing,
resuming and expiring change what timers do but not their number. `Inv` needs, besides the properties,
that a `raced` resume is on record.

`NothingLost` needs the order of the timers of a place. That each expired timer has a TIMER packet to
come is kept by a barrier only because `deleteTimer` takes the *oldest* timer, and the expired ones
are the oldest (`ExpiredFirst`); otherwise a barrier that is faster than the packet could delete the timer
of the next item and leave an expired one without a packet. `ReportsBalance` follows from the table again
(`RowsReport`): what a listener says is what its transition does to the items the net follows, and
of two transitions of one event only one does anything to them. `Complete` is `Inv` with both.

`SwitchIsClosedAgain` has an invariant of its own, `Closes`. A token on IN_SWITCH_KEEP says nothing about an
item: the time-out at the switch leaves it there for good. So `Held` names what holds an open switch: an item
that is to be kept *and* is in the barrier, a timer that has not expired, a CLOSE_SWITCH packet, or more
tokens in the switch than items in its barrier. `FireHeld` shows that each transition hands the switch from one
of these to another, `ProcessHeld` that an event does, and `TickCloses` that the packet that is taken
is the one that closes it or not the last. `Closes` rests on `Complete`, by which every packet finds its
timer.

### Error recovery: `ErrorRecoveryProofs`

`Invariance`, `TypeCorrect` and `ModulesAlwaysAgree` (`ModulesAgree`), for every set of errors and
barriers and every number of errors. `Ends` is what makes the modes inductive: the last message in a
channel that changes the mode puts the handler in that of the master, and if there is none it is in it.

### The components of a module: `PartsProofs`

One section per component has its inductive invariant and a theorem about its own specification; the
last section carries that over to `PartsSpec`, which is what the run `parts` checks.

| Component | By itself | As the run checks it | For every |
|---|---|---|---|
| Sensors | `EdgesReachTheHandler` | `NoEdgeIsLost` | set of pins, length of the queue |
| Actuators | `OutputsAreWhatWasAsked` | `OutputsAlwaysFollow` | set of calls, capacity of the channels |
| Converter | `ConverterReadsSamples` | `OnlySamplesAreRead` | buffer, FIFO of two or more, pulses |
| Calibration | `CalibrationHolds` | `CalibrationAlwaysSound` | number of passes, values that may be 0 |
| Sorter | | `AlwaysKeptInOrder` (a refinement) | set of types, length of the line, depth of the history |
| all of them, the scanner and the tracker | | `TypesAlwaysOK` | |

* *Sensors.* There is a pulse exactly while the interrupt is masked (`OnePulse`), without a pulse to come
  what was read is what the pins are (`ReadAgain`), and what the handler does not know is in `left`, in
  its queue, or in `missed` (`SenseAccounted`).
* *Actuators.* Pulses of the timer's thread overtake those of the handler's, so an invariant about the
  bits as they are says nothing. `Will(b)` is what a bit will be once all pulses are through, in the
  order in which they will be taken: what the last pulse about it makes of it. Taking a pulse does not
  change it, sending one does so only for its bits, and a pulse of the timer only for the light, which no
  thread touches while it is steady (`StillWhenSteady`). `Where` says for each point of a call what will
  already be so. The delayed start sends with the handler's priority, so its pulses take their place among
  those; `OnTheWay` says for each point of it what will be so as long as the two have not overlapped
  (`WayGoesOn`), and that calls for anything but the belt leave it alone is `BeltStays`.
* *Converter.* `Sampled` counts: a sample for the one that the routine is about to read, and one more for
  a flag it has not seen. The flag is cleared before the sample is read, which is why a second one
  may come. `SetUp` says that no call after the one that lifts the write protection restores it.
* *Calibration.* What the states up to the current one have measured is of this pass (`OfThisPass`), so
  what the last state hands over is of one pass (`Together`), unless a setter threw.
* *Sorter.* `SorterInv` is proved to be kept by each action, which maps to `Deliver` or to a stutter
  (`SorterDelivers`, `SorterRefines`). Items stay in the order of the segments (`InLine`), so when it is
  decided about an item of module 2, all that is ahead of it is done (`BehindDone`): the history the
  plugin is shown is what was delivered, and nothing is delivered before that item (`Passes`). The
  plugin looks at the last three hollow items only. That this is enough is the lemma `NextFits`: if a
  history follows the cycle, three turns in a row say where in the cycle it is (`SamePhase`), so what the
  last three allow the whole allows; for a shorter one any phase that fits the last ones fits all. With
  `HistoryFits`, which finds such a phase, the loop that forgets old items never has to forget one at module 2
  (`KeptIsNext`). Forgetting the oldest delivered item shifts the phase by one (`OneLess`).

### Connection, timers, analysis: `ServicesProofs`

| Service | By itself | As the run checks it | For every |
|---|---|---|---|
| Timers | `CancelledIsQuiet` | `CancelledAlwaysQuiet` | number of timers and pulses |
| Connection, Container | `LineIsProcessedInOrder` | | sequence of packets and heartbeats, number of own packets, class of the layer |
| Analyser | `ItemsAreIdentified` | `KnownAlwaysIdentified` | set of addresses, number of items |

* *Timers.* The lock is what it rests on: another thread comes in between two updates only, when no
  callback of a Holder runs and nothing waits in `mQueue`, so what it cancels is in the map, where
  `shutdown()` stops it, or gone.
* *Connection.* A packet of the line is at one of six places: with the watchdog's reader, in `mReadBuf`,
  with the serial thread, in `mBuffer`, with the processing thread, or processed. The invariant says for
  each place that the sets up to it have no gap in front (`NoneMissing`) and no packet twice, nested by
  the threads that are still running (`BehindProcessing`, `BehindSerial`, `BehindReader`): a thread that
  ends may take a packet with it, and then nothing comes after it either. `ProcessedInOrder` says that
  what was processed before a packet of the line is exactly the data sent before it. The theorem is about
  `Connection!Spec`, which the run `connection` checks.
* *Analyser.* `TreeIsNew`: since `Master::analyse` clears the tree before it uses an address, the tree is
  the one of the height map at hand. From `RecordingsAssumption` follows the rest; no property of the
  numbers is proved, only that each item gets the result of its own ones.

### What is only model-checked, and why

All invariants and action properties of the passing runs are theorems but two. What is left to TLC:

* *Liveness* (`BeltClears`, `AlwaysRecovers`, the ends of shutdown, ...): TLAPS does not
  reason about ENABLED, on which fairness rests.
* `RecoveryMeansFixed` of `ErrorRecovery`. It is true of a single error and false of two: with
  overlapping errors a FIXED of the first can be taken for the second (`error_stop` shows one case).
  So it is about the first error only (`raised = 1`), and there is nothing to prove for every number.
* `ItemsGetTheirMaps` of `Scanner`. Whether each change is measured in time depends on the distances between
  changes of the height, the delay and the lag together; only the types of the scanner are proved.
* `RecordingsAssumption` of `Analyser`: a calculation on recorded numbers, which TLC does.
* Induction over data: the provers installed cannot instantiate the induction theorems. Where a proof needs a
  least element or the k-th one of a finite set of numbers it says so through cardinalities or the
  well-foundedness of the order (`Least`, `NthIs` in `MasterLogicProofs`, `CountFinite` in
  `RunManagerProofs`), and definitions in the proved modules are set-based for that reason.

## 6. Not modelled, and why

* *Master*: SHUTDOWN, PRINT, and the SERIAL error, which reaches the base only.
* *BSP link*: closing the connection; one flipped bit in a packet type, which the deserializer
  tolerates; damage the checksums do not see; bytes the line drops from a packet or adds to it, other than
  those that show as the damages modelled (a reset, a damaged header, a lost packet). Packets of other threads
  that fall into a reset pattern are modelled, with what is left of the pattern chosen freely.
* *Error recovery*: irrecoverable errors, which nothing leaves; errors without a location, which no
  sender makes; FIXED of a module other than from its error manager.
* *Run manager*: the lengths of the timers; which way the switch sends an item after a time-out there;
  the stop button, which is an input of `MasterLogic`.
* *Timers*: `elapsed()` and the end of the service.
* *Watchdog*: the clock and the heartbeats it writes; a time-out may come at any time instead.
* *Hardware*: mapping of memory, addresses of registers, the functions of the converter's driver that
  nothing calls.
* *Analysis*: floating point, which TLC does not have; `item_unknown`, the recording of no item; the
  clustering, which no plugin uses.
* *Serial port, packet serialisation, recorder, viewer, utility library*: I/O of bytes, formatting, or
  templates without state that the system depends on.

## 7. Plan

1. `Line`: the composition of two run managers and the tracker over a belt with items. Property: while
   nothing is lost the tracker's segments are the belt's. The modules there are do not share enough
   state for it: `RunManager` lets barriers report anything.
2. Closing the BSP link, under `Connection`'s shutdown.
3. Proofs: the liveness properties, should the prover learn ENABLED; those of `Timers` and `Connection`
   first, whose invariants are there.
