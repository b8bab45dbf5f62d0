# TLA+ models of the M61 DualSense dongle

The firmware under `src/m61/dualsense_hidp_probe/` turns an M61 (BL618) board into a
bridge: a DualSense controller on Bluetooth appears to a USB host as a wired controller
with its sound card. This directory holds TLA+ modules that model the parts of the
firmware where several tasks and callbacks meet, TLC configurations that check them on
small instances, and proofs for every instance. File names without a directory are
those of `src/m61/dualsense_hidp_probe/`.

## The system

FreeRTOS, one core, preemptive priorities. Who runs, from the highest priority down:
interrupts (the USB device callbacks run there or in the USB driver), the Bluetooth/HCI
threads, the audio ingress and codec tasks, the bridge task, the DVFS worker, the
auto-connect task, the LED task and the shell. Shared state is protected by short
critical sections (`usb_lock`, `epoch_lock`, both disabling interrupts); everything
else is shared without a lock and is safe only by order and priority.

```
USB OUT packets -> ingress ring -> ingress task -> epoch store -> codec task (Opus)
                                                        |
   host reports (output, feature, web) -> queues        v adjacent pairs
                                            \-> bridge task -> TX scheduler -> L2CAP -> controller
controller -> L2CAP recv -> input parser -> USB IN report
                         -> feature cache -> GET_REPORT answers
                         -> mic Opus ring -> codec task -> mic PCM ring -> USB IN packets
```

### Inventory

| Component | State | Operations | What is hard | Correct when |
|---|---|---|---|---|
| Epoch store `m61_audio_epoch.c` | 8 slots (state, generation, epoch number, fill), counters | ingest, take/complete encode, take adjacent pair, reset | copies outside the lock, eviction, resets of busy slots | one owner per slot, no slot lost, pairs coherent and in order, nothing waits for ever |
| TX scheduler `m61_bt_tx_scheduler.c` | 4 realtime slots, 2 mailboxes, burst, turn, versions, counters | publish, ingest pair, select, is-current, finish, reset | selections held across changes, wrapping versions, fairness between classes | no stale selection accepted, bounded bursts, alternation, conservation |
| Bridge task `main.c:2510` | scheduler, last mic status, due ticks, link seen | poll, fill, status, host reports, select, check, send, finish; feature SET/GET | generation, link and headphones change under it | fresh pairs only, nothing replayed in a later session, reports not starved |
| Route policy `m61_usb_gamepad.c:708` | route, headphones, requested layout | set route, set headphones | written from two tasks | a new layout is a new generation |
| Feature proxy `m61_usb_gamepad.c:1810` | cache, GET FIFO, SET FIFO | GET/SET from the host, response, clear | order of SET 0x80 and GET 0x81, full FIFO | SET reaches the controller first, answers not stale |
| Audio ingress `m61_usb_gamepad.c:736, 1380` | DMA slots, sequence, armed flag | arm, packet done, take, release, gap reset | all slots busy, gaps, resets | the endpoint is armed again, packets in order |
| Codec task `m61_usb_gamepad.c:1552` | encoder layout, mic decoder | encode one job, decode one packet, select by deadline | layout change between jobs | encoder matches the layout of its job |
| Microphone `m61_usb_gamepad.c:1066, 2687` | Opus ring, PCM ring | submit, decode, push, send, flush | flush against a decode in progress | no sample of before a flush after it |
| Input pump `m61_usb_gamepad.c:804` | latest report, busy, pending | new report, sent, poll mode | lost wake-up of the pump | the last input reaches the host |
| USB session `m61_usb_gamepad.c:2118` | ready, configured, suspended, armed flags | bus events, init, deinit, reinit | events in any order, attach by two tasks | attached exactly when a controller is there |
| Web configuration `m61_web_config.c` | runtime copy with sequence counter | encode, decode, migrate, set, get | readers without a lock, old formats | never a mixture; every saved format loads or is refused |
| Web commands `main.c:2256-2508` | configuration, status of the last command | apply, load, save, pairing | applied by the bridge, read by callbacks | status belongs to its command |
| DVFS `m61_dvfs.c` | requests, floors and expiries, current frequency | set, floor, boost, note activity, worker step | expiries that wrap, failed transitions | frequency at least what is asked, returns when it ends |
| Realtime selection `m61_realtime_scheduler.c` | none (pure) | slack, select | wrap of deadlines | the most urgent job that fits |
| Link manager `main.c:431-720, 2789-3387` | connections, channels, retry ticks, saved address, pairing mode | connect, accept, fail, retry, pair, deferred cleanup | stack callbacks against the auto task | one controller, no channel torn down that came back |
| Parser, output builder, dead zone `dualsense_parser.c`, `dualsense_output.c`, `m61_stick_deadzone.c` | none or merged output state | pure functions | boundaries of bytes and lengths | equal to their definition |
| Flasher `src/tools/m61-flasher/` | selection, worker, retry | verify, flash, retry | external process fails half way | never flashes unverified files |
| Profiling, memory bench, shell, LED, build scripts, host tools | measurements, wording | - | - | not modelled, they drive no other component |

`PROJECT.json` lists the same components with their status and every hazard at its line.

## Plan

Written, in this order: `AudioEpoch` with its proofs, the heart of the program;
`BtTxScheduler`, which implements `TxQueue`, with its proofs; `Bridge`, composed with
`TxQueue` in place of the scheduler; `FeatureProxy`; `Link` with its proofs; the USB side
(`UsbSession`, `UsbAttach`, `InputPump`, `AudioIngress`, `MicPipeline`, `HostOutput`,
composed in `UsbDevice`); `Dvfs`; `WebConfig`.

Proofs follow each component: `AudioEpoch`, `BtTxScheduler`, `Link`, `Bridge`, `FeatureProxy`,
`UsbDevice`, `Dvfs`, `WebConfig`, and that `BtTxScheduler` implements `TxQueue`. Left: a
composition of `AudioIngress` with `AudioEpoch`, which now meet only in the generation that a
packet carries.

## Modules

### AudioEpoch

`state`, `slotGen`, `slotEpoch` and `slotSpeaker` are the fields of the slots, `pcm` and
`opus` what their buffers hold, `fillingSlot`, `generation` and `nextEpoch` the store's,
`started`, `emitted`, `dropped` and `stale` its counters. Four actors: the ingress task
(`Ingest...`), the codec task (`Encode...`), the bridge as reader (`Pair...`), and the USB
callbacks and setters that reset the store or change what is armed (`Arm`,
`ResetKeepDma`, `ResetCancelDma`, `MuteSpeaker`, `UnmuteSpeaker`, `ApplyFlag` and
`ApplyReset`). Each critical section
of the C code is one action; each copy outside the lock has an action that ends it,
so that everything else can happen between the beginning and the end of a copy. A
frame is its generation and its number in the stream, so a coherent pair can be told
from a torn one.

Properties (run `epoch_safety`): `IInv` (who may hold a slot in which state),
`NoDataRace`, `AlwaysRoom` (the ingress task always gets a slot), `PairCoherent` (a pair
holds exactly the consecutive frames its numbers stand for, and its Opus packets were
encoded from them), `Accounting` (every started epoch is in a slot or in exactly one
counter), `EmissionOrder` (never an earlier generation or an overlapping or earlier
epoch after a later one). Run `epoch_liveness`: `NothingWaits`, that is `CancelledFreed`,
`ReadyServed` and `PairServed`.

Bounds: four slots (the code has 8; four is the least for which `AlwaysRoom` holds,
because one slot is being filled, one encoded and two are read as a pair), two frames
per epoch, packets of one or two frames (so an epoch ends inside a packet), two
generations, five epochs: enough for a full store, an eviction, a gap and a reset in
the middle of every copy. In the liveness run three slots, one frame, four epochs;
three slots, so that an allocation is also refused. `CHECK_DEADLOCK FALSE`, because
the bounds on epochs and generations end behaviours that the firmware would continue.

Fairness: weak fairness of the codec task and of the bridge's pair calls. Both tasks
loop for ever, below only interrupts, Bluetooth and, for the bridge, the codec; none
of these runs without pause, since each has a deadline rate below one core's time.
Nothing is assumed of the USB host or of resets.

### BtTxScheduler and TxQueue

`BtTxScheduler` has the scheduler as it is written: slots and mailboxes with versions
that wrap and skip zero, sequence numbers, ages, the burst counter that saturates
(`BurstCap` stands for `UINT8_MAX`), the turn and the counters of each class. The user of
the scheduler holds a selection (`selClass` to `selWaiting`) over any number of other calls. `TxQueue` is what it
promises: a queue of at most `Depth` realtime items, two mailboxes that hold the last
item posted, a choice, and the rule for the next choice. `ImplementsTxQueue` states
that every step maps to a step of it or a stutter, where the queue is what the slots in use
hold, in the order of their sequence numbers (`PendingInOrder`), an item is the number of its
publication, and a mailbox that is not pending holds nothing.

Run `tx_scheduler`: `ImplementsTxQueue`, `Conserved` (accepted = settled + pending for each class, and pending
counts the places in use), `SelectionNames` (a selection that is accepted as
current names the item it was made for, versions wrapping included), `FairTurns` (`BurstBound`: how
many pairs may overtake a report, and `Alternates`: how many reports of the other mailbox),
`RealtimeInOrder`. Types and the inductive invariant `IInv` are proved for every instance and
not run again.

Bounds: two realtime slots, versions modulo 4, four publications and a clock of
two ticks: a version comes round while a selection of its first bearer is held.

### Bridge

The task loop, one action per stretch of code between two points where what it reads
may change, over the operators of `TxQueue`. Items carry the generation, layout and link session
they were taken in. The Bluetooth task and the USB callbacks may act between
any two steps; what they do is atomic for the bridge, since they have a higher
priority. `LinkUp` requires that the bridge has seen the link down: channels are not
opened again for 750 ms (`DS5_DISCONNECT_CLEANUP_DELAY_MS`), and the bridge polls
every millisecond.

Run `bridge_safety`: `Sound`, that is the types, `ChosenStays` (what is settled is what was
selected), `WaitsForThisLink`, `LayoutFollows` and `PairsMatchLayout` (a change of layout is a new generation, so no queued pair
of the current one has the wrong layout), `NoReplayAcrossLink`, and
`RelabelledAfterCheck` (a pair gets the label of another output only when the headphones
change after its generation was checked). Run
`bridge_liveness`: `MicOnReaches`, in spite of the race between `main.c:2673` and
`main.c:1454`, and `OutputServed`. Only turning the microphone on is claimed: a
status that says it is off can be lost by the reset at `main.c:2619`, and nothing
repeats it.

Fairness: weak fairness of the loop and of leaving the host reports (at most
`CONFIG_M61_DS5_HOST_REPORTS_PER_TICK` per turn), of the two clocks, and strong
fairness of a successful send per class: while a link is up the stack runs out of
buffers, but not for ever.

Bounds: queue of two, two generations, two link sessions, so that an item can be of an
earlier generation and an earlier session; headphones both ways; the host
may choose the routes auto and stereo, which between them change the layout with
and without headphones. The liveness run has a queue of one, no headphones and route auto.

### FeatureProxy

The cache and the two queues of `m61_usb_gamepad.c`, the part of the bridge loop that
forwards SETs and GETs (`main.c:2683-2745`), and the channel to a controller that
serves it in order. USB callbacks run in the interrupt and are one action each; the
request ring is modelled with its indices and its removal in place. The controller
is external: a SELECT (SET `0x80`) chooses the page that PAGE (GET `0x81`) shows.
Output reports, which share the loop, are in `Bridge` and `HostOutput`.

Run `feature_safety`: `CacheSound` (types and `CacheOfController`), `SetsInOrder`,
`RequestsKept`. Run `feature_liveness`: `HostServed` (`AnswerComes` and `SetServed`). Fairness: the bridge loops, an open
channel is served, answers are handled, and the stack has a buffer again and again.

Bounds: three reports over a cache of two and a ring of two, so that eviction, a full
ring and wrapping happen; two SETs, one message on the way in each direction, two
connections. The liveness run has two reports, one SET over a queue of one, one
connection and one bus reset. Constant reports are interchangeable (symmetry), and the
view leaves out ring places out of use.

### Link

How `main.c` gets and keeps the Bluetooth link: the parts of the auto task's loop that
start pages and searches and open channels, the commands that touch the same state
(button, shell and web page), and the callbacks of the stack. Each flag of the code is a
variable; ticks are not: what the code does once a tick is due, the model may do at
any time, which covers every choice of the delays. The request for pairing mode is split
where it waits for the stack to change the scan mode. A call to the stack and what
its caller notes of the result are one step, because the answer comes over the air:
from milliseconds (a channel) to seconds (a page, a search) later. Service discovery, the
security request and the bring-up reports, which change none of this state, are left
out; when channels may be opened (security ready or timed out) is a delay.

Run `link`: `Connectable` (without a link pages are answered), `IInv` (the invariant of the
proofs), `NoWipe` (the cleanup 750 ms after a link spares what a controller that came
back has opened), `KeepsTrying` (`RetryMade` and `RetryScheduled`: automatic connection goes on until
there is a link; after a disconnection the code waits for the controller or a command,
so neither is claimed from there), `NotStranded` (a link of our own does not stay
with both channels closed). Two exceptions are in the statements because the code needs
them: pairing mode suspends automatic connection, and `ds5 auto now` during a
pairing search leaves pairing mode on with nothing under way that would end it
(`main.c:4108`, `main.c:3091`); and a controller that opens one channel of a link we
made is not asked for the other (`main.c:1591`).

Fairness: the auto task looks at all it has to do in every turn, so each part is weakly
fair, and a request for pairing that has begun goes on. The stack answers what it
was asked, well or badly (page, search and channel requests time out in the stack), and
does not refuse the same call for ever (strong fairness of a call that succeeds). No
controller and no command is assumed. Bounds: two attempts at the saved
address (`CONFIG_M61_DS5_AUTO_SAVED_ADDR_ATTEMPTS` may be any number in the proofs); the
rest of the state is finite as it is, and commands and failures may repeat for ever.

### UsbDevice and its parts

`UsbSession` has what the stack and the host have agreed on (`bus`) and the flags the
event handler keeps of it; the other modules extend it with one function each, and
`UsbDevice` composes them: an event of the bus, a selection of a streaming interface, and
`m61_usb_gamepad_init`, `..._deinit` and `..._reinit` are one step of all parts, since they
are called in the interrupt or, for the last three, act under the tasks without a pause
(a call of `m61_usb_gamepad_init` is taken as atomic).

- `UsbAttach`: the start task, once (`StartSees`, `StartChecks`, `StartInits`), the auto task
  in every turn (`AutoDetaches`, `AutoPulses`, `AutoAttaches`), and the shell. Each pulls
  the data lines low for 350 ms first: a step of its own, during which the others act. The
  web command that reconnects USB calls the function of the shell's `usb-cycle`.
- `InputPump`: `last_input_payload`, the marks and the buffer of the endpoint. In a task the
  claim and the start are two steps, in a callback one.
- `AudioIngress`: slots, cursors, count and the place of the ingress task in its code. A look
  at flags without the lock, each critical section and each call of the stack is a step.
- `MicPipeline`: frames, the codec task packet by packet, ring and endpoint. A packet is
  its frame and its place in it.
- `HostOutput`: an output report from the callback over the pending place, the mailbox of the
  scheduler and the merge (`dualsense_output.c`) to the controller. A part of the state is
  the number of the report it was taken from; `LED` stands for all parts with a flag.

Run `usb_device`:

- `MarksExact`: the types, `BusyTracks` (the input endpoint is busy exactly while a transfer
  is on the wire or about to be), `CountExact` and `MicCountExact` (the counts of both rings);
- `InputReaches`: the last input report reaches the host;
- `RingSound`: `NoOverwrite` (the hardware never has a buffer that is ready or being read),
  `KeepsListening` (the endpoint is armed or someone is about to arm it), and what these
  rest on: `EndpointFollows` (the marks of the endpoint are those of the hardware),
  `InHand` (what the task holds) and `InSequence` (what waits is in order and goes on
  where the epoch store ends);
- `MicSound`: `FlushForgets` (after a flush comes only what a task had in hand), `MicFlows`
  (the cursor of the endpoint stays with the packets), and what these rest on: `WindowHolds`
  (the packets in use are those between the two cursors), `CodecHolds` (the codec task
  fills the place at its cursor or none) and `InOrder` (frames from the task that brings
  them to the host);
- `AudioInOrder`: `NoHole` (of one generation the store takes consecutive packets) and
  `HeardInOrder` (the host hears each packet once and in order);
- `FollowsController`: `UsbComes` and `UsbGoes`;
- `MergedOrReplaced` and `ControllerFollows`: what the host wrote last is merged and sent.

The code has holes that these statements name, each with a history variable that
is true only there, so that nothing else is excused:

- `deaf`: all slots of the ring are ready, so nothing is armed; a reset that keeps the
  hardware's slot (a mute, a route, headphones) frees them all, the ingress task finds
  nothing to release, and nobody arms the endpoint until the next bus or stream event
  (`m61_usb_gamepad.c:2013`).
- `overtaken`: the cursor of the ingress task stays where it was when such a reset drops
  packets, while the slot the hardware has stays too. If that slot is not the next one the
  cursor finds, a newer packet can come to lie before an older one in the order of the ring:
  the task takes the newer first, and after a change of generation it has no number to compare
  it with, so that packets 4 and 6 of a stream can follow each other with no gap seen
  (`m61_usb_gamepad.c:757`, `m61_usb_gamepad.c:1401`). It takes five generations and eight packets.
- `cutShort`: a suspension clears the busy mark but not the packet on its way
  (`m61_usb_gamepad.c:2168`); its place is never given back, the cursor rests on it and the
  host hears silence until the queues are flushed.
- `unnoticed`: a controller that goes while the auto task or the shell pulls the lines low
  finds nothing attached to detach, and neither looks again (`main.c:3231`, unlike
  `main.c:3194`): the host keeps a device without a controller.
- `lost` and `late`: an output report that waits is replaced by the next, although the merge
  happens only when a report is sent, so the parts only the first one set are lost; a new
  audio generation or a lost link clears the mailbox; a report the stack refused after
  the merge is sent with the next one.

Found besides, and outside the statements: a failed `ds5 usb-reinit` is never tried again
(`main.c:4017`); output state is kept over connections, so a new one starts with the lights
and motors of the last (`main.c:4555`); bring-up and bridge share the sequence number of the
output reports without a lock; a pending output report survives a deinit.

Bounds: a behaviour uses one function of the device (`Uses`), because the parts share only the
session and its events, which are in every behaviour. Three slots in both rings (wrap, full
ring, and a slot each for hardware, ready and reader), five packets, two frames of two
packets over a queue of one, two reports in and out, three generations by events and
settings (the gap reset is not bounded). `CHECK_DEADLOCK FALSE`: the bounds end behaviours.
`Settled` says that a task does not stay between choosing a buffer and calling the stack while
the host enumerates, resumes or selects a setting: milliseconds against microseconds.

Fairness: the bridge pumps and sends in every turn and the Bluetooth task finishes what it
began; the host polls an armed endpoint; the auto and the start task loop; a stack that can
be started and a buffer come again and again (strong fairness of the call that succeeds).
No report, controller or event is assumed.

### Dvfs

The worker (`Look`, `Apply`, `Wait`) and everything that leaves a request for it, at their
priorities: a USB callback enables streams, the codec task notes activity in two steps, the
bridge applies a configuration, the shell sets frequencies and boosts in two stores.
Ticks are taken modulo `Modulus`, and a behaviour starts just before the counter wraps, so
that zero, which marks "no expiry", is also a time. `Change` fails before or after the clock is
selected.

Run `dvfs`: `ClockMeets`, that is the types, `DemandMet` (a worker that sleeps leaves the clock fast enough for all that is
asked) and `HardwareKnown` (the recorded frequency is the CPU's), `FallsInTime`, `CalmBeforeDrop`
(the clock falls only after a quiet delay). `DemandMet` holds although activity notifies only when it raises the floor.
The comment there, "The worker already wakes at the previous deadline" (`m61_dvfs.c:552`), is
not always so: an expiry that passes between the look at the requests and the wait, or falls
on tick zero, is not waited for, and the worker may sleep for ever with a stream going on, or
above what is wanted; `FallsInTime` does not count that time (the history variable `missed`
marks the look and the wait that miss an end, `Overslept` the sleep that follows). It falls
within `Patience`: a delay, another one when a delay for a different frequency is under way
and an end passes before the wait, and three turns of the worker. A boost of the shell whose two
stores surround a look of the worker or a status request is lost (`m61_dvfs.c:498`).

Bounds: ten ticks, three requests, one failed change, delay, holds and boost of two ticks,
one tick of lag; a lease is a few ticks long in every behaviour, so that leases older than
half a turn of the counter, which would come back, do not occur (`DvfsAssumption`); in the
firmware that is 24 days. `DvfsAssumption` also says what the constants of the firmware are
like: an even modulus (Before is the sign bit of a difference) and a residency (500 ms) within the
delay (2000 ms). Floors of clients have no caller and are left out.

### WebConfig

The record in the flash (`flash`), the older firmware's own (`legacy`), the working copy
(`web`), the copy the readers take (`runtime`) with its sequence counter (`odd`), and the
variables through which settings act (`live`). One field stands for each way a setting is
kept. The host's commands run in the bridge, above the auto task and the shell; the shell's
save is split where the others may come between, also in the middle of the encoding. The
power may fail at any step; a flash operation is atomic (EasyFlash, external).

Run `web_config`: `SettingsSurvive` (what was saved acts after the next start, through
migrations and power cuts), `Consistent` (types, and `TruthfulAnswer`: GET F7 answers what
acts, when nobody writes),
`HostLearnsResult` (number and result of a command belong together and are shown). Run
`web_callback` has the finding below. Behaviour met on the way that the statements allow: `ds5
auto` changes the setting and no copy, so GET F7 shows the old one until a save or an apply
(`unshown`); a frequency above 400 MHz, which the shell accepts as experimental, makes every
save fail and GET F7 answer nothing; an APPLY that cannot be decoded returns without a result;
a shell save that the host's apply overtakes saves a mixture (`overtaken`); two writers that
nest leave the counter even while one writes.

Bounds: two configurations of the host that differ in most fields, records of versions 1 and
4 (which have the most and the least defaults to fill, and the retired rate), none, and one
that is not sound, one record of the older firmware, three commands, one power cut and one
failed write. Fairness: the auto task loops and the bridge ends a command.
`SettingsAssumption` says of configurations, records and shell requests what the code that
checks them ensures. The shell is taken to be used after the start. A record with a correct CRC and an invalid
field, and the timing of the power policy, are left out.

## Runs

| Run | Shows |
|---|---|
| `epoch_safety` | ownership, races, coherence, counting and order in the epoch store |
| `epoch_liveness` | cancelled slots are freed, waiting epochs and pairs served |
| `tx_scheduler` | conservation, stale selections, bursts, alternation, order, and that the scheduler implements `TxQueue` |
| `bridge_safety` | freshness, layout and sessions through the bridge loop |
| `bridge_liveness` | microphone status and output reports get through |
| `feature_safety` | cache of the present controller, SETs in order, ring compaction |
| `feature_liveness` | answers arrive, SETs do not block |
| `link` | reachable without a link, cleanup spares new channels, retries go on, channels are opened |
| `usb_device` | input reports, audio OUT ring, microphone, output reports and attachment through every order of session events |
| `dvfs` | the clock is fast enough, falls in time and only when it is quiet |
| `web_config` | settings survive restarts and migrations, answers and results are true |
| `web_callback` | a statement of the repository that the code does not keep, described below |

Every property of a passing run is violated when one definition of the model is
replaced by the operator named in `PROJECT.json` under `mutants` (their names begin with
`Fault`, and each is a plausible slip in the C code).

## Where the code and its documents differ

- `CallbacksReturn` (`m61_usb_gamepad.c:3243`), the property of run `web_callback`: GET F7 and F9
  are answered in the USB interrupt, which reads settings and status again while their
  sequence counter is odd. It can interrupt a writer between its two increments
  (`m61_web_config.c:367-376`, `m61_usb_gamepad.c:2870-2879`) and then waits for a task it
  keeps from running. `docs/DEVELOPMENT.md:61`: "Keep USB and Bluetooth callbacks bounded and
  non-blocking." The auto task waits in the same way for the shell (`main.c:3245`).
- `main.c:2628`: the generation of a pair is checked, then the global that decides its block
  label is read; `m61_usb_gamepad.c:728` says "Do not relabel packets".
  `RelabelledAfterCheck` shows that this window is the only one.
- `main.c:2537`: a new audio generation clears the mailbox with the host's last output report,
  and `m61_usb_gamepad.c:1970` replaces a report that waits before it is merged;
  `docs/PROTOCOL.md:34` says that output state is merged and sent.
- `main.c:2716`: a SET 0x80 without a buffer waits for the next turn, and only one SET is taken
  per turn, but GETs go on; GET 0x81 can pass it, against `docs/PROTOCOL.md:43`.
- `m61_usb_gamepad.c:2610`: the answer to a GET 0x81 sent before a SET 0x80 can arrive after the
  refresh was queued; storing it removes the refresh, and the old page is served until the
  next SET 0x80, against `docs/PROTOCOL.md:44`.

Three more are plain from the text: the block label of a pair
follows the headphones whatever the configured route (`main.c:2628`,
`docs/PROTOCOL.md:94-95`), and a USB bus reset invalidates report 0x81 only and not the
whole cache (`m61_usb_gamepad.c:2137`, `docs/PROTOCOL.md:45`). The dead zones act on the
state of basic reports only; full reports are forwarded as they are (`main.c:1510`).

## Proofs

`AudioEpochProofs` proves, for any number of slots, epoch length and packet sizes, and
with only the assumptions named in `AudioEpoch`:

- `OwnershipInvariant`: `Spec => []IInv`, and from it
- `TypeCorrect` (`TypeOK`), `RaceFree` (`NoDataRace`),
- `RoomForIngest` (`AlwaysRoom`, from at least four slots), and
- `EpochsAccounted` (`Accounting`).

`NoDataRace` is not inductive: that a slot is not evicted while it is being copied
follows from its state, and that its state is right follows from what each task
holds between two critical sections. `IInv` says exactly that: the type invariant,
to which generation a live or a cancelled slot belongs, that generation and epoch name
one slot, which slot each task holds at each place of its code and in which state that
slot is (the normal one, or the cancelled one after a reset), and that no slot is in a
busy state without a holder. One
lemma per action shows that it is kept, with one step per part that the action can
disturb. `RoomForIngest` counts: one encode job and one pair hold at most three slots. For
`EpochsAccounted` each action's effect on the number of busy slots is compared with its
effect on the counters.

The second half of the module proves `PairsCoherent` (`PairCoherent`, from at least four slots).
`StreamInv` says that the packet in hand goes on where the epoch being filled ends, which
needs that a packet is only left behind when a reset made it stale, and so
`RoomForIngest`; `SlotDataInv`, `JobInv` and `PairInv` follow the frames from there
through the slot, the encoder and the pair, as long as no reset cancelled them.

It also proves `PairsLeaveInOrder` (`EmissionOrder`). The reader pairs the
oldest *complete* epoch with its successor, so order could be lost if an older epoch were
still waiting for the encoder. Three invariants on top of `IInv` exclude that. Within a
generation the speaker flag is only ever turned on, because every change that turns it
off opens a new generation (`SpeakerInv`, which does not hold between the two halves of
`set_audio_speaker_enabled`, but then the reader is the task that is busy there). An epoch
that waits therefore has a speaker, so has every later one, and those are encoded oldest
first (`QueueInv`). Hence the oldest complete epoch is the oldest of all, and what remains
is later than the pair that left (`SentInv`).

`BtTxSchedulerProofs` proves, for any depth, burst, modulus of the versions and bounds:

- `SchedulerInvariant`: `Spec => []IInv`, and from it
- `PublicationsConserved` (`Conserved`), `NoStaleSelection` (`SelectionNames`),
- `ReportsGoOut` (`FairTurns`),
- `PairsInOrder` (`RealtimeInOrder`), and
- `SchedulerImplementsQueue` (`ImplementsTxQueue`).

None of the middle four is inductive, because a selection may be held while everything
else happens, and may be settled twice. The argument: the versions of two publications
are as far apart as the publications, modulo the number of versions (`Carries`); while a
selection is held fewer publications than that follow (`MaxHeld`, the assumption
`VersionAssumption`); so equal versions mean the same publication, and what was true when
it was selected (it is the oldest pair, the burst is not used up, it has the turn) is
still true when it is settled. In the firmware the number of versions is 2^32 - 1 and a selection is
held for part of one turn of the bridge loop.

The refinement has one lemma per operation (`IngestRefines`, `ReplaceRefines`, `ResetRefines`,
`PublishStateRefines`, `SelectRefines`, `FinishRefines`, `TickRefines`). They need two facts
more (`RefinementInv`, which holds of the states of the run too): the slots in use have a
list by sequence number, which the proofs build step by step (`ListAppend`, `ListTail`,
`ListKept`) and of which there is only one (`ListOfIs`); and a report that waits is of the present
generation, so that `drop_wrong_generation_state` finds nothing to drop. Then the pairs that
go stale are the positions of the queue that expire, the slot `select` finds is the head of what is
left, and, as a selection that passes for current is (`CurrentNames`) what it was made for,
what `finish` takes is what was chosen.

`LinkProofs` proves, for any number of attempts, `LinkInvariant` (`Spec => []IInv`), and from
it `LinkTypes` (`TypeOK`), `AlwaysConnectable` (`Connectable`) and `ChannelsSpared`
(`NoWipe`). Neither of the last two is inductive: pages stop being answered when both
channels are up, so that channels are open on a link only belongs to the
invariant (`OpenOnLink`), and the cleanup spares what is open because nothing opens a
channel while any cleanup waits (`CleanupOfIdle`).

`BridgeProofs` proves, for any depth, burst, number of generations and links and set of routes:

- `BridgeSound` (`Spec => []Sound`),
- `BridgeNoReplay` (`NoReplayAcrossLink`), and
- `BridgeLabels` (`RelabelledAfterCheck`).

`Sound` is itself inductive. That the queued pairs fit the requested layout
(`PairsMatchLayout`) needs that a layout changes only with the generation, also in the
bridge's own locals: each pair in the queue or in hand fits the layout of its generation
(`PairFits`), and the layout asked for is the one that follows from route and headphones
(`LayoutFollows`). That nothing is replayed needs that whatever waits belongs to the link
the bridge has last seen (`OfThisLink`, `WaitsForThisLink`): between a link that goes and the
poll that sees it, nothing new can be queued for the next.

`FeatureProxyProofs` proves, for any sizes of cache and queues and any reports:

- `FeatureCacheSound` (`CacheSound`), `FeatureSetsInOrder` (`SetsInOrder`), and
- `FeatureRequestsKept` (`RequestsKept`).

The request ring is proved to lose nothing by following the loop that closes the gap entry
by entry: an increasing map (`Without`) gives, for each place after a removal, the place its
request had before, wherever the ring wraps.

`UsbDeviceProofs` proves, for any size of the rings, any number of reports, packets and frames,
and any set of functions used together (TLC uses one at a time):

- `DeviceMarksExact` (`MarksExact`), `DeviceRingSound` (`RingSound`), `DeviceMicSound` (`MicSound`),
- `DeviceKeepsNewest` (`MergedOrReplaced`), and
- `DeviceAudioInOrder` (`AudioInOrder`, an action property).

The invariant `DeviceInv` is the conjunction of the invariants of the parts; each is kept by
itself, because the parts share only the session. `Kinds` sorts the steps of the device
by what they are for every part, so that the 350 ms of `UsbAttach` are split once. The ring
(`RingInv`): positions are counted from the cursor of the task (`Ahead`); counting them, the
numbers of the packets that wait rise without a hole up to the last one received, and what
the store has is the number before the first of them, for as long as nothing was overtaken.
The microphone (`MicInv`): the packets in use are the `micCount` places from the cursor of the
endpoint, and the place the codec task fills is the one behind them (`WindowHolds`,
`CodecHolds`), so a commit never meets a full ring; each packet, the one being filled, the
frames in the queue and the one on its way to it are later than all before (`InOrder`), also
when a flush takes some of them away.

`DvfsProofs` proves, for any modulus of the tick counter and any start on it, any durations,
frequencies and bounds that `DvfsAssumption` allows:

- `DvfsClockMeets` (`ClockMeets`), `DvfsCalmBeforeDrop` (`CalmBeforeDrop`, an action property),
- `DvfsFallsInTime` (`FallsInTime`).

First come the lemmas about the counter: for a time that was set a hold ahead at most and ended
no longer ago than the behaviour lasts (`Lease`), `Before` says what it seems to, on both sides of
the wrap, and a tick keeps it so (`LeaseTick`). The clock is fast enough because a step that raises
what is asked for notifies (`QuietRequest`: whatever does not notify is `Same`, also when
the codec's call was begun before) and time only ends requests (`TickFalls`), so that a worker without
news aims high enough (`Aimed`). It does not fall during a pause because a pending drop is never
older than the looks that allowed it (`Steady`, with the ages of the worker's times in `Aged`).
It falls in time because the worker sleeps no longer than to the next end
(`Expects`, from `NextExpiryIs`: unless something ends at tick zero, the two nested minima that
take zero for "none" give the next end) and is not above what is asked for until that end passes
(`NotAbove`); where it is too fast it is on its way down, and `Lowering` says how long
at each place of its loop. `Demand`, `Aged`, `Waiting` and `Prompt` together are inductive.

`WebConfigProofs` proves, for any configurations the host may apply, any records to start from and
any number of commands, power cuts and failing writes:

- `SettingsInvariant` (`Spec => []IInv`), and from it `TypeCorrect` (`TypeOK`),
- `ReadersConsistent` (`Consistent`), and
- `SettingsKeptAlive` (`SettingsSurvive`).

Lemmas say first what the operators on configurations do (`NormIs`, `RefreshedIs`, `AppliedIs`,
`EncodedIs`, `DecodedIs`). That settings survive needs two facts in every state, also between the
steps of a start: what has to survive is what a start would make of the two records
(`StoreInv`), and the older record is removed only when the newer one can be read. What is
written is what acts because whoever goes to write has the working copy in agreement with the
variables, and an apply that overtakes him keeps it so (`AgreeInv`, `WriteInv`: the shell's
encoded copy is the working copy unless it was overtaken). Readers are answered truthfully because the
copies differ from the variables only between the two halves of an apply (`CopyInv`), and the
counter is odd exactly while one of its two writers is between its increments (`ParityInv`).

Stating these for every instance corrected the statements. TLC had found no counterexample
in its bounds, the proof found one and larger bounds then showed it: `NoHole` (see
`overtaken`), `KeepsListening` (the stack refuses a transfer when the bus resumes after
`m61_usb_gamepad_init` left the suspended mark set), `SetsInOrder`, `RequestsKept` and
`MergedOrReplaced`, whose statements counted on a bound of the run, `CalmBeforeDrop`, which
spoke of two frequencies only, and `FallsInTime`: an end that passes between look and wait while a
drop to another frequency is pending costs a second delay, and at tick zero it is not
only an end seen last that is missed (a boost and a stream may end there together, or a lease
ending there be renewed while the worker sleeps).

Model-checked only: all liveness properties (the prover has no rules for fairness here).

## Not modelled

- Pure functions without state: the input parser, the dead zone, the byte layout of settings,
  telemetry and output reports. Their laws are about bytes; the repository's host tests
  (`src/tools/test_m61_web_config.c`, `test_m61_stick_deadzone.c`, `test_dualsense_protocol.py`)
  cover them.
- `m61_realtime_scheduler.c`: nothing in the firmware calls it.
- Power-off of the controller, keep-alive timing, encoder reconfiguration, service discovery,
  security and bring-up of a link: they change no state of the modelled parts, or only when
  (arbitrary delays stand for them).
- The flasher, profiling, benchmarks, shell wording, LEDs, build scripts and host tools: no other
  component depends on what they do.

In the modelled parts, sample data, report bytes, CRCs and log output are abstracted.
