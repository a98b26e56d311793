# Formal models of the CANbus outpost

TLA+ specifications of the firmware of an LCC/OpenLCB node for model railways
(RP2350, FreeRTOS): four turnout servos with frog outputs, signal heads, fascia
inputs and a RailCom detector on a CAN bus. The models cover the parts whose
correctness depends on the order of things: messages that interleave on the bus,
timers that race with answers, power that fails in the middle of a flash write,
calls that are still queued when the state they were made for is gone.

Paths below are relative to the repository: `lib/lcc/...` stands for
`src/lib/lcc/...`, and `app/...`, `servo.c` and the other C files for
`src/src/...`.

## 1. The system

### Who runs what

One FreeRTOS task, the **LCC task** (`lcc_task.c`), owns the protocol stack and
the application: it takes messages from one bounded queue, either a CAN frame
(`lcc_frame_received`) or a function call, and runs the stack's timers after each
one. Everything else reaches it through that queue: the CAN interrupt posts
frames; FreeRTOS timers, the input interrupt, the RailCom task and the USB task
post calls (`lcc_task_call`). A full queue drops what is posted, and the poster
can only look at the result. So within the task nothing is interleaved, but
*between* posting and running anything may have changed. That, the bus and the
power supply are where the hard behaviour comes from.

### Components

| Component | Source | State | Operations | Hard behaviour |
|---|---|---|---|---|
| Datagram transport | `lib/lcc/src/datagram.c` | one reassembly slot `rx`, send queue `tx` (in flight / waiting to resend / tries) | send, frame, answer, timers, alias lost | interleaved senders, late or lost answers, queue limit |
| Alias allocation | `lib/lcc/src/node.c` | state, alias and its generator, conflict flag | start, frame, 200 ms timer, collision, release | simultaneous claims, lost frames, duplicate node IDs |
| Basic protocols | `node.c` (SNIP, PIP, rejections) | none | answer one request | none |
| Event exchange | `lib/lcc/src/events.c` | registered events, local queue, identify position | send, consume, identify in batches | self-consumed events, queue limit, batches against changes |
| Memory configuration | `lib/lcc/src/memconfig.c` | lock, frozen flag, result of the last Unfreeze, pending reboot | read, write, options, lock, freeze, unfreeze, reboot, factory reset | replies that cannot be queued, repeated requests |
| Firmware upgrade | `firmware_update.c`, `fw_image.c` | received/flushed counters, sector buffer, last write, trial and its timers | freeze, write, unfreeze, reboot, trial and confirmation | resends, flash failure, power loss, dropped calls |
| Storage | `nv_storage.c` | two flash sectors per region | `nv_load`, `nv_save` | power loss, worn sectors, wrap-around |
| Turnouts, servos | `app/turnouts.c`, `servo.c` | per servo: position, target, step, hold ticks, frog; commanded state; motion timer | throw, close, center, fascia input, tick, configuration written | stale ticks, overtaking commands, feedback without an alias |
| Configuration, node ID | `app/app.c`, `app/config.c`, `node_id.c` | configuration in RAM, pending save and its timer | write, flush, factory reset, new node ID | power loss between two regions, dropped save |
| Inputs | `app/inputs.c` | level per input, debounce timer, interrupt enable | edge, debounce, settled | dropped level, re-arming order |
| Signals, identify light | `app/signals.c`, `app/identify.c`, `ws2811.c` | aspect per head, flash phase and timer; light, its timeout | aspect event, flash tick, identify, timeout | ticks and timeouts that are already queued |
| RailCom | `railcom.c`, `app/railcom_app.c` | per track: candidate, confirmations, last seen; last report | cutout, samples, vacancy, report | timeouts against missing cutouts, dropped reports |
| LCC task | `lcc_task.c` | the queue | post frame, call, reboot | the queue at its limit |
| USB GridConnect, console | `usb_gridconnect.c`, `lib/lcc/src/gridconnect.c` | line buffer, pending node ID | parse, format | a pending node ID shared by two tasks |
| CAN driver | `can_bus.c`, `can2040.c` (vendored) | transmit queue | send, receive | back-pressure |
| Configuration description | `app/cdi_data.c`, `app/config_layout.h` | static | none | none |

What makes each component correct is stated as the properties in section 4; section 6
says what is left out. `PROJECT.json` lists every hazard at its line with the
properties that watch over it.

### How they interact

A message goes CAN interrupt → queue → `node.c`, which passes it on to
`events.c`, `datagram.c` and through that to `memconfig.c`. `memconfig.c` calls
the hooks of `firmware_update.c` and of `app.c` (configuration written, flush,
factory reset, reboot). `events.c` runs the consumers of `turnouts.c` and
`signals.c`, which send events of their own. A collision in `node.c` resets
`datagram.c` and stops all sending; a new alias announces every event again.
`app.c` stores the configuration, and `node_id.c` the node ID, each in a region
of `nv_storage.c`.

## 2. The modules

| Module | Models | Kind |
|---|---|---|
| `Courier` | what the datagram transport promises | abstract specification |
| `Datagram` | `datagram.c` on several nodes and a lossy bus | implements `Courier` |
| `AtomicRecord` | what `nv_storage.h` promises of a region | abstract specification |
| `NvStorage` | `nv_storage.c` | implements `AtomicRecord` |
| `NvStorageProofs` | the refinement, for every width of the sequence number | proofs |
| `Alias` | `node.c`'s alias state machine on several nodes | |
| `AliasProofs` | aliases are unique while no frame is lost | proofs |
| `FirmwareUpdate` | the upgrade, through `memconfig.c`, `firmware_update.c` and `fw_image.c`, with the client and the boot ROM | composition |
| `FirmwareProofs` | the node can always boot; a client's image is stored, accepted and started as it is told | proofs |
| `Servo` | `servo.c`, as operators on one servo's state | |
| `Turnouts` | `app/turnouts.c` over `Servo` | composition |
| `TurnoutsProofs` | timer, feedback, disabling and frogs, for any number of servos | proofs |
| `MemoryConfig` | `memconfig.c`'s spaces, queries and lock, with tools on the bus, over `Datagram` | composition |
| `TransportProofs` | of `Datagram`: the send queue is driven, datagrams arrive whole, each is answered, and the refinement; of `MemoryConfig`: it uses `Datagram` as it is, and the node's requests, replies and lock are right for any tools | proofs |
| `EventExchange` | `events.c`, as operators on the node's state | |
| `SignalHeads` | `app/signals.c`, as operators on the node's state | |
| `Layout` | `app/inputs.c`, switches, heads and events in the LCC task, with a host | composition of both |
| `LayoutProofs` | heads in step, inputs taken, Identify answered, the host right about the heads, for any inputs, switches, heads and events | proofs |
| `RailCom` | `railcom.c`'s detector | |
| `RailComReports` | `app/railcom_app.c` over `RailCom`, with locomotives and a bus | composition |
| `RailComProofs` | a block is vacant only after silence, it names the locomotive it heard, and the bus knows what is there, for any blocks, locomotives and timeouts | proofs |
| `Settings` | `app/app.c`, `app/config.c`, `node_id.c`, the `nodeid` command, `app/identify.c` | composition |
| `SettingsProofs` | the event IDs follow the node ID, and a reboot keeps the settings | proofs |
| `MCDatagram`, `MCAlias`, `MCFirmware`, `MCTurnouts`, `MCSettings`, `MCMemoryConfig`, `MCLayout`, `MCRailCom` | the instances for TLC | |

Operators that are named "A bug to catch" in their comment are not part of the
model: each is a plausible wrong version of the definition that follows it, kept
to show that the properties notice the difference.

### Datagram

Every node runs the same code. `tx[n]` and `rx[n]` are the two static structs
of `datagram.c`; `wire[n]` is what `n` has sent and the receiver has not handled.
A frame's content is `<<num, part>>`: which datagram of its sender, and which
frame of it; lengths are counted in frames. `LccDatagramSend`, `LccDatagramFrame`,
`LccDatagramMessage`, `LccDatagramAliasLost` and the three parts of
`LccDatagramRunTimers` are the functions of those names; what a handler decides
is one of three verdicts. A deadline is "may fire while armed". `Punctual` says
how the deadlines relate to the bus: TRUE means what is still on the way arrives
before the timeout (3 s against milliseconds on the bus), FALSE allows any race.
`log[n]` and `verdict[n]` are history: what handlers got from `n`, and what `n`
was told.

The refinement to `Courier` (at most once, in order, no acknowledgement of what
no handler took) maps the numbers of the handled datagrams and the verdicts.

### Alias

One module, all nodes. `AliasOf[n]` is the sequence of aliases node `n` tries (in
the code a generator seeded with the node ID; other firmware on the bus may use
another). Only the distinctions `node.c` makes are kept of a frame: its kind,
its source alias and the node ID. The four Check ID frames are one: a node
reacts in the same way to each. `wire[n][m]` is per receiver, since a frame may be
lost at one node and not at another.

### NvStorage

A sector is a complete record or garbage; `Erase` and `Program` are separate
steps and each may be cut by `PowerLoss`; a worn sector holds garbage after
programming. The sequence number has width `2 * Half` so that the wrap-around
comes within reach: the code's is 2^32 with the same signed comparison. That the
CRC tells a record from garbage is assumed.

### FirmwareUpdate

A request and its answer are one step; the answer may be lost, and the client
resends, so the module sits on top of the transport without its frames. Images
are sequences of cells, a sector is `Sector` cells. `fw_image_check` looks at the
metadata at both ends of an image and at nothing in between: the model's check
does the same, and the boot ROM, which checks the hash, is what refuses an image
with a damaged middle. Timers of the trial, the one-shot confirmation and the
reboot call go through the queue, which may be full (`faults`).

### Turnouts and Servo

`Servo` has the arithmetic of `servo_set_target` and `servo_tick` on one record;
`Turnouts` the commands, the timer and its queued ticks, the frog outputs, the
alias and what the bus has heard. `app_config_written` changes the configuration
under the servo's feet: a move that is under way goes on with the old values, as
in the code. The servo never reads back where it is, so `current` is where the
code believes it to be. `servo_set_position` and `servo_set_pulse_us` are called
by nobody and are left out. Event IDs are not: a turnout's events are the
actions themselves.

### Settings

`storedConfig` and `storedId` are the two regions; each is replaced as a whole,
which is what `AtomicRecord` promises and `NvStorageProofs` proves, so a save here
succeeds, fails, or never happens. Of the configuration the model keeps one event
ID, as the node ID its default is made of or `Own` if the user chose it, and the
two settings of the identify light: all turnouts, tracks and heads migrate their
events in the same way. The queue holds calls only; frames are handled in between
(`Listening`: not while the alias is released). `app_set_node_id` is two steps,
`NodeIdStore` and `MigrateEvents`, because power may fail, and the console may run,
between them. A call that does not fit the queue, a failed save and a loss of
power count as `faults`. `failed`, `lapsed` and `dropped` are history. `Patient`
says whether whoever changes the node ID waits for the reboot before the next
change or a factory reset: the code does not enforce it. The light's timer takes
minutes, so it does not run out again while its last call is still queued.

### MemoryConfig

It `EXTENDS Datagram`: `Server` is the node, all other nodes are tools. `Arrive(n)` is
`Datagram`'s `Receive(n)` with the verdict fixed by `accept()`; a request that is taken
is processed by `Process` after its OK is on the way (`datagram.c:77-83`), and until then
the node does nothing else, since both are one turn of its task. `Process` is one
`lcc_datagram_send` per query, which copies the reply into the send queue or, when the
queue is full, drops it; nobody looks at the result (`memconfig.c:243`). `unsaid` is the
history of those. `sent[n][k]` says what datagram `k` of `n` contains, in the abstraction
of `Datagram`, where a frame is only `<<num, part>>`. Of a space the model keeps how often
it has been written, of an address whether it is inside; requests fit one frame, read
data may take two. Tools are outside the repository: they ask, take what they are sent,
and release only a lock they hold, although the node lets anybody release it
(`memconfig.c:310-311`).

### EventExchange, SignalHeads and Layout

`EventExchange` and `SignalHeads` are operators that take the node's state, a record, to
the state after a call, because in the code these calls nest: a message runs consumers,
a consumer sends an event, that goes to the bus and into the local queue, and the timers
that run after the message drain it into further consumers (`lcc_task.c:167-179`,
`events.c:141-155`). `Layout` has one action for each thing that can happen to the task:
a message is taken from its queue (`Take`) or a timer of the library is due (`Wake`), and
then everything above happens in one step. Around it are the flash timer and the debounce
timer of FreeRTOS, the interrupt of the input, and the host, each of which posts into the
queue or finds it full. The two steps of `debounce_cb`, to enable the interrupt and to read
the level, are separate, with a change of the level in between.

What the node sends is on the bus at once. What the host sends waits in the node's queue:
that is where events cross. `crossed` is the history of heads whose events crossed,
overtook a batch of Identified messages, or were lost, since the host last asked.
Switches move at once (`throw_time` 0); motion is the subject of `Turnouts`. Two heads
that listen to one event are not in the instance.

### RailCom and RailComReports

`HearCutout` is one cutout: `decode_block` for each block, then `handle_ch1` for the
address halves heard, and, if time has passed, `housekeeping`, as `railcom_task` runs
them. A half carries its byte and its age in ticks; ages stop at the first that counts as
too old. What cannot be decoded (`decode_table`, noise, a collision of two decoders) is a
half that is not heard. `RailComReports` adds the two calls the detector posts to the LCC
task, which may find the queue full (`lost`), the reports they send, configuration writes,
the claim of an alias, and what the node answers when it is asked who is where. Around
them are locomotives that come and go, alone or several after each other in one block, and
a track signal that stops. `ear` and `silence` are what really was on the track, to
compare with what the code concludes.

## 3. Fairness

All fairness is that of a running task and of running timers, never of the
environment:

- `Datagram`: weak fairness of handling a frame and of each timer. Sending,
  losing frames and losing the alias are not fair.
- `Alias`: weak fairness of starting and of handling a frame; strong fairness of
  the 200 ms timer, which a collision stops and starts again, so that it is not
  continuously enabled; the code restarts it on each new alias, so a node is not
  starved by its own retries.
- `FirmwareUpdate`: weak fairness of the timers and of a client that carries on.
- `Settings`: weak fairness of the two timers, of taking each call from the queue and
  of the reboot that is ordered. Writes, commands, requests and losses of power are not
  fair.
- `MemoryConfig`: weak fairness of processing a request, of handling what arrives and of
  the timers, as in `Datagram`. Asking is not fair.
- `RailComReports`: weak fairness of time passing (with or without a cutout) and of taking
  each call from the queue. Cutouts, locomotives and writes are not fair.
- `Layout` states safety only, and no fairness.
- `Turnouts`: weak fairness of the motion timer and of taking ticks from the queue.

## 4. The runs

| Run | Instance | Distinct states | Shows |
|---|---|---|---|
| `datagram` | 2 clients, 1 server, lengths 1 and 3 frames, queue 2, tries 2, 3 datagrams, 2 losses, 1 alias change | 313,522 | `Uncorrupted`, `NoSilence`, `ContentionIsTemporary`, `HeadDriven`, the refinement `CourierSpec`, `QueueDrains` |
| `memory_config` | 2 tools, 1 node, queue 2, tries 2, 3 requests of 9 kinds, timeouts at any moment | 979,257 | `OwnAnswers`, `QueriesAnswered`, `LockExclusive`, `RepliesLeave` |
| `layout` | 1 input, 2 switches, 2 heads, task queue 2, local queue 1, batches of 5; 2 events, 1 request, 1 write, 2 changes | 941,764 | `HostKnows`, `HeadsInStep`, `InputAgrees`, `AllAnswered` |
| `railcom` | 1 block, 2 locomotives, queue 1; 2 visits, 1 unheard half, 1 write | 785,360 | `ReportsAgree`, `NoGhost`, `SilentBeforeVacant`, `VacancyReported` |
| `alias` | 2 nodes with one node ID and overlapping alias sequences, 1 lost frame, 1 restart | 22,983 | `UniqueAlias`, `SharingEnds`, `EventuallyPermitted`, `DuplicatesReported` |
| `nv_storage` | 3 records, 4 sequence numbers | 972 | `Consecutive`, the refinement `RegionSpec` |
| `firmware` | 2 partitions of 4 cells, sectors of 2, 4 images, 3 faults, 3 transfers | 94,159 | `Bootable`, `AckedIsStored`, `OnlyBadImagesRejected`, `NoFalseSuccess`, `TrialEnds`, `TransferEnds` |
| `firmware_takeover` | a client takes over a transfer | counterexample | `StartsOver` is violated, see section 6 |
| `turnouts` | 2 servos, 2 commands, 2 configuration writes, 1 lost alias, 2 queued ticks | 199,496 | `BusyIsTicked`, `BusIsRight`, `DisabledIsOff`, `FrogFollows`, `MotionEnds` |
| `turnouts_frog` | the same without writes and lost aliases | counterexample | `FrogToggles` is violated, see section 6 |
| `settings` | 2 node IDs, 2 writes or resets or reboots, 2 renames, 1 fault | 310,850 | `EventsFollow`, `SettingsSurvive`, `WritesSaved`, `LightEnds` |
| `settings_renamed` | the same, impatient, without writes and faults | counterexample | `EventsFollow` is violated, see section 6 |

Why the bounds are enough for what is asked:

- *Datagrams.* Two senders are what it takes to fight for one slot, three frames
  give a datagram a first, a middle and a final one, and one sender can have a
  second datagram behind the first: what a wrong answer, a wrong timer or a
  wrong pop would disturb is the next one in the queue. With two tries both sides
  of the retry limit occur. The bound of two lost frames matters to `CourierSpec`: with
  four it is violated, see section 6. What the other properties say is proved for every
  number of losses.
- *Aliases.* The nodes want `1, 2` and `1, 3, 2` in turn: they collide on the
  first alias, and may meet again on the second of the one and the third of the
  other. A loss of one frame is what lets both claim it.
- *Storage.* Four sequence numbers wrap around after three saves; the theorems
  cover every width.
- *Firmware.* Writes of one and two cells into sectors of two end before, on and
  across a sector's end; images of 3 leave a partly filled last sector, the one
  of 2 fills it, the one of 5 does not fit. Three faults allow one to strike
  again after it was absorbed once.
- *Settings.* Two renames let one follow the other, also back to the first ID; two
  writes let one come after the save of the other, or after the light went out. One
  fault hits any save, call or moment; two faults with one rename were checked too
  (134,679 states).
- *Memory configuration.* Three requests are what it takes to fill a send queue of two,
  the limit of the code, and to take, release and take the lock again. One tool reads,
  locks and unlocks; the other writes, locks, and asks what is refused, fails, or only
  needs an answer. With timeouts at any moment a reply may be given up while it is on the
  way, and the answer to it be taken for the next one's: this replaces a run of `Datagram`
  alone with late answers.
- *Layout.* The second switch listens to the feedback of the first, so one command makes
  the node send an event that makes it send another, with a local queue of one and a task
  queue of two: both overflow. Batches of 5 cut the 12 entries that have an event into three. Two changes of the
  input make a press and a release, also within one debounce period.
- *RailCom.* The address of the second locomotive has the high half of a long address, and
  with the low half of the first it makes a third one. A half counts for 1 tick, the signal
  for 2, an address for 3: in the same order as the code's 250 ms, 500 ms and 1 s. Two
  visits and one unheard half let one locomotive take the place of another before the
  block is given up. One block is enough for what the properties say: they relate no two
  blocks, which share only the cutouts and the queue.
- *Turnouts.* The way of 5 in steps of 2, 2 and 1 with the midpoint at 3 hits it
  in one direction and jumps over it in the other. Two commands and two stale
  ticks let a command come in the middle of a move, of a hold, and after a stale
  tick has seen everything at rest. Two writes let a servo take the frog output of
  another and leave it again.

`CHECK_DEADLOCK FALSE` is set where the model stops once its bounds are used up
and nothing is left to do. `Alias` and `NvStorage` are checked for deadlock.

## 5. What is proved

For every value of the constants that satisfies the named assumptions
(`ConstantsAssumption`, `AliasAssumption`, `StorageAssumption`, `ServoAssumption`,
`TurnoutsAssumption`, `FirmwareAssumption`, `SettingsAssumption`, `RailComAssumption`,
`ReportsAssumption`, `MemoryConfigAssumption`, `EventAssumption`, `HeadAssumption`,
`LayoutAssumption`), by TLAPS:

| Theorem | States | Argument |
|---|---|---|
| `SenderNeverStalls` | `Spec => []HeadDriven` of `Datagram` | `TxInv`: types of the senders, `HeadDriven`, and the queue within its limit. `HeadDriven` alone is not inductive: an answer is judged by `tries`, and a pop looks at the rest of the queue, so both must be typed. Each operation on a sender (`Idle`, `TransmitHead`, `PopHead`, `Postpone`, `Enqueue`) has a lemma that it keeps one sender good; one step per action then follows. |
| `DatagramTyped`, `DatagramsArriveWhole`, `RejectionsAreTemporary`, `EveryDatagramIsAnswered` | `[]TypeOK`, `[]Uncorrupted`, `[]ContentionIsTemporary`, `[]NoSilence` of `Datagram` | `DeliveryInv` adds to `TxInv` what ties the wires to the slot: an unfinished datagram is followed on its wire by its next frame (`Chained`); whoever owns a slot and lost nothing has that slot's next frame at the front of its wire (`SlotsFilled`), so nobody else's frame can be taken for it and none of its own is refused as out of order; a datagram in flight has its last frame or its answer on a wire (`NothingForgotten`); and every answer a sender may act on is temporary or a verdict (`AnswersFair`). None of the three properties is inductive: each says what a frame will meet, not what is in the slot now. With late answers (`Punctual` false) all of it holds too. |
| `TransportImplementsCourier` | `Spec => CourierSpec` of `Datagram`, as ASSUME/PROVE of `Punctual` and `Gapless` | `OrderInv` adds `Ordered`: each sender has at most one decisive frame (last frame or answer) on all wires together, its datagrams are numbered as they were queued, handlers took only what was sent and in order, and a frame or answer on a wire belongs to the datagram its sender waits for unless the alias has changed. Then an acknowledgement is for a datagram a handler took, and a handler takes a number that is newer than all before it. `Punctual` is what keeps a late answer from counting for the next datagram (`datagram.c:215`), `Gapless` what keeps a datagram from being handled twice; section 6 says when the code loses them. |
| `MemoryConfigUsesDatagram`, `LockIsExclusive`, `AnswersBelong` | `MemoryConfigSpec => Spec`, `[]LockExclusive`, `[]OwnAnswers` of `MemoryConfig`, punctual or not | `LockInv`: a tool's requests are single frames, which the node never turns away for a while only, so they are never sent again and it takes them in order (`Line`); the request being processed is the last one taken from its tool (`Latest`), and no reply is to it yet (`Replies`); a tool whose release is on the way, or being processed, has the lock (`Releases`); and one that was told that it has the lock, and has asked nothing else since, has it (`Grants`). `LockExclusive` speaks of what the tools know: it needs that no release overtakes, or follows, the answer it is based on. `DeliveryInv` comes with it, since every step is one of `Datagram`. |
| `QueriesGetReplies` | `[]QueriesAnswered` of `MemoryConfig`, punctual or not | `QueryInv` follows each reply. The queue holds the undecided ones, in order (`Waiting`); as long as no reply to a tool was given up, at most one last frame of a reply to it, or one answer of it, is on a wire, it is about the reply in flight, and an OK is for a reply the tool has taken (`Due`); so what is acknowledged was taken (`Acknowledged`); and each query that was taken is being processed, has a reply, or found the queue full (`Replied`). `QueriesAnswered` itself speaks of a bus at rest only. `Due` breaks once a reply was given up, when a late answer counts for the next one, which is why the property makes that exception. |
| `AliasesAreUnique` | `[]UniqueAlias` of `Alias` | `AliasInv` adds `Warned`: while nothing was lost, a node that checks the alias another node uses has its question still on the way there, or the answer on the way back, or has noticed. That two nodes do not share says nothing of the one about to finish its wait. |
| `StorageTyped`, `SectorsConsecutive` | `[]TypeOK`, `[]Consecutive` of `NvStorage` | `Inv` adds `JobOK`: while a save is under way, the slot it writes is the spare one and its number follows the newest. |
| `StorageImplementsRecord` | `Spec => RegionSpec` | `Erase` keeps the record (it hits the spare slot), `Program` makes the new one the newest (`SuccNewer`, across the wrap-around), everything else maps to a step of `AtomicRecord` or a stutter. |
| `TimerRunsWhileBusy`, `DisabledServosAreOff`, `FeedbackIsRight` | `[]BusyIsTicked`, `[]DisabledIsOff`, `[]BusIsRight` of `Turnouts` | `Inv` of `TurnoutsProofs`: the flags of every servo are Booleans, a known servo at rest is at its target, and what the bus heard of it is right. A tick ends a move exactly when it reports it (`TickEnds`), so the feedback cannot be missed; a move starts the timer whatever stale tick is queued. |
| `TurnoutsTyped` | `[]TypeOK` of `Turnouts` | Inductive with what is sound in one servo: never moving and holding at once, a signal while it does either, time left while it holds. One lemma each for setting a target, disabling and ticking. The outputs for frogs are Booleans because the last of several servos that set one exists (`Last`, from the well-foundedness of the natural numbers). |
| `FrogsFollow` | `[]FrogFollows` of `Turnouts` | `FrogInv`: no other servo is configured for the output of an undisturbed one, nor has it in its state from an earlier configuration (`NobodyElse`); and such a servo has its own output and midpoint in its state, and the output on its side, or was never commanded and has the output off (`OwnFrog`). A tick changes the side and the output together, or neither. `FrogAlone` says what the outputs become when only one servo switches one. |
| `ClocksInvariant`, `VacantAfterSilence` | `[]Clocks`, `SilentBeforeVacant` of `RailComReports` | `Clocks`: the types of the clocks; the signal is seen only while cutouts are recent; and while it is, the age of what was heard on a block is no more than the silence counted on its track. So when the age passes the timeout the silence has. The action property follows for each step from the invariant before it. |
| `NamesWhatItHeard` | `NoGhost` of `RailComReports` | `EarsRight` ties each block to what was last heard from its track: the half heard last, as long as it counts, is that locomotive's; and if it followed the other half of the same address, so are the other one and the candidate. A half that could still be paired was given up only together with the candidate, so an old half of somebody else cannot be confirmed in its place. The action property then follows for the one step that names a locomotive. |
| `BusAgrees` | `[]ReportsAgree` of `RailComReports` | `Reports`: the entry report kept for a locomotive that is there is the one that would go out now (`EntryKnown`), and unless an event was due without an alias the bus was told that one and, last, the exit of every other (`ToldRight`). `ReportsAgree` alone says nothing of the report that a later exit or change of direction takes back. The set of events to send is put in order by rank, and each has a rank (by minimal counterexample). |
| `ChipsStayInStep` | `[]HeadsInStep` of `Layout` | `InStep`, part of `LayoutInv`: the flash timer runs exactly while some head flashes, and every pixel is what aspect, configuration and phase make of it. It survives commands, configuration writes, and ticks that come after the timer was stopped. |
| `InputIsTaken` | `[]InputAgrees` of `Layout` | `LevelPosted`: the last level posted, in the queue or already taken, is that of the input once nothing is left to debounce. `InputAgrees` alone speaks of an empty queue only. |
| `IdentifyAnswersAll` | `[]AllAnswered` of `Layout` | `AnswerInv`: all that the walk has passed since the request has been answered for, and a walk that is over has passed the whole registry. A turn of the task sends events, wakes consumers, drains the local queue and sends a batch; `Moved` is what each of these keeps, and is transitive. The walks over consumers and queue are recursive functions, whose existence and steps are proved (`Steps`, `Turns`). |
| `HostIsRight` | `DistinctEvents /\ Spec => []HostKnows` of `Layout` | `HostInv`: for each head none of whose events crossed another, the host holds nothing, or the aspect that the last event still waiting for the head will set (`Comes`: in the task's queue, else in the local queue, else what it shows), or one that the Identify in progress has yet to answer for (`Unasked`); and while the local queue holds something, no report about such a head waits behind it. `HostKnows` alone speaks of empty queues only. A turn keeps it part by part: `Informed` is what the host holds once it has heard what the turn has sent so far, `Follows` says that a part of the turn keeps that, `Handled` and `Answers` say what a message and a batch of answers make of it; what the host hears (`Hears`) is a recursive function, followed message by message. `DistinctEvents` is explained below. |
| `NodeAlwaysBoots` | `Spec => []Bootable` of `FirmwareUpdate` | `BootInv`: the running image is intact; on trial, another partition has a confirmed and intact one, otherwise the running one is confirmed; and while a transfer or a reboot into a new image is under way, the node is not on trial and writes to another partition than the one it runs from. `Bootable` alone says nothing of what a transfer may overwrite. One lemma for each step that writes flash or starts an image, one (`IdleStep`) for all others. |
| `AcknowledgedCellsAreHeld`, `SuccessIsReal` | `[]AckedIsStored`, `NoFalseSuccess` of `FirmwareUpdate`, as ASSUME/PROVE of `~Abrupt`: nobody takes over a transfer | `TransferInv` says how far client and node can be apart: what the node counted is what it flushed and what it holds, and its last accepted write ends there (`Counted`); a client that writes is where the node is, but for one write whose answer it did not get (`WriterInStep`); one that ends its upgrade sent the whole image, and if the node has ended it already, it reboots or the result was not OK (`EnderInStep`). `StoredInv` adds what is in the cells: the client's image, in place. `AckedIsStored` alone cannot tell a resend from a new write, and says nothing of what the flush at the end leaves in the partition. |
| `GoodImagesAreAccepted` | `OnlyBadImagesRejected` of `FirmwareUpdate`, with or without takeovers | `TransferInv` alone: it is about positions, which a takeover keeps, and not about contents, which it does not. |
| `FirstWriteStartsOver` | `StartsOver` of `FirmwareUpdate`, as ASSUME/PROVE of `~Abrupt` | From `TransferInv` and `StoredInv`: when a client's first write is taken for a resend, what it resends is its own. With takeovers the run `firmware_takeover` shows the opposite. |
| `SettingsTyped` | `Spec => []TypeOK` of `Settings` | inductive as it stands |
| `EventsFollowNodeId` | `Patient => (Spec => []EventsFollow)` of `Settings`, as ASSUME/PROVE | `SettingsInv`: at most one call to set the node ID waits, and only on a node that runs under its stored ID (`OneSetId`, from lemmas on `Append` and `Tail`); the events in RAM and in the region are those of the ID the node will start with, or still those of the running one while a change is under way (`EventsAtHome`). `EventsFollow` itself speaks only of nodes between two changes. |
| `RebootKeepsSettings` | `Spec => SettingsSurvive` of `Settings`, patient or not | `RebootInv`: with nothing pending the node runs with what it would start with (`InStep`); while nothing was ever saved, it runs under the stored ID, of which the defaults are made (`NothingSaved`); and a queued change has its ID (`IdKnown`). The action property then follows for the one step it is about. |

`HostIsRight` has a hypothesis, `DistinctEvents`: no event stands for two aspects, of one
head or of two, in any configuration the host can write. The host knows heads by their
events only; where two aspects share one it cannot tell which of them a message is about,
and TLC then finds `HostKnows` violated. The code does not forbid such a configuration.
`MCLayout` assumes `DistinctEvents` by name, so that TLC evaluates it for the instance of the
run `layout`.

Only model-checked: liveness, which is out of the prover's reach (`QueueDrains`,
`RepliesLeave`, `SharingEnds`, `EventuallyPermitted`, `DuplicatesReported`, `WritesSaved`,
`LightEnds`, `TrialEnds`, `TransferEnds`, `MotionEnds`, `VacancyReported`). Every safety
property of a passing run is stated by a theorem; those that the runs with a violation refute
hold under the hypotheses given in the table, or not at all (`FrogToggles`).

## 6. Findings and limits

Where the code does not do what the repository says:

- **A transfer that is taken over keeps the first block of the other image**
  (`firmware_takeover`). `memconfig.h:56-58`: "a write at address 0 starts over".
  `firmware_update.c:119` takes a write with the address and length of the last
  accepted one for a resend, at address 0 too. If a client vanishes after exactly
  one write, the next one's Freeze does not reset anything (`memconfig.c:115`: the
  node is frozen already), and its first write is acknowledged and dropped. The
  image that results mixes the two; the hash check of the boot ROM stops it.
- **The frog can keep the wrong polarity after centering** (`turnouts_frog`).
  `servo.h:18-19`: the frog output is toggled at the midpoint. A centered servo
  stands on the midpoint with the frog where it was; a timed move from there to
  the high side never crosses the midpoint, and does not set the output.
- **A second node ID before the reboot leaves the events with the first**
  (`settings_renamed`). `turnouts.h:21-22`: "Default event IDs are derived from the
  node ID; move any still at their default from old_id's range to new_id's".
  `app.c:146-148` takes the ID of the *running* node for the old one. Until the
  reboot, 100 ms and a queue later, that is no longer the one the events are made
  of: the second change moves none of them, and no later one does. A factory reset
  in between makes the defaults from the old ID too (`app.c:110`).

Behaviour worth knowing, which contradicts nothing the repository says:

- An answer is matched to the head of the queue by its source alias only. One
  that arrives after the acknowledgement timeout acknowledges the next datagram
  to the same node. `CourierSpec` is therefore checked and proved with punctual answers;
  `memory_config` has them late: there a query goes without an answer only if the reply
  found the queue full, or if it or an earlier reply to the same tool was given up.
- Even with punctual answers a datagram of three frames or more can be handled twice when
  frames are lost. A slot that a lost final frame left open goes on with the frames of a later
  datagram whose first one is lost too; a middle frame that does not fit any more is answered
  with a rejection (`datagram.c:137-141`), and the final frame behind it is answered again. The
  second answer counts for whatever the sender has in flight by then: a datagram that a handler
  has taken is rejected, and sent again. One client with four losses and five datagrams is enough;
  with three losses, or with datagrams of one and two frames, TLC finds none. This is
  why `TransportImplementsCourier` assumes `Gapless`: no losses, or no frame between the first
  and the final one.
- Two nodes with the same sequence of aliases (the same node ID, the same firmware)
  that run in lockstep can collide on every alias. `EventuallyPermitted` is
  checked with different sequences. In practice the timing of the two differs.
- After a power loss in the middle of a transfer, Unfreeze is answered OK: the
  result it repeats is zero at start. `test_lcc.c:949-951` wants Unfreeze without
  an upgrade to be harmless. `NoFalseSuccess` speaks of a client talking to the node
  it started its upgrade on.
- The power may fail between storing a new node ID and saving the events migrated to
  it (`app.c:142-149`): the board then has the new ID and the events of the old one.
  `EventsFollow` leaves out this moment (`lapsed`), and failed saves.
- A servo that was never commanded counts as being at 0 (`servo.c:12`), with its frog output
  off (`servo.c:40`). With both ends of its travel at 0 or 1 the midpoint is 0, so it seems to be on the high
  side already, and its first timed move crosses nothing (`servo.c:194`). `FrogFollows` leaves such
  positions out.
- A servo that is configured for the frog output of another, moves, and is configured back,
  leaves that output as it set it until the other one moves. `FrogFollows` leaves out servos that share an output, or
  have shared it (`disturbed`): two configuration writes are what shows this.
- The end of the identify light is posted once (`identify.c:52`), unlike the save
  (`app.c:41-42`), which is tried again: when the queue is full the light stays on.
  `LightEnds` leaves this out (`dropped`).
- A trial that expires with a full queue reboots without saving what is pending
  (`lcc_task.c:139-140`). `Settings` has this case for a change of the node ID only.
- `railcom_app.c:78-79` says of the entry report that `entry_sent` is what was sent.
  `data_in_lcc_task` sets it also when nothing is: while the node has no alias
  (`events.c:220`) or its reporter ID is 0. A locomotive that is detected before the alias
  is claimed is therefore not announced until it leaves; `ReportsAgree` leaves out tracks
  that had an event due without an alias (`missed`). Asked, the node answers rightly.
- A single half of an address is paired with the last other half heard, of another locomotive
  perhaps, and the mixture is confirmed if it comes twice, whatever was heard in between: an
  unconfirmed address does not age. `NoGhost` speaks of a block only once both halves of one
  address were heard on it in a row (`paired`).
- A level of an input that finds the task's queue full is dropped, and so is a change
  between `inputs_init` and `inputs_start`: the input is wrong until its next change.
  `InputAgrees` leaves both out (`unseen`).
- An event of the host that waits in the node's queue while the node sends the opposite
  one arrives after it at the node and before it at the host: the two disagree until the
  host asks again. `HostKnows` leaves such heads out (`crossed`).
- A query that is acknowledged with "reply pending" while the send queue is full is never
  answered (`memconfig.c:243`); the tool has to time out. `QueriesAnswered` names this case.

Abstractions that could hide something: the content of messages (lengths,
addresses, byte order), real time (a timeout is "may fire", periods are not
compared), the CRC and hash functions, widths of counters other than the sequence
number, a saved configuration of another version or length, a node ID read in the
middle of being written, and the hardware below the SDK.

### Not modelled

- Basic protocols (SNIP, protocol support, rejections of unknown messages): stateless.
- The reporter's event ranges (`events.c:57-72`, `165-178`) and the listing of all
  locomotives on a track: answers that are formatted from state which is modelled.
- Center events and moving servos in `Layout`; `can_bus_send` that fails; two heads on one
  event.
- The `lights` command of the console, which writes the pixel buffer from the USB task
  while the LCC task may be showing a head (`usb_gridconnect.c:99`): a test command, and the
  next aspect or tick sets the pixels again.
- The UART and symbol level of RailCom, the CAN driver, the pixel output: hardware.
- A saved configuration of another version or length; the CDI: static data.

## 7. Plan

Done, in this order: the datagram transport, alias allocation, storage, firmware upgrade,
turnouts and servos, settings and the identify light; then RailCom, the event exchange with
inputs and signal heads, and memory configuration over the transport.

What is left:

1. Liveness of `Layout`: an Identify is answered to its end while events keep coming.
2. Collisions in `MemoryConfig`: replies that are queued when the alias is lost.
