# Specifications of the k2-plus custom firmware

TLA+ specifications of the printer-side Python code of this repository: the
Klipper extras that drive the filament boxes (CFS), the RS-485 bus, filament changes, the motors and
the services around them, power-loss recovery, and the installer with the
utility that switches firmwares.  Module and definition names follow the
source.  Line numbers are those of this commit; `PROJECT.json` maps every
definition to its lines.

Contents: [inventory](#inventory), [modules](#modules), the parts
([transport](#the-rs-485-transport), [addresses](#box-addresses),
[filament changes](#filament-changes), [power loss](#power-loss-recovery),
[motors](#closed-loop-motors), [tags](#tags-and-spools),
[slot switching](#installation-and-slot-switching),
[print services](#print-services)), [proofs](#proofs),
[deviations](#known-deviations), [what is left out](#not-modelled).

## Inventory

Everything in `extras/` runs in one Klipper process.  Its reactor runs
greenlets: code is atomic between two waits, and G-code commands are serialised
by the G-code mutex.  The serial transport, the power-loss store and the
Spoolman requests have threads.  `bootstrap`, `swap` and `install.py` run before or instead of
Klipper.

| Component | State it keeps | Operations | Interacts with | What is hard |
|---|---|---|---|---|
| RS-485 transport (`serial_485.py`) | port, reader and worker threads, request queue, session owner, received frames | connect, disconnect, shutdown, send, session begin/end, ready announcement | every bus client: box drivers, address client | three threads, one queue; late, lost or dropped answers; shutdown while a request is in flight |
| Address enumeration (`box_addr.py`) | table of known and online identities | enumerate: query, start application, discover, assign, verify | transport, box controller's store | lost answers, boxes switched off, two enumerations at once |
| Protocol and drivers (`box_protocol.py`) | per-box load stage, last status | frame codec, state reads, load/unload stages within a session | transport | partial failures between stages |
| Box controller (`box.py`) | live topology, tracking owner, fault generation and episodes, runout and clog detection, persistent store | poll, read live state, physical load/unload/retract/cut, latch faults, runout recovery | drivers, change engine, pause_resume | the poll runs between the waits of a command; faults arrive late |
| Change engine (`box_change.py`) | pending request with checkpoints, resume recovery, prepared epoch | change, unload, runout, prepare_resume, resume_check, capture_pause | controller, pause_resume, gcode_move, user | any step may fail; retries and replacements; pauses requested in the middle |
| Routing and metadata (`box_routing.py`, `box_gcode.py`, `box_catalog.py`) | tool-to-slot tables, flush matrix | lookup, remap | change engine | mostly data |
| Dryer and PTC limiter (`box_dryer.py`, `ptc_power_limiter.py`) | drying jobs, heater power grants | start, stop, poll | drivers | jobs and faults of several boxes |
| Power-loss recovery (`power_loss_recovery.py`) | two journal slots, an emergency record, context files, the tracker's candidates | capture, mature, checkpoint, recover, discard | print, change engine, motors, supply | crash between two writes; discard against a write under way |
| Motor control (`motor_control.py`) | startup sequence, stall events, deferred cleanup, nozzle transport | startup, retry, poll, verify a stall, clear, home, gate RESUME | transport, nozzle MCU, homing, power loss | greenlets suspended in exchanges while others handle the same fault |
| Probing (`prtouch.py`, `z_align.py`, `belt_mdl.py`, `extended_zone_transform.py`) | samples, fits | probe, align | toolhead | numerical |
| Thermal and fans (`heat_soak.py`, `fan_feedback.py`, `temperature_fan_manual_floor.py`, `chamber_heater_circulation_fan.py`) | timers, modes | tick, set, cancel | heaters, fans | timers against commands |
| LEDs (`led_idle_manager.py`) | idle state, timer | activity, timeout | printer state | timers against commands |
| Homing stop and limits (`force_stop_homing.py`, `motion_limits.py`) | wrapped methods | stop, clamp | toolhead | small |
| Boot and installation (`bootstrap`, `swap`, `install.py`) | two partition pairs, two copies of the U-Boot environment, archived entries of each firmware | install, switch | U-Boot, the stock firmware | crash between two writes; processes that write meanwhile |
| Build and release (`scripts`, `tests`, `.github`, `docs`) | none at run time | | | |

What makes them correct, in one line each:

- transport: no request is lost or doubled, a session is exclusive, an answer
  belongs to its question, everything returns;
- enumeration: no address conflict, no box saved twice, what is reported online
  is online, offline boxes keep their saved address;
- controller: one owner tracks the path, a runout is that of the filament that is
  tracked, a fault of the loaded box stops the print whatever was seen before, a
  tag is that of the spool in the slot;
- engine: a change that ends has its filament where it belongs, one that fails
  blocks the resume with its target, the print goes on where it was left;
- power loss: what is offered is this print, never ahead of the machine, never
  something discarded, and never less than was acknowledged;
- motors: ready means a whole startup, a kinematic error stops the printer, a stall
  that stops it was reported to power-loss recovery first;
- slot switching: whatever is cut short, a whole firmware starts, nothing a user
  left is lost, and a firmware runs on its own entries;
- services: a soak is skipped only on demand, a stalled fan stops what it should,
  the light follows the print.

`PROJECT.json` lists the hazards, each at its line, with the properties that
cover it.

## Modules

| Module | Of | Lines of the source | State |
|---|---|---|---|
| `BusService` | what clients of the transport may rely on | | abstract specification |
| `Serial485`, `Serial485Proofs` | transport | `serial_485.py` | done |
| `BoxAddress`, `BoxAddressProofs` | enumeration | `box_addr.py`, `box.py` | done |
| `BoxChange`, `BoxChangeProofs` | change engine and physical operations | `box_change.py`, `box.py` | done |
| `SnapshotStore`, `PowerLoss`, `PowerLossProofs` | durable store, and the tracker over it | `power_loss_recovery.py` | done; replaying a checkpoint left out |
| `MotorControl`, `MotorControlProofs` | startup and faults of the motors | `motor_control.py` | done; frames left out |
| `BoxRfid`, `BoxRfidProofs` | tags, the external reader, Spoolman | `box.py`, `external_rfid_reader.py` | done |
| `SlotSwap`, `SlotSwapProofs` | installer and swap | `install.py`, `swap` | done |
| `PrintState` | the print as the extras see it | Klipper (external) | done |
| `HeatSoak`, `FanFeedback`, `LedIdle` | soak, fans, light | the files of these names | done |
| `BoxTracking` | tracking owner, fault episodes, runout, poll against operation | `box.py`, `box_change.py` | done |
| `PrintServices`, `PrintServicesProofs` | composition of the last five | | done |

`PrintServices` composes modules that share the print.  The transport is not
composed with its clients: they rely on `BusService`, and their modules take an
exchange as one step that succeeds or is lost.  `BoxChange` and `BoxTracking` are
two views of the same operations, the first with the print and the checkpoints,
the second with what two interleaved readers of the boxes make of their replies.

The larger modules state a type invariant.  The runs check those of `Serial485` and
`BoxChange`; these two and those of `MotorControl`, `BoxAddress`, `SlotSwap` and
`PowerLoss` are proved (`TypeCorrect`), and the proofs of the other modules prove the
types they need.

## The RS-485 transport

`Serial485` has one action per step that another thread can interleave with.

| Thread | Actions | Code |
|---|---|---|
| greenlets (`Clients`) | `SubmitData`, `SubmitBegin`, `SubmitEnd`, `LeaveSession`, `Return` | `_submit_request`, `_Serial485Session`, `_await_request_completion` |
| request worker | `WorkerPick`, `WorkerDrain`, `WorkerExit`, `SessionBegin`, `SessionEnd`, `BeginAttempt`, `ConnectFails`, `WriteFrame`, `WriteFails`, `Await...` | `_request_worker_loop`, `_process_request`, `_wait_for_response` |
| reader | `Receive`, `Lose`, `ReaderFails` | `_reader_loop`, `_feed_rx` |
| reactor | `HandleConnect`, `EmitReady`, `HandleDisconnect`, `HandleShutdown`, `JoinDone` | the event handlers |

A frame is its address, its function code and, as a history field, the
transmission it was received during; `bus` holds answers that the devices have
not delivered yet, in any order and at any later time.  A greenlet waits for one
request at a time, so the queue is a sequence of clients.  Greenlets run on the
reactor thread, hence none runs while a shutdown handler joins the worker.

`BusService` is what clients may rely on: each is idle, has asked or is
answered; at most one request is on the bus; one client may own the bus, and
then only its requests are served; a disconnect refuses everything that waits.
`ImplementsService` is the refinement, with `onBus` the active request and
`owner` the session.

| Run | Instance | Shows |
|---|---|---|
| `serial485_sessions` | two clients, two requests each | `RequestAccounted`, `SessionExclusive`, `SessionAgreement`, the refinement `ImplementsService`, and the liveness property `RequestReturns` |
| `serial485_answers` | one client, two devices, two functions, broadcasts, two attempts, a receive queue of one | an answer is not older than the attempt it is taken for (`ReplyFresh`) |

Bounds: two clients are enough for one to hold a session and the other to wait;
two requests each let a client enter and leave a session, or send again after a
failure; a queue of one received frame makes it overflow with the second.
`txSeq` counts transmissions and is bounded by requests times attempts.

Fairness: the worker thread is scheduled; greenlets are resumed by the reactor
and leave their `with` block, so they end their session; `thread.join` has a
timeout of one second; an answer is delivered or lost in finite time.  Nothing
is assumed of the devices, the reader's survival, or the events.

## Box addresses

`BoxAddress` models an enumeration (`pc`, `online`, `known`, `at`, `uid` are the
locals of `enumerate`), the boxes (power, address, loader mode, which firmware
decides: external), the saved table, and the drivers `_enumerate` makes of the
result.  Each exchange with the bus is a step: between two of them exchanges are
lost, boxes are switched off and on, `BOX_ENUMERATE` starts a second enumeration
(it resets `enumeration_started`).  What an earlier session of Klipper left is in
the initial states: any of `SavedStores`, which `SavedOnce` says no session goes
beyond, and boxes in any state of power, address and loader mode whose addresses
do not conflict.

| Run | Instance | Shows |
|---|---|---|
| `boxaddress_addresses` | three boxes, three addresses, two boxes expected; either one enumeration from every saved table with no box twice, with a power cycle and a lost exchange, or two enumerations that may overlap, with a power cycle or with one box saved | `OnlineTrue`, `NoAddressConflict`, `SavedOnce`, `PersistedKept` |

Bounds: three addresses instead of four; two boxes expected, so that a third is
one too many; one lost exchange is enough to hide an occupied address or an
acknowledged assignment.  `Bounds` is a set of combinations of the saved tables,
losses, power cycles and runs, so that the space is a sum instead of a product.
Deadlock is not checked: when nothing is running and the bounds are used up,
nothing is left to do.  `unheard`, `cycled` and `overlap` are history: the
addresses at which an exchange was lost, the boxes switched off during an
enumeration, and that two enumerations ran at once.

## Filament changes

`BoxChange` is the engine of `box_change.py` with the physical operations of
`box.py` it calls.  `op` is the program counter and the locals of the running
command.  `pending` is the `ChangeRequest` with its checkpoints, `recovery` the
`ResumeRecovery`.  `path` is what `read_live_state` returns: the loaded slot,
whether the sensor sees filament, whether the box tracks it.  `print` is what
`pause_resume` and `print_stats` show; `"pausing"` is `pause_command_sent` and
not yet `is_paused`.  `head`, `pausePos` and `savedPos` say where the head is
and where the two saved states point: over the print, at the service area, at the
park position, or to a position of an earlier print (`"stale"`).

Two variables are observers: `strand` says how far the filament in the print
head reaches (to the gears, to the hotend, or cut off), `cuts` how often the
requests of one recovery have cut it.  No guard of an engine step reads them,
except where the physics decides (there is nothing to feed without filament).

A change runs `route` (what the first read decides: attendance, already
prepared, unload, load), `retract`, `cut`, `unload` or `pull`, `verify`, `load`
and for the external spool `insert`, `commit`, `flush`, `final`, `return`,
`finish`; within RESUME it goes on with `prime` and `recheck`.  A runout swap runs
`tail` and `rexec` first.  Between two steps the printer goes on (`Around`): a
pause is requested, a fault or a clog is latched, a hand inserts the external
filament.  `StepFails` ends the command at any step, with what that step may
have moved so far and with the last step it has noted in the request, and does what
`_operation_failed` and `_pause_runout` do.
`MustFail` says when a step has no other way.

| Run | Instance | Shows |
|---|---|---|
| `boxchange_changes` | two slots, cutter calibrated, `BOX_LOAD` and `BOX_UNLOAD` given before and during a print | `PendingBlocks`, `ResumeAtPrint`, `CutOnce`, `SensorArmed`, types |
| `boxchange_live` | one slot, the external spool, no cutter | `ActiveLoaded`, `BlockedPauses`, `CommandEnds` |

No counter needs a bound but `cuts`, which stops at two: the state space is
finite, runs are as long as they like, and prints follow one another.  Two slots
give a source and a target; a third plays no other part than either.

Fairness: the running command goes on (weak fairness of its next step, or of
the failure that a check forces); the wait for the user to pull the external
filament has no timeout in the code and none here, so `CommandEnds` excepts it.
`PAUSE` waits for the G-code mutex among commands that may keep coming: it gets
its turn (strong fairness), as the mutex serves waiters in order.

Assumptions: Z is homed and the filament sensor readable; the `PAUSE` and
`RESUME` macros (not in this repository) save `PAUSE_STATE` and call
`_BOX_PAUSE_CAPTURE`, `_BOX_RESUME_PREPARE` and `RESUME_BASE` as `prepare_resume`
expects; `BOX_LOAD` and `BOX_UNLOAD` are given when no print moves, for they move
the head and do not return it; the external filament is pulled only when the
engine asks for it, or runs out.  `ActiveLoaded` is checked without manual
commands.  Temperatures, purge volumes, tool numbers and spool bookkeeping are
left out; where a test of theirs decides whether something is flushed or cleaned
the step has both outcomes.

## Power-loss recovery

`SnapshotStore` is `AtomicSnapshotStore`: the disk (two journal slots with
generations, their `.tmp` files, the emergency record, context files), what the
store keeps in memory (`mem`), and its thread (`w`), which takes one step per
write, rename, unlink and clean-up.  A write may fail, which poisons the store or
not as the code decides, the first write of the emergency record among them
(`SeedFails`), and the power may fail between any two steps; a record that is cut
short is unreadable, and what `_load` makes of two slots and an emergency record is
`Select`.  `PowerLoss` adds the tracker: positions read from the file (`cands`), the
one whose moves have been made (`safe`), submission, print start and end, failed
recovery, discard, and the machine, whose progress `done` remembers.  A print may
start without an identity (`Begins(0)`: the file could not be read); it then tracks
nothing.  Where a recovered print starts, its box state may fail to be bound
(`RecoverEnds`): the print is paused and does not count as recovered.  A paused print
is a `"printing"` one that reads no line.

| Run | Instance | Shows |
|---|---|---|
| `powerloss_power` | two prints of two positions, a power cut or restart, two failing writes, three generations | `ResumesNotAhead`, `DiscardedStaysGone`, `AcknowledgedKept`, `OfferIsThisPrint` |
| `powerloss_contexts` | one print whose context changes, a power cut or restart, a failing write | `ContextKept`, `DiscardEnds` |

Bounds: two prints, for what is left of the first while the second runs; three
generations put a newer record over each slot; one power cut is enough, since
what follows it is an initial state of the store.  `MaxFaults`, `MaxGen` and
`MaxStops` bound failing writes, generations and power cuts.  `Flaps = FALSE`: what a
line changes of the context is not what it was before, nor, where a recovery reads
lines again, what is current while another context is awaited (`Returns`), and a
context asked for before a recovery is written by the time the recovered print goes
on, after minutes of heating and homing (see the deviations).  Fairness: the
storage thread goes on.  Coordinates, temperatures and the modal state in a
snapshot are left out, and so is the motion that replays it.

## Closed-loop motors

In `MotorControl` every exchange with a board suspends the greenlet that makes
it; `g` says where each greenlet (the startup handler, the verification of a stall
pin of each axis, the poll, the deferred cleanup, a command) waits and what it has
read before.  `startup` is the sequence with its index, attempts and timer,
`latch` the protection latch of each board, `busy` the nozzle transport that
refuses a second user, `homing` what Klipper's homing session tells the module.

| Run | Instance | Shows |
|---|---|---|
| `motor_faults` | one kinematic axis and the extruder, two faults, a lost exchange, homing, the cutter check and clearing | `StallStopSignalled` |
| `motor_startup` | the same boards, a startup with one automatic attempt, `MOTOR_RETRY_STARTUP`, a print with pauses, one fault or warning, a lost exchange | `ReadyMeansStarted`, `ResumeClean`, `StartupEnds`, `KinematicFaultStops` |

Bounds: one kinematic axis, as these axes are handled alike and the bus queues
their users; one automatic attempt instead of three.  Any step of the startup may
fail, the overrides by a value that does not fit (`apply_overrides`).  `Events` selects the
commands of a run.  `RetryMidStep = FALSE`: `MOTOR_RETRY_STARTUP` waits until the
startup has ended (see the deviations).  Fairness: timers that are due and greenlets
whose answer has come or timed out run.  Nothing is assumed of faults, commands
or homing.

## Tags and spools

`BoxRfid` has the hardware (spool, the record the box keeps of each slot, the
events it reports), the poll and the load, which reads tags too, as sequences of
tasks (`todo`), the external reader with its attempts, and Spoolman, whose answer
comes at any later time.  A read that Klipper orders (`_force_rfid_results`) is an
order, the records after it (`after`, the code's name), and slot by slot the
application of a record, the query of the remaining filament and the end of the
watch.  `since`, `ordered` and `scanned` are history: the tags that were in a slot
since its last insertion or removal was handled, those since a greenlet ordered to
read it, and the one taken for it.  The remaining percentage (`rfid_percent`,
`rfid_live_slots`) is not modelled.

| Run | Instance | Shows |
|---|---|---|
| `boxrfid_scans` | one slot and the external spool, a plain and a Spoolman tag, two spools, scans or commands | `ScanIsOfSpool`, `SpoolmanCurrent` |

Bounds: a slot shares nothing with another but the rows of tables; two inputs let
a spool follow another, a load meet a spool being changed, or a command or a scan
fall between reading and applying.  `token` counts only while a request of the slot
is out: it is compared with nothing else (`NextToken`).
No fairness: both properties are safety.

## Installation and slot switching

`SlotSwap` takes one step per partition, environment copy, entry or rename that
`install.py` or `swap` writes.  `env` has two copies with a flag byte that wraps
(`FlagModulus`, three here and 256 on the printer; `NotOlder` is the comparison of
the code), `live` and `slots` are the entries of UDISK and of its archives,
`HelixScreen`'s directory with the two work directories of the installer among
them.  Between any two steps the power may fail, services of the running firmware
write to UDISK, and the stock firmware may update the other pair.  The installer and,
once it has stopped the writers, a swap may end with an error at any step and put
nothing back (`InstallFails`, `SwapFails`); the user may then start either again or
restart the printer.  The installer's bootstrap and the removal of unit files that an
earlier HelixScreen left in the overlay (`install.py:1074`) touch no entry and are left
out, and so is `--no-reboot`.

| Run | Instance | Shows |
|---|---|---|
| `slotswap_cuts` | three runs of the installer or of swap, two power cuts or failing swaps, two stock updates, from three environments (one copy readable, an older copy that names the other pair, two of the same age) | `BootsWhole`, `DataKept`, `RunsOnOwn` |

Bounds: an installation, the swap back and a third run cover every order of the
two programs; a second power cut hits the run that repairs the first.  `Names` has
one entry that both firmwares use and HelixScreen's three.  `disturbed`, `fooled`
and `seedBroken` are history and qualify the properties (see the deviations).

## Print services

`PrintState` is the print as the extras read it: `"stopping"` is a pause that was
asked for while the virtual SD card runs its line, `"pausing"` the PAUSE script
that waits for the G-code mutex.  `HeatSoak`, `FanFeedback` and `LedIdle` are the
three timer-driven extras.  `BoxTracking` has two readers of the boxes, the poll
and an operation, whose queries interleave (`reads`) in any way: a box may change
any number of times between the answers of two boxes.  What a read returned is
handled in the turn of its last answer (`Handling`), in the order of the code: path,
owner, faults.  An operation then asks for the buffer and the encoder, in which time
the tracking may change again, before it goes on with the snapshot (`Decide`); while
it waits for a state it reads again, until `STATE_TIMEOUT` (`Await`).
`fw` holds the tracking owner, the owner of the path, the episode of each box and
the runout; an episode keeps `current` in place of the two counters of a fault
key, which only grow.  The operation is an unload or a change, exchange by
exchange, and each exchange may be lost.

`PrintServices` composes them on one print.  `installed` is chosen at the start
among `Configs`: the sections of `printer.cfg` are optional, and three sets that
meet only in the print (soak, fans and motors; the light; the boxes) are three
instances in one run.

| Run | Instance | Shows |
|---|---|---|
| `printservices_configs` | one print with pauses; three soaks or skips and two stalls; three commands for the light; or two boxes with a slot each, one operation, one fault of a box or a command, and one lost reply or enumeration, before or after it | `SkipsAsAsked`, `FansProtect`, `LightFollows`, `RunoutOfOwner`, `FaultStops` |

Bounds: `Confirm` and `Repeat` of the fans are two and three polls, `SoakTime` and
the light's `Timeout` two looks at the timer: enough for an event to fall before,
between and after.  The owner, the episode and the runout are left over from before
the print, so one print suffices; faults (`MaxReports`) are counted apart from lost
exchanges and enumerations (`MaxLost`), so that a fault meets an older session and a
reply that is missing.  The user pulls filament out by hand only while
paused and after a fault, and changes to the external spool only outside a print.
Deadlock is not checked: a fan may shut the printer down.  Fairness: the reactor
runs the timers and callbacks that are due; the poll of the boxes needs none.

## Proofs

`Serial485Proofs` proves with TLAPS, for any clients, devices, attempts and
limits that satisfy `ConstantsAssumption`:

- `TypeCorrect`: `Spec => []TypeOK`;
- `RequestsAccounted`, `SessionsExclusive`, `SessionsAgree`: the three invariants
  of `serial485_sessions`;
- `ServiceImplemented`: `Spec => Service!Spec`, every step maps to a step or a
  stutter of `BusService`;
- `RepliesFresh`: `Spec => ReplyFresh`.  Every frame that waits was received since the
  last attempt began, for the transmission empties the queue first (`Fresh`); so the
  frame that is matched answers this attempt (`Delivery`).

`RequestAccounted` is not inductive alone.  Its strengthening, in layers, says
what the worker holds at each place of its loop (`active` is a waiting client
from picking to completing and `None` elsewhere), that the queue has no
duplicates and only waiting clients without an outcome, and that a stopped
worker ends with an empty queue.  The session invariants add how a client's view
and the worker's `session` may differ while `begin` or `end` is under way.  The
lemmas on `RemoveAt` say what taking the first eligible request leaves of the
queue.  The refinement uses these invariants to identify the step of `BusService`.

`BoxChangeProofs` proves, for any slots, spools and settings that satisfy
`BoxAssumption`, with and without manual commands:

- `TypeCorrect`: `Spec => []TypeOK`;
- `PendingBlocked`, `SensorsArmed`, `CutsOnce`, `ResumesAtPrint`: `PendingBlocks`,
  `SensorArmed`, `CutOnce` and `ResumeAtPrint` of `boxchange_changes`;
- `ChangesEndLoaded`: `ActiveLoaded` of `boxchange_live`, if BOX_UNLOAD is not given by
  hand (`"unload" \notin Manual`).  Without the assumption TLC finds it violated on
  two slots, as the deviations below say.

The inductive invariant `Inv` has four parts.  `CommandPlaces` says at which
steps each command may be, and that a change keeps its request until it ends.
`SensorOff`: the sensor is off only inside an unload, and every running command
found it on.  `Blocks`: what `PendingBlocks` says holds all through a command that
is not a change, since such a command changes neither the request nor the
recovery; a change that ends re-establishes it (`_operation_failed`) or clears the
request.  `CutChecked`: a strand that was cut is the one the checkpoint of the
pending request names, that request has been at the service area (so a new target
inherits it), and the step `cut` is only reached with a checkpoint of another
slot, for the path keeps its slot from the first read of a change to its cut.
`EngineRequest` says what a step leaves of the request, `RequestForFields` what a
request with a new target takes over.

`ResumesAtPrint` rests on `ResumeInv`.  `PrintRequest`: a request is of the print
exactly as long as that is active, and a RESUME or a command by hand finds it
standing.  `Origin`: a request that moved the head away took its origin before, and
one that took it before the pause puts right what `PAUSE` saved; without such a
request the head of a running print is over it, and `PAUSE_STATE` of a paused one
points there.  `Returned`: at `finish`, and for a runout that has only to finish, the
head is back.  `BlockedStands`: while a recovery is open no print runs.

`ChangesEndLoaded` rests on `LoadedInv`: what a change read of a loaded path when it
began is still so at its first decision, and from `commit` on the path holds its target up
to the sensor (`TargetLoaded`); a runout that was returned from, and so goes
from `route` straight to `finish`, has its target loaded (`RunoutLoaded`).

`SlotSwapProofs`, for any flag circle longer than two and any environments:

- `AlwaysBootsWhole` (`BootsWhole`).  `IInv` adds to the property that the
  installer writes the pair the environment does not select, and that the pair a
  swap is about to select has passed its check.  The lemmas on the environment
  carry the argument: the successor of a flag is ahead of it on the circle and not
  behind it (`NextFlagAhead`), hence a copy that is being written is never the
  current one (`TornCopyIgnored`) and one that is complete always is
  (`NewCopySelected`).
- `RunsOnItsOwn` (`RunsOnOwn`).  `MachineInv`: the environment selects the running
  pair until a swap has written it, and nothing writes to UDISK while entries move.
  `StoreInv` says of each place of a swap whose entries are where, and that an entry
  which is to be moved finds its place free.
- `NothingIsLost` (`DataKept`).  `KeptInv`: what a user left is never only in the
  installer's work directories, except between the two renames, when both have it.
  It needs `StoreInv` too: what a fresh install erases is the custom firmware's.
- `TypeCorrect`: `Spec => []TypeOK`.  The firmware a swap starts from is that of a whole
  image by `MachineInv`, so that the slot it archives to exists.

`PowerLossProofs`, for any prints, positions, contexts, failures and cuts:

- `NeverResumesAhead` (`ResumesNotAhead`): the property holds of every snapshot in
  memory, on its way and on the disk, not only of the one a restart selects, and no
  step of the store makes one up (`FromBefore`).
- `OffersThisPrint` (`OfferIsThisPrint`): all that is, or may become, the journal's
  checkpoint is of one print (`AllOf`), because a start discards what there was
  before it submits anything.
- `NeverOfferedAgain` (`DiscardedStaysGone`): no slot holds what a completed discard
  covered, a tombstone is in both slots before anything else is removed
  (`StoreGone`), and a print that was discarded submits nothing more (`TrackGone`).
- `RecordsKeepContexts` and `AcknowledgedStays` (`ContextKept`, `AcknowledgedKept`),
  if `~Flaps`.  `JournalInv` puts each record into the slot of its generation, with
  none newer than what memory has counted and its checkpoint the newest of them.
  `FilesInv` says that the context is on the disk of whatever is in the journal, is
  being written to it or was submitted, and needs to know which context a candidate
  is given: `TrackInv`, that it is the one current in memory, no other being awaited;
  `OrderInv`, that contexts awaited were asked for in turn, each later than the last,
  so that a new request is for none of them.  This is where a context that returns
  breaks the argument, and the program.
- `TypeCorrect`: `Spec => []TypeOK`, if positions are numbered from one without a gap and
  1 is a context (`NumberedFromOne`; `Init` begins with it).  `TypeInv` adds that every
  snapshot is of a print with a context of a print: candidates exist only while the
  tracker has both, and no step of the store makes a snapshot up (`FromBefore`).

`BoxAddressProofs`, for any boxes, addresses, expected number and bounds:

- `NeverSavedTwice` (`SavedOnce`), if no table left by an earlier session lists a
  box twice: `Once` says the same of what every enumeration works on.
- `OnlineIsTrue` and `BoxesStayApart` (`OnlineTrue`, `NoAddressConflict`).  `BusInv`
  says of an enumeration that runs alone: every address asked so far at which nothing
  was found is silent, unless an exchange was lost there (`Checked`); the box in hand
  is not one already found, and at most it answers to the address it is given.
- `OfflineBoxesKept` (`PersistedKept`): an identity which this enumeration entered is
  of a box that is on and has that address only (`Entered`), so that removing its
  other entries removes no identity of a box that is off.
- `TypeCorrect`: `Spec => []TypeOK`, also while two enumerations overlap.

`MotorControlProofs`, for any axes and limits:

- `TypeCorrect`: `Spec => []TypeOK`, where the range of the startup's index needs
  that each run of the handler under way moves it at most once more (`IndexBound`);
- `StallsSignalled` (`StallStopSignalled`): a verification which takes its event for
  one outside homing is of an event that was reported (`Heeded`);
- `ReadyAfterAllSteps` (`ReadyMeansStarted`), if `~RetryMidStep`: one run of the
  handler at a time, of the step of the index, so that the steps which have succeeded
  are those before it (`StartInv`).  Without the assumption the property is false;
- `ResumesClean` (`ResumeClean`): the answer which lets RESUME go on was given since
  it began (`AnswerClean`).

`BoxRfidProofs`, `ScansOwnSpool` (`ScanIsOfSpool`), for any slots, tags and inputs,
an action property.  `FreshRecord`: once the box's record was seen without a tag, or
with another than it kept when the spool came in, its tag is of a spool that was in
the slot since.  For a forced read that is false (see the deviations), and the
property says less there: `OrderedSeen` and `OrderedRecord` say of the tags in the
slots and of the box's records that they were there since the order, as long as the
greenlet waits for the records; `Reported` says it of those that it was told, until
they are applied, whatever is inserted or removed in between.
`AnswersCurrent` (`SpoolmanCurrent`), an action property: no request's token is ahead
of its slot's, and a request that is abreast has the tag that was scanned last
(`Asked`); every scan, insertion, removal and mapping raises the token that a
request still out would have to match, and after a
disconnect, which resets it, the generation tells the requests apart.

`PrintServicesProofs`, for any sections, boxes, slots and durations:

- `SoakEndsAsAsked` (`SkipsAsAsked`): a skip or a pause that comes while a soak runs
  stays visible to it, and what would end it as skipped was asked (`SoakInv`);
- `RunoutIsOwners` (`RunoutOfOwner`): each operator of the tracking, and so what a
  reader makes of any replies whatever, keeps the runout that of its owner (`Good`).

The assumptions on constants are those of the modules, which TLC evaluates on every
run: the names of slots, axes and tags are not those of the programs' own places
(`NamesAssumption` of `MotorControl` and `BoxRfid`), sets of slots and boxes are
finite, positions and contexts are numbers (`StoreAssumption`).

Only model-checked:

- `FaultStops`: it needs the history of each episode; with larger bounds (three faults,
  three operations, three prints, two lost exchanges) TLC's simulation has found no
  violation either;
- every liveness property (`RequestReturns`, `CommandEnds`, `DiscardEnds`,
  `StartupEnds`, `BlockedPauses`, `KinematicFaultStops`, `FansProtect`,
  `LightFollows`): temporal reasoning under fairness is out of this prover's reach.

## Known deviations

Where the code does something else than a comment or a document says, or than one
would expect.  Those with a configuration are shown by TLC as a counterexample
when it is run by hand; the others were met while modelling.

- `ClosedAfterShutdown` (`Serial485_shutdown.cfg`): when the join of the shutdown
  handler times out, a worker about to transmit reopens the port and writes
  (`serial_485.py:388`).
- A second enumeration of a session works from the table read at startup and
  forgets what was saved since (`box_addr.py:39`); `PersistedKept` excepts it.  It
  also excepts two enumerations at once: when the second moves a box that the first
  has entered, the first meets it again at its new address, and clearing its old
  entry may drop the identity of a box that is off.
  `BOX_ENUMERATE` during the startup enumeration (`box.py:631`) may give one
  address to two boxes; `NoAddressConflict` and `OnlineTrue` except it.
- `ActiveFed` (`BoxChange_fed.cfg`): a load whose last wait is aborted is never
  marked as short of the hotend; the retry takes it for loaded and does not feed
  it.
- `ActiveWhole` (`BoxChange_whole.cfg`): a change interrupted after the cut, then
  the source selected again: the severed strand counts as loaded.
- `CutBeforePull` (`BoxChange_pull.cfg`): the checkpoints of retract and cut name a
  slot and are inherited by a replacing request; the same slot loaded anew is
  pulled out of the hotend without either (`box_change.py:906`).
- `ActiveLoaded` with `BOX_UNLOAD` by hand: a runout swap that failed on its way back
  has only to return or to finish, and its retry does that without a look at the path;
  if its slot was unloaded meanwhile the change ends with nothing loaded
  (`box_change.py:317` and `:324`).
- RESUME primes the slot it remembers, also when that was unloaded by hand during
  the pause (`box_change.py:620`).
- A load's forced read may take the tag of the spool that was there before
  (`box.py:1908`): the box reads A; A is changed for B, and the poll handles the
  removal and the insertion (`box.py:1595`); the record that the load was told, or is
  told at `box.py:1911`, is still A's.  It is applied to the slot that now holds B,
  and `_clear_rfid_watch` (`box.py:1925`) ends the watch of B, whose tag is then not
  read.  No document says otherwise; `ScanIsOfSpool` excepts it and says of it only
  that A was there since the order.
- `DiscardDeletes` (`PowerLoss_discard.cfg`): a context write fails and the thread
  ends although a discard was accepted (`power_loss_recovery.py:541`), against
  `docs/command-reference.md:110`, "Deletes the saved recovery checkpoint."
- `ContextKept` with `Flaps = TRUE` (`PowerLoss_flaps.cfg`): a context changes back
  to the committed one while the new one is being written; the clean-up then deletes
  the file that a prepared snapshot names, and its journal record is unreadable
  (`power_loss_recovery.py:310`).  A recovery in the same process can do the same
  without the file going back: it reads lines again, and so comes to the context
  current in memory while that of its starting point is still awaited (on an
  instance of three positions, three contexts and four generations).
- `ReadyMeansStarted` with `RetryMidStep = TRUE` (`MotorControl_retry.cfg`):
  `MOTOR_RETRY_STARTUP` given while a step waits for a board resets the index that
  this step then increments (`motor_control.py:3472`), so the new startup skips
  its first step.
- Tags: `BOX_SLOT_SET` and `BOX_SLOT_CLEAR` do not invalidate a Spoolman request;
  an unknown tag is not forgotten when its spool leaves, so that mapping it later
  fills another spool's slot; a spool inserted while the poll is held off has its
  record snapshotted and never applied.
- Slot switching: a swap that was cut short, or failed, and is started again archives the other
  firmware's entries as its own (`disturbed`, `swap:797`); the check before a swap
  reads a banner and a sentinel and may take a partition that was written in part
  for a whole one (`fooled`, `install.py:417`); the clean-up after a failed seeding
  of HelixScreen loses the user's files (`seedBroken`, `install.py:685`).
- A skip in the middle of a soak leaves the skip armed: the next soak of the same
  print is skipped too (`heat_soak.py`).  A soak that a shutdown ends is reported
  as complete.
- A fan stall that was warned of before a print starts pauses it only at the next
  warning, `repeat_warn_seconds` later (`fan_feedback.py:186`).
- Switching the light off within a second after `LED_IDLE_MANAGER_STATUS` is not
  heard, and the light is lit again (`led_idle_manager.py:161`).
- The reply of the loaded box is lost while the printhead sensor reads empty:
  `path_owner` is forgotten (`box.py:2646`), and a change feeds a second slot with
  the tail of the first still in the path.
- `docs/command-reference.md:34` documents a command `_BOX_RESUME_CHECK` that no
  code registers.

## Not modelled

The components that `PROJECT.json` lists as `not_modelled`: the numerical work of
probing and alignment, slicer metadata, material data, tool tables, and release
tooling have no state that steps of several actors could bring out of order.  The
dryer with the power limiter, the manual floor of the temperature fan, the
circulation fan, and the guards of `force_stop_homing.py` and `motion_limits.py`
are control loops of one timer or one condition and were left for others.

Of the components that are modelled in part: the byte-level framing of the
transport and of the motor boards; the stages of a load inside the box (one move
that succeeds, is lost or reports a fault); the delay of a runout to the end of a
line (`box.py:764`), which depends on Klipper's own runout handling; clog
detection as such (a clog is an event of `BoxChange`); the parameter transfer of
`motor_map.json`; the replay of a power-loss checkpoint; `bootstrap`.
