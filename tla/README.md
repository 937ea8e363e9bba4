# Aseko Local: TLA+ specifications

Aseko Local is a Home Assistant integration. It listens on a TCP port to which
Aseko pool units (ASIN AQUA and others) are pointed, decodes the frames they
send, shows them as entities, repeats them to Aseko's own cloud, keeps a log of
raw frames in which the user marks test cases, and derives what the units do
not send (backwash history and projection, dosed volumes, clock drift).

These modules model the parts of it that are hard to get right and hard to
test: what happens at the awaits. They are translated from the code under
`custom_components/aseko_local`; `PROJECT.json` gives, for every definition,
the lines it stands for.

Contents: [the system](#the-system) · [modules](#modules-and-the-code) ·
[runs](#runs) · [fairness](#fairness) · [proofs](#proofs) · [where code and
comments differ](#where-the-code-and-its-comments-differ) · [not
modelled](#not-modelled) · [plan](#plan)

## The system

One asyncio event loop runs everything except executor jobs (files, zip). A
coroutine keeps the loop until it awaits something that is not done yet; there
any other coroutine, timer or callback may run. So the unit of interleaving is
the stretch between two awaits, and every module's actions are these stretches.

```
 unit ──TCP──▶ DeviceServer ──raw frame──▶ CloudMirror ──TCP──▶ Aseko cloud
               (one handler   ──raw frame──▶ FrameLog ◀── Recording (card, mark_dump)
                per unit)     ──device────▶ coordinator ─▶ trackers ─▶ entities
                                              │                │      (registry,
                                              │                │       platforms)
                                              └── ThrottledStore / Store ──▶ disk
```

| Component (code) | State | Operations | Talks to |
|---|---|---|---|
| Device server (`server.py`) | `_instances` by host:port; `_server`, `_clients`, callbacks of each | `create`, `start`, `stop`, `remove` | called by set-up, unload, both flows; calls the sinks |
| One connection (`server.py`) | bytes in hand, protocol, whether the frame was rewound | `_handle_client`, `_read_message`, `_sync_frame`, `_rewind_binary` | raw, rejected and data sinks |
| Cloud mirror (`forwarder.py`) | queue, frame in hand, writer, back-off | `enqueue`, `start`, `stop`, `_worker` | raw sink of the server; the cloud |
| Coordinator, recording (`coordinator.py`, `recording/views.py`, `recording/photos.py`) | switch, generation, frame waiters, photo folder | upload, `mark_dump`, switch, delete, export, forget | HTTP views, services, frame log |
| Frame log (`recording/frame_log.py`) | sealed chunks, open chunk, lines not yet compressed, markers | append, mark, clear, dump, load | coordinator |
| Coordinator, persistence (`coordinator.py`) | two Stores, time of the last passed-on request | frame, mark, unload, stop | Home Assistant's Store |
| Coordinator, devices (`coordinator.py`, `models.py`) | devices, the features each has shown, listeners, the last unrecognised frame | frame, add listener | platforms, trackers |
| Platforms (`entity.py`, `sensor.py`, `binary_sensor.py`, `button.py`, `datetime.py`) | entities; Home Assistant's registry | set-up, new unit, new features, rename, seed | coordinator, registry |
| Backwash tracker (`trackers/backwash.py`) | history, open window, schedule last seen, restart day, Store | `update`, `set_`/`clear_last_scheduled_backwash`, `async_load`, `async_save` | coordinator, services, date entity |
| Consumption tracker (`trackers/consumption.py`) | two counters per pump, when it was last seen on and at which rate | `update`, `reset`, `load_store`, `seed_counter` | coordinator, sensors, Store |
| Clock tracker (`trackers/clock.py`) | three samples, alarm | `update` | coordinator |
| Entry lifecycle, flows, services (`__init__.py`, `config_flow.py`) | entry loaded or not | set-up, unload, submit, test bind | all of the above |
| Decoding (`decoding/`) | none | a frame's profile, its features in order, the reading of each | server |
| Diagnostics, card | none | read | coordinator |

What is hard in each, and what makes it correct:

* **Device server.** Set-up, unload and the flows meet at every await of
  `create` and `remove`, while units connect. A loaded entry must own the
  registered, listening server; an unloaded one must leave nothing registered
  and nobody served; a stop must end.
* **One connection.** TCP cuts the stream anywhere; v7 frames (three segments)
  have no delimiter, v8 frames are lines; the unit may hang up, reset or go
  quiet inside a frame. Each frame must be handed on once, whole, without
  waiting for the next, and a frame put together from two moments must be the
  last one.
* **Cloud mirror.** Connects fail, connections die unnoticed, the queue is
  finite, a stop cancels the worker at any await. Order must hold, the newest
  frames must be kept, no loss without a cause, no connection left open.
* **Recording.** A request waits for its body, an executor job, a frame; the
  recording may be stopped, restarted or deleted in the meantime. A mark must
  not land in another recording, a refused one must leave no photo, and a case
  is only shown as downloaded when the user holds it.
* **Frame log.** Batching, sealing and eviction around a hard ceiling; times
  stored as rounded differences; a reload that encodes again.
* **Persistence.** Requests restart the Store's timer, so they are throttled; a
  stop, a crash or a reload may fall anywhere. What each may cost is bounded.
* **Backwash tracker.** The unit has its own clock and runs its schedule from a
  phase it does not report; its clock and schedule change; frames lack fields;
  history is read while frames come in.

* **Platforms.** Frames come in at every await of the platforms' set-up and of
  an unload; the set-up may fail, Home Assistant may reload, the user may
  disable an entity. Each entity is to be offered once its unit has shown the
  quantity, by whichever path sees it first, and never against the user.
* **One unit's device.** Readings depend on each other and on the unit's
  settings, the profiles list them in any order, and the device is overwritten
  field by field. What is shown must belong to the last frame.
* **Consumption.** The dose is estimated between two frames, by a wall clock
  that is corrected; two counters go through a store, a restart and, once,
  through sensors that kept rounded litres.

`PROJECT.json` lists each of these as a hazard, at its line, with the
properties that cover it.

## Modules and the code

Read each module with the code beside it; the variables carry the code's names
where TLA+ allows, and every variable's comment names the attribute it stands
for. Variables marked *history* are not in the code: they record what a
property needs. Definitions commented *Mutant* are not part of any
specification; they are the plausible bugs each property is known to catch.

**`OrderedRelay`** (32 lines) is what the mirror promises: what the cloud has
received only grows, in the order the frames were handed in; the last one may
arrive a second time, an older one never follows a newer one.
**`CloudMirror`** is `forwarder.py`. `pc` names the await the worker is in
(`get`, `connect`, `drain`, the closes `renew` and `discard`, `sleep`), `conn`
is `_writer`, with `broken` for a connection whose end the mirror has not
noticed, `pending` the worker's local. `TakeFrame`, `Connected`, `Retry` run
the loop's body from one await to the next (`Proceed`); `Stop` cancels at any
of them, `Stopped` is the close that follows. `CloudReads` and `Break` are the
network. `DrainFailed` is a drain that raises what the worker expects,
`DrainRaises` one that raises anything else: the worker then waits and keeps both
the writer and the frame. The reader task only logs and is left out; the minimum
time between reconnects is the choice between `renew` and `drain`. A close is
taken to end, and how long the back-off is does not matter.

**`DeviceStream`** is one connection. The stream is a sequence of *cells*, the
pieces the framing tells apart: the head and the rest of each v7 segment, the
signature, text and newline of a v8 frame, junk. 120 bytes are six cells.
`Read`, `ReadLine`, `LineTooLong`, `LineCutShort`, `EndOfStream` are the awaits of
`_read_initial` and `readuntil`, which gives up on a line longer than `ReadLimit`
(`Overrun`) with nothing read; `SyncV7`, `SyncV8`, `SyncV8Open`, `SyncFailed`
are `_sync_frame` with the delivery that follows. `Rewound` does what
`_rewind_binary` does to the bytes: the tail of one frame before the head of
the next. A v8 frame the decoder refuses ends the loop before the bytes carried
over become a message: they are in no output, and `dropped` (history) keeps them.
`Arrive`, `HangUp`, `Reset` are TCP, `QuietInitial` and `QuietLine`
the two timeouts. What a unit sends is an assumption on `Streams`, of which the
proofs need three facts: a frame's segments follow each other, a line holds one
frame, and frames are numbered in the order they are sent. A stream is *clean*
(`Clean`) when it is of one protocol, starts with a frame or a separator and holds
nothing but these.

**`Recording`** joins the coordinator's recording state, the views, the photo
folder and `mark_dump`. Each request has a record `req[r]`: where it is
(`body`, `saving`, `waiting`, `discarding`), the generation it noted, whether a
frame released it, the photo it saved. Executor jobs (`SavePhoto`,
`DiscardPhoto`, `ClearPhotos`) are steps of their own that run any time after
they were asked for. A save may fail (`SaveFails`) before the name is claimed, or
after it, when the file stays and the cap may have taken only some of what it
should. A request may be cancelled at any of its awaits (`Cancelled`), its save
running on in the executor (`abandoned`), and Home Assistant may stop and start
(`Restart`), which loses all requests and delete jobs under way but neither the
log nor the folder. Of a request that will not be marked any more only its
photo's name is kept (`Gone`). An export without a case is left out: there is
nothing to mark as downloaded. That a crash takes the log back to its last save is in
`ThrottledStore`, and so is a reload of the entry. The hidden file a photo is
written to before it gets its name is left out, no list shows it. The log is a
tape of records here; what its bytes do is in `FrameLog`.

**`FrameLog`** is the ring buffer: `FlushPending`, `Seal`, eviction, `Size`,
the time written per line, markers with their frames flag, and the dump and
reload of all this, also from a store older than the marker list
(`LoadUnlisted`). Its initial states, actions and specification are `LogInit`,
`LogNext` and `LogSpec`, because its proofs stand beside those of
`ThrottledStore`. A line carries its length, its compressed length and its time
or the rounded difference to the line before; `NoTime` is a time not known yet.
Compression itself is a sum, because the code compresses with a flush per batch
and a replay of the same lines compresses the same way. `tape` is a history of
all records since the log was empty, dropped or not.

**`ThrottledStore`** is the way from memory to disk, for the log and the
counters alike. `Request` is `_request_frame_log_save`, `DelaySave`, `Due` and
`FinalWrite` are Home Assistant's Store, which is external and modelled from
its behaviour as the code uses it. `mem[g]` and the timers are per coordinator
`g`, because an unload and set-up make a new coordinator with a Store of its
own over the same file. A mark that waits for a frame keeps the coordinator it
began with: `Mark` is one that comes while its coordinator is still the current
one, unloading or not, `MarkOfReplaced(g)` one that comes after the reload, to a
coordinator whose switch and generation still say yes. How long it may wait
(60 s) is left open.

**`BackwashTracker`** has the unit on one side (`schedule`, `phase`, `relay`,
`skew`; `OwnCycle`, `ByHand`, `ChangeSchedule`, `SetUnitClock`) and the tracker
on the other. `Frame(f)` is one call of `update`, composed of the same steps in
the same order: `TakeOffset`, `NoteSchedule`, `BackfillSplit`, `AfterGap`, then
`Open` or `RecordWindow`. `FirstFrame`, `Load`, `LoadError`, `Save`, `Restart`
are the Store's life; `NextScheduled` is the projection. `None` is a time before
all others, as the code takes an unset time for one long past.

**`DeviceServer`** has two callers, the entry (set-up, unload; Home Assistant
serialises these) and a flow (test bind, submit). `pc[p]` is where a call is,
`loop` the caller that keeps the event loop: a call that awaits nothing gives
the others no turn, as in asyncio. A socket outlives the instance's `_server`
attribute, as asyncio's server does. What the set-up does after `create` (the card,
the mirrors) is taken not to fail.

**`EntityOffer`** (45 lines) is what `entity.py` promises of the entities:
offered once shown, not before, then for good, and a refusal is the user's
alone to undo. **`EntryUnits`** is one entry with its units.
`DevicesUpdate(u, S)` is the whole of `devices_update_callback` for a frame that
shows the features `S`: `Merged` and `Grown` are what `_store_device` keeps and
finds new, `Asked` the call of `new_device_callback`, `AddNewDevice` and
`AddNewFeatures` what the platforms' listeners do. `NewDeviceCallback`,
`SetUpPlatform(p)`, `SetUpDone`, `SetUpFails` are the stretches of the
platforms' set-up between its awaits, `Unload` and `Unloaded` those of
`async_unload_entry`. `registry` is Home Assistant's entity registry, of which
each entry is absent, enabled, or disabled by the integration or by the user;
`old` is the entry under the key an entity had in an earlier release. What is
assumed of Home Assistant: the registry survives; `async_add_entities`
registers and shows at once, and shows nothing on a platform that is not set
up; set-ups of the platforms are serialised with a later unload of theirs, but a
set-up may start during the awaits of an unload that had no platform to unload;
one fails before any platform is up or because one is up already; listeners
are removed once the entry has unloaded; enabling an entity leads to a reload
some time later.

**`Readings`**, **`PlainReadings`** and **`Profiles`** are the decoding as
operators. A value is abstracted to the *place* it is read from (`Byte(n)`,
`Bits(29, ...)`, `Entry("ins", 12)`) and to what a reading can answer: a value,
on, off, `None` (unset) or `NOT_PRESENT`. `PlainReadings` has the quantities
with bytes of their own, `Readings` the helpers of `frames/values.py` and the
readings that depend on a setting, on the probes or on another quantity.
`Profiles` has every profile's features in the order of the source, its
overrides, `Ordered` (the dependencies first, as `profile.py` sorts them) and
the way from a frame to its profile. Every reading of every profile is there.
**`UnitDevice`** decodes frames and stores them. `Filling` is the loop of
`engine.decode`: a `BlankDevice` goes through `Decoded` once for each feature of
the profile's order, which takes the `Reading` the profile has chosen (`Read`:
none, where nobody has located the quantity). `StoreDevice` is `_store_device`
with `MergedFeatures`, the overwriting of the device field by field,
`KeepUnrecognised` what happens to a frame of a type nobody has mapped. Its
initial states and its specification are `DeviceInit` and `DeviceSpec`, since
its proofs stand beside those of `EntryUnits`.

**`DoseMeter`** (52 lines) is what a consumption counter promises.
**`Consumption`** is one pump of one unit: the pump that really doses (`pump`,
`dosed`), the wall clock against real time (`skew`), and the tracker. `Frame`
is `update` for a frame that shows the pump as it is (`SeenOn`, `SeenOff`),
`UnreadableFrame` one that lacks the rate or the pump (`SeenAbsent`). `Reset`
is the button and the service, `Save`, `Load`, `Unload`, `Setup` and `Crash` the
store's life, `Seed(c)` the sensor that adopts its earlier state. When the
store writes is in `ThrottledStore`; here it writes whenever it likes. What
frames add to the old tracker during an unload's awaits may or may not reach
the file, which `GapEnds` leaves open. Sensors that are to seed may not have done
so when an unload comes, and those of a disabled entity never do. The pumps of a unit share nothing but the file, so one pump stands for all.

`MC...` modules give the set- and function-valued constants of a run their
values; the other runs need none. A module `XProofs` holds the theorems about
`X` and nothing that `X` or a run depends on; `StoreProofs` holds those about
`ThrottledStore` and about `FrameLog`, `EntryUnitsProofs` those about
`EntryUnits` and about `UnitDevice`.

## Runs

`tlc -config X.cfg M` in this directory. Deadlock is checked for `UnitDevice`,
whose unit can always send. It is off in the others: the bounds end their
behaviours (no frame, event or tick is left), a connection ends, and a mirror
that waits or a stopped Home Assistant really may stand still.

| Run | Distinct states | Shows |
|---|---|---|
| `CloudMirror` | 46,203 | order, newest frames kept, no loss without a cause, closed after a stop, the backlog drains |
| `DeviceStream` | 8,628 | of fourteen streams cut in every way, the decoder gets the unit's frames, whole, once, without waiting; what is lost is lost behind a refused frame; a mixed frame ends its connection |
| `Recording` | 2,305,844 | a mark that waited follows a frame of its unit, lands in the recording it began in, leaves no photo when refused, whatever fails or is cancelled; "downloaded" means held |
| `FrameLog` | 153,421 | the ceiling is hard, what is readable is the newest records without a gap and on time, reload is exact, the frames flag is true, also for a list rebuilt from the frames |
| `BackwashTracker` | 1,580,589 | own cycles are recognised, the projection is the unit's, neither history nor a typed-in date is lost |
| `ThrottledStore` | 6,254,531 | how late a mark or a frame is saved, and what a stop, a crash or a reload may cost |
| `DeviceServer` | 201,572 | a loaded entry is served by its own server, an unloaded one leaves nothing, a stop ends |
| `EntryUnits` | 68,442 | every entity of what the units show is offered once and for good, whatever set-ups fail; one set-up at a time; all appear in the end |
| `UnitDevice` | 9,362 | no place of a frame is shown as two quantities, nothing of a former set-up stays, running is true, what has been shown stays |
| `Consumption` | 5,013,822 | how far the estimate may be ahead of and behind what was dosed; the tracker is a meter |
| `RecordingPhotoLost`, `UnitDeviceSaltDose` | | one disagreement each, see below |

### Bounds, and why they are enough

* **CloudMirror**: `Capacity = 2`, `MaxFrames = 4`, `MaxFaults = 2`. Four
  frames fill the queue, put one in hand and overflow it once more; two faults
  are a broken connection and a failed reconnect for the same frame, or either
  with an exception the worker does not expect.
* **DeviceStream**: streams of at most four frames, each cell a byte position
  the framing treats differently. The streams are aligned and shifted v7 frames
  (a shift the rewind can undo and one it cannot), short and long v8 frames
  with and without separators, junk before and between, a line at the reader's
  limit and one past it (`ReadLimit = 7` cells, more than a message has). TCP
  delivers any number of cells at a time, so every segmentation is covered. The
  decoder raises on frame 4 (`Refused`), which is the last one of a stream, or has
  a whole frame or a part of one carried over behind it.
* **Recording**: two uploads whose photos have one name stem, one waiting for a
  given unit, one for nothing, and a `mark_dump` that waits for any unit; two of
  the three are made (`MaxRequests`), so that every pair of them meets; room for
  one photo and one listed marker, so both caps are met; two frames, one to make a
  unit known and one to answer; two switches, deletes or restarts, enough to stop
  and start under a request; one request that is cut short besides those a
  restart ends, and one export. The proofs cover any number of each.
* **FrameLog**: a ceiling of 5 and chunks of 2 give two sealed chunks and an
  open one; batches of three; a long line of which two pass the ceiling without
  being compressed; five records, one more than fit. A tenth of a second is three
  ticks and the clock steps by two, so every difference is rounded; once
  (`MaxSetBacks = 1`) it is set back, by more than two records. The proofs cover
  all other values.
* **BackwashTracker**: `None` lies more than two days before the earliest time
  a clock can show, so that no day before an event is taken for it; days of
  three ticks, so "the day before" and "the day
  after" are near every tick; a unit that runs daily or every other day, at
  different times, with a clock that may be one tick (a third of a day) ahead;
  five ticks and two outside events (hand starts, settings, clock changes,
  entries, restarts). With tolerances of zero ticks a slot is matched exactly:
  the code's tolerances are far below half a day, which is what matters for the
  nearest slot.
* **ThrottledStore**: delays 1, 2 and an interval of 3 ticks keep the code's
  order (5 s < 60 s < 10 min), which `DelaysAssumption` states as strict; six
  ticks are two intervals; three coordinators are two reloads or restarts, and
  a mark may come to either of the two that were replaced.
* **DeviceServer**: two units, three server objects and three sockets: one for
  the entry, one for a flow, one for a second set-up.
* **EntryUnits**: two units and two platforms with a feature each, so that one
  unit can come while the other's platforms are being set up, and a feature can
  come on a platform that is up or not; one entity has an entry under a former
  key, enabled or refused by the user. A unit's frames show one feature or
  both. Two events, that is failed set-ups, the user's changes, restarts and
  reloads of the user's own: a failure and its second try, a refusal and a
  restart. Reloads that follow from enabling are not bounded.
* **UnitDevice**: all seven mapped models with all probe bits, and one type of
  each protocol that is unmapped. The bytes a frame has filled in are all, none,
  or all but the two that tell a shared port's pumps apart; relays all, none,
  or the filtration alone; settings every combination of the two bits that
  readings depend on, and unset; the v8 port each of its values. Two frames
  with any of these show every overwrite of one set-up by another.
* **Consumption**: rates 1 and 2, a cap of two frame intervals, so that a gap
  may be below, at and beyond it (30 s and 10 s in the code); three ticks and
  three events, which put one event before, in and after a gap. The proofs
  cover all other values.

### What the less obvious properties say

* `QueueIsTheNewest` (mirror): the queue is always the newest frames in one
  piece. `NothingVanishes`: a frame that is not received, under way or queued
  is in `overflow` or `lost`, and these grow only where the code drops a frame.
* `NoByteLost`: on a clean stream all that was read is in a frame handed on, in
  the kept fragment, in the rejected bytes or in hand, once and in order, or it
  is `dropped`: carried over behind a v8 frame the decoder refused
  (`server.py:288`). That is less than a message, and it ends the connection
  (`LostWithRefusedFrame`). Of one protocol, because a v7 frame's beginning that shares a message
  with a v8 frame is given up, as the code means it to be: `_sync_frame` looks
  for the v8 signature first.
* `MixedFrameEndsConnection`: a rewound frame may hold bytes of two moments; it
  is delivered, and nothing more comes from that connection.
* `WaitedMarkFollowsFrame`: a mark that says it waited stands behind the frame it
  waited for. One case is excepted, by what the request met and not by where its
  mark stands: the body of the upload came in while recording was off (`on`) and
  the frame came while it still was (`off`). Without the exception TLC finds this
  case.
* `NoOrphanPhoto`: no photo of a refused mark is left once its request is
  answered. A photo may stay behind only for an upload that was itself cut short
  (`ended`): its save failed, it was cancelled, or Home Assistant stopped. The
  folder may pass its cap by one photo for each failed save.
* `NotPostponed`: the timer of a pending save is never later than the delay
  after the first request it serves, or the short delay after the last mark.
  This needs the interval to be *longer* than the delay. With both two ticks TLC
  finds a frame that is passed on in the tick in which the save of the one
  before is due, and that pushes it back.
* `HeldIsTheNewest` (frame log): the newest record itself is held only while
  lines are so short that a batch of them, raw or compressed, fits beside a chunk
  (`AllShort`). One longer line may be past the ceiling by itself, and goes with
  the open chunk.
* `FrameFlagTrue`: a case's own record is held and the clock was never set back,
  then the flag is set; the flag is set, then a record no later than the case's
  is held, to within half a tenth where the list was rebuilt from rounded times.
  With a clock that was set back the flag may be missing for a case that is
  held: it compares times, and the oldest chunk may begin after the case by the
  clock.
* `OwnCycleRecognised`: the offset noted when the valve opened decides, so a
  clock set while the valve is open changes nothing. `ProjectionFollowsUnit` is
  relative to `misled`, a history that is set from the unit, its clock and the
  frame, never from what the tracker makes of them: a changed schedule that a
  frame shows on a later day, or with an offset that shows another day than the
  unit's clock does (`ChangeSeenLate`); a cycle by hand, or one of a schedule that
  was changed meanwhile, that looks like one at the set time (`LooksScheduled`); a
  date typed in or cleared; a schedule changed back to one that the tracker, the file
  or an open window still has. From such a frame the tracker cannot know better; a
  wrong day worked out from any other frame violates the property.
* `EntryIsNotLost`: a typed-in date stays through frames, loads and restarts
  until a scheduled cycle or another entry follows it. What may take it away is
  a restart before its save, which `typed` notes, and the save after a read that
  failed: the tracker has then begun empty and writes that.
* `LossIsBounded`: while nothing is pending, a crash loses only frames that
  came within an interval of the last write.
* `late` (ThrottledStore): a replaced coordinator has a save to come, or was the
  last to write. There are two ways to this: an unload saves before it removes the
  server, and a frame or a mark in between asks the old coordinator's Store for a
  save that fires after the new set-up; and a mark that waited over the reload goes
  to the old coordinator. In either case the old log is written over the new file.
  `MarkSoonSaved`, `LossIsBounded` and `FileKeepsSaved` hold except then, and `late`
  ends with the current coordinator's next write; without `~late` TLC finds a
  counterexample to each of them. `MarkSoonSaved` also says that an orderly stop
  loses no mark.
* `overlap` (DeviceServer): `LoadedIsListening` and `NobodyServed` hold as long
  as calls of the entry and of a flow do not overlap. Where they do, the test
  bind below shows what may happen. `NobodyServed` says of an unloaded entry
  that nothing is registered and nobody is served.
* `Stranded` (EntryUnits): a unit's first frame during the awaits of an unload
  starts a set-up of the platforms that nothing unloads. Home Assistant then
  refuses the next set-up until it is restarted. `EverythingAppears` excepts
  such platforms; without that TLC shows the path.
* `PlacesReadOnce`: a place is read for two quantities only where that is so by
  design (`OneByDesign`, each named there).
* `NoPhantomDose` and `NoDoseLost`: `over` and `under` are histories of the gaps
  whose estimate may be wrong because something happened in them that no frame
  shows. What the properties say is that nothing else makes it wrong, and by
  how much these may.

* Type invariants are checked as a part of a property of each run (`Ceiling`,
  `NothingOfTheFormerSetUp`, and others); those of eight modules are proved as
  well.

### Mutants

Every property of a passing run has a mutant in `PROJECT.json`: a definition
that models code, and a form of it with a plausible bug, under which TLC finds
that property violated with the run's own configuration.

## Fairness

Safety is checked without fairness. Liveness assumes only what the code's
scheduling gives:

* **CloudMirror**: `WF(Worker)`: the event loop resumes a task whose await is
  over, and every await of the worker ends: `open_connection`, `drain` and the
  closes end or raise, the back-off is a sleep. `WF(Stopped)`: the same for
  `stop`. `WF(CloudReads)`: TCP delivers on a live connection. Connects do not
  fail for ever, by `MaxFaults`. Nothing makes `Start` or `Enqueue` happen.
  `BacklogDrains` then says a queued frame leaves the queue, unless the mirror
  is stopped.
* **DeviceStream**: `WF(Handler)`, the handler resumes when its read can
  return. Neither arrival nor hang-up nor the read timeout is fair:
  `HandledAtOnce` says a v8 line that has arrived is handed on without any of
  them.
* **EntryUnits**: weak fairness of the tasks of the event loop
  (`NewDeviceCallback`, `SetUpPlatform(p)`, `SetUpDone`, `Unloaded`) and of Home
  Assistant's set-up of the entry and the reload it has announced. Every unit
  sends its whole state again and again (`WF(DevicesUpdate(u, Features))`), as
  an Aseko unit does every ten seconds; `Features` is whatever it has to show.
  Failed set-ups are bounded, restarts and the user's changes too.
* **DeviceServer**: `SF(Step(p))`: others' calls may take the loop between a
  call's steps again and again, so a step is enabled on and off, but asyncio's
  ready queue is first in, first out and a ready callback is not overtaken for
  ever; `SF(Handle(u))` likewise for the handler of an accepted connection. No
  unit is made to hang up: `stop` closes them, which is what `StopEnds` is
  about.

## Proofs

Eight modules have proofs, for all values of their constants that satisfy the
named assumptions of the module. `tlapm M.tla` in this directory checks them.

| Module | Obligations | Inductive invariant |
|---|---|---|
| `CloudMirrorProofs` | 897 | `Typed /\ Order`, `Accounted /\ WrittenOnce` |
| `ConsumptionProofs` | 1,369 | `Typed`, `Ahead(c)`, `Behind(c)`, `SavedOver`, `SavedUnder` |
| `EntryUnitsProofs` | 3,134 | `EntryInv`, `DeviceInv` |
| `StoreProofs` | 5,204 | `SaveInv`, `LogInv` |
| `RecordingProofs` | 2,316 | `RecordingInv` |
| `BackwashTrackerProofs` | 1,987 | `RecordInv`, `CycleInv` |
| `DeviceServerProofs` | 1,289 | `ServerInv`, `SerialInv` |
| `DeviceStreamProofs` | 3,538 | `StreamInv`, `StreamInv /\ Accounts` |

The bounds on events, restarts, switches and ticks are constants like the
others: what is proved holds for any number of them. Where an argument is by
induction over numbers or along a sequence, it takes a least counterexample
instead (`FirstIsOne`, `LeastIsOne`, from the well-foundedness of `<`), since
the induction theorems of the library take an operator.

The folds of `FrameLog` and `DeviceStream` (sizes, times, lines joined, cells but
separators), and in `UnitDevice` the order of the features and the filling of a
device, are functions defined by recursion on a number. Two lemmas make them
usable: `UpTo`, a set of numbers that has 0 and with each number below `n` the next
one has all up to `n`; and `RunExists`, that a function which takes a given step
from each number to the next exists. From these each fold has a lemma that says
how it begins and goes on (`TotalIs`, `LastTimeIs`, `FlattenIs`, `SolidIs`,
`MarksAmongIs`, `FillingIs`) and lemmas on what appending or dropping does to it.

### The mirror

`CloudMirrorProofs` proves, for every `Capacity` (`CapacityAssumption`: a
positive number) and every `MaxFrames` and `MaxFaults` (`BoundsAssumption`:
natural numbers), the five safety properties the `CloudMirror` run checks. 897
obligations; `tlapm CloudMirrorProofs.tla`.

| Theorem | States |
|---|---|
| `TypeCorrect` | `TypeOK` always holds; in particular the queue never exceeds its capacity |
| `StoppedMirrorIsClosed` | `StoppedIsClosed` always holds |
| `LineInvariant` | the inductive invariant `Typed /\ Order` |
| `QueueHoldsTheNewest` | `QueueIsTheNewest` always holds |
| `MirrorIsOrdered` | the mirror implements `OrderedRelay` |
| `NoFrameVanishes` | `NothingVanishes` always holds |

The argument. That the worker has a frame in hand exactly where it works on one
(`HandFull`) is part of `Typed`; `StoppedIsClosed` holds because `conn` is set
to `none` in the only action that ends in `stopped` and `Connected`, the only
one that opens a connection, leaves `connect`. Order needs more than the queue,
because a frame travels from the queue into the hand, onto the wire and to the
cloud, so `Order` puts all of them on *one line*. `Low` is the newest frame
that has left the queue: the queue is the frames after it, without a gap
(`QueueFollows`), and everything dropped at the full queue is at most `Low`.
`Ceiling` is the frame in hand, or `Low` when the hand is empty: the wire rises
from the newest frame the cloud has read to at most `Ceiling` (`WireOrdered`,
`ReceivedBelow`). The comparisons are not strict: a frame whose drain failed
may have arrived and is sent again, so the frame in hand may equal the last one
on the wire. What matters is that a retry keeps it in hand, so nothing newer
can pass it; a requeue would break the line at once (mutant `RetryRequeues`).
The refinement follows: only `CloudReads` changes what the relay sees beside
`Enqueue`, and it appends the head of the wire, which the line puts at or above
all received. For `NoFrameVanishes` the invariant is `Accounted /\
WrittenOnce`: every frame up to `Low` is in one of the `Places` or in hand, and
the one being drained has been written; the places only pass frames on
(`PlacesGrow`).

### Consumption

`ConsumptionProofs` proves, for all rates, every cap, every earlier value of the
sensors and every number of ticks and events (`ConsumptionAssumption`), the
properties of the `Consumption` run. 1,369 obligations.

| Theorem | States |
|---|---|
| `CountersTyped` | `TypeOK` always holds: no counter is ever negative |
| `TrackerIsAMeter` | the tracker implements `DoseMeter` |
| `EstimateNotAhead` | `NoPhantomDose` always holds |
| `EstimateNotBehind` | `NoDoseLost` always holds |

The argument. `Typed` adds to `TypeOK` that a tracker that has seen a pump on
remembers a rate of the unit's (`Remembers`). For the meter it takes that what
no tracker holds no store has either (`Untracked`); then each frame is a
`Dose`, by `CreditFacts`: a credit is a product of a rate and an interval cut
to `0..Cap`. The bounds need to know what the *open* gap will be credited when
it ends. `Ahead(c)` says that, as long as nothing that can make the estimate
run ahead has happened in the gap (`SteadyOver`), the pump still runs at the
rate the tracker remembers and the wall clock has not run ahead of it since it
saw it on, so that what it will credit has been dosed; and that the file, too,
is within the bound (`SavedOver`), since a restart brings it back. `Behind(c)`
is the mirror image with the open gap as its slack (`SteadyUnder`,
`SavedUnder`). Neither bound is inductive without these: a frame adds a credit
for time that has passed before. A crash sets both counters and the history
back to the file, where they agree.

### The entry and its units

`EntryUnitsProofs`, for any sets of units, platforms and features, whichever
platform a feature is on, any set of frames that includes one that shows
everything, and any former keys (`PlatformAssumption`, `FrameAssumption`,
`RenamedAssumption`, `BoundAssumption`).

| Theorem | States |
|---|---|
| `EntryIsTyped` | `TypeOK` always holds |
| `SetUpIsSingle` | `OneSetUp` always holds |
| `NoEntityLeftOut` | `NoneLeftOut` always holds |
| `EntryKeepsPromise` | the entry implements `EntityOffer` |

The argument. `EntryInv` is `TypeOK` with three parts. `DownIsQuiet`: an entry
that is down has no task and no set-up, knows no unit and has no listener; a
set-up that begins therefore starts from nothing. `NoneFormer`: where a former
key is left, the new one is not registered and the platform is not up, so a
rename never meets two entries. `KnownRegistered`: of the known units, the
entities of a listening platform that is up are registered. The last is what
makes `NoneLeftOut` inductive: a frame of a known unit only *changes* entities,
and would leave out one that an earlier path had not registered. Two lemmas,
`NewDeviceEffect` and its like for new features, say entity by entity what a
frame does to the registry; every step is then a stutter, an `Offer`, a
`Refuse` or an `Accept` of the promise, given that what a known unit shows has
arrived (`ShownHasArrived`).

### The device of a unit

`EntryUnitsProofs`, its second part, for any units (`Kinds`) of the mapped models,
whichever bytes a frame has filled in, any relays, settings, ports, outputs and
probes. `UnitDevice` needs no assumption: its other constants are sets of what a
frame may have, and the readings answer for whatever is in them.

| Theorem | States |
|---|---|
| `PlacesOfTheirOwn` | `PlacesReadOnce` always holds |
| `NothingFormerShown` | `NothingOfTheFormerSetUp` always holds |
| `ShownRuns` | `RunningIsTrue` always holds |
| `ShownStays` | every step satisfies `ShownForGood` |

The argument. `DeviceInv`: the stored device is what the last frame of a mapped
type was decoded into, with the features that all such frames have shown. It is
inductive because the store overwrites every field; `ShownForGood` follows, and
what remains is about one frame (`StoredSound`).

`Filling` is a function defined by recursion, `FillingIs` says how it begins and
goes on, and `FillingSound` takes `Sound` along the features with `UpTo`, one
step at a time (`FillStep`): every quantity so far is `Owned`, a value belongs to
a quantity that is present, of the setpoints only that of the probes is, of two
chemicals on one port one, and a third pump is on only with a flow rate.

`Owned` is what keeps the quantities apart. `Owner` gives each bit of a v7 row
(`RowOwner`) and each entry of a v8 frame (`EntryOwner`) to one quantity: by the
model, since row 99 is oxygen on one and chlorine on another; by the probes, for
row 53; and by what the shared port is set to. A reading takes only places whose
owner is its quantity, or the one it is told from (`Owners`); `V7Owned` and
`V8Owned` show this reading by reading, `ReadOwned` of what a profile lists.
`OwnedTogether` then gives `PlacesReadOnce`: two quantities that share a place
share an owner, and those that do are `OneByDesign`.

The order matters twice: a pump reads its flow rate off the device, and the
filter of a HOME the menu. `OrderedInOrder` proves of `_ordered`, for every list
of features, that what is decoded is listed and behind what it depends on, if
that is listed too; `RatesRead` and `MenuTold` carry what was read before to
where it is needed (`FillStep`, `MenuStep`). Without the order they do not hold, which the mutant
`OrderedAsListed` shows.

### Persistence

`StoreProofs`, its first half, for all delays in the code's order
(`DelaysAssumption`) and any number of coordinators (`SetupsAssumption`).

| Theorem | States |
|---|---|
| `MarksReachTheFile` | `MarkSoonSaved` always holds |
| `SaveIsNotPostponed` | `NotPostponed` always holds |
| `CrashLossIsBounded` | `LossIsBounded` always holds |
| `SavedStaysInFile` | every step satisfies `FileKeepsSaved` |

The argument. What Home Assistant's Store does with a request is a lemma
(`DelaySaveEffect`), and every step is one of a few kinds (`StepKinds`): a
request passed on or held back, a write, a request that comes to a replaced
coordinator (`AstrayEffect`), a successor that takes the file over, or none of
these. `SaveInv` then relates the throttle to the timer: a pending
save is due within `Delay` of the last request passed on (`PendingThrottles`),
and with nothing pending all that was asked for is written, so that the next
frame that is held back came within an interval of a write
(`WrittenSinceAsked`). The contents follow: outside of `late` only the current
coordinator has something to write (`OldSettled`), and it holds all the file
has (`FileHeld`) and all marks (`MarksHeld`); neither is inductive without the
other, because a predecessor's late write takes the file back. `NotPostponed`
first failed to prove where the interval equals the delay, and there it is
false; the assumption is strict since.

### Frame log

`StoreProofs`, its second half, for every ceiling of at least two chunks, every
batch, chunk and list length, lines of any length, any steps of the clock and any
number of records (`SizesAssumption`). Sizes are whatever the lines give, so the
long line that passes the ceiling alone is included.

| Theorem | States |
|---|---|
| `LogCeiling` | `Ceiling` always holds |
| `LogHoldsTheNewest` | `HeldIsTheNewest` always holds |
| `LogFlagsTrue` | `FrameFlagTrue` always holds |
| `LogReloadExact` | every step satisfies `ReloadExact` |

The argument. `LogInv` says the same of the log in memory and of the one in the
Store (`Sound`), since a reload makes the latter the former:

* `Within`: its parts fit each other (`Shaped`: the pending lines are the last of
  the open chunk, an open chunk without lines has no size and no times, each chunk
  begins with a line that has its time, which is in `times`), batch and open chunk
  are below their limits (`Small`), and the size is within the ceiling.
  `EnforceCap` alone gives the last, whatever came before it (`CapWithin`), and
  the rest survives the loss of chunks (`WithoutOldestShaped`).
* `Kept`: its lines are the end of the tape, and a reader gets each one's time to
  within half a tenth (`Holds`). That the error does not add up is one lemma:
  the difference is taken from the time a reader has for the line before, which
  `last` is.
* `Chains(l) # {}`: the open chunk came about line by line over the chunks there
  are *now*, within the ceiling all the time, whichever chunks have been dropped
  since (`AddedRest`). Encoding it again therefore passes through the same logs
  and ends in the same one (`RestoredIs`), because the difference of two times a
  reader gets is a whole number of tenths and is not rounded again
  (`RoundedTwice`, for which the tenth is an odd number of ticks). Without the
  chain a reload could seal or drop in another place, which is what
  `ReloadExact` is about; `Load` is then the identity on the saved log.
* `EachFits(tape)` implies something is held: a chunk is sealed before its lines pass
  the ceiling, and the newest sealed chunk fits by itself (`BatchFits`,
  `OpenFits`, `NewestStays`).
* `Marked`: each listed case has its record's place on the tape, and its time to
  within half a tenth; a list that is rebuilt has the times a reader gets
  (`SoundUnlisted`).

While the clock has not been set back, `Ahead` holds besides: the tape is in the
order of time (`Steady`), a line is read no earlier than any chunk before it
begins (`Forward`), and a case is no earlier than a chunk that begins at its record
or before (`MarkedForward`). This is what `FrameFlagTrue` needs of the code's
comparison of a case's time with the oldest chunk's.

### Recording

`RecordingProofs`, for any finite set of uploads and dumps, any units they wait
for, any caps and any number of switches and deletes (`RequestsAssumption`,
`LimitsAssumption`, `SwitchesAssumption`).

| Theorem | States |
|---|---|
| `RecordingIsTyped` | the state is typed |
| `MarksStayInTheirRecording` | `NeverInAnotherRecording` always holds |
| `DownloadedCasesAreHeld` | `DownloadedMeansHeld` always holds |
| `EveryPhotoHasItsUpload` | `NoOrphanPhoto` always holds |
| `WaitedMarksFollowTheirFrame` | `WaitedMarkFollowsFrame` always holds |

The argument. `Stages` says where each request is: one whose recording has
ended holds an old generation, and one that holds the present one waits in a
recording that is on and has not been cleared under it. So the comparison of
generations that the code makes is the right one, at every await.
`TapeInOrder` uses this for the frame that released a request: it is still on
the tape whenever its mark may follow (`Answered`). `Downloads` keeps the case
list in the order of its numbers, below the next one, so that "downloaded
through n" is about the same cases the zip was made from (`ZipCovers`), even
when marks come during the download. `Folder` says that no two photos have one
name and that each belongs to a request that has marked, still waits, or is
deleting it; that a fresh name exists at all is `FreeNameEffect`, by a
least-number argument. An upload that was cut short keeps its photo's name, so
`Folder` follows it too, and each failed save is counted against the cap
(`SaveFailsEffect`): it is a request of its own, so that the folder is within its
limit by as many as there are. `Numbered` counts: as many numbers are given as requests
have marked, which bounds the sequence.

### Backwash tracker

`BackwashTrackerProofs`, for every length of a day, every set of schedules,
clock offsets and typed-in moments, tolerances less than half a day
(`DayAssumption`, `SchedulesAssumption`, `ClockAssumption`,
`ToleranceAssumption`) and a `None` that lies before all of them
(`NoneAssumption`).

| Theorem | States |
|---|---|
| `RecordIsOfOnePiece` | the state is typed, its records are consistent |
| `FileKeepsUp` | `DiskMatches` always holds |
| `TypedDateStays` | `EntryIsNotLost` always holds |
| `FileNeverGoesBack` | every step satisfies `HistoryKept` |
| `OwnCycleIsFiled` | every step satisfies `OwnCycleRecognised` |
| `ProjectionIsInPhase` | `ProjectionFollowsUnit` always holds |

The argument has two halves. `RecordInv` is about the Store: a tracker that has
not read its file has learnt nothing (`Flags`), so that the file can only be
behind (`NotBehind`) and differs from memory only while a save is under way
(`Saved`); `EntrySafe` follows a typed-in date through both. `CycleInv` is about
time: the unit opens its valve on a slot of its phase (`RunsItsSchedule`), an
open window keeps the offset it began with, which puts its start within the
tolerance of that slot (`SlotWasSeen`), and both records are in phase
(`InPhase`). `DayBounds`, `SlotIs` and `NearestOf` are the arithmetic: two slots
are a day apart, so within less than half a day there is only one, which is
where `2 * OffsetTol < Day` is needed. The projection is then a whole
number of intervals from a day of the phase (`NextScheduled`, in closed form,
for which `WholeIntervals` is the lemma).

That a frame teaches the tracker nothing false unless the frame itself misleads it
is `LearnsThePhase`. It rests on three lemmas about what the tracker has made of the
frame: a verdict is filed with the cycle it is about, so that nothing is filled in
later from an older one (`VerdictIsFiled`); a restart day that changes is the unit's
phase, given that the offset shows the unit's day (`RestartIsSeen`); and a cycle
taken for scheduled is one that the unit opened on a slot, of the schedule it has
now (`CycleIsSeen`), for which the window remembers what offset the frame told that
opened it (`OffsetIsTold`, `OffsetWasTold`).

Three attempts failed for a good reason. `InPhase` is not inductive when the
unit's schedule goes back to one that a record or an open window still has, or
when a scheduled cycle is stored without its slot; TLC confirms both, and
`misled` covers them since. And a typed-in date did not survive a save after a
read that failed (`backwash.py:354`, below).

### Device server

`DeviceServerProofs`, for any number of units, server objects and sockets
(`BoundsAssumption`, `NoneAssumption`).

| Theorem | States |
|---|---|
| `ServerIsTyped` | `TypeOK` always holds, overlapping calls included |
| `LoadedEntryListens` | `LoadedIsListening` always holds |
| `UnloadedLeavesNothing` | `NobodyServed` always holds |

The argument. `ServerInv` holds in every interleaving: a caller that keeps the
loop is not at an await and only one is (`LoopKept`), what a call works on has
been made (`WorksOnMade`), and connections are on sockets that were opened, of
which one at most is open (`Connections`: there is one address). `SerialInv`
adds what holds until two calls overlap: the object in a call's hands is the
registered one, an open socket is the one its `_server` names or is about to
name, and between `bind` and `assign` nothing else may close it (`OneServer`);
`LoadedServer` ties this to the entry, through the one state in which a loaded
entry has no server, a flow that has asked for a reload.

### One connection

`DeviceStreamProofs`, for streams of any length that a unit may send
(`StreamsAssumption`), every way TCP cuts them and any limit of the reader
(`LimitAssumption`).

| Theorem | States |
|---|---|
| `MixedFramesEnd` | `MixedFrameEndsConnection` always holds |
| `FramesComeInTurn` | `NoFrameSkipped` always holds |
| `NoByteIsLost` | `NoByteLost` always holds |

The argument. `InHand`: the bytes in hand are the last ones read, in place, so
they can be spoken of by their position in the stream. `Handed`: a v8 frame
handed on is one line of one frame, a line without its end is the last one,
before a hang-up, and a v7 frame that is not whole closes the connection.
`Consecutive` is what is wanted of the numbers, and is inductive with
`NextInTurn`: no frame begins between the one handed on last and the bytes in
hand. `_sync_frame` keeps that because it looks for the *first* start of a
frame in hand, and the rewind because it moves bytes only within the message.

`Accounts` adds where the bytes are. Everything that has been put away, frames
handed on, kept fragment and rejected bytes in this order, is the `Ledger`; on a
clean stream it is, but for separators, the stream up to the bytes in hand. What is carried behind a refused
frame comes between the two, and since the connection is closed then nothing
follows it. Each action then either moves nothing (`NothingMoved`) or moves a piece from the hand
to the end of the ledger (`PieceMoved`, `PutAway`), and what it skips on the way
is separators (`SkippedAreBlank`); `SolidJoin` puts the pieces together. For the
last two `Accounts` needs `AtStart`: a message is begun where a frame or a
separator begins. That is why the rewind finds nothing to rewind on a clean
stream (`InPlaceOnClean`), and why the v8 signature, where it comes later in the
message, has only separators before it.

### Only model-checked

* Liveness: `BacklogDrains`, `HandledAtOnce`, `StopEnds`, `EverythingAppears`.
  The proof system reaches neither ENABLED nor fairness.

## Where the code and its comments differ

Two have a run of their own whose single property states what the comment says,
and which TLC violates; `PROJECT.json` quotes the lines.

* `RecordingPhotoLost`: the delete view clears the log on the loop and the
  photos in the executor afterwards; an upload of the next recording that saves
  its photo in between keeps its case and loses its photo.
* `UnitDeviceSaltDose`: a v7 SALT of the DOSE kind (type 15) gets no setpoint.
  `configuration.py:37` adds DOSE where bit 0x04 of `byte[4]` is clear, and that
  bit is part of every SALT type (0x0C), so none of the three readings of
  `byte[53]` answers.

The models show six more, which have no run:

* `backwash.py:354`: "until then nothing is saved" does not hold when the
  Store's read raises: the `finally` clause clears the loading flag and the
  next save replaces the stored history (`LoadError`, then `Save`).
* `coordinator.py:632`: "the store also writes the latest state when Home
  Assistant stops" holds only while a save is pending; throttled frames ask for
  none (`FinalWrite` without `DelaySave`).
* `coordinator.py:698` asks the coordinator a mark began with, which a reload of the
  entry may have replaced while the mark waited: its recording is still on. The
  mark goes into the old log, and 5 s later the old Store writes this over the
  file of the new coordinator, though "the frame log and its recording switch
  survive restarts and updates" (`docs/troubleshooting.md:112`;
  `MarkOfReplaced`, then `Due`).
* `photos.py:4-6`: "photo and frames line up". An upload whose body comes in while
  recording is off notes the generation after the switch-off. A frame that comes
  then ends its wait and is not logged; switched on before the upload resumes, the
  mark says it waited and the log has no such frame.
* `config_flow.py:86-87`: "a test bind would stop the live server" is the reason for
  a check that is made before the test's `create`. An entry's set-up that is
  binding at that time has its server handed to the test, whose `remove` stops it
  once the entry is loaded (`overlap`).
* `server.py:122`: "disconnect all clients" misses a unit that connects while
  `stop` waits for the others; its handler keeps delivering.

Smaller observations made while modelling, with no run of their own:

* `server.py:328-329` and `339-341`: the branch that splits an initial read
  longer than a message, and the one for a short v8 frame right before a
  hang-up, are not reached by any stream of `DeviceStream`: `_read_initial`
  returns at 120 bytes or at a whole v8 frame.
* `frame_log.py:248-253`: the open chunk "alone passes the cap -- not
  reachable" while records are small. A v8 line is bounded only by the stream
  reader's limit, 64 KiB, and pending lines count in full, so it is reachable.
  The code below the comment holds the ceiling even then, and `FrameLog` takes
  this path.
* `photos.py:116`: a refused upload deletes its photo by name. After a delete
  the name may belong to another upload of the same second and note.
* `server.py:288-289`: a v8 frame the decoder refuses ends the connection with the
  bytes of the next frame carried over; they go neither to the fragments nor to the
  rejected bytes.
* `photos.py:84`: an error or a cancelled request after the name was claimed, or a
  stop before the mark, leaves a photo in the folder that no mark names, until the
  cap or a delete takes it.
* `backwash.py:596`: the unit's day of a changed schedule is worked out with an
  offset that may lag behind the unit's clock; near midnight it is another day
  (`ChangeSeenLate`).
* `__init__.py:235-242`: an exception between `create` and the end of the set-up
  would leave a server registered for an entry that is not loaded. Nothing there
  is known to raise.
* `late` in `ThrottledStore`, for a frame, and `Stranded` in `EntryUnits`, above.
* The v7 HOME profile lists the algicide's flow rate as not located, and the
  pump's reading asks for it, so `algaecide_pump_running` is never present on a
  HOME, though `README.md:63` lists the algicide's pump among its states.
* A v7 PROFI with word 18 unset reads redox and free chlorine both from word 16
  (`OneByDesign`); no frame of a PROFI is known.
* A v8 SALT that does not send `fncs[6]` is offered both chemicals' entities:
  `None` counts as present.

## Not modelled

* **Clock tracker**: three samples, a median and a hysteresis with no step of
  another actor in between. The offset it publishes, and that it is wrong for a
  while after a clock jumps, is in `BackwashTracker`.
* **Decoding**: the parsing of a frame's bytes and text, checksums, the
  arithmetic and names of values, evidence and flags; v8 tokens that are
  unreadable. `ph_plus_*` quantities, which no profile lists.
* **Platforms**: the descriptions (unit, icon, value function), which are data;
  the removal of keys that no quantity has any more. **Devices**: `online` and
  the connection state, which are functions of the clock.
* **Diagnostics, card, constants, translations, scripts**: they read or are
  data. The card's requests are the requests of `Recording`.
* In `CloudMirror`: a close that never ends (`wait_closed` on a dead connection),
  and the length of the back-off.
* In `DeviceServer`: a second entry (the flow admits one), `remove_all`, a set-up
  that fails after its server listens. In
  `DeviceStream`: plausibility hints and once-only warnings, which change no
  frame. In `BackwashTracker`: Home Assistant's changes of summer and winter
  time, other than as a clock that jumps.

## Plan

Done: all modules above and their runs; proofs of every safety and action property
the runs check.

Left: `Recording` and `ThrottledStore` share the frame log's Store; a statement
that joins them (a mark of a recording is in the file after its delay) would
follow from the theorems of both.
