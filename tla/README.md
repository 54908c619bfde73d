# Luxel in TLA+

A formal model of the Luxel LED-controller firmware (`firmware/`, `crates/`): what runs on an
ESP32-class chip with two cores, one SPI flash chip shared by everything, and a power cord that
may be pulled at any moment. The modules here are translated from the source; where a comment or
a document says something else, the source is what is modelled and the difference is listed under
*Disagreements*.

- [1. The system](#1-the-system): components, state, operations, hazards, what makes each correct
- [2. Plan](#2-plan)
- [3. Modules and how they correspond to the code](#3-modules)
- [4. Abstractions](#4-abstractions)
- [5. Runs, bounds and fairness](#5-runs-bounds-and-fairness)
- [6. Proofs](#6-proofs)
- [7. Disagreements between code and words](#7-disagreements)
- [8. Not modelled](#8-not-modelled)

Run a check with `tlc -config store_cuts.cfg MCPatternStore` (section 5 lists module and cfg of
each run), a proof with `tlapm PatternStoreProofs.tla`.

## 1. The system

Paths are below `firmware/src/` unless another directory is given.

### Who runs where

Core 0 runs the embassy executor: web tasks (one per HTTP or WebSocket connection), network input,
MQTT, the OTA handlers, all of which are asynchronous and interleave at `.await`. The render task
runs on core 0 or core 1, depending on the chip; the LED output task is its consumer. Both cores
execute code from flash, and the compiled patterns of the library are *executed in place* from
their mapped flash pages. So every flash write concerns everybody: it stops the other core (the
fence), it must not change bytes somebody executes (the pins), and it may be refused because an
update holds the driver (the lease).

    web task --Msg queue--> render task --one buffer--> output task --> RMT/SPI/HUB75 DMA
       |                        |  executes in place
       v                        v
    pattern store  ==========  flash  ==========  OTA, boot guard, migration, key area
       |  StoreWrite/MapRead guard, OTA_ACTIVE lease, fence (park core 1), watchdog gate

### Components

**Pattern log** (`patlog.rs`). *State*: a flash region of pages: header + payload records, each
with a commit word and a dead word programmed later. *Operations*: `scan` (skip what is no whole
record, one word at a time), `place` and `place_free` (tail or hole, stepping over pinned pages),
`plan` (where each kept file goes in a compaction), `build_page` (the bytes of one destination
page, taken from pages above or from itself), `sweep_pages`, `free_run_after`. *Hard*: sources and
destinations of a repack overlap; stale headers overlap new files; page boundaries. *Correct when*
a scan finds exactly the whole files whatever else is in the region, a plan exists for every log,
keeps every file and the frozen pages, and a placement never erases a page some file lives on.

**Pattern store executor** (`patterns.rs`). *State*: `INDEX`, `CURSOR`, `FREE_HINT`, `NEXT_SEQ`,
`NEXT_STAMP`, the pin slots. *Operations*: reload at boot, save (append, retire the old version),
delete, get, compaction, pin and unpin. *Interacts* with the render task (pins, execution in
place), the updater (`OTA_ACTIVE` refuses or spoils an operation), the key area (driver leased).
*Hard*: web tasks interleave at every await; power fails between any two flash operations and
inside one; one of several operations fails; the log is full. *Correct when* a reboot finds what
was acknowledged, RAM is what a reload would give, no dead word hits an innocent file, nothing an
engine executes changes under it.

**Store guard** (`patterns.rs`, `StoreWrite`, `MapRead`). *State*: `BUSY` (0, a count of readers,
or `WRITER`), `BUSY_LOCK`. *Operations*: bounded acquire of both kinds, the two `Drop`s. *Correct
when* a writer is alone, the count is never lost and every wait ends.

**OTA and boot guard** (`ota.rs`, `appimg.rs`). *State*: otadata (two sectors), two application
slots, the guard record (failed boots, force-AP, takeover retries), `OTA_ACTIVE`. *Operations*:
claim, write with lazy erase and a held-back head, verify, switch, drop; preboot guard with its
three strikes and rollback, confirm. *Hard*: cuts between the up to three writes of a switch and
between erase and rewrite of the guard record; the roll-back target may be an aborted upload.
*Correct when* whatever is cut, the bootloader finds a bootable slot, and a firmware that never
confirms does not stay.

**Layout migration** (`migrate.rs`, `parttab.rs`). *State*: staging header with its stages, old
and new partition table, `OTA_HOLD`. *Operations*: stage, store, table, otadata, resume. *Hard*:
every stage may be cut and re-run; the new store overlaps the old log in some layouts. *Correct
when* no cut loses a pattern or the ability to boot, and nothing acknowledged later is overwritten
by a resume.

**Foreign-firmware takeover** (`takeover.rs`, `wledfs.rs`, `pbfs.rs`, `pbnvs.rs`). *State*: retry
count kept over reboots. *Operations*: recognise, copy, settle or reboot to retry. *Correct when*
it ends and never overwrites the source before its copy is whole.

**Flash fence** (`core1.rs`). *State*: `FENCE`, `PARK_REQ`, `PARKED`, interrupt masks. *Operations*:
acquire (wait for a transfer, lock, ask the other core to park, time out), drop. *Correct when* no
core executes from flash while it is written, and two cores that fence at once both get through.

**AppCpu watchdog gate** (`appwdt.rs`). *State*: heartbeat, lateness credit, tripped. *Correct
when* a live core never trips it, a wedged one does, and the 32-bit wrap makes no difference.

**Frame hand-off pipeline** (`pipeline.rs`). *State*: the slot of the one travelling buffer,
sequence counters. *Operations*: publish, claim, steal back, claim paced, drop. *Correct when* the
buffer has one owner at all times and is never lost, frames come in order.

**HUB75 ring** (`hub75_ring.rs`, `crates/luxel-hub75/src/ring.rs`). *State*: descriptor ring, fill
position, DMA position. *Operations*: claim, fill, release, the late rule. *Correct when* a slot
being read by the DMA is never written, and a late filler catches up.

**HUB75 driver** (`hub75.rs`, rest of `crates/luxel-hub75`). Bit planes and panel arithmetic.

**Playback state** (`resume.rs`, `playlist.rs`, `textslots.rs`). *State*: the playlist and its `PLAYING`
and `INDEX`, the wake-up queue `CMD`; `ACTIVE`, `CURRENT_PATTERN_ID` and `CURRENT_CONTROLS`, which say
what is on screen; `DIRTY` and the record on flash. *Operations*: play, stop, step, post a list,
advance on an item's timer; mark, debounced write, apply at boot. *Hard*: three tasks and the
handlers change what is shown through one bounded queue, and identity is stamped only where the
queue ends. *Correct when* what a boot shows is what was last on screen for the quiet time, a playlist takes
precedence, and no command is lost. Text slots ride on the same debounce.

**Scenes and layers** (`scenes.rs`, `scenestore.rs`, `layers.rs`). *State*: scene list, layers of
the live scene and their pins. *Correct when* a scene names only what exists or degrades, and a
layer executes only pinned files.

**Live network input** (`netin.rs`). *State*: freshness mark (0 = never), protocol tag. *Correct
when* live input takes over and releases at the time-out, also when the clock wraps.

**Server** (`server.rs`). Requests in, store calls and `Msg`s out; no state of its own.

**Render task and queue** (`main.rs`, `shared.rs`). *State*: running engine, fading engine, shared
`Settings`. *Operations*: one per message; a library swap pins, decodes, installs, later ends the
fade. *Correct when* at every instant what it decodes, runs or fades is pinned.

**Engine** (`crates/luxel-core`: compiler, bytecode, VM), **JIT** (`crates/luxel-jit`, `jit.rs`), **compositor, layout, output
maths**, **memory budget and arenas**, **MQTT, provisioning, time, sensors**, **browser and host
builds**: sequential computation, hardware set-up or I/O; see section 8.

## 2. Plan

Most important first: what a user loses for good (the library), then what bricks the device (boot
and update), then what freezes it (cores, buffers), then what merely looks wrong.

| stage | modules | questions | theorems |
|---|---|---|---|
| 1, done | `PatLog`, `PatLogCheck`, `PatternStore`, `StoreRefinement` over `DurableStore`, `StoreGuard` | what does a reboot find; what may a second task or a compaction do to a file | guard; scan, plan and room of the log; compaction; frozen pages; whole files, dead words; RAM against flash; promises; the refinement of `DurableStore` |
| 2, done | `BootChain`, composed with migration and takeover in `Migration` | some slot always boots; an image that fails goes back; every stop of a migration resumes; nothing acknowledged is lost | the running slot, bootability, the guard record, the library |
| 3, done | `Fence`, `StallWatch`, `Pipeline` | nobody executes while flash is written; fence and buffer always come back; a healthy board is not reset | exclusion, masking and the bus; one owner of the buffer, every frame accounted for; both directions of the watchdog |
| 4, done | `RingQueue`; `Playback` (resume, playlist, queue) | no frame is packed while it is read; a boot shows the last picture | the ring; commands, pushes and reboots of playback |
| open | `NetIn`, the freshness mark over a wrapping clock; `PatternStore` gains replace-by-seq (sprites) and the layer pins 3..10 | the same properties | the refinement of `DurableStore` with refused operations |

The modules meet at few points, and each is checked at its own: `PatternStore` sees the update as
`ota` and the fence as one indivisible flash operation, which is what `Fence` checks; `Migration`
sees the store as the number of the last acknowledged save, which is what `DurableStore` promises;
`StallWatch` sees the fence as bursts; `RingQueue` begins where `Pipeline` hands a frame to the
panel; `Playback` sees the store as the set of ids that exist. No other variable is shared, so each
has runs of its own.

## 3. Modules

### `PatLog` - the log (patlog.rs)

Pure operators on `flash \in [Units -> cell]`, no state. `Scan` is the set of offsets at which a
whole, committed record starts when the walk of `scan` reaches them; `ScanCursor`, `Place`,
`PlaceFree`, `Plan`/`PlanHolds`, `BuildPage`, `SweepPages`, `FreeRunAfter` are the functions of
the same names. They are written as sets and quantifiers, as definitions a proof can use.

### `PatLogCheck` - those operators against the loops

A small machine that builds every log of a few files with gaps, junk and dead records, picks the
pins and repacks page by page. Its invariants compare the declarative operators with the loops of
the source written out as recursive functions (`Walk`, `Stepped`), and state what the executor
relies on. `NextFile` and `LogWith` build the logs; the rest is proved for every log (section 6).

### `PatternStore` - the executor (patterns.rs, with the swap of main.rs)

| variable | code |
|---|---|
| `flash` | the log region |
| `ram` | `INDEX`, `CURSOR`, `FREE_HINT`, `NEXT_SEQ`, `NEXT_STAMP`, `OVERFULL` |
| `ota` | `OTA_ACTIVE` |
| `req[c]` | locals of web task `c`: what it asked, the record it looked up before the guard |
| `holder` | who holds `StoreWrite` |
| `phase`, `job`, `plan`, `page`, `buf` | where the one transaction in flight is: locals of `save_rec`, `append_file`, `compact`, `delete_kind` |
| `engine`, `pins` | engines of the render task; `PINS[0..2]` and the current id |
| `promise`, `used` | auxiliary: what a client may expect under a name; how much of each bound is spent |

| actions | code |
|---|---|
| `RequestSave`, `RequestDelete`, `RequestGet` | what each handler reads before it waits |
| `GiveUp`, `GetCopy` | the guard refused; the guarded copy of a read |
| `BeginSave` | `save_rec` from the guard to the first flash operation: find the old version, place or decide to compact, refuse |
| `VacateOp`, `RewriteOp`, `SweepOp`, `Reload` | `compact`: erase a destination page, write it from the buffer, erase stale pages, rebuild RAM, look the old version up again |
| `AppendOp` | `append_file`: erase fresh pages, header, payload page by page, commit word |
| `Publish`, `RetireOp` | index, cursor and counters; dead word of the old version; the answer |
| `BeginDelete`, `DeleteOp` | `delete_kind` after the guard: dead word, index, answer |
| `SwapPin`, `SwapDecode`, `SwapInstall`, `FadeEnd` | the library swap of the render task |
| `OtaBegin`, `OtaEnd` | `OTA_ACTIVE` goes up at any moment, and down when an update failed |
| `PowerCut` | the power fails, possibly inside the operation due (`Torn`); `Boot` is the reload |

Each flash operation has the parameter `lost`: the driver was leased (a key-area transaction) and
the operation was not performed. An operation under `ota` is performed and yet reported as failed,
as in `write_at` (patterns.rs:1503), and the transaction takes its error path.

### `DurableStore`, `StoreRefinement` - what the store promises

`DurableStore` is a map from names to versions in which a request takes effect at one instant,
whole or not at all. `StoreRefinement` maps the flash to it: what is stored is what a reboot at
this very moment would find, what is pending are the requests being served. So the property says
that every intermediate flash state of an append, torn ones included, is one of the two versions.

### `StoreGuard` - the guard (patterns.rs, `take`, `StoreWrite`, `MapRead`)

`busy` is `BUSY`; `stage[t]` says what task `t` wants or holds, `tries[t]` how many attempts are
left. `take` with its lock is one step. `PatternStore` uses the guard as `holder`; that a writer
is alone, which this simplification takes as given, is what `StoreGuard` checks and proves.

### `BootChain`, `Migration` - what boots (ota.rs, appimg.rs, migrate.rs, takeover.rs, parttab.rs)

`BootChain` has the slots, otadata, the guard record, the update and the second-stage bootloader
(external); `Migration` extends it with what changes the partition table and with the power cut.

| variable | code |
|---|---|
| `slot` | the two app partitions, each `[head, body]`: first sector and the rest |
| `otadata` | the slots its valid entries name, newest first (the library behind ota.rs) |
| `guard` | `GuardRecord`: failed boots, the one-shot force-AP flag, takeover retries |
| `table` | the partition table: foreign, old, new, or torn: its sector erased, or written in part |
| `running` | `BOOTED_AT`, the slot the MMU maps |
| `phase` | how far this boot is: reset, guard, init, the stages of a migration, net, up |
| `upload`, `hold` | `OTA_ACTIVE` with the writer's progress; `OTA_HOLD` |
| `overlap` | whether the new store lies over the old log (the 4 MB layout) |
| `stage`, `staged`, `oldLog`, `newLog` | the staging header and the three copies of the library |
| `lib`, `aps`, `bad`, `tries`, `used` | history: acknowledged saves, access-point boots, failed boots, retries in a row, bounds |

| actions | code |
|---|---|
| `Bootloader` | external: newest entry, the other slot if that has no head |
| `CountBoot`, `RollBack`, `RollBackFails` | `preboot_guard` on boots 1, 2 and 3 in a row |
| `Panic`, `BootOk`, `Reboot`, `AskForAp`, `TakeForceAp` | a build that never reaches `boot_ok`; `boot_ok`; `reboot_task`; the force-AP flag set and taken |
| `Begin`, `FirstChunk`, `Stream`, `Abort`, `LandHead`, `Activate`, `ActivateFails` | `OtaWriter`: claim, lazy erase with the first sector held back, body, drop, verify and head, otadata; a write of otadata refused half-way through the switch |
| `SelfCopy`, `TakeoverCopyFails`, `Wipe`, `WipeFails`, `TakeoverInstall` | `takeover::run` with `retry_or_settle` |
| `SelfCopy`, `MigrateCopyFails`, `Settle`, `SettleFails` | `settle_into_ota0` |
| `StageLog`, `StoreLog`, `Mark`, `Install`, each with its `..Fails` | `stage_log`, `write_new_store`, `write_hdr` and `move_assets`, `install_table` |
| `Save` | a pattern acknowledged by the store |
| `PowerCut` | `CutIn..`: what each write leaves when it is interrupted |

### `Fence` - parking a core (core1.rs)

`pc[c]` is the thread-mode program of core `c`, `park[c]` the park routine that preempts it;
`fence`, `parkReq`, `parked`, `ready` are `FENCE`, `PARK_REQ`, `PARKED`, `PARKER_READY`; `masked`
is the core's interrupt mask, `held` and `before` the masks that a fence and a park restore.
`Acquire` is `Fence::acquire`, load by store, with its two time-outs; `Finish` the operation and
`Drop`, with the third; `Park` is `park` from the interrupt or inline from a spin-wait
(`park_if_asked`); `StartApp`, `InstallAppParker`, `Started`, `NoStack` are `start`; the rest is
ordinary code: critical sections and SPI transfers that outlive it.

### `StallWatch` - the watchdog gate (appwdt.rs, core1.rs)

`gate` is `StallWatch` field by field, `Judged` its `tick`; `TaskTurn` is a turn of
`watchdog_task`, `Fed` is `feed_watchdog`, `FenceFed` is `feed_from_fence`. Time is a second of
one of four kinds: `Free`, `Solid` (a burst that blocks the executor), `Yielding` (a burst that
lets it in), `Dead`. `Reset` is the RTC watchdog.

### `Pipeline` - one travelling buffer (pipeline.rs)

`free` and `ready` are `SLOT`, `stage` is `RenderSide.stage`, `vsync`, `dropped`, `last` the
statics of those names; `rend`, `out`, `prev` are the locals of `emit`/`emit_staged`, of the
output task and of the preview. Every `SLOT.lock` section is a step: `Claim`, `ClaimPaced`,
`ClaimTimeout`, `FillFails`, `Publish` of the render task; `Take`, `HoldDone`, `HoldTimeout`,
`WriteFrame`, `GiveBack` of the output task; `CopyChunk`, `Moved`, `Parked` of the preview.
`SwapLands` and `PanelDies` are the panel.

### `RingQueue` - ahead of the beam (ring.rs of luxel-hub75, hub75_ring.rs)

`next`, `newest`, `passFrame`, `stamp`, `lastPass` are `NEXT_FILL`, `NEWEST`, `PASS_FRAME`,
`SLOT_GEN` and `last_frame_pass`; `cop[c]` is a turn of `drain_cpu` on core `c`: `Turn` reads the
beam, `Load` the queue and decides (`Plan`: take, skip, reuse, stop, re-join), `Cas` claims, `Note`
stores `PASS_FRAME`, `Copy` fills the slot. `StartPack`, `StampFrame`, `PublishFrame`, `NotePass`
are `write_frame`. `held` is history: which frame's present content a slot shows.

### `Playback` - what is up and what comes back (playlist.rs, resume.rs, handlers, main.rs)

| variable | code |
|---|---|
| `flash` | the blobs under `RESUME_KEY`, `PLAYSTATE_KEY`, `PLAYLIST_KEY` |
| `library` | the ids that exist in pattern and scene store |
| `list`, `playing`, `index`, `cmd` | `PLAYLIST`, `PLAYING`, `INDEX`, the wake-ups waiting in `CMD` |
| `sched`, `resume` | where `playlist_task` and `resume_task` are, with the former's locals |
| `queue`, `outbox`, `turn` | `MSG_QUEUE`; what a task has still to send; the task the executor is in |
| `screen`, `active`, `current` | the engines of the render task; `ACTIVE`; `CURRENT_PATTERN_ID` |
| `mapped`, `remap` | whether a pixel map is installed; the mark `devicemap::mark_dirty` leaves, where there is none |
| `controls`, `dirty` | `CURRENT_CONTROLS`, `DIRTY` |
| `aimed`, `wanted`, `fresh`, `used` | history: the index last commanded, the id last asked for, no request since boot, bounds |

| actions | code |
|---|---|
| `Activate`, `Select`, `SaveScene`, `Control`, `PushCode`, `Resize`, `Freeze` | the handlers of server.rs, mqtt.rs and scenes.rs, up to their first send |
| `Play`, `Stop`, `Step`, `SetList`, `Delete` | `play`, `stop`, `step`, `set_from_wire`; a deletion that edits the playlist |
| `Send`, `Block` | `queue(..).await` with what follows it in the handler; the full queue |
| `Receive` | the message arms of the render loop: `SwapPattern`, `SwapScene`, `SwapCode`, `Rebuild` |
| `Remap` | what the loop does with that mark after the last message of a drain: without map and scene it drops the engine and builds it anew (main.rs:2256), at default controls |
| `Rest`, `NoItems`, `Enter`, `TakeCommand`, `Advance` | `playlist_task` from one await to the next |
| `StartResume`, `Apply`, `TooTight`, `SeeDirty`, `Persist` | `resume_task`: `apply_stored` with its wait for the heap; the debounce loop with `persist_now` |
| `Reboot` | a power cut or a reset: RAM is rebuilt from flash |

## 4. Abstractions

Store and log:

- **Flash** is `NumPages` pages of `PageSize` units; a record is one header unit and `len` payload
  units. Programming writes into erased cells (a cell written twice becomes junk unless equal), a
  page is erased whole.
- **A torn operation** leaves a prefix of its units done, then possibly one unit of junk. Commit
  and dead word are single aligned words, so they are there or not. Erase stops at any unit.
- **Payload bytes** are pairs (version, index): two versions never have equal bytes, a file is
  whole when all its units are its own. The FNV hash is taken to tell whole from torn.
- **Names** stand for (kind, name) pairs; each save writes a new version number.
- **One action** runs a task from an await to the next: at most one flash operation. Tasks of one
  executor interleave only at awaits; the render task on the other core may move between any two.
- **Counters** `NEXT_SEQ` and `NEXT_STAMP` do not wrap (2^32 saves exceed the life of the flash).
- **Refusals**: a save that finds no room, an index at `MAX_RECS`, an update in progress and a
  guard not obtained are modelled as the early returns they are; wording of answers is left out.
- **`Fresh`** is no condition of the code. With `StaleLookups = FALSE` it leaves out the schedules in
  which a delete or a read acts on a record that went stale while it waited for the guard, which is
  findings 1 and 7; with `TRUE` it is always true.
- **`promise`** is bookkeeping, read by no action: acknowledged = exactly that version; answered
  with an error or cut = the old or the new. For a cut in mid-compaction, files in `Exposed` may be
  gone, which is what the code gives (finding 4).

Boot and migration:

- **A slot is two cells**, its first sector and all the others, because that is what the code and
  the bootloader tell apart: a slot without a head is no image to anybody, a head over a foreign
  tail is loaded and asserts. A first sector written in part counts as no head.
- **The bootloader and the library that keeps otadata** are external; a write of otadata that is
  cut leaves one of `HalfErased`, `HalfSwitched`, `HalfMarked`.
- **The library of patterns** is the number of the last acknowledged save. It is assumed to fit the
  new store: when it does not, `plan_log` refuses before anything is written. Asset bundle and
  layout geometry are not told apart; credentials handed over by a takeover are left out.
- **`Install`** erases the sector of the partition table and writes it, in one step: a stop in either
  leaves no table a bootloader reads (`torn`). A cut after it meets the new table, before or inside
  the write of the guard record that follows.
- **`Faults`** names the six faults the code does not withstand: `copy` (a self-copy stops after its
  first sector), `staging` (staging stops under the old image's head), `header` (a staging header
  is lost in its rewrite), `settle` (a resuming boot cannot erase otadata), `wipe` (a config wipe
  fails past the guard record), `save` (a pattern is saved while a staged log waits). The passing
  run has none of them, every other stop of every operation; each is a finding (section 7), and
  the theorems name the ones they need excluded.

Cores and frames:

- **`Fence`** assumes that a pending, unmasked park interrupt is taken before the next thread-mode
  instruction (`Runs`). Panel blanking, the black box and statistics are left out. Time-outs happen
  only while their wait has not been met, `MaxSlow` of them in a behaviour.
- **`StallWatch`** counts seconds, with the periods scaled down in their order: tick < limit <
  watchdog, `Limit + Tick < Watchdog`. A timer that fires while the executor is free is served
  before the next second. `WedgeIsReset` is the bound `Limit + 2 * Tick + Watchdog`: the tick that
  saw the last stamp, the tick that trips, and the RTC watchdog's own period. Time in which the task
  was itself overdue is credited by the code and so not counted. One `Tick` of it is the rounding of
  the limit up to a whole number of ticks, which appwdt.rs:61 leaves out (section 7, at the end).
- **`Pipeline`** numbers frames and forgets pixels; a change of the pixel count, `release_stage` and
  `DirectSink` are left out.
- **`RingQueue`** is the CPU copy path. Its timing assumptions, in `BeamMoves` and `Prompt`: a copy
  takes less than a slot; a turn sees the beam move by at most `MaxAge`; a re-join is over before
  the beam moves; from a turn's look at `NEWEST` to its store in `PASS_FRAME` less time passes than
  to the next `write_frame`. Stamps are frames and not generation numbers (`StampFrame` forgets what
  is stale, as a fresh number would); which free frame is packed is any. Audits, the minimum fill,
  the blanking path and the GDMA copier (same claims, in a critical section) are left out.

Playback:

- **Timers are long.** The debounce and an item's time are seconds, what tasks do between them is
  milliseconds: `Persist` fires only when nothing is on its way (`Resting`).
- **`Lists`**, the playlists clients post, holds with a list what the deletion of a scene leaves of it.
- **A map** is installed or not for good (`mapped`). Without one, `Remap` is a step of its own after the
  queue has run empty; messages that come between belong to the same drain.
- **One control** with a default stands for the set of explicit ones; a scene is a base pattern and a
  whole, its upper layers are left out. A swap that finds no memory is a choice of the
  environment, as is the heap at boot.
- **`Mishaps`** names the eleven situations the code does not withstand, each of which breaks a property
  by itself: `empty` (a playing playlist runs out of items), `tie` (a command in the instant an item's
  time is up), `tweak` (a control set while nothing records it), `code` (code pushed while a scene is
  up), `resize` (a new pixel count while something plays), `starved` (a swap fails while the old stack
  stays), `revived` (the rebuild after a drain brings up the base pattern of a scene that was frozen, or
  whose successor failed, in that drain), and `early`, `gone`, `full`, `refused`. The passing run has none of them and section 7 says which
  contradict a text.

## 5. Runs, bounds and fairness

Every run is exhaustive for its bounds. `CHECK_DEADLOCK FALSE` is set where the requests are
bounded, so that the machine stops when all are spent; `guard` and `fence` check deadlock.

| run | module | instance | states | shows |
|---|---|---|---|---|
| `store_cuts` | `MCPatternStore` | 1 client, 2 names, 5 saves of 1 or 3 payload units, 3 pages of 3, 1 cut | 72 k | what a reboot finds is what was acknowledged; at any instant, in a compaction too, only the exposed files are at risk; one file per seq at `MAX_RECS`, and stamps that tell versions apart; a compaction makes its room and sweeps last |
| `store_tasks` | `MCPatternStore` | 2 clients, 5 saves, 1 delete, 1 get, 2 pages | 770 k | RAM is what a reload would give; dead words hit their own file; without the stale look-ups of findings 1 and 7 |
| `store_pins` | `MCPatternStore` | 1 client, 4 saves, 2 swaps, 1 refused operation, 1 update, 3 pages | 1.83 M | what decodes, runs and fades stays intact through compactions and updates; whatever was refused or reported as failed, the index names whole files; no frozen page is written; without the swaps in mid-compaction of finding 5 |
| `store_room` | `MCPatternStore` | 2 clients, 3 saves in 3 pages, which no schedule fills, 2 refused operations, 1 cut | 74 k | `ImplementsDurableStore` for appends |
| `patlog_check` | `PatLogCheck` | every log of up to 3 files, gaps up to 2, junk, dead, pinned, in 3 pages of 3 | 103 k | the operators are the loops; a plan exists and its pages, in order, keep every file; room is what it is said to be |
| `guard` | `MCStoreGuard` | 4 tasks, `WRITER` = 3, so that three readers reach the limit | 4 k | exclusion, an honest count, and that every wait ends |
| `boot` | `MCMigration` | all layouts and first contents; images that work and that crash; 2 uploads, 1 request for the access point, 1 save; 4 operations that fail or are cut | 1.53 M | always an image to boot, never the running slot written, an honest count of failed boots, the library kept, take-overs that give up, crash loops that end, migrations that finish |
| `fence` | `MCFence` | both cores at any time, transfers, 2 waits that time out | 51 k | one operation at a time, interrupts masked until the other core runs again, the bus for oneself when no wait timed out, and every fence released |
| `watch` | `MCStallWatch` | tick 2, limit 4, watchdog 7, bursts up to 8, a millisecond clock that wraps at 51 and a beat at 4 | 3.2 M | a loop that beats is never reset, one that stands still is within the bound, across every wrap |
| `pipeline` | `MCPipeline` | 4 frames, previews of 2 chunks with 1 restart, 2 waits that run out | 1.28 M | one owner of the buffer, every frame shown or counted, numbered copies whole, holds that end |
| `ring` | `MCRingQueue` | 4 frames; a full-frame ring and one shorter than a frame, both wrapping; a beam up to 1 ahead of the last look | 3.39 M | no frame packed while a copy or the rest of a pass reads it; a reused slot shows what a copy would |
| `playback` | `MCPlayback` | 4 records and 3 playlists, a scene over one of two patterns, with and without a map, 2 requests, 1 reboot, a queue of 2 | 1.63 M | what is up is what was asked for and what a reboot brings back; no command lost; a boot shows what flash names |

**Why the bounds are enough.** *Store*: with pages of three units, a file of size 2 leaves a partial
page, two of them straddle a boundary, one of size 4 covers a page and more; five saves of two
names fill three pages, compact, and append after the compaction, so that stale headers lie under
new files; two names and `MAX_RECS` = 2 reach the index limit. Two clients are all the interleavings
there are around one guard: a third can only wait as the second does. One cut reaches every torn
state; what a second one meets is again a log with stale, torn and overlapping records. *Boot*:
three failed boots in a row are one strike of the guard and four faults leave one more to hit the
boot after them; every first content is an initial state, so a behaviour need not produce it.
*Cores*: two cores is what the chip has; two time-outs let both sides give up. *Frames*: four
frames are one shown, one waiting, one rendered and one more to lose; four packed frames are what
the ring driver has. *Watchdog*: the scaled periods keep the order and the slack of the real ones,
and every wrap is met at every phase. *Playback*: the initial states hold everything earlier
requests could have left on flash; two requests put a command before, between and after the hand-over
of an item. The records are none, each pattern, one of them with a control set, and the scene; the
lists an empty one, a timed item alone and before a held scene.

Each run can fail: `PROJECT.json` names a plausible bug per property (operators marked `mutant`), a
dropped guard, an unpinned fade, a head written first, a mask lifted early, a wake-up forgotten.

**Bounds by name**: `MaxSaves`, `MaxDeletes`, `MaxGets`, `MaxSwaps`, `MaxUploads`, `MaxAsks`
(requests), `MaxLeases`, `MaxOtas`, `MaxCuts`, `MaxFaults`, `MaxSlow`, `MaxWaits`, `MaxBoots`
(faults), `MaxSeq`, `MaxBurst`, `MaxAge`, `Restarts`, `Chunks` (how long things go on); `MaxRecs` is the
code's `MAX_RECS`. Not bounds but classes of schedules are `SwapInCompaction`, `StaleLookups`,
`Faults`, `Contended`, `Shapes` and `Mishaps`: at their passing values the model leaves out those in
which a known disagreement would break everything else, so that the rest is still checked, and
section 7 says which value shows which. The hazards whose only schedules they leave out have no
property in `PROJECT.json`, but a note that names the finding.

**Fairness.**

- `StoreGuard`: each task's own step. A waiting task sits on a timer, which the executor polls
  again; a holder has a bounded number of bounded operations before its `Drop`. Asking is not fair,
  and nothing is assumed of who gets the guard.
- `Migration`: the boot code runs without waiting for anybody, so whatever it can do unattended
  happens. Faults, uploads and requests are not fair; `MigrationFinishes` asks for no more than that
  nobody interferes.
- `Fence`: each core's next instruction, the park interrupt, the transfer hardware and the start of
  the other core. Beginning a fence is not fair.
- `Pipeline`: the output task is polled, and its hold has a timer. The panel need not take a frame.
- `Playback`: the executor polls a task that is ready, and the render loop drains its queue. Item
  timers, the debounce and all requests are not fair.
- The store, the ring and the watchdog have safety properties only: a transaction is a finite
  sequence, and `WedgeIsReset` is a bound.

## 6. Proofs

TLAPS checks, with no omitted step, for every value of the constants their assumptions allow:

- **`FlashLockProofs`**, of the two locks in front of the flash. The guard (`StoreGuard`):
  `GuardInvariant`, `GuardExcludes`, `BusyNeverLies`. Assumed:
  `GuardAssumption` (finitely many tasks, `WRITER` > 0, at least one try). Exclusion alone is not
  inductive: a writer enters on `busy = 0`, which excludes readers only if `busy` is their number;
  so the invariant is `GuardTypeOK`, `Exclusion`, `BusyCounts` and `TriesLeft` together. The lemmas
  `SetsFollowTask` and `LeavingTask` say how the sets of readers and writers follow the one task
  that moves.
  The fence (`Fence`): `FenceInvariant`, `FenceExcludes`, `MaskOutlivesPark`, for every `MaxSlow`: however
  many waits run out, two cores never operate on the flash at once. `FenceInv` ties the lock to the
  program counter of its holder and the masks to what the holder is to restore; time-outs weaken
  what is known of the other core, never that. `FencedOpHasTheBus` is what holds when no wait has
  run out: a fence in its operation has the other core parked, without a transfer of its own. The
  acknowledgement may be late, of an earlier request (finding 16), but then the raise it answered is
  still pending and parks the core again; and a core that parks inline, with its interrupts
  masked, is out of it before the fence that waits for it is dropped.
- **`PatLogFacts`** holds what the operators of the log return, for the two modules below: page
  arithmetic (`OnItsPage`, `PagesInOrder`, `AlignUp`), minima and maxima of bounded sets, where a
  placement ends (`PlaceFits`, `PlaceFreeFits`, `PlaceAbove`), and `PlanAlwaysHolds`: the plan of any
  files that lie one after the other (`InALine`) holds, whatever is pinned. `Plan` is a recursive
  function on the files, and the library's induction theorems cannot be used here; instead
  `PlanSolves` shows that its recursion has a solution, as one that is right up to an offset can be
  made right at that offset (`OnlyEarlierMatter`: a file's place depends on the earlier ones), and
  each induction is the least counterexample of a set of naturals (`MinExists`).
- **`PatLogProofs`**: all of `PatLogCheck`, for every geometry, number of files, gap and length
  (`GeometryAssumption`, `BenchAssumption`: natural numbers). `BenchInvariant` is the induction: the
  files lie in a line, and of each unit it is known what it holds; on a page the repack is done
  with, the unit of a file at its new place or an erased one (`AsPlanned`), on any other page, the
  frozen ones included, what was written (`AsWritten`). A page can be built because no file moves up
  (`BuiltAsPlanned`). `LoopsAreTheOperators`: a header at a unit is that of a file, so stepping over
  an accepted file skips no other, and the loop over frozen records ends at the least free place
  after at most as many steps as there are records. `CompactionKeepsEveryFile` from
  `PlanAlwaysHolds` and the invariant at the last page; `RoomIsThere` because a page is erased in the
  end exactly when no new place covers it (`ErasedIsUncovered`).
- **`PatternStoreProofs`** begins with `StoreInvariant`, hence `StoreTypes` and
  `StoreCompactionSound`, and the action property `FrozenStaysUntouched`. Assumed:
  `GeometryAssumption` and `StoreAssumption` (a positive geometry, payloads of at least one unit,
  natural bounds, a `NoClient` that is no client). The sets of clients and of names may be infinite.
  `TypeOK` says more than types: the phase, its job and its plan belong to the request of the
  holder, and no file of the index reaches past the log. It is not inductive alone: a rewrite copies
  a buffer of which one must know that it is a page's, and a reload in mid-air has to return to a
  plan that still holds. So the invariant adds `CompactionSound`. `StoreStep` has a lemma per action
  or family of actions. `FrozenStaysUntouched` follows: in a compaction `Written` touches only the
  page in hand (`NothingFrozenWritten`), a torn write touches no more than a whole one
  (`UntouchedStays`), and every other action that could change flash needs a phase the holder is not
  in (`CompactingStep`).
  Then `VersionsInvariant` and `FilesInvariant`, hence `DeadWordsHit`,
  `IndexedFilesStand`, `ExecutedStands` and `FilesStayApart`. `VersInv` says that every version on flash or in RAM was
  saved by an earlier request, so an append under way writes one that exists nowhere else; on it
  rests `FilesInv`: every file that is indexed or executed stands on flash, committed and whole, and
  below the cursor; the place of an append is apart from all of them and its header goes on an
  erased unit; through a compaction the executed files are pinned ones on frozen pages; a dead word
  is due at the version it replaces or deletes. Two hypotheses, and only where they are needed:
  `~StaleLookups`, without which a request acts on a record looked up before its wait (findings 1
  and 7), and `~SwapInCompaction`, without which a file is pinned after the pins were read (finding
  5). Leases, updates and power cuts at any instant are all allowed.
  `NoCompactionLacksAPlan`: files that stand at different places lie one after the other, the payload
  of neither holding the header of the other (`StandApart`), so by `PlanAlwaysHolds` the refusal "no
  plan places all files" of patterns.rs is never taken, where lookups do not go stale and with leases,
  updates, swaps and cuts allowed: a compaction is refused for want of room only.
  Last, of compactions, `SweepErasesNoSource`, `CompactionsMakeRoom` and `CompactionKeepsItsWord`.
  `RepackInv`: the pages done are as they are due, the page in hand is built so, and every unit still
  to be copied to a higher page stands where it comes from, for nothing moves up (`PlanHolds`) and a
  page is built before it is erased. Hence the sweep, which runs last, erases no source. `RoomInv`:
  the scan accepts nothing above the cursor, so the sweep reaches all that is stale, and the reload
  finds the cursor exactly at the packed end (`DeliveredCursor`); what does not fit behind it fits
  in the uncovered run the estimate counted (`RunIsErased`). Hypotheses, beside `~StaleLookups`: no
  operation refused and no update, for a repack cut short is swept all the same (finding 2) and a
  commit word written while the caller gives up leaves a file above the cursor; and for the room,
  nothing pinned (finding 29).
- **`StoreRamProofs`**: of the RAM state against the flash, `DeviceBelievesFlash`, `VersionsAreTold` and
  `FilesSurvive` (`RamAgrees`, `VersionsTold`, `LossBounded`), from `AgreeInvariant`. `AgreeInv`: every live record on
  flash has one of its seq in the index which a reload would prefer, and outside of a compaction the
  index is itself live on flash, so the two are the same set once a reload has chosen (`ReloadTells`);
  stamp and seq name one version among all that a scan emits; the counters are past all of it, and
  the cursor is 0 or the end of a record. A cut keeps this because the half-written flash holds no
  record but those that were there, copies of indexed ones and the file whose commit word was due
  (`PartlyEmitted`, by a case for every kind of operation and every unit it may stop at). In a
  compaction the copies below the page in hand and the sources above it are live, so only what will
  occupy that page is at risk (`UnexposedLive`). The hypotheses are what the findings leave: nothing
  refused and no update (2, 6), no swap (30), no stale lookup (1), and deletes or cuts but not both
  (3).
  `PromisesOutliveReboots` (`RebootKeepsPromises`), under the same hypotheses, adds the names:
  `PromiseInv` says that the records of a seq, indexed or on flash, have one name (`NamesTell`), that
  no two indexed files share one (`NamesApart`), that the save in flight writes the name of its seq
  and the seq of its name (`JobNamed`), and that the index holds what the clients were told
  (`PromiseKept`). A cut keeps the last because each indexed file the operation does not expose stands,
  undead, in units it does not write (`IndexSpared`, `KeptSpared`, `TornKeeps`); what the reload then
  prefers is that file, or the one being committed.
  `StoreIsDurable` is the refinement: under those hypotheses, `Spec /\ []~Compacting` implies
  `ImplementsDurableStore`. What a reload would index at any instant is `View`, the index with the
  file whose commit word is down (`ViewNow`); each step then is `Ask`, `Effect` or `Forget`
  (`DurableStep`): a commit word stores its file (`AppendTells`), a dead word takes one away if it
  deletes and none if it retires (`DeadWordTells`), and a cut completes the request in flight or
  forgets it (`PowerCutTells`). During a compaction it does not hold: the files on their way to the
  page in hand are for a while on no flash (`LossBounded`). `store_room` checks it with refused
  operations, which the theorem leaves out.
- **`MigrationProofs`**: `RunningImageIsWhole` and `RunningSlotStands`, in every fault class: nothing
  a device does to itself breaks what it executes. The invariant is where everything is (`WhereInv`:
  which phase goes with which table, slot, upload and stage) together with "the slot that runs is
  whole" (`RunsWhole`); every write names a slot which `WhereInv` shows not to be the running one.
  `AlwaysBootable` adds `SlotsInv`, that a head stands only over a whole body; a self-copy or a
  staging that stops early breaks exactly that, hence its assumption `WholeHeads`, `"copy"` and
  `"staging"` not in `Faults`.
  Of the library, `RecordStaysHonest` in every fault class, from `RecordInvariant`; `RetriesEnd`,
  assuming `"wipe"` not in `Faults`; `LibraryStands`, assuming `Sparing`: `"header"`, `"settle"` and
  `"save"` not in `Faults`. `LibInv` says, stage by stage, which of the old log, the staged log and
  the new store holds the last acknowledged save; what the next boot would read is one of them.
- **`FrameProofs`**, of three parts on the road of a frame, each with an invariant of its own. The
  hand-off (`Pipeline`): `BufferHasOneOwner` for every number of frames, chunks, restarts and waits,
  `CheckedCopyIsWhole`, and `EveryFrameAccounted`: every frame stamped was shown, is counted as
  dropped, or is the one on its way. `HandOffInv` says where the one buffer is for each pair of
  program counters, also after a steal and a failed allocation; `CopyInv` that a number is never
  given twice, so a buffer back in its place with its number has not been refilled.
  The watchdog (`StallWatch`): `WatchInvariant`, hence `OnlyAWedgeResets` and `AWedgeIsReset`, for every
  period, limit and burst, and for every pair of positive moduli at which the millisecond clock and
  the beat wrap. The invariant relates the gate's wrapped readings to unwrapped history: how long
  ago the beat last moved and how much of that time the watchdog task was itself late, each inside
  the window in which a difference of wrapped readings is exact.
  The ring driver (`RingQueue`): `RingInvariant`, hence `NoFrameRepacked` and `ReuseShowsTheFrame`, for every
  number of frames and slots. Claims that are not finished lie between the beam and the head of the
  ring, apart from each other; `PASS_FRAME`, or the note still on its way to it, names the frame of
  every copy under way and of the pass being claimed; the frame being packed is none of these.
  Hypotheses: an even number of passes in the period (finding 22), no re-join while another turn is
  under way (finding 21, `~Contended`), and `Roomy`: a frame outlasts what the beam may have moved
  since the last look. `SlowBeamIsRoomy` shows the last one whenever `MaxAge` is at most 1.
- **`PlaybackProofs`**: `CommandsAreHeard`, `PushesAreNotRecorded` and `RebootsShowTheSame`, for any
  library, playlists, number of clients, capacity of the queue, requests and reboots. Each assumes
  away the mishaps of section 4 that break its property, and no others; TLC has a counterexample
  for each of those. The invariants follow a letter from the outbox through the queue to the screen.
  `SchedInv` (a wake is pending, or the scheduler looks again, or it knows the present list, index
  and play state) with `WantedInv` (what was asked for last is in an outbox, or behind it in the queue
  comes nothing but controls, or it is up) gives the first. `PushInv`: code is pushed and shown only
  while no scene is up or ahead of it, so `snapshot_record` then takes the old record over. For the
  last, `ListInv` ties list and play state to flash; `ShowInv` says that the controls are those the
  pattern on screen will have once mail has run out, and that, unless something is still to be
  recorded, the record is what is or will be shown; on a bare strip `Remap` may have put the controls
  back to their defaults, which the property allows and finding 20 is about. All use `OneSender`, that
  no two tasks have something to send, which a full queue with two senders breaks.

*Model-checked only.* Every safety property of every run is stated by a theorem, under the hypotheses
given above; where a run goes further than they do, it alone speaks for the rest: the refinement of
`DurableStore` with refused operations (`store_room`). The bound of `VersionsTold` needs those
hypotheses too: that the index has at most `MaxRecs` files is not kept once a retire fails, for the
stale copy of a replaced file, pinned and kept by a compaction after its successor was deleted, is
indexed again beside `MaxRecs` others. Out of the prover's reach is everything under fairness
(`EveryWaitEnds`, `CrashLoopEnds`, `MigrationFinishes`, `FenceEnds`, `HoldEnds`, `BootShows`).

## 7. Disagreements

Each is in `PROJECT.json` with the quoted line. Where a run shows one, it is the run of section 5
with one constant changed, or one more property, as given here; TLC then finds the property
violated.

| | what | at | shown by |
|---|---|---|---|
| 1 | a delete looks its record up, waits for the guard, and writes the dead word at the old address | patterns.rs:1869 | `store_tasks`, `StaleLookups = TRUE`: `DeadWordHitsItsFile` |
| 2 | the sweep "runs last, after every destination page is written", but also when the page loop gave up | patterns.rs:2167 | `store_cuts`, `MaxLeases = 1`, `MaxCuts = 0`: `SweepRunsLast` |
| 3 | a version whose retire failed "goes at the next boot"; it comes back if the newer one is deleted first | patterns.rs:1847 | `store_room`, `MaxDeletes = 1`: `RebootKeepsPromises` |
| 4 | a cut costs "the one file straddling the frontier"; it is every small file of the page | patterns.rs:2087 | `store_cuts`, `Lens = {1}`, `PageSize = 5`, `NumPages = 2`, `MaxSaves = 7`: `AtMostOneLost` |
| 5 | a compaction reads the pins once; a swap that pins later executes a file the plan moves | patterns.rs:2092 | `store_pins`, `SwapInCompaction = TRUE`: `ExecutedIntact` |
| 6 | a stamp is used twice when an update begins while a commit word is written | patterns.rs:1838 | `store_cuts`, `MaxOtas = 1`: `StampsNameVersions` |
| 7 | a read copies from an address looked up before it waited for the guard | patterns.rs:1188 | `store_tasks`, `StaleLookups = TRUE`, and the property `GetServesItsFile` |
| 8 | `NEXT_SEQ` is not monotonic over a compaction that drops the highest seq | patterns.rs:205 | reading |
| 9 | the staging header is lost when its rewrite is cut, and with it the only copy of the library | migrate.rs:212 | `boot`, `Faults = {"header"}`: `LibraryKept` |
| 10 | a self-copy that stopped after its first sector passes for our image | migrate.rs:528 | `boot`, `Faults = {"copy"}`: `Bootable` |
| 11 | staging that stops early leaves an old image's head over a log | migrate.rs:679 | `boot`, `Faults = {"staging"}`: `Bootable` |
| 12 | a resuming boot that cannot erase otadata serves without `OTA_HOLD` | migrate.rs:435 | `boot`, `Faults = {"settle"}`: `LibraryKept` |
| 13 | a wipe that fails past the guard record forgets the retries | takeover.rs:394 | `boot`, `Faults = {"wipe"}`: `TakeoverGivesUp` |
| 14 | a pattern saved while a staged log waits is gone after the resume | migrate.rs:421 | `boot`, `Faults = {"save"}`: `LibraryKept` |
| 15 | a reboot that was asked for marks the image valid, after an update the new one that never ran | main.rs:2699 | reading; `Reboot` after `Activate` |
| 16 | a park acknowledgement may belong to an earlier request | core1.rs:404 | reading |
| 17 | a burst that yields earns no credit | appwdt.rs:139 | reading; `Yielding` of `StallWatch` |
| 18 | `VSYNC` is published after the render task may have started | pipeline.rs:708 | `pipeline`, `LosslessUnderVsync` with `dropped = 0` |
| 19 | a preview of an unnumbered buffer may mix two frames; an empty one does not mean "no frame yet" | pipeline.rs:596, 657 | `pipeline` with `SnapshotAlwaysWhole`; reading (`Parked`, `FillFails`) |
| 20 | without a map and a scene, the rebuild after a drain loses the controls drained with their swap, also those a boot restores | main.rs:2256 | `playback` with `ControlsSurvive`; `Mishaps = {"revived"}`: `RebootShowsTheSame` |
| 21 | a re-join stores `PASS_FRAME` after the swap that publishes its claim | hub75_ring.rs:1908 | `ring`, `Contended = TRUE`: `NoRepackUnderCopy` |
| 22 | with an odd number of passes in the period the parity repeats at the wrap | ring.rs:360 | `ring`, `Shapes <- OddShapes`: `NoRepackUnderCopy` |
| 23 | `ACTIVE` goes on naming a scene under pushed code and after a change of the pixel count | main.rs:1849 | `playback`, `Mishaps = {"code"}`: `AdHocKeepsRecord`; `{"resize"}`: `RebootShowsTheSame` |
| 24 | a playlist that runs empty stops in RAM and plays on flash; a list posted later starts by itself at a reboot | playlist.rs:465 | `playback`, `{"empty"}`: `RebootShowsTheSame` |
| 25 | an item's timer wins over a command of the same instant and overwrites its index | playlist.rs:473 | `playback`, `{"tie"}`: `CommandsLand` |
| 26 | a control set while a playlist plays, or a swap is queued, is up and not recorded | server.rs:2197 | `playback`, `{"tweak"}`: `RebootShowsTheSame` |
| 27 | a fading swap that finds no memory leaves the old picture under the new id | main.rs:2094 | `playback`, `{"starved"}`: `RebootShowsTheSame` |
| 28 | activating a scene "parks the playlist"; it does not | scenes.rs:207 | reading; `Activate`, `Select` |
| 29 | a compaction says where the packed files end, but a dead record left on a pinned page above is scanned again, so the cursor is above and the save may be refused | patterns.rs:2119 | `store_pins`, `MaxDeletes = 1`, `MaxSaves = 5`, `MaxOtas = 0`, `MaxLeases = 0`, `StaleLookups = FALSE`: `CompactionMakesRoom` |
| 30 | a file packed down from a pinned page leaves its old copy there, live; the file comes back at the boot after its delete | patterns.rs:2139 | `store_pins`, `PageSize = 4`, `Lens = {1, 3}`, `MaxSaves = 5`, `MaxDeletes = 3`, `MaxSwaps = 1`, `MaxOtas = 0`, `MaxLeases = 0`, `StaleLookups = FALSE`: `RamAgrees` |

`Mishaps` has four more, which no text of the repository contradicts: `early` (an activation while
the boot record waits for the heap, up to twenty seconds, is overridden by the record), `gone` (a
pattern or scene deleted between its activation and its swap: the controls on record are already
those of the activation), `full` (two senders await room in the full queue, so that
the parts of two swaps interleave),
`refused` (a flash write of record, list or play state refused: nobody tries again).

The worst case of appwdt.rs:61, "STALL_LIMIT_MS + one tick + 20 s", holds where the limit is a whole
number of ticks (`watch` has 4 and 2, and passes with one `Tick` less in the bound). At the code's
10 s and 3 s it does not: a tick may pass before the last beat is noticed, the limit is reached at
the fourth tick after that, and a fence may feed the watchdog until then, so it is about 35 s and
not 33. `WedgeIsReset` has the wider bound; with `Tick = 4`, `Limit = 5`, `Watchdog = 10` and `BeatWrap = 6`
TLC violates the narrower one.

Consequences met while modelling, the reason some runs leave requests out: `store_room` has no
deletes, because after a cut between a commit word and the dead word two live records of a seq
remain, and a delete kills only the newer (the same mechanism as 3); it has no updates because of 6.
`store_tasks`, which checks `RamAgrees`, has no swaps because of 30. A delete in mid-update is performed
and answered as a flash error.

## 8. Not modelled

- **In the pattern store**: the key area (`sequential-storage`, a library with its own recovery),
  the ad-hoc slot, sprites replaced by seq, the layer pins 3..10.
- **Around the boot chain**: the readers of foreign filesystems and the credentials they hand over;
  libraries that do not fit (refused before a write); asset bundle and geometry checks.
- **Around the frames**: `release_stage` and changes of the pixel count in the pipeline; the GDMA copier, the
  audits, the minimum fill and the blanking path of the ring; the plane driver's registers.
- **Around playback**: preflight verdicts, item projections, fades as time, `Var`, `TextSlot`,
  `Protocol` and `Crossfade` messages, the text slots that ride the debounce, layers over the base.
- **Live network input**: the freshness mark over a wrapping clock is the next small module; its
  hazard is listed without a property.
- **Engine, compiler, VM, JIT**: sequential programs over a large data domain, covered by
  conformance tests against each other; nothing concurrent for a model checker to find.
- **Compositor, layout, output maths, panel bit planes**: pure pixel arithmetic.
- **Memory budget, arenas, PSRAM and MMU set-up**: sums of bytes and register programming.
- **MQTT, provisioning, SNTP, sensors, configuration**: I/O and plain records.
- **Server**: parsing and formatting; what its handlers do is in `PatternStore` and `Playback`.
- **Browser and host builds**: front ends of the core crates. These, the engine and the compositor are
  most of the repository's lines, which is why the modules cover a small share of them.
