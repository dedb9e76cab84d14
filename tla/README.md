# A TLA+ verification of mimas, a Sega Saturn emulator

This directory holds TLA+ modules of the emulator, TLC configurations that
model-check them on small instances, and TLAPS proofs of their main properties
for every value of their constants.

The repository holds two emulators.  The **live** one is a single-threaded
machine around a JIT compiler; its paths below are relative to `src/` (so
`machine.rs:267` is `src/machine.rs`, line 267).  The **first** one, kept under
`archived/saturn-core/src/`, runs every processor and several devices on threads
of their own; its paths are relative to that directory and marked `A:`.

1. [The system](#1-the-system)
2. [The modules](#2-the-modules)
3. [The runs](#3-the-runs)
4. [The proofs](#4-the-proofs)
5. [What is left out](#5-what-is-left-out)
6. [Mutants](#6-mutants)
7. [The finding](#7-the-finding)
8. [Known departures](#8-known-departures)
9. [Plan](#9-plan)

## 1. The system

### 1.1 The live machine

A main loop (`main.rs:202`, `bin/live.rs:113`) calls `Saturn::step`
(`machine.rs:267`) again and again.  A step runs **one block** of translated SH-2
code and then `advance`s the rest of the machine by the cycles the block took.
There is no other scheduler; what makes the system hard is the *granularity*.
Everything that is concurrent on the console (video beam, DMA, drawing, sound,
interrupts) happens here between two blocks, in a fixed order, from state that
the block and the earlier parts of the same `advance` have already changed.

| part of the step                 | code                    | what it touches |
|----------------------------------|-------------------------|-----------------|
| dispatch: drop blocks that were overwritten, look up or translate, execute | `cpu/jit/mod.rs:74` | block cache, memory, device registers |
| how the block ended: TRAPA, SLEEP, illegal instruction | `cpu/mod.rs:50` | CPU, stack |
| CD clock, in batches of 1024 cycles | `machine.rs:297`     | CD block |
| video clock                      | `timing.rs:32`          | list of events |
| handling of the events           | `machine.rs:338`        | VDP2 flags, SCU |
| requests of the SMPC             | `machine.rs:315`        | SCU, sound CPU |
| sound CPU and SCSP               | `machine.rs:279`        | sound RAM, audio |
| drawing of the VDP1              | `machine.rs:379`        | VDP1, SCU |
| DMA transfers, then the SCU's DSP | `machine.rs:391`       | memory, any device |
| one interrupt offered to the CPU | `machine.rs:401`        | CPU, SCU |

| component | state it keeps | operations | hard behaviour | what makes it correct |
|---|---|---|---|---|
| block cache, `cpu/jit/mod.rs` | `blocks` by entry address, `trace` | `run_block`, `invalidate`, `set_trace` | stale blocks between a store and the next dispatch; a block that overwrites itself | no outdated block is entered |
| system bus, `bus/system_bus.rs` | slots, code bits, dirty queue | `map`, reads, writes, `mark_code`, `note_write`, `drain_dirty_code` | mirrors, several chunks per access, bits consumed by the first store | every cached block is watched |
| SH-2, `cpu/mod.rs`, `cpu/state.rs` | registers, `sleeping` | `run_block`, `enter_exception`, `try_interrupt` | nesting of handlers; sleep | no interrupt lost, nesting by level |
| decoder and code generator, `cpu/decode.rs`, `cpu/jit/backend/x64.rs` | none | `decode`, `compile`, `emit_insn` | delay slots, ends of blocks, carries, one-bit division steps | a block means what its instructions mean |
| on-chip devices, `cpu/onchip.rs` | timer base, division registers | register accesses | timer computed lazily; overflow | the timer reads as if it ticked |
| video clock, `timing.rs` | line, frame, offset, HBlank flag | `advance` | several lines per call, frame wrap | the events of the timeline, whatever the batches |
| SCU, `devices/scu.rs` | IST, IMS, three DMA channels, ready queue | registers, `raise`, `trigger_factor`, `run_dma`, `pending_irq`, `acknowledge` | deferred transfers; lists that overwrite themselves; one interrupt per step | started transfers end once; the best interrupt is offered |
| SCU DSP, `devices/scu_dsp.rs` | program, data, ports | ports, `run` | start bit against load | runs once, copies its block |
| SMPC, `devices/smpc.rs` | registers, two requests | commands | requests served once a step | the last power command wins |
| VDP1 and VDP2 registers, `devices/vdp1.rs`, `vdp2.rs` | registers, request, flags | PTMR, EDSR, TVSTAT | drawing is deferred; flags are polled | CEF means done; flags follow the clock |
| CD block, `devices/cd_block.rs` | HIRQ, command registers, clock | commands, `tick` | batched clock | every period raises SCDQ |
| sound CPU, `devices/sound_cpu.rs` | carry, budget, running | `advance`, power | debt of an overrun; budget kept while off | never ahead of the SH-2, no drift |
| SCSP and its DSP, `devices/scsp.rs`, `scsp_dsp.rs` | slots, timers, ring buffer | registers, `generate`, `step` | key-on at the execution bit, interrupt levels, a pipeline of memory accesses | timers and keys as if clocked; echoes at their delay |
| renderer, tools, `video/`, `debug/`, `bin/` | GL state, logs | output, comparison | none of the emulator's state | observers |

Components interact by direct calls and through shared cells
(`Rc<RefCell<..>>`): a store of a block, of a DMA or of the DSP reaches a device
through the bus; the machine polls and clears what the devices left pending.

### 1.2 The first emulator

Eight cores are threads (`A:lib.rs:210`): the master and the slave SH-2 (0 and 1),
VDP1 and VDP2 (3; core 2 stays parked), the sound 68000 (4), the SCSP (5), the
engine of the SCU's DMA and DSP (6), and the SMPC with the CD block (7).  A
lock-step clock lets no active core run further ahead than a slack.  Devices are structures behind locks;
the master also drives the line clock out of the cycles it has counted.

| component | state it keeps | operations | hard behaviour | what makes it correct |
|---|---|---|---|---|
| lock-step clock, `A:sync.rs` | cycles, thresholds, active flags, two condition variables | `sync_core`, `set_thread_active`, `reset`, `shutdown` | conditional broadcasts; a core parks while another reactivates it | no wake-up is lost |
| workers, `A:lib.rs` | flags of work, active flags | look for work, work, sleep | looking and sleeping are two steps | work is found in the end |
| shared work RAM, `A:shared_buffers.rs` | stripes with a lock each | accesses of one to four bytes | accesses across a boundary, and from the last stripe to the first | whole accesses, no circle of waits |
| events for the master, `A:shared_buffers.rs:121`, `A:sh2.rs` | a flag per event and a summary | raise, take | two stores against two takes, without a lock | no event lost |
| SCU interrupts, `A:scu.rs` | IMS, IST, list | `send`, drain | mask read under one lock, list changed under another | a raised interrupt is kept and delivered once |
| SCU DMA, `A:scu.rs` | levels, passes, budgets | registers, `step_dma_pass`, flush | master and Core 6 work one level off together | every transfer ends once and copies its source |
| SCU DSP, `A:scu_dsp.rs` | program, banks, accumulators, pipeline | `step`, ports | a transfer runs beside the program; jumps have a slot | copies of the BIOS's program are exact |
| line clock, `A:sh2.rs:2398`, `A:scu.rs` | cycles since, line, timers | `step` | counter that others move | every line counted, frames take their time |
| SMPC and ports, `A:smpc.rs`, `A:peripheral.rs` | registers, pending command, snapshots | `arm`, `execute`, INTBACK and its chunks, PDR | three threads touch one command | results complete when SF is clear |
| CD block, `A:cs2.rs` | registers, blocks, partitions, drive | commands, port, `step_periodic` | drive against host; half-written commands | a block has one owner |
| VDP1, `A:vdp.rs` | list, banks, registers | walk, frame change, lines, sprites, polygons | interrupted walks, frame changes while drawing | what was drawn is shown, pixels are those meant |
| VDP2, `A:vdp2.rs`, `A:vdp2_regs.rs` | registers, cached cell, blend buffers | `render_nbg_layer`, `render_frame` | cell cache, mixing, frames of other sizes | the cached cell is the pixel's own |
| SH-2 interpreter, `A:sh2.rs` | registers | `execute` | agrees with the JIT or does not | the two processors agree |
| bus arbiter, sound, frontends | flags, bytes, windows | | | not modelled, section 5 |

### 1.3 Hazards

`PROJECT.json` lists them by line.  The ones that shape the models:

* a store makes a translated block stale *at once*, but the cache acts on it only
  at the next dispatch, and the chunk's bit is gone by then; the same memory is
  reached through mirrors and segments, and blocks are filed by entry address;
* one call of the video clock may cross several lines, and its events are handled
  when the clock has already run on;
* a DMA is started by a register write or an event and runs later in the step; the
  program may change the channel in between, and the transfer may itself write
  registers of devices whose turn in this step is over;
* one interrupt is offered per step, and a CPU asleep depends on it;
* the sound CPU runs whole instructions against a budget in fractions of cycles;
* in the first emulator: a waiter that is not told, a worker that goes to sleep on
  work, an event raised while events are taken, a mask that changes between being
  read and being acted on, two threads that work one transfer off, a command
  written over one that waits, a drive that takes blocks between two longwords of
  the host, a frame change while a list is walked.

## 2. The modules

A component's module declares its state as VARIABLES and its operations as
actions.  *Operations* modules (`Scu`, `Sh2Exceptions`, `VideoTiming`) have no
specification of their own and are composed by `Interrupts` and `Machine`.
Components that share no state with others are run together by a suite (below).
Definitions introduced by `Mutant:` are slips of section 6; no specification uses
them.

### 2.1 The live machine

| module | models |
|---|---|
| `GuestMemory`   | segments, slots, mirrors, stores, the shape of a block |
| `FreshFetch`    | abstract: every block is translated when it is entered |
| `CodeCache`     | block cache and code tracking; implements `FreshFetch` |
| `VideoTiming`, `VideoClock` | `VideoTiming::advance`, an action per pass of its loop; the clock alone, against its timeline |
| `Scu`, `Sh2Exceptions` | interrupt controller and DMA starter; mask, sleep and frames of the CPU |
| `Interrupts`    | steps of the machine as SCU and CPU see them, events left open |
| `Machine`       | `step` and `advance` with clock, VDP1, VDP2 and SMPC; implements `Interrupts` |
| `SoundPacing`   | `SoundCpu::advance`, `run_batch`, and the samples of `Scsp::generate` |
| `Scsp`, `ScspDsp` | timers, interrupts, keys and read positions; the effects DSP |
| `ScuTransfers`  | what `run_dma` copies; the SCU's DSP |
| `CdBlock`       | HIRQ, commands, batched clock |
| `OnChip`        | free-running timer, division unit |
| `Sh2Decode`, `Sh2Execute`, `Sh2Blocks` | both decoders; every linear instruction in the JIT and in the archived interpreter; branches, delay slots and ends of blocks in both |

`GuestMemory`: the unit of memory is the cell, one 16-bit instruction, so a chunk
of the code tracking (256 bytes) is `ChunkCells` cells.  An instruction is what it
does to the block it is in: it goes on (`Linear`), branches with a slot
(`Delayed`), or ends the block (`Enders`).

`CodeCache`: `marked` is `Slot.code_bits`, `dirty` the dirty queue (order and
repetitions do not matter to `invalidate`), `blocks` is `Sh2Jit.blocks`, `run` the
block that is executing, a copy of its words as they were translated.  `Execute` is
one instruction and may store anything anywhere; `StoreBetweenBlocks` is a DMA, the
DSP or an exception frame.  A store to tracked memory that runs past its end panics
(`system_bus.rs:110`); `InBounds` excludes it.  `FreshFetch` has no cache: that
`CodeCache` implements it says that the cache cannot be observed.  Its snapshot is
per block, as the comment at `cpu/jit/mod.rs:1` has it.

`Scu`: `ist` and `ims` are sets of bits; a channel is its DxEN, its armed flag and
its factor; `ready` is the queue.  `frames` of `Sh2Exceptions` is the part of the
stack that exceptions pushed.  `Interrupts` lets any event happen in any step, once
(`happened`).  `Disciplined` restricts programs by two rules without which the
properties that name it are false on the console as well: a handler does not lower
the mask below its own level, and a block does not rewrite the channel it has just
started.

`Machine`: the stages are the calls of `step` and `advance` in their order; within a
stage nothing else runs, so each is an action.  `ShortBlocks` assumes that no block
is longer than an HBlank: 65 instructions of at most 4 cycles, 3 on all but the
last (`x64.rs:24`, `x64.rs:47`), and 8 for an exception, about 210 cycles, against
`CYCLES_PER_LINE - HBLANK_START` = 320.  `ImplementsInterrupts` maps the stages
between the clock and the transfers to the phase `events` of `Interrupts`.

### 2.2 The first emulator

| module | models |
|---|---|
| `CoreThreads`   | `LockStepSync`: reports, drift waits, parking, resets; striped work RAM; events handed to the master |
| `Workers`       | cores 3, 4, 6 and 7 between looking for work and sleeping, and who wakes them |
| `ScuQueue`      | IMS, IST, the list, drains, the slave's mirror |
| `DmaEngine`     | arming, passes and flushes of the SCU's DMA; what a unit moves |
| `DspInterpreter` | ALU, instructions, pipeline and DMA of the SCU's DSP |
| `LineClock`     | lines, blanks, both timers, delays of commands, from the master's counter |
| `SmpcCommand`   | arming, waiting, executing; INTBACK with its chunks, breaks |
| `PeripheralPorts` | INTBACK's report, ports polled by the program |
| `CdBuffers`, `CdPlayback` | blocks, partitions and transfer port, with its proofs; drive, directory port, hand-over of a command |
| `Vdp1List`, `Vdp1Drawing` | walks and frame changes; pixels of lines, sprites, polygons, spans and colours |
| `Vdp2`          | settings, cells, dots, blending, frames and buffers |

A section of code under one lock is one action; two sections are two, also where
they look like one in the source (`send` of `A:scu.rs`, `shared_buffers.rs`).  What
a thread reads before a lock is a variable of its own.

### 2.3 The suites

`MCProcessor`, `MCBusDevices`, `MCArchivedCore`, `MCArchivedVideo` and `MCProgress`
model-check several components in one run each.  A variable `part` chooses, in the
initial state and for good, the component a behaviour is about; the others stay in
an initial state.  A suite's property says of every part what must hold in it, and
its names are those of the components' modules.

| suite | parts |
|---|---|
| `MCProcessor`     | programs, insns, words, blocks, timer, divu |
| `MCBusDevices`    | sound, timers, slots, effects, floats, dma, dsp, cd |
| `MCArchivedCore`  | cores, ram, events, irqs, engine, units, alu, copies, loops, jumps, frames, timer1, moved, smpc, hasty, reports, polled, buffers, drive, cdport, cdcommand |
| `MCArchivedVideo` | walks, rewritten, frames, lists, manual, lines, quads, spans, cuts, colours, registers, cells, dots, blends, buffers |
| `MCProgress`      | served, dma, engine, heavy, light, cores, events, smpc, drive, command, dsp, line, walk, frame; and `goal`, the request it is about |

`MCCodeCache`, `MCInterrupts` and `MCMachine` give values to the constants of
`CodeCache`, `Interrupts` and `Machine`; `VideoClock` is checked directly.
`CodeCacheProofs`, `VideoClockProofs`, `InterruptsProofs` and `MachineProofs` hold the
theorems about the modules they are named after; `DeviceProofs` those about
`SoundPacing`, `Scsp`, `CdBlock` and `ScuTransfers`, alone and as parts of `MCBusDevices`;
`ThreadProofs` those about `CoreThreads` and `ScuQueue`; and `ArchivedCoreProofs` those
about the other parts of `MCArchivedCore` and about all its parts side by side.  The
lists of `CdBuffers` take more lemmas than all else together and stand in its own file.

A definition of a model that has a helper whose lines lie inside its own is mapped
without the helper: `map` names the lines once.

## 3. The runs

| run | module, cfg | distinct states | shows |
|---|---|---|---|
| `code_cache` | `MCCodeCache`, `CodeCache.cfg` | 45 thousand | the cache is coherent and implements `FreshFetch` |
| `code_cache_wrap` | `MCCodeCache`, `CodeCacheWrap.cfg` | a violation | the finding of section 7 |
| `video_clock` | `VideoClock`, `VideoClock.cfg` | 4 thousand | the timeline, by every batching |
| `interrupts` | `MCInterrupts`, `Interrupts.cfg` | 411 thousand | delivery and nesting, with a trap |
| `transfers` | `MCInterrupts`, `Transfers.cfg` | 537 thousand | two DMA channels: queue, arming, ends |
| `machine` | `MCMachine`, `Machine.cfg` | 3.7 million | the composition against the clock |
| `devices` | `MCMachine`, `Devices.cfg` | 1.5 million | requests to VDP1 and SMPC |
| `processor` | `MCProcessor`, `Processor.cfg` | 596 thousand | arithmetic, decoders, blocks, on-chip devices |
| `bus_devices` | `MCBusDevices`, `BusDevices.cfg` | 340 thousand | sound, transfers, DSPs, CD clock |
| `archived_core` | `MCArchivedCore`, `ArchivedCore.cfg` | 837 thousand | threads, SCU, SMPC and CD block of the first emulator |
| `archived_video` | `MCArchivedVideo`, `ArchivedVideo.cfg` | 1.8 million | VDP1 and VDP2 of the first emulator |
| `progress` | `MCProgress`, `Progress.cfg` | 192 thousand | what is asked for comes, live and first |

### 3.1 The properties

**Block cache.**  `StaleIsQueued`: a cached block whose words differ from the memory
overlaps the dirty queue already.  `ChunksWatched`: every chunk of a cached block is
marked or queued, though a store takes a mark away for all the blocks that share it.
`EntersCurrentCode`: the step that enters a block runs what the memory holds.
`ImplementsFreshFetch`: all of it, as a refinement.

**Video clock.**  `CyclesAreConserved`, `PositionFollowsClock`: the position is a
function of the total of cycles.  `EmitsTheTimeline`: so are the events.

**Interrupts, DMA.**  `NothingDeliverable`: when a block starts the CPU has no
interrupt to take left, although a step offers only one.  This holds because the one
offered has the highest level and raises the mask to it.  `NestingRises`: the frames
on the stack rise in level.  `ReadyAreArmed`: the queue holds armed channels, each
once.  `StartedTransfersReport` (liveness): a started transfer raises its end.

**Machine.**  `FlagsFollowClock`: TVSTAT and the line counter agree with the clock.
`EachFrameShownOnce`: the sink is handed every frame once and under its number, though
the clock has run on.  `TransfersRunInTheirBlank`: a transfer started by HBlank or
VBlank runs while that flag is set.  `SleepsAtMostAFrame`: with VBlank-in enabled a
sleep is no longer than a frame.  `PollingAgrees`, `DrawingEnds` (liveness),
`SoundFollowsCommand`: requests at any stage are answered once and in order.
`ImplementsInterrupts`: the order of `advance` is one that `Interrupts` allows.

**Processor.**  `ProgramsCompute`: division by DIV1 with and without sign, carries
through register pairs, comparison by overflow, products by halves, chains of MAC,
shifts through T, byte swaps and CMP/STR compute what they are written for.
`InterpretersAgree`: after any linear instruction, with any coincidence of registers,
the JIT's state is the archived interpreter's (but for MAC with an accumulator out
of its range, section 8), and a push comes back.  `WordsHaveOneMeaning`: all 65536
words match at most one arm of `decode`, both decoders agree, and the cycles do not
depend on operands.  `BlocksAreTheirInstructions`: every block of up to three
instructions does what its instructions do one at a time, with delay slots and
exits from inside a slot, and what the archived interpreter does, but for a read of
the PC in the slot of a taken branch (`ReadAtTarget`, section 8.1); and it is filed under what it was made from.
`OnChipIsExact`: the lazily computed timer is one that ticks, and a division is exact
or saturates and says so.

**Bus devices.**  `NeverAhead`: the sound CPU is never ahead of the SH-2 (when
profiling, by less than an instruction).  `CyclesAreConserved`: no cycle is lost or
counted twice on its way, across power switches.  `ClocksAreKept`: the output is
whole samples of what the core spent, the lag is below a batch, and the CD's pulses
are conserved and punctual.  `SoundIsAsSent`: a slot plays inside its sample, an echo
comes after its delay, the ring's floating-point words are exact to their last bit.
`TransfersAreExact`: a transfer copies the block its registers or its list described
when it began, leaves the registers where the next one continues, and the DSP runs
once per start.  `DevicesKeepTheirRules` (steps): timers fire by their period, HIRQ's
flags show until taken back, notes start and stop together at KYONEX, the ring is
all the effects write, and the DSP's program writes its block alone.

**First emulator, core.**  `NoLostWakeup`: no core sleeps in the drift wait without
being too far ahead.  `NothingIsLost`: an event raised is on its way to the master.
`ThreadsShareSafely`: accesses to the work RAM are whole, land in order and never
wait in a circle; no core is parked that was reactivated; an interrupt owed is latched
and listed, in the order of the levels.  `ScuIsExact`: each transfer raises one end,
moves its source, or fills with one long; ALU operations agree with one another, the
BIOS's copy program copies its block, a loop sees the transfer before it.
`PeripheralsAreExact`: every line is captured though the counter is moved; who reads
SF clear finds complete results, and SF is set while a command waits; a mouse's motion
is told once; polling and INTBACK agree.  `CdBlockIsExact`: a block has one owner and
the counts the host reads are those of the lists; a play stays in its range; records
are those of the directory; CMOK is of the command that waits for it.
`ArchivedStepsKeepTheirRules` (steps): broadcasts have a reason; a write delivers the
one highest interrupt; the DSP's counter is a pipeline and END tells where; a frame,
Timer 1 and a command's delay take their cycles; a command is executed on its own
time and a break is final; a report parses; a sector is deleted when it was read,
only data is stored, and a record is delivered whole.

**First emulator, video.**  `DrawingKeepsItsRules`: Draw End is of a list that was
executed; the first call's return address stays; a clipping set is in force; a walk
that stops says why, at the end of the VRAM too; a frame change shows what was drawn, uses its request up and is
made once by hand; a line's pixels are near it, one per step, and its shade between
the corners'; sprites show each texel once and read inside the character, hang on
their zoom point, and in double interlace draw the rows of their field alone, each once;
sides reach the corners; spans and clippings are those meant; channels do not run into
each other, and pixels of an 8-bit frame buffer are no colours to calculate with.  `ScreensKeepTheirRules`: a bit written is one
screen's setting, and what is taken off the picture is what a screen that is on with
its many colours takes the place of; a
cell kept is the pixel's own, and its address tells it; a turned character is its
mirror image; mixed channels lie between the two; the largest frame fits its buffer
and shows nothing stale.

**Progress.**  `EveryRequestIsServed` (liveness): a pending source of the 68000 makes
it run at its level; a transfer ends; a level of the engine starts and ends; a
worker's work is found again after it went to sleep; a shutdown ends every thread; an
event is taken; a command of the SMPC and of the CD block is executed and answered; a
play ends and an empty drive is found out; the DSP's program ends; the line a command
waits for comes; a walk ends, and a frame changes.

### 3.2 The bounds, and why they are enough

* `CodeCache.cfg`: one work RAM of four cells in two chunks, seen twice in its
  window, blocks of two instructions and a slot, entered at two addresses through
  different segments and images so that their cells overlap; stores of one and two
  cells, one of which spans the chunks.  Two chunks are what it takes for a block to
  be watched in one and stale in the other; two overlapping blocks are what it takes
  for one to consume the other's mark.  The proofs cover the rest.
  `CodeCacheWrap.cfg` enters the same memory at the last cells of an image.
* `VideoClock.cfg`: lines of 5 cycles, frames of 5 lines, the frame counter wrapping
  at 2, batches of 1 to 11 and of 28 cycles (none, one, two line ends, a frame), up to
  `MaxClock` = 100, twice around the counter.
* `Interrupts.cfg`, `Transfers.cfg`: VBlank-in (level 15) and the ends of DMA 2 and 1
  (both level 6, a tie), masks below, at and above level 6, `MaxTraps` = 1.  The stack
  needs no bound: levels rise.
* `Machine.cfg`: lines of 5 cycles, frames of 3 lines, blocks of 2 cycles, HBlank 2
  cycles long, so that all alignments of blocks and lines occur; the program enables
  everything or VBlank-in only, arms a channel for any factor, sleeps, traps, returns.
  `Devices.cfg`: the same clock, all interrupts masked; the program draws, asks for
  INTBACK, turns the sound on and off, and starts transfers that do the same.
* `Processor.cfg`: registers of four bits with bytes of one bit (eight bits where
  bytes matter), so that divisions, carries and saturation run over all operands or
  over those at their ends; all words; every memory of four words of code, blocks of at most three.
* `BusDevices.cfg`: `Num`/`Den` = 5/13 for the ratio of the clocks (0.385 as against
  0.394) and 17/5 for the cycles of an average instruction, a batch of 6 cycles,
  instructions of up to 4, blocks of 1, 3 and 8, `MaxClock` = 120.  The MC module has
  the constants of the others: samples of two words, five programs of the effects over
  rings of two and four words with one change at any time, memories of sixteen cells
  with lists of two and three entries, two periods of the CD clock.
* `ArchivedCore.cfg` and `MCArchivedCore`, `MCArchivedVideo`: the constants, those that
  are lists or programs with a comment in the MC module.  Three cores with slack 1; two threads and two stripes; two
  producers; two levels of the engine with passes and bursts of one unit; DSP
  programs of all mixes of four instructions, and the BIOS's program on blocks of up
  to nine longs; frames of five lines of seven cycles, with histories of 40 cycles for
  frames and delays and of 12 for Timer 1; a patient and a hasty writer of commands;
  all peripherals with buttons that tell the bits apart; two blocks in two partitions;
  a disc of two tracks; command lists in a VRAM of two commands, in places half a command apart, that jump to,
  over and past its end (for the lists that are rewritten and the call, one command and
  a half); lines of up to five pixels; sprites in both fields and without interlace,
  clippings inside and at the edge; words whose channels are at their ends, in frame
  buffers of 8 and 16 bits; register words with one bit or with four, over screens that
  are all off or three of them on.
* `CHECK_DEADLOCK FALSE`: `Interrupts` and `Machine` stop at an illegal instruction
  (`Fault`), and the main loops with them; `VideoClock` at `MaxClock`; the parts of the
  suites when their input or their bound is used up.  `code_cache` checks for deadlock.

### 3.3 Fairness

`FairSpec` of `Interrupts` and `Spec` of `Machine` assume weak fairness of `Proceed`,
the disjunction of the steps that bring the emulation on.  The code justifies it: the
main loops call `step` until a fault, a block has at most 65 instructions and no loop
inside, event list and ready queue are finite and drained by plain loops.  Register
writes, faults and events are not fair.

`SuiteFairness` of `MCProgress` assumes weak fairness of each thread's steps: the
host's threads all run, and no thread waits for a lock whose owner never leaves it.
Some steps get strong fairness, because they are disabled again and again by others
and still come: the end of a batch (it has a budget), the return of a handler, the end
of a transfer that is worked off a unit at a time, the next blank and the end of a
command's delay (the master's cycles go on), and the moment a thread reads a flag that
another has stored, which the atomics guarantee in finite time.  What the program
asks for and when a core is told to park are fair to nobody.

## 4. The proofs

`tlapm` checks all of them.  They are for every value of the constants under the
`ASSUME`s of the modules, which say what the code asserts or fixes: `SystemBus::map`'s
asserts (`SlotsAssumption`), positive sizes, disjoint classes of instructions, levels
of 0 to 15, blocks shorter than an HBlank (`ShortBlocks`).  A theorem with a further
hypothesis states it in its `ASSUME`.

* **`CodeCacheProofs`** (`StaleBlocksAreQueued`, `BlocksAreWatched`, `EntersCurrent`,
  `CacheIsInvisible`).  `StaleIsQueued` is not inductive: that a stale block is queued
  follows only from its chunks being watched *before* the store.  The invariant is
  `Coherence`, the conjunction of `StaleIsQueued`, `ChunksWatched` and
  `TraceModeIsUniform`, on top of `TypeOK`.  The lemmas: the cells of a guarded block
  are the cells from its canonical address on; a store changes only cells whose chunks
  `NoteWrite` names; a block meets a chunk if and only if `MarkCode` names it.
  The refinement holds for programs whose code lies in one image of a tracked or
  read-only memory (`GuardedCode`), which is what the finding of section 7 needs.
* **`VideoClockProofs`** (`CyclesConserved`, `PositionIsTotal`, `TimelineEmitted`).
  `CyclesAreConserved` by induction over the passes; the position by the uniqueness of
  quotients and remainders.  For the events, the invariant `EmitsSoFar` says that what
  a call has emitted up to a pass is the timeline up to where the pass stands; a pass
  appends what stands in the piece it crosses, and the piece holds nothing else.
* **`InterruptsProofs`** (`NoneDeliverable`, `NestingAlwaysRises`, `ReadyStayArmed`).
  `NothingDeliverable` needs that the set of active bits has a best element (finite
  levels, a well-founded order on bits).  `NestingRises` is inductive with `TypeOK` and
  the levels of bits.  `ReadyAreArmed` is strengthened by `QueueIsFresh`: before the
  events of a step the queue holds only channels the block itself started, so an event
  of the step cannot queue them again.
* **`MachineProofs`** (`MachineImplements`, `InterruptsHold`, `FlagsAlwaysFollow`,
  `FramesAreShownOnce`, `TransfersKeepToTheirBlank`, `SleepsAreShort`,
  `PollingAlwaysAgrees`, `SoundAlwaysFollows`).  `StepInv` describes a step stage by
  stage: what the clock has emitted and what is still to be handled (`ClockInv`), what
  has happened and so cannot happen again (`HappenedInv`), and how the flags stand
  while events wait.  That no bit is raised twice in a step needs `ShortBlocks`: two
  HBlanks could otherwise fall in one call.  With it every step maps to a step of
  `Interrupts` or a stutter, and `InterruptsHold` inherits the three theorems of
  `InterruptsProofs`.  `DeviceInv` carries the requests to VDP1 and SMPC through the
  stages.  `SleepInv` relates the cycles asleep to where the clock stands since the
  last VBlank-in, which, pending, would have woken the CPU.
* **`DeviceProofs`** (`NoCycleIsLost`, `SoundIsNeverAhead`, `OutputFollowsTheCore`,
  `ClocksAreAlwaysKept`, `DriveFlagsShow`, `TransfersAreAlwaysExact`, `TimersFireOnTime`,
  `SlotsPlayTheirSamples`, `NotesStartTogether`).  `NeverAhead`
  follows from the account (`CyclesAreConserved`) and `DebtIsSmall`, the bound of what a
  batch overruns; the arithmetic is of quotients by `Den` with the rest carried over.
  That the core lags less than a batch (`SpendsAlmostAll`) has the hypothesis
  `BatchIsWorthMore`: a batch pays for an instruction and half a cycle of rounding, which
  the code's 64 and 8.97 do; with a batch of 6 and an average of 5.9 it is false.
  `DriveInv` is the same account for the CD drive; that two pulses never fall into one
  step needs a step and a batch to be less than a period.
  `DmaInv` says of a transfer: while the list is read memory is as it was found and the
  cursor at the next entry (`Reading`); while an entry is copied the cursors are at the
  next long (`AtTheNext`), and every cell holds the last word that was sent to it
  (`CopiesTheBlock`, inductive with it).  Addresses wrap, so the steps rest on
  `WrapsOnce`, and the last of the words sent to a cell is found without induction, since
  a long adds the two greatest (`LongIsCopied`).  A transfer of nearly the greatest count
  never ends, because `done` wraps (`Countable`); that it ends nowhere by accident needs
  the count's range to be a multiple of four.
  `TimersInv` says of a timer of the SCSP that its count is what was loaded and what the
  samples since have added, less a lap for every wrap; a sample adds less than a lap, so
  it wraps once when it fires (`FiresOnTime`), and after a period it stands where it stood
  a sample after the load (`PeriodIsOver`).  That is for periods of more than one tick
  (`Top` > 1; 255 in the code).  `PlaysItsSample` is inductive as it is (`SlotsInv`).
  The modules share `MCBusDevices` as suite: a step of one part is a stutter of the others
  (`SuiteSteps`), so the theorems are of `SuiteSpec` and every value of its constants.
* **`ThreadProofs`** (`NoWakeupIsLost`, `NoUnparkIsLost`, `NoBroadcastIsIdle`,
  `NoEventIsLost`, `RamAccessesAreWhole`, `RamWritesLandInOrder`,
  `RamNeverWaitsInACircle`).
  For the clock: a core's published count and its threshold agree (`DriftRecord`), so
  whoever raises the minimum past a threshold is the one that broadcasts.  This needs
  `Controlled = {}`: only a core itself makes itself inactive (section 8 tells what
  happens otherwise).  That no reactivated core stays parked (`SleepInv`) needs no such
  condition.  For the events: a flag that is set is covered by the summary, by a producer
  about to set it, or by the taker's round.  For the work RAM: locks are held by exactly
  those accesses that have taken them (`LocksMatch`), an access takes its stripes in
  rising order, and what it moved is what its step says (`StepsAgree`).  For the SCU's
  interrupts (`IrqsInv`): the list holds what is latched and listed, each once, by
  falling level; entry and removal are written with functions, and the place of an entry
  is found as the least counterexample, so that no induction over the list is needed.
  One drain delivers at most one, the highest (`DrainDelivers`).
* **`ArchivedCoreProofs`** (`ThreadsAlwaysShareSafely`, `DrainsDeliverTheHighest`,
  `EveryTransferEndsOnce`, `PeripheralsAlwaysExact`, `TheCdBlockIsExact`, `CdStepsAreExact`,
  `ResultsAreComplete`, `NoneIsEarly`, `BreaksAreFinal`, `StepsAlwaysKeepTheirRules`).
  `EngineInv` ties each level's
  count of units left to what was started and what ended, through the copy that Core 6
  works on outside the lock, through flushes too.  Its hypothesis is that no list begins
  with an empty descriptor (section 8).  Results are complete when SF is clear because
  arming and executing each set or clear SF in the section that changes the pending
  command (`WaitingInv`).  `NoneIsEarly` is for `SmpcWriters` within `{"master"}`, since a
  command of the slave has no such bound, and rests on `TurnInv`; `BreaksAreFinal` is for
  one writer that waits for SF (`CutInv`).  `LinesInv` says that the lines captured are
  those from 0 to the one the clock is at, whatever moves the counter.  `PadsInv` is the
  ports', of reports and of polling alike (`PadsEffect`).

  `StepsAlwaysKeepTheirRules` puts the rules of the steps together, for a master that has
  the SMPC to itself.  Three of them needed an invariant of their own.  `FramesInv` says
  where a frame stands in cycles, from the line, what is left of it and what is not yet
  accounted, and the same of an armed delay; `TimerInv` does it for Timer 1.  Both are for
  any costs of the instructions and any batch, if a batch and a line fit the counter, and
  both count with histories that are as long as what they measure (`HistoriesAreLong`).
  `JumpsInv` says of the DSP that a jump that is pending is one that was delayed, and that
  what runs in its slot is no loop and no call: that is how programs are assembled
  (`Mixed`), and behind it `CounterIsAPipeline` holds for programs of any length.
  `AxesFit` gives each peripheral as many axes as its kind has; the report of two of them is
  then read back part by part, whatever their sizes (`ReadsOnePart`, `ReportsParse`).
* **`CdBuffers`**, and the rest of the CD block in `ArchivedCoreProofs`: `BuffersInv` has
  every block free, in one partition or under the transfer in one place of it; the counts
  are the lists' lengths.  For the drive (`DriveInv`) what is left of a period stays below
  the longest step if blanks are not further apart than the slowest poll (`A:cs2.rs:505`,
  16,667 microseconds, against `:525`, 333,333); a position stays between the play's ends.
  The port's records are counted from the directory (`PortInv`); the hand-over of a
  command (`HandshakeInv`) needs `WorksWhileWriting` = FALSE, as the buffers need
  `AbandonsPuts` = FALSE (section 8).  `TheCdBlockIsExact` puts them together and
  `CdStepsAreExact` their steps.
* **The suites** `MCBusDevices` and `MCArchivedCore`: a step of one part is a stutter of
  the others (`SuiteStarts`, `SuiteSteps`), so the theorems are of `SuiteSpec` and every
  value of its constants.  Where several instances of a module share the suite, what tells
  them apart is fixed by the suite: the units of `DmaEngine`, the operands of the DSP, the
  part of `LineClock` that is watched.

Only model-checked:

* the liveness properties (`StartedTransfersReport`, `DrawingEnds`,
  `EveryRequestIsServed`), which are out of the prover's reach;
* what folds over data: programs of instructions, copies and fills of the DMA's units
  (of `ScuIsExact` only that a transfer ends once is proved, `EveryTransferEndsOnce`), the
  DSPs, `RunCopiesTheBlock`, the drawing of lines; induction over data is out of reach, and
  `Sh2Execute` uses `Bitwise`;
* of `DevicesKeepTheirRules` and `SoundIsAsSent`, what concerns the program of the SCSP's
  DSP, its floating-point words, and the block that the SCU's DSP copies, which fold over
  data too; the suites `MCProcessor` and `MCArchivedVideo`.

## 5. What is left out

* **Live**: how x86-64 encodes the operations; amplitudes, pan and mixing of the SCSP
  (floating point); byte lanes and the count of unmapped accesses of the bus; the
  watchdog's registers, which nothing acts on; the clock's digits in the OREGs;
  transfers that write the SCU itself, where the code panics on the second borrow
  (`machine.rs:394`); the CD tick and the sound step in `Machine`, since they share no
  state with it (they have modules of their own); renderer, files, tools, logs.
* **First emulator**: the bus arbiter (its waits lie outside the lock-step clock), the
  creation of threads and their statistics, plain buffers behind one lock each,
  external interrupts of the A-bus (no producer), DMA reads through the CD block's port,
  the digits of the SMPC's clock, authentication and most answers of the CD block, the
  rectangle VDP1's erase fills, colour RAM look-up and the order of VDP2's layers,
  the sound processors and the frontends.  VDP2's windows, line scroll, rotation and
  special modes are not in the code.
* **Environment**: user input and the host's time, which no modelled step reads.

`PROJECT.json` says of every component whether it is modelled, in part or not.

## 6. Mutants

Every property of a passing run is tried against a slip in the code it is about (a
chunk not marked, `>=` for `>`, a flag not reset, a guard dropped, two stores
exchanged): with the definition replaced by the one marked `Mutant:` before it, TLC
reports the property violated.  `PROJECT.json` pairs them.

## 7. The finding

`code_cache_wrap`: `map` documents that `track_code` enables the invalidation of JIT
blocks when the memory is overwritten (`bus/system_bus.rs:48`).  A block that begins
at the end of one image of work RAM high and goes on into the next is translated from
both, but `mark_code` cuts its range at the memory's end (`bus/system_bus.rs:176`), and
the range of the cache entry (`cpu/jit/mod.rs:99`) lies beyond the memory's canonical
addresses.  Overwriting its second part leaves the old translation in the cache, and
the next entry runs it.

## 8. Known departures

The models follow the code.  Where it differs from what its comments, plans and
hardware notes say, the difference is listed here; a run whose property such a
difference would break leaves the case out, by the constant or the clause named.

### 8.1 Live

* `cpu/onchip.rs:114`: a store to 0x11C, a mirror of 0x114, starts the division before
  the stored value arrives, so the old DVDNTL is divided.  `OnChip` models it
  (`Mirrors`), and `DivisionIsExact` speaks of what was divided.
* `decode` takes the words with a stray second nibble (such as 0x0108) for unknown; the
  archived interpreter, like the hardware, ignores it (`NibbleIgnored`).
* MAC.L with S set saturates differently from the archived interpreter when the
  accumulator was loaded with more than 48 bits; so does MAC.W with S set when MACH
  holds other bits, and MAC.W without S unless MACH extends the sign of MACL
  (`AccumulationsAgree` names the three cases).
* In the slot of a branch that is taken, MOV.W and MOV.L @(disp,PC) and MOVA count from
  the slot in the JIT (`x64.rs:959`, `:268`) and as if they stood two words before the target
  in the archived interpreter (pc is the target minus 2, `A:sh2.rs:2897`; then `:3122`, `:3144`, `:3222`), which is what its notes
  say of the hardware (`src/archived/docs/hardware-reference/sh2-cpu.md:428`).  Both are
  modelled (`Literal`, `DelaySlotAndJump`); `ReadAtTarget` is the case in which
  `BlocksAreTheirInstructions` does not ask them to agree.

### 8.2 First emulator: threads and processors

* `A:sync.rs:148`: a core made inactive and active again by *another* thread while it
  waits gets a published count its threshold does not match; both sides can then sleep.
  `Controlled = {}` in `archived_core`; a hypothesis of `NoWakeupIsLost`.
* `A:lib.rs:571`: core 6 looks at its work and then makes itself inactive; a DSP start in
  between is seen only when the DMA is looked after again.  `A:lib.rs:455`: core 4
  notices SNDOFF only between two reports, so SNDOFF and SNDON in a row reset nothing.
* `A:bus_arbiter.rs:66`: one flag for two owners; the first to end frees the bus.
* `A:sh2.rs:829`, `:2398`: a wait for the bus can set a core's cycles back; the `u32`
  difference then wraps and every instruction makes a line.  `CatchUps <- {}` where time
  is measured.  `A:sh2.rs:580`: a reset zeroes the cycles and leaves the target of a
  waiting command.  `Uptimes <- {}` likewise.
* `A:sh2.rs:2527`: a command of the slave is armed without a delay anybody counts: it is
  executed by chance, with the next wake-up of core 7.  `SmpcWriters` is the master.
* `A:sh2.rs:1614`: the back bank's index is read before its lock is taken; a frame change
  in between sends the write to the bank on show.
* `A:sh2.rs:1848`: long and byte writes of TVMD store VRESO 3, which word writes filter.

### 8.3 First emulator: SCU, SMPC, CD block

* `A:scu.rs:464`: mask and list are under two locks, so an interrupt unmasked in between
  waits, kept but not delivered, for the next write of the program's.  `:1456`: byte writes of IMS do not run the drain.  `:1147`: a level's copy is
  stored back over a request made meanwhile.  `:951`: two interrupts of one factor can
  start a level twice.  `:1110`: a list that begins with an empty descriptor is taken
  for idle; left out in every instance and a hypothesis of `EveryTransferEndsOnce`.
  `:864`: fills from VDP2's RAM read their source again.  `:628`: `timer0_set` outlives
  the timers' being off.
* `A:scu_dsp.rs:449`: Z of AD2 looks at 64 bits, not 48.  `:336`: a transfer started in
  the last two instructions never moves its data.
* `A:smpc.rs:725`: a continuation of INTBACK armed after line 207 reports no peripherals.
* `A:cs2.rs:434`: `isbufferfull` is reset by nothing but a reset.  `:1804`: sectors taken
  out do not come off the partition's size.  `:864`: a put that is abandoned leaks its
  block (`AbandonsPuts` is FALSE in `archived_core`).  `:1710`, `:694`: a command is
  executed when CR1 is written if a blank falls in between, and one written then may
  never be answered (`WorksWhileWriting` is FALSE).  `:569`: a periodic report may come
  between command and answer.  `:549`: the drive's period falls back after one sector.
  `:1225`: positions always count as tracks.  `:634`: sectors played into a full buffer
  are lost.  `:797`: the table of contents ends after 51 of 102 entries.

### 8.4 First emulator: video

* VDP1's lists: a list that ended leaves its address, so the next PTMR = 1 draws nothing
  (`A:vdp.rs:380`); one list can interrupt twice (`:421`); EDSR is shifted in every pass
  (`:362`); a list cut exactly at its end gives no CEF (`:417`); the return address
  outlives a frame change (`:340`); an erased rectangle is too high by its first line
  (`:315`).  ENDR is not checked against a Draw End that is still pending.
* VDP1's drawing: shades that differ by less than the pixels do not move (`:3184`); the
  last pixel of an evenly divided span reads the column behind the character (`:3584`;
  `TexelsInTheCharacter` names it); sides truncate their slope (`:3484`); the stride of a
  row is in bytes and is given to readers that count texels (`:3653`), so that rows overlap
  by half in modes 0 and 1 and lie apart in mode 5, where the plan counts in bytes
  throughout (`src/archived/docs/implementation-plans/vdp1.md:698`, `:765`): texels are told
  by row and column and their addresses are not modelled; clipped pixels do not count
  end codes (`:3643`); shaded pixels lose bit 15 (`:3797`); lines with MSB-on (`:3376`)
  and in shadow mode (`:3387`) write their own colour; a pixel at x of 512 or more lands
  in the next row.  In double interlace the system clipping is doubled and not one less
  than the double (`:3457`), so the odd field loses the row of ClipY (`RowsOfTheField` names
  it), and the mesh counts the rows of both fields (`:3363`, `:3633`; the plan those of the
  frame buffer, `vdp1.md:876`).  Lines in an 8-bit frame buffer are shaded before they are cut to 8 bits (`:3342`, `:3369`), which the plan has for
  replacing alone (`vdp1.md:876`; `IndicesAreNotBlended` names it).  The properties of
  `Vdp1Drawing` are restricted to the cases outside (`SpanAsMeant` to clippings that keep
  the span, `SidesReachCorners` to diagonal sides), by the inputs of `MCArchivedVideo`.
* VDP2: SCYIN reads the fractions of SCXIN (`A:vdp2_regs.rs:165`); three bits of the
  supplement are always 0 (`:374`); CRAOFB and SPCTL are read at other addresses (`:75`);
  bitmaps repeat their first cell (`A:vdp2.rs:485`); the bottom ratio is used by half its
  bits (`:170`); ratios are taken crosswise (`A:vdp.rs:988`); the lower pixel is blended as
  if it had 15 bits (`:1220`).

## 9. Plan

Done: the block cache, the video clock, interrupts, DMA and the machine that composes
them, the sound CPU's account, the SCSP's timers and slots, the CD drive's clock, the
SCU's transfers, the threads of the first emulator, its interrupts, DMA engine, SMPC
commands, ports, line clock, the jumps of its DSP and its CD block, each with theorems;
the processors, devices and video, model-checked.

1. `Vdp1List`: the frame change; `DspInterpreter`: the order of a loop and a transfer.
2. The restrictions of section 8 lifted one by one as the code changes.
