# A TLA+ model of the FTLPU cycle model

FTLPU is a C++ cycle model of a statically scheduled tensor processor: two
hemispheres of MEM slices, MXM, SXM and a shared VXM, joined by stream registers,
fed by a hundred-odd instruction queues, and by DMA engines that bring pages from
DDR4 while computation runs. Static scheduling leaves few things to decide at run
time; those few are what this project is about: when computation waits for a page,
how queues wait for each other, and how pages and programs get into the chip.

All paths below are relative to `src/include/ftlpu/` unless they start with `src/`.

## The system

| Part | State | Operations | Talks to |
|---|---|---|---|
| Chip cycle, `system/tsp_slice_system.hpp` | cycle phase, functional units | `tick` in phases, `reset_program`, `reset_execution_state` | calls every part once a cycle |
| Instruction control unit, `system/icu.hpp` | queues, generation, loading, issue enable, broadcasts under way | `dispatch`, notify, program switch | queues, functional units, runtime |
| Common barrier, `icu/common_barrier.hpp` | table of stop cycles and events, clocks, cursor | `configure`, `notify_mem_commit`, `begin_cycle`, `end_cycle` | asked by the ICU before every dispatch |
| Queue controls, `icu/queue_control_pool.hpp`, `queue_control.hpp`, `queue_completion.hpp` | one control RAM, a cache per queue, page-completion latch | RAM cycle, `due`, `retire`, `notify_mem_commit` | every raw macro queue |
| Distributed queue, `icu/distributed_queue.hpp` | i-MEM, prefetch, loop state, macro contexts, tokens | `tick`, `tick_raw_macro`, `notify` | ICU |
| Macro contexts and decoder, `icu/active_macro_context.hpp`, `icu/macro_bitstream_decoder.hpp` | contexts, bit buffer | decode, admit, issue | distributed queue |
| MEM, `mem/*` | SRAM, ports, commit scoreboard | read, write, commit | stream registers, runtime |
| Stream registers, `core/stream_fabric.hpp` | two banks of cells | write, consume, advance | every unit |
| C2C DMA and DDR4, `c2c/dma.hpp`, `c2c/ddr4.hpp` | transfers, FIFOs, requests, memory | `issue`, `tick`, `send`, `pop_received` | ICU, C2C slices |
| C2C slices and link, `c2c/slice.hpp`, `c2c/link.hpp` | tile pipelines, credit | `evaluate`, `send`, `tick` | DMA or the other chip, MEM queues |
| Program loader, `system/program_loader.hpp` | load stages, reassembly, commits | `submit`, `start`, `tick` | DDR4, ICU |
| MXM, SXM, VXM | weights, accumulators, transpose buffers, lanes | one instruction per queue per cycle | stream registers |
| Encodings, `core/instruction_codec.hpp`, `icu/*codec*`, `icu/fu_3d_*` | none | encode, decode | loader, queues |

What is hard here is not the arithmetic. Everything runs in one thread, but every
cycle interleaves hundreds of small automata with a runtime that calls between
cycles, and the hard behaviours are these:

* *Stale and repeated reports.* Page commits carry a task generation and an
  instance; they come late, early, repeated, and after a task switch.
* *Holding.* Computation can stop while transport runs on. What is held, and when
  the chip counts as drained, is checked once a cycle and must not be checked a
  cycle too early.
* *Sharing one port.* A RAM with a latency and one read port feeds every queue; a
  queue whose cache is empty does not know whether it must stop.
* *Waiting for each other.* NOTIFY, SYNC, WAIT_EVENT and pages form cycles of
  waiting unless nothing is lost or merged.
* *Reordering.* DDR answers out of order; the FIFO after it must not.
* *Bounds.* Credits, FIFOs, request queues, counters of fixed width.

`PROJECT.json` lists these hazards at their lines with the properties that would
show each of them going wrong.

## The modules

| Module | Models |
|---|---|
| `PageGate` | abstract: a clock that may not leave a cycle before the pages gated there have arrived |
| `CommonBarrier` | the common barrier controller, with its callers in the chip, the ICU, the loader and the runtime |
| `CommonBarrierProofs` | the theorems about it |
| `QueueControl` | the control RAM, the queues' control side, notifications and page completion |
| `QueueControlProofs` | the theorems about it |
| `C2cDma` | the DMA engine of a hemisphere with DDR4, its ICU queue and the FIFO sides of the C2C slices |
| `C2cDmaProofs` | the theorems about its notifications, its FIFOs and requests, DDR's contents and what loads return |
| `ProgramLoader` | the program loader with its DMA, the routed bus and the stores of the ICU it fills |
| `ProgramLoaderProofs` | the theorems about it |
| `PageTransport` | a page on its way from the DMA's FIFO to SRAM: shared receiver, stream registers, MEM queues, MEM slices and commit scoreboard |
| `PageTransportProofs` | the theorems about it |
| `InstructionQueue` | a queue in its native form: loading, prefetch, NOPs, repeats, loop and write/read packets, synchronization, holds |
| `InstructionQueuePoints` | lemmas about what a program means: the issues of a command in the order of their offsets, its span, the cursor of its loops |
| `InstructionQueueProofs` | the theorems about the native queue of `IcuQueues` |
| `MacroFrontend` | a queue in its raw macro form: bit stream, parser, descriptor buffer, admission, active contexts |
| `IcuQueues` | the composition of the two: one chip that loads, primes, starts, ticks and holds both |
| `LaunchDomains` | operators: what a packet describes, when it is valid, what it expands to |
| `PacketCodec`, `WordCodec` | operators: the bits of packets and of single words, encoder and decoder apart |
| `Encodings` | an instruction on its way through encoder, shortening, relocation, a flipped bit and decoder |
| `MatrixUnit` | one MXM: instruction rows, wavefronts, waves, accumulator and its flags |
| `MatrixTimetable` | what a schedule of an MXM means, read off its issue cycles alone |
| `MatrixUnitProofs` | the theorems that the unit keeps to its timetable |
| `MCCommonBarrier`, `MCQueueControl`, `MCC2cDma`, `MCProgramLoader`, `MCPageTransport`, `MCIcuQueues`, `MCEncodings`, `MCMatrixUnit` | instances for TLC: the concrete tables, tasks, programs and samples |

Definitions called mutants in the modules are deliberately wrong variants of the
definition that follows them: each shows that some property depends on the code
being as it is.

### CommonBarrier

A step is one call of the API or one physical dispatch. `Configure` is
`configure_common_barriers()` with every validity check of `configure()`
(`ValidTable`); `NotifyMemCommit` is the report of a page with both generation
filters, ICU first; the `Dispatch*` actions split `dispatch_phase()`: the drain
test that precedes everything (`UnsafeBoundary`), `begin_cycle()` at an incomplete
boundary (`DispatchHold`), at a complete one (`DispatchRelease`) and elsewhere
(`DispatchRun`), each followed by `end_cycle()`; and the cycles during loading, in
which the controller is not ticked. `ResetProgram`, `ResetComputeProgram` and
`Reset` are the three ways to drop a task. The functional units are two bits:
computation in flight and transport in flight. Computation can only appear in an
issued cycle, transport at any time: that is what the drain test and overlap are
about. An exception is a value of `fault` and ends the run until `Reset`.
`UINT32_MAX` and 2^64 are constants, so wrap-around is reached in the instance.

`visible` is the truth the controller does not see: the page loads whose writes
are all in SRAM. The runtime reports only such loads, but at any time after, and
repeatedly. `lastTask` records the contract that tasks are numbered upwards.

### QueueControl

`BeginCycle` to `EndCycle` are the stages of one physical cycle: responses of the
RAM (`Deliver`), the queues in order (`Tick`, which is the loop of
`tick_raw_macro()` one record at a time), arbitration of the RAM port and the
broadcasts under way (`EndCycle`). WAIT_EVENT continues in the same cycle; a
released SYNC and a NOTIFY cost a physical cycle but no cycle of the queue's
clock; a packet keeps the queue until transport completes it. The instruction a
queue issues between records is not represented: only that its clock advances.
Absolute times of the pool are kept as distances from its cycle counter. Runtime
calls (`Load`, `Start`, page reports, release of an event, issue enable) happen
between cycles. `Load` may interrupt a task with responses still under way.

### C2cDma

`Issue`, `ReleaseSync`, `ReleaseWait` and `NoDispatch` are one cycle of the DMA's
ICU queue; `Slices` lets TX hand over up to two vectors a stream and RX take one;
`TickLoad` and `TickStore` are the two ticks in full, activation and completion
included; `Announce` is the end of the chip's cycle; `DdrTick` completes any
requests, at most one a lane. A vector is named by the command and index it was
made for, so `memory` says who wrote each row last. `FlattenSeq` of the library
gives the order of the program. `Ends` cuts the queue's commands into programs;
between two of them `ResetProgram` is `can_load_program()` with what
`reset_program()` discards: the notifications the queue did not use and the
completions that are still to be announced, one a cycle.

### ProgramLoader

The runtime's calls (`Configure`, `Submit`, `RequestStart`,
`SetDependenciesReady`, `ResetExecutionState`) happen between cycles. A cycle is
`tick()` in the order of the code: commit the words whose latency is over
(`TickCommit`, and `TickImageCommitted` for the last word of an image, which seals
it and begins the next and ends the tick), accept one word (`TickAccept`), move the
route (`TickRoute`), tick the DMA (`TickDma`); the other states tick by
`TickPrime` and `TickReady`. `TickSystem` is the chip and DDR, then
`observe_completion()`. Bytes are counted in lanes of four and carry their image
and position, so a word put together from the wrong bytes is seen as such. The
ICU's checks on writing and sealing are part of the commit, since an exception
there leaves a program half loaded.

The comment of `submit()` (`system/program_loader.hpp:153`) says that "Validation precedes
any mutation, including clearing the old program". That is true of the form of the images,
not of what the control images say: one row of barriers with an empty event image is
accepted, clears the old program and throws when it is sealed (`icu/common_barrier.hpp:45`).
`FailsIffMalformed` says for which programs that happens, and the run has nine of them.

An image is its store, queue, width and number of words, and for a control image the
records its words hold (`table`) with the words left over after the last whole record
(`rest`). `submit()` looks at the former only (`ValidProgram`, `Geometry`); the ICU reads
the records when it seals the image (`Sealable`: the checks of `seal_program_image()` and
of the `configure` functions it calls). It reads them from its stores; `Sealable` takes
them from the image, which `ImagesIntact` shows to be the same. Where a check fails,
`TickSealFails` is the exception: nothing more happens until
`ResetExecutionState`. The queue controls are those of a profile with the shared pool
(`kQueueControlStorageVersion` not 0). What the frontends still have to prefetch and
whether DDR has room for a request are choices, made fairly; the rest of the chip,
the data DMAs and DDR are one bit, `traffic`. `begin_direct_program()` is not
modelled: nothing calls it.

### PageTransport

One hemisphere, in the five steps of its cycle: the runtime and DDR
(`BeginCycle`, `Notify`), the MEM part of `dispatch()` (`Dispatch`), the MEM slices
(`EvaluateMem`), the shared receiver (`EvaluateC2c`) and the registers (`Commit`).
A queue's cycle is an operator on a record of its variables (`Tick`,
`TickTransportOnly`, `HoldComputeCycle`), so that all queues step together as in the
loop of the code. Nothing is buffered between the receiver and SRAM, hence the
model is exact to the cycle: a vector is one register per tile, one column and one
tile further each cycle, and a Write climbs the tiles at the same speed. An engine
exception is a value of `fault`. The launch and bank of a packet stand for its
owner entry and its scoreboard entry.

`Scheduled` says what a schedule must observe, since the code nowhere checks it in
advance: the delay of a packet is the number of columns its vectors travel; packets of a
bank have tags of their own (see the findings for what happens otherwise), every Receive
has its packet and rows are written once; reads use streams of their own, come behind
the packet or the WAIT_EVENT of their page, and do not fall into the cycles in which
transport writes their bank. With a common
barrier configured, pages are in the transport store (`TransportAssumption`). The last one matters:
`hold_compute_cycle()` freezes a native queue while its tokens age, and TLC reaches
a late Write at once if a native packet may overlap a barrier. Taps, untagged
notifications, raw macro queues and writes of computed data are not modelled.

### InstructionQueue, MacroFrontend, IcuQueues

`InstructionQueue` is `icu/distributed_queue.hpp` for a MEM queue. `AppendProgram`
loads commands, with the absolute starts of old compilers turned into NOPs and
refused when they are in the past. `NativeTick` is `tick()` in full: fetched words
arrive, the head of the IQ is dispatched, the next word is requested. A command that
lasts (NOP, repeat, loop, write/read) is a remaining count or a set of loop digits.
`NativeHold` is `hold_compute_cycle()`, `NativePrime` `tick_frontend()`. An
instruction is a row and a direction, so what a loop adds to it is visible. `Sound` is
what the encoders accept (`validate_icu_loop_3d`,
`validate_mem_icu_write_read_2d_instruction`, the checks of `begin_repeat_2d`): counts
and strides are positive, the stride of a loop exceeds the span of the loops inside it, and the two
sides of a write/read packet never fall on one cycle; and a packet fits the IQ, which a
`static_assert` demands. For the write/read packet the code has a sufficient
test by residues; `Sound` takes what it guarantees, so it admits more programs.

`MacroFrontend` is `tick_raw_macro()` without the controls (those are in
`QueueControl`) with `icu/macro_bitstream_decoder.hpp` and
`icu/active_macro_context.hpp`. Of the bit stream the model keeps how many bits each
record has: the reservoir, the decode window, records that straddle a word, the
dictionary and the truncated image follow from that. Descriptors gather runs,
`expand_and_admit` moves one into a context a bounded time before its start, and every
context issues when its own clock says so. `earliest_active_macro_release_cycle` is how
the code decides whether a context will be free in time.

`IcuQueues` puts a queue of each form into one chip: `Prime` runs until both
frontends are ready, `Start` and `Tick` drive both, `Hold` holds both in the same
cycle.

### LaunchDomains, PacketCodec, WordCodec, Encodings

The three operator modules translate `icu/fu_3d_instruction.hpp`, the packet codecs and
the word codecs. A packet or word is the set of its one bits, so that every field is at
the position the code puts it; encoder and decoder are separate definitions, as they are
separate functions. `Encodings` is the machine around them: `Encode` in full, `Shorten` to
the shortest form, `Relocate` and `Rescale` of a packed packet in place, `Flip` of one
bit, and `Dispatch` by the role of the queue, first the class of the word, then the words
it needs. `Issues` enumerates the points of a domain, up to `PointLimit`.

What the properties state with exceptions is behaviour of the code a reader should
know; each is written out where it is used:

* A 3-D stream compute validates that its columns stay in a row at the base address
  only (`SpillsRow`).
* The permute map of the SXM has eight rows; 8 means all of them, and 9 to 15 are read
  as such.
* `Repeat2D` is decoded without the check that outer intervals do not overlap, and
  encoded without a check of the induction target.
* The decoder of native MXM computes does not compare the accumulator address with the
  number of rows.
* `LoadColumn3D` has no short form. The block form of IW ignores the inner column; MEM
  Read and Write ignore the bits of the map stream, Gather and Scatter the address,
  SYNC and NOTIFY the tag; the hemisphere of an endpoint word is decoded and dropped
  by `to_legacy()`.
* Address arithmetic of DMA commands is kept below a cap, exact while
  (count - 1) * stride < 2^26.

### MatrixUnit, MatrixTimetable

`MatrixUnit` is a cycle of `mxm/mxm.hpp`: issue, the rows of the control slice
(`mxm/control_slice.hpp`), the loads, the two pipelines, the accumulator reads. Data is
abstracted to names: an operand is the cycle in which its vector reaches tile 0, and a
number is the set of products in it, so a sum with a wrong weight, a missing or a
doubled product is seen, and rounding is not. Every check that throws is a value of
`fault`. The instruction queue in front of a row is folded away (one instruction per
cycle, into an empty row); streams of concurrent instructions are assumed disjoint,
which is the allocator's business. `Tiles >= 2`, since a wave over one tile never
completes in the code (the stage that would complete it is the one that launches it);
the target has four.

`MatrixTimetable` says the same without state: from the issue cycles follow, by
arithmetic, the weights each product meets, the row each result goes to, the content
of each accumulator segment at each time, and which check fails first. The run compares
the two in every cycle. For reads of incomplete rows the timetable follows
`docs/mxm_modes.md:74-76` (`Incomplete`): a wave holds its row until all it brings has been
handed back, each segment after the wave was done. The code forgets the wave earlier if a
clear passes the row's last segment while the wave is under way (`Forgotten`): a clearing
read ends the ownership of its row with the last segment (`mxm/mxm.hpp:285`), although a
wave may have taken the row (`mxm/mxm.hpp:523`) after the read was issued. With waves at 2
and 8, a clearing read at 7 and a read at 10, all of one row, the last read sends the row
without the wave's results and no exception tells, against what the document says.
`FaultsExact` follows the document but for these reads: of them it says only that none is
refused without reason.

## The runs

| Run | Question | Bounds |
|---|---|---|
| `common_barrier` | Does the controller stay consistent and implement `PageGate` whatever the order of reports, pauses, switches and resets, and is every reached barrier released? | two tasks with a page load in common, two barriers, last cycle 3, counters modulo 5 |
| `queue_control` | Does each queue see its own records, once, in order, in time; is any notification or page miscounted; does the task end? | three queues, caches of 2, latency 3, interval 2, two tasks |
| `c2c_dma` | Do vectors keep their order and value between DDR and FIFOs, does a completion mean what it says, for the program it belongs to, and do the programs end? | two streams, FIFOs of 2, three requests, two channels; two programs that use one tag |
| `program_loader` | Does every image reach its store whole, in order and sealed before it is used, does sealing fail exactly for malformed control images, and does each other load end? | images of 1 to 11 words of widths 1 to 4; a bus of 8 with a route of 1, and a bus of 5 with a route of 2; FIFO of 2; 3 controls a queue and 4 in the pool, 2 barriers, 3 instances; generations to 2; twelve programs that are accepted, nine of them malformed |
| `program_loader_wide` | The third finding below | one image of 3-lane words, vector and bus of 16 lanes |
| `page_transport` | Does every vector meet its Write, does the scoreboard mean what the runtime takes it for, and does an open packet end while the chip is held? | two banks, two tiles, two lanes, three pages of 2, 1 and 2 vectors, IQ of 4; any cycle may be held, any vector late |
| `page_transport_tags` | The fourth finding below | two packets of one vector, a reservation of 6 cycles |
| `icu_queues` | Does every queue issue each instruction in its cycle, whatever is held, and does each end or fault only when its program is at fault? | IQ of 3, fetch latency 2, i-MEM of 8; words of 96 bits, reservoir of 2, descriptor buffer of 2 with 2 runs, 2 contexts, look-ahead 3; every short program beside one image and every image beside one program; one hold at any time, one event |
| `encodings` | Does every format survive its encodings, does every bit mean something, is a valid domain safe at every point? | the widths and limits of the target; samples of each format at the ends of its ranges; every flipped bit of the packets in `Damaged`; domains of up to 64 points |
| `matrix_unit` | Are accumulator, result streams and failing checks in every cycle those of the timetable? | 3 tiles of 2 lanes, 6 accumulator rows, 14 cycles, about 1,900 schedules |
| `c2c_dma_stores`, `c2c_dma_sync` | The first two findings below | two transfers |

The bounds are small but each interesting case is in them: a page instance shared
by two generations; a HOLD on an early, a late and a never-committed page; a
release in a cycle in which issue is disabled; counter wrap-around; two NOTIFYs in
one cycle with an earlier broadcast under way; a program switch with reads in the
response pipeline; an underflow; a wait for the port as long as the bound allows
(`ArbitrationBounded` is tight: 5 with a bound of 6); DDR answers in every order;
two completions in one cycle; words that end inside a vector or a bus packet, a last
vector that is partly padding, a route that backs up; programs whose images come in
an order that cannot be sealed, and programs that are accepted and fail on sealing, one
for each group of the ICU's checks, with the reset after it; a vector that arrives while its queue is held,
waiting, prefetching or busy with another packet, a token that waits at its greatest age, two
banks fed at once, a read on the heels of a page; a completion discarded by a program
switch, a tag used in both programs; a full context RAM that frees a context in the last
cycle before a deadline, and one that does not; records that straddle a word, an image cut
short; all nine checks of the matrix unit, the drain window (empty below three tiles), a
counter that wraps at the last accumulator row, both IS layouts with one and three
columns. Data values do not matter to control, so more of them would add no behaviour.
`encodings` tries no more values than samples: a field is tried at both ends of its
range and at a value with alternating bits, each format in every role it may appear in.

Deadlock is not checked: an exception ends a run, a finished program has nothing
more to do, and the horizon of `QueueControl` stops its clocks. The liveness
properties say what the deadlock check would.

### The properties

* `CommonBarrier`: `CursorAgrees` relates table, cursor, clock and reports;
  `ClockBalance` accounts for every physical cycle modulo the counter width;
  `CompletedIsVisible` says no report completes another task's page;
  `GenerationsAgree` relates the two filters; `ReleaseIsDrained` is an action
  property of every step that consumes a barrier; `GateSpec` is the refinement;
  `BarrierReleased` the liveness.
* `QueueControl`: `InOrder` for the RAM, with the self-checks of the pool, `ArbitrationBounded` for
  its port, `BoundaryRespected` for the clocks, `NotifyConserved` and
  `WaitsForPages` for synchronization, `TaskCompletes` for progress.
* `C2cDma`: `LoadsInOrder` for the data, with what DDR and engine hold of it and the
  room reserved for it, and `LoadsSeeStores` for its values, `StoresLanded` for
  the meaning of completion, `CompletionsNotified` for the ICU's tokens, program by
  program, `ProgramCompletes` for progress.
* `ProgramLoader`: `ImagesIntact` for what the stores hold, when it may be used, and
  that no two images mix (`OneImageInFlight`), `FailsIffMalformed` for the checks on
  sealing: made image by image, in the order `submit()` asks for, they fail just for the
  programs that are not `WellFormed` as a whole; `LoadCompletes` for the progress of
  those that are.
* `PageTransport`: `PayloadMeetsWrite` for the timing, `ScoreboardExact` for what a
  complete page is, `ReadsSeePages` for what waiting for it gives,
  `OpenPacketCompletes` for progress under a hold that never ends.
* `InstructionQueue`: `IssuesOnSchedule` compares every issue with the schedule the
  unrolled program means by itself, counting only cycles in which the queue did not wait
  for an event or a word, so that no hold moves an issue; `LegacyStartsKept` says absolute starts are met.
* `MacroFrontend`: `MacroIssuesOnTime`, the same for the points of an image.
* `IcuQueues`: `FaultsJustified`, no queue throws or starves unless its program or
  image asks for it, and `QueuesEnd`.
* `Encodings`: `RoundTrip` for each way through the codecs, `NoDeadBits` for flipped bits
  (no checksum protects a word: a bit that changes nothing hides an error), `DomainsSafe`
  for what validation at the corners promises for every point.
* `MatrixUnit`: `ResultsExact` and `FaultsExact` against the timetable, for every check
  but a read of a row whose wave was forgotten.

### Fairness

* The chip is ticked for ever by its driver: weak fairness of `Dispatch` (written
  without ENABLED, which the proofs cannot use), of `Cycle`, of `Next` in `C2cDma`, of
  `Prime`, `Start` and `Tick` in `IcuQueues`, where a hold is bounded and an event need
  not come.
* Transport is not stopped by HOLD (`system/icu.hpp:1663-1672` holds the compute
  queues only, `mem` transport queues keep ticking), so a launched page is
  eventually written, and the runtime, which polls the scoreboard, reports it.
* In `ProgramLoader`, weak fairness of `Cycle`; strong fairness of frontends being
  filled (`tick_frontend()` fetches every cycle while issue is disabled), of DDR
  having room (its queue empties by itself) and of DDR answering.
* In `PageTransport`, the chip is ticked until an exception and vectors come as long as
  there is room; holds may last for ever.
* In `QueueControl` and `C2cDma` the actions of the runtime, of transport, of the
  slices and of DDR, and the loading of the next program, are enabled in one stage of each cycle
  only, hence strong fairness for them. Each can happen finitely often in a task.
* Nothing is assumed of the barrier, the pool, the arbiter or the DMA beyond being
  ticked.

## Findings

* **Back-to-back stores.** `tick_store()` takes every vector in the TX FIFO for the
  store under way (`c2c/dma.hpp:287`). If the next store's vector arrives while the
  writes of the first are outstanding, the engine throws "C2C DMA vector index is
  outside the instruction". Two stores on one stream therefore work only if TX
  itself waits for the first to complete; a SYNC in the DMA queue does not help,
  since TX has a queue of its own. (`c2c_dma_stores`)
* **Anonymous completion tokens.** `src/docs/architecture.md:60-61` promises that a
  SYNC after a transfer releases only after its last beat. A SYNC takes the token
  of any transfer, so with two under way it may be released by the other one.
  WAIT_EVENT with the transfer's tag is exact (`LoadsSeeStores` depends on it).
  (`c2c_dma_sync`)
* **A bus too wide for the buffer.** `src/docs/hardware_configuration.zh-CN.md:353`
  gives the range of bus widths the loader takes, and `validate()` accepts them
  (`system/program_loader.hpp:303`). A packet enters the reassembly buffer only
  whole. With a vector and a bus as wide as the buffer, and words that do not divide
  it, a fragment of a word stays behind, the next packet never fits and the load
  never ends. The chip's default of 32 bytes is not affected. (`program_loader_wide`)

* **One tag for two packets.** The comment at
  `src/include/ftlpu/icu/distributed_queue.hpp:1810-1813` says that no vector is admitted
  before its packet is at the head or active. `accepts_synchronized_notification()`
  compares the tag of the active packet only, not whether it still expects vectors. A
  vector of the next packet with the same tag, coming while the first is in the rest
  of its reservation, is admitted, passes its bank and leaves a Write that finds
  nothing. (`page_transport_tags`)

## The proofs

`CommonBarrierProofs` proves, for every set of images, table capacity, last cycle
and counter width allowed by `ConstantsAssumption`:

* `Invariance`: `IInv` is inductive. The properties are not inductive alone.
  `NoMissedBarrier` (the code's own deadline check never fires) needs
  `CursorAgrees`; that needs the table's order (`TableOK`), which `configure()`
  checks once, and `CheckedIsHeld`, which ties the flag the drain test looks at to
  the phase; `CompletedIsVisible` needs `GenerationsAgree`, because the ICU drops
  reports by one generation and the controller by another. The conjunction is
  closed under every step.
* `TypeCorrect`, `ClocksBalance`, `CursorCorrect`, `DeadlineNeverMissed`,
  `CompletionsReal`, `FilterAgrees`: its consequences.
* `ReleaseOnlyDrained`: the action property. A barrier is consumed only in
  `DispatchRelease`; there the boundary is due, either because it was never
  checked or because the phase is HOLD (`CheckedIsHeld`), and a due boundary on a
  chip that is not drained is refused before the controller is called.
* `ImplementsGate`: the initial state maps to an initial state of `PageGate`, and
  each action to a load, an arrival, an advance or a stutter.

The assumption used besides typing is `LastCycle + 1 < CounterModulus`: the
schedule's 32-bit cycles do not exhaust the 64-bit counters.

`QueueControlProofs` proves, for every set of tasks, any number of queues, any depth of
the caches, and any latency and interval of the control RAM allowed by
`QueueAssumption`, that each invariant of the run `queue_control` holds
(`TypeCorrect`, `RecordsInOrder`, `BoundariesKept`, `NobodyStarves`,
`NotifiesConserved`, `PagesAwaited`). They rest on `Invariance`, whose invariant adds
to the properties what they need to be inductive:

* `TaskValid`: the task in force passed `ValidTask`. That its records are ordered
  (`ListOrdered`) is what makes the record at the front of a cache the next one due,
  and `BoundaryRespected` inductive.
* `Credited` and the shape of `Coming(q)` in `InOrder`: the first response under way
  to a queue is the record after those it holds, and there is room for it, so
  `Deliver` never throws.
* `Spaced`: responses keep the distance of their requests, and the last one is as old
  as the port has cooled down. Hence fewer than `PipelineDepth` are under way whenever
  the port is free (`PipelineHasRoom`), and `EndCycle` never throws.
* `Patient`: what a request has waited, the distance of its queue from the cursor and
  the cooldown of the port together stay below `NumQueues * ReadInterval`. A
  grant costs an interval and brings the cursor nearer to everyone else
  (`CursorCloser`).
* `PagesCounted`: `remaining` is the number of pages not reported, a released event
  has all of its pages, a held tag or an obeyed wait has its event released.
* `Conserved` says that what is counted is finite, `EmittedOnce` that a queue emits
  once a cycle, in its turn.

There is one lemma for each action. Those that leave the variables of a conjunct alone cite a frame
lemma for it; `RetireKeeps` and `TickFrame` serve all records that are obeyed. A wait
for an event the task does not define would wait for ever in the code; `IsTask` leaves
such tasks out.

`C2cDmaProofs` proves, for every program, any cut of it into programs, any number of
streams and any depth of the FIFOs and of the DDR's request queue allowed by
`DmaAssumption`, that the completions of the DMA and the SYNCs and WAIT_EVENTs they
release balance (`NotificationsExact`). `CompletionsNotified` alone is not inductive: a
completion adds one to what was announced and one to the set of commands completed only
if its command was not in that set, and belongs to the program that is loaded.
`EachOnce` says so (`CommandsOnce`): the commands a stream works on or queues are open
(issued to this stream by this program and not completed), they increase along the
queue, and nothing completes before it is issued. Increase makes the commands of one
stream different, the stream field those of two. A program switch needs every queue
empty (`CanLoadProgram`), so that nothing open is left behind `first`.
`WaitingAppend` and `WaitingTail` count the tags in the announcements as one is added or
taken. `StartFacts` serves both ticks, which end either in `WorkingInv` or in
`CompleteInv`; the data path, the FIFOs and DDR do not occur in the argument, whatever
they do.

For the data path, `C2cDmaProofs` proves from the same assumption that every variable keeps its type
(`TypeCorrect`) and that RX is given the vectors of the loads once and in program order
(`LoadsArriveInOrder`). `LoadsInOrder` says what has come out; its invariant `DInv` says
where everything else is (`DataInvariance`):

* `Before(s, op, c)` counts the vectors of a stream in the commands before `c`, and
  `Slots[s][op]`, the list the model builds with `FlattenSeq`, has the vector `<<c, i>>`
  at `Before(s, op, c) + i` and nothing else (`SlotsFacts`). `Position` is where a stream
  has got to: `Before` of its first command that is not over, and the index in it.
* `InLine`: an issued transfer is over or held by its stream, and what is over comes
  before what is held. Without it `Position` would jump when the next command starts.
* `Underway`: the pending requests are consecutive, from the last vector that was
  answered to the last one requested; `Requested`: DDR holds or has answered each of them
  once. So what a tick retires is the next vectors, whatever the order of the answers.
* `Fits`: room is reserved for every read. `Delivered` and `Supplied`: what RX was given
  and what TX has handed over are `Slots` up to `Position`; and a write carries the
  vector it is named for.

`tick_load()` and `tick_store()` are two cases of `Tick`, which retires some requests at
the front and adds some at the end (`LoadIsTick`, `StoreIsTick`); all but the FIFOs is
proved of `Tick`. `fault = "outside"` changes nothing else, so that the proofs do not
depend on the finding about `vector_address()`.

The last part of `C2cDmaProofs` proves what DDR holds and what loads return, for programs in which
no store writes a row twice and transfers of different streams that conflict on a row
are of different programs or have a WAIT_EVENT between them that waits for the first
(`ConflictsOrdered`, stated in `C2cDma` as a hypothesis of the theorems; the engine does
not look at addresses, so without it the order is DDR's choice. TLC evaluates it for the
programs of `MCC2cDma`). `WaitsFor` counts: up to the WAIT_EVENT there are no more
transfers of its tag in its program than WAIT_EVENTs of the tag.

* `WaitReleased` is the step from counting to order: tags, spent WAIT_EVENTs and
  announcements add up to the completions (`CompletionsNotified`), so that a released
  WAIT_EVENT leaves no transfer it counts uncompleted. `Switched`: the same across
  programs, because `ResetProgram` needs a drained engine.
* Hence, while a request is in DDR, every earlier transfer it conflicts with is over
  (`EarlierOver`, `EarlierLanded`) and no later one has written (`NothingLater`).
* `MemoryHolds`: a row holds the last vector that has landed on it, in program order.
  A tick lands none (`TickLanded`), a DDR tick those it finishes (`DdrTickMemory`).

`LoadsReadStores` and `StoresReachMemory` are its consequences.

`ProgramLoaderProofs` proves, for every set of programs and configurations and all
widths of vectors, buses, words and buffers allowed by `LoaderAssumption`, that each
invariant of the run `program_loader` holds (`TypeCorrect`, `StoresIntact`,
`FailsOnlyMalformed`). `ImagesIntact` says what has come out at the end of the path; inductive
is where everything on the path is (`Invariance`):

* `Filled`, `Accepted`, `Carried`, `Fed`: the bytes of the image being loaded lie
  without a gap along the store, the words that wait for their commit latency, the
  reassembly buffer, the stages of the bus and the FIFO. Each stage has a `base`, the
  number of bytes that come before its own; a move of the route shifts the bases by one
  stage; when the last one is blocked, only of those with a free stage ahead
  (`MovesFacts` unfolds the recursive function that decides it).
* `Bounded`: nothing exceeds its credit, and between images there is nothing anywhere.
  When the store has all of its words, counting leaves no byte for any other place
  (`NothingLeft`), so the next image starts with the whole path empty.
* `Phases` and `InOrder`: the ICU loads a program as long as the loader does, an image that
  refers to another comes behind it, and there is at most one image of barriers, as
  `submit()` checked.
* `Checked`: each image sealed so far passed its checks, and they all are the images before
  the current one. What a check needs of other images is sealed by then, so
  `Sealable`, which looks at what the ICU holds, and `WellFormed`, which looks at the
  whole program, agree image by image (`SealCheck`); the pool is full for some image
  exactly if all partitions together do not fit (`PoolCounts`).

Widths are products of variables, of which the provers know nothing by themselves: what
is needed of multiplication and division is in `Mul`, `DivFacts` and `DivUnique`.

`InstructionQueueProofs` proves of `IcuQueues` that the native queue keeps to its
schedule (`IssuesCorrect`) and that absolute starts are met (`LegacyCorrect`), for every
set of commands that `InstructionQueueAssumption` allows, every program made of them,
and any depth of the memory and the IQ and any fetch latency. `want`, the program
unrolled, is defined by sets of points; the dispatcher counts cooldowns and carries
digits. `InstructionQueuePoints` bridges the two:

* `ByOffset` lists a set of points by counting those that come before each. `Ranks` and
  `Listing` show, by cardinalities, that this is a list of all of them in increasing
  order whenever no two points share an offset (`Spread`). The strides of `Sound`
  guarantee that: in a sweep a later cell is due later (`Order2`, `Order3`), so the points of
  every packet are spread (`LoopSpread`, `RepeatSpread`, `SweepSpread`).
* The cell the dispatcher goes to after an issue (`Advance`, `Next2d`) is the next one
  due, and it stops at the last one only (`Follow2`, `Follow3`). The cursor of the
  appending code moves by the cycles the points take (`Spans`, `CursorStep`).

The inductive invariant is `LoadedInv`:

* `ProgramInv`: every word of the memory is a part of its command in order (`Laid`), each
  command begins where the one before ends (`Commanded`), and `want` is strictly
  increasing, holds the points of every command at their times and nothing else
  (`Scheduled`), relative to the value issued last before it (`Prior`: what a REPEAT
  repeats is decided when it is dispatched, but known when it is appended).
* `LegacyInv`: what the compatibility cursor is ahead of the end of the program is the
  same for all starts of an epoch, and nothing in the first one.
* `FrontInv`: the words in the IQ and those under way are consecutive from the head on.
* `HistoryInv`: what has been issued is exactly what `want` has before `time`.
* `PortInv`: if the port is free, `time` is the beginning of the command whose first word
  is at the head; if it is owned, `Holds` says which command owns it, for how long, and
  that its state is the next cell whose offset is not over. One lemma per owner shows
  that a step either issues the point due or that nothing is due, so that
  no packet misses a cell (`Timely`).

A tick is then one lemma per alternative of `Dispatch`. Waiting for a word or an event stops `time`, which is
what makes the schedule independent of holds, prefetch and priming.

`MatrixUnitProofs` proves of `MatrixUnit` that the accumulator and the result streams hold
in every cycle what `MatrixTimetable` says (`ResultsCorrect`) and that its checks fail
exactly in the first cycle in which the schedule breaks one (`FaultsCorrect`, with the
exception of `Forgotten` reads), for every size of the array, of the accumulator and of the horizon that `ShapeAssumption` and
`ScheduleAssumption` allow. The latter lets a schedule hand over whatever the constructors of
the instructions do not refuse: buffers, columns and lanes that exist, any address and
stride. `MatrixInv` says of each variable what it holds at the start of cycle n, as a
function of the schedule alone (`Exact(n)`), and that no check failed before
(`TimetableInvariance`):

* Row t executes what was handed over t cycles ago (`RowsStep`), so an operand at tile t is
  that of the last load issued t cycles earlier (`OperandsStep`): the weights a product meets
  do not depend on the tile (`WeightMet`). A wave carries the products of the tiles that its
  stage has passed (`WavesStep`).
* The cursor of a tile counts the computes of the burst that have reached it
  (`CursorStep`), so that all tiles give a compute the same place (`Place`, by counting).
  This needs that no burst is cut while its tail still climbs (`NoneCut`), which
  is what the check of a restart that comes too soon is for. It counts contributions, not
  cycles: `UndrainedSame` shows that it fires exactly when a restart is too soon.
* A row of sums serves one compute at a time though places are taken modulo the number of
  rows (`OneRowEach`): two computes at work are fewer than `RowCount` places apart. Hence
  sums hold the products of one compute only (`SumsStep`), and a column that is done has
  those of every tile (`DoneWhole`).
* A cycle touches the accumulator four times: waves add, computes add, reads take and clear,
  and the new cycle begins. `Held` numbers these moments, and the segments follow it from
  each to the next (`WavesHeld`, `ComputesHeld`, `AccStep`). The two flags of a row are
  the last of two kinds of events (`RowFlagsStep`), as the code has them, with the reads that
  clear a row of someone else.

One lemma for each check (`UnpairedSame` to `IncompleteSame`) says that what the unit sees at
some tile is what the timetable sees at the issue.

`PageTransportProofs` proves of `PageTransport` that each vector of a page meets its Write
(`PayloadsMeetWrites`), that the scoreboard is exact (`ScoreboardCorrect`) and that Reads
see their pages (`ReadsCorrect`), for every geometry, any number of banks and lanes and
any depth of the IQ and of the FIFOs that `TransportAssumption` allows, and for every set
of programs that observes `Scheduled`. This is a hypothesis of the theorems and not an
assumption of the module, since it is the schedule's part of the bargain; the run
`page_transport` evaluates it for its programs (`MCScheduled`), and the programs of
`page_transport_tags`, which give two packets one tag, do not observe it. `Scheduled` also
asks for an i-MEM that answers in one cycle, as in `src/config/ftlpu-lpu32.json`; nothing
is proved of slower ones.

The argument: two things determine the state, the set `T` of the vectors taken from DDR and
for each its age `A`, the cycles since. `PageInv` says that some `T` and `A` do
(`PageInvariance`):

* `Piped`, `Flying`, `Written`: by its age, a segment of a vector is at a tile of the
  receiver's pipeline, in a register so many columns from the edge, or in SRAM. A cycle
  only adds one to the ages (`StreamsMoved`, `SlotsOnward`), so no two segments meet and the register
  that a Write reads holds the segment of its vector (`PayloadsMet`).
* `Progress`, `Tokens`: what a queue has done follows from the ages too. Behind the entry it has
  come to, every Write has been issued, but for those the open packet still expects; ahead of
  it no vector has been taken, except in the last cycle and of the packet at the head, since
  `accepts_synchronized_notification()` admits no other. Its tokens are those of the vectors
  whose Writes are not issued, for each tag the oldest first, and of events whose pages are
  in SRAM. Hence a packet is open in the cycle after its first vector was taken, and a
  token is erased in the cycle it becomes due (`Due`): no earlier one is left, and the
  queue is not held, as `hold_compute_cycle()` does not reach the store for transport.
* `Supplied`, `Fetching`: the IQ holds consecutive words, two of them if packets are to come
  and a fetch is not under way, so that both words of a packet are there in time and no
  queue starves.
* `AgesOK`: the vectors of a packet are taken in order and a lane takes one in a cycle, so that no
  two are in one register and none are due in one cycle.
* `CountsOK`, `MemoryOK`: the scoreboard is the number of written segments of the packet of a
  launch, SRAM holds these segments in their rows. A complete page is therefore written
  on all tiles (`CompleteIsStored`), and stays so, as no row is written twice (`RowsApart`).

A queue's cycle is a composition of operators on a record; there is one lemma for each of them
and each case (`Tick`, `TickTransportOnly`, `HoldComputeCycle`), from which the step of all queues
follows at once. The five steps of a cycle have one form of the invariant each (`AtRuntime`,
`AtMem`, `AtC2c`, `AtCommit`).

Model-checked only:

* `MacroIssuesOnTime` and `FaultsJustified` in `IcuQueues`, with its `TypeOK`: the records
  of an image are sums of its deltas (`Total`, a fold), and what they say of a whole
  image needs induction over it. `FaultsJustified` also speaks of `FetchAt`, a recursion over
  the words of a program.
* `Encodings`: finite bit fields, for which checking the ends of the ranges says as much
  as a proof would.
* All liveness.

## What is not modelled, and why

* The arithmetic of MXM, VXM and SXM and the floating-point formats: data, and out of
  the reach of a model checker.
* The compact codec of SXM and VXM instructions outside the queues, and the legacy
  adapter: stateless, and a second form of what `PacketCodec` checks.
* Traces, statistics, logging, the viewer: no effect on the chip.
* In `CommonBarrier`, what a cycle issues; in `QueueControl`, the unshared control
  table and the transport instruction of a packet; in `C2cDma`, device reset and the
  beats of a vector; in `InstructionQueue`, Stream-ND programs; in `MacroFrontend`,
  the descriptors of queues other than MEM.
* In `PageTransport`, taps, untagged notifications, raw macro queues and other stream
  topologies.
* The SXM slices, the VXM lanes, the link between two chips with its TX and unshared
  RX slices: the parts the plan below has not reached. That a receiver and a sender can
  wait for each other's link credit (`c2c/link.hpp:37`) is the one hazard listed
  without a property.

## Plan

Done, in this order: `CommonBarrier` with `PageGate` and its proofs; `QueueControl`
and its proofs; `C2cDma` with program switches and its proofs; `ProgramLoader` and its
proofs; `PageTransport` and its proofs; `InstructionQueue` and its proofs, `MacroFrontend` and their
composition `IcuQueues`; the launch domains, codecs and `Encodings`; `MatrixUnit` with
`MatrixTimetable` and its proofs.

Next:

1. `C2cLink` with the TX and the unshared RX slice: credit between two chips, an
   abstract FIFO as its promise.
2. The transport instruction of raw macro queues (`QueueControl` with
   `PageTransport`), taps and untagged notifications.
3. The SXM transpose buffer; the VXM input buffers and chains.

Theorems to come: `MacroFrontend`; the link as an implementation of a bounded
FIFO; type correctness of the other modules.
