# SputterOS: verification project

TLA+ modules of the SputterOS kernel, its synchronisation primitives, builder,
command path, loggers, metrics, utilities and example programs; TLC
configurations that check them on small instances; and TLAPS proofs, for every
size, of their safety properties: the lock-free channels, the kernel's start and
stop, the tick, the builder, the command path, metrics, loggers, interlocks,
timers, the controller and the examples. Source references are to `src/` at the commit this directory lies
beside.

## 1. The system

SputterOS is a header-mostly C++ kernel for microcontrollers with one or more
cores. An application describes its cores and tasks to `SystemBuilder`;
`System<Cfg>` then runs them. There are no threads within a core: a core either
runs the flat loop (`tick()` again and again) or one crunch task in a tight
loop. What is concurrent is the cores, the interrupt handlers and the host on
the serial line. Everything shared lives in static members of `System<Cfg>`;
some of it is atomic, much of it is plain.

### 1.1 Inventory

| Part | State it keeps | Operations | Interacts with | What is hard |
|---|---|---|---|---|
| `LockFreeQueue` | ring, `m_head`, `m_tail` | `try_push`, `try_pop`, `size`, `clear` | comms task (producer), control task (consumer) on another core | two cores in one ring, stale index, wrap |
| `AtomicDoubleBuffer` | two slots, published index | `write`, `read` | a core that publishes, a core that reads | the reader is slower than two writes |
| `MultiCoreSync` | one lifecycle atomic per core | `setInit`, `startupBarrier`, `shutdownBarrier`, `setError` | `System::run` on every core | non-atomic scans, timeouts, a peer that fails |
| `System::init`, `run` | `s_kernelState`, `s_safetyAbort`, init flags | state transitions, dispatch, shutdown | all of the above | plain shared state, everyone waits for everyone |
| `CrunchDispatcher` | task, consecutive overruns | `configure`, `runLoop` | kernel state, safety abort, stop conditions | abort races, one dispatcher for all cores |
| `System::tick` | last dispatch times, ring index | Phase 1, Phase 2 | tasks, timers, error log | period edges, gap budget, fairness |
| Metrics | `TaskTimer`, `SchedulerHealthMetrics`, `QueueDepthMonitor`, `CoreUtilizationTracker` | `start`/`stop`, `recordGap`, `sample`, rotation, `percentileUs`, `snapshot` | `tick`, diagnostics task, other cores | window edges, unguarded sharing |
| `ErrorLogger` | overwriting ring, atomics | `log`, `read`, `count`, `clear` | every core and interrupt; diagnostics | writer and reader both move the tail |
| `TelemetryLogger` | ring, verbosity, optional mutex | `log`, `drain`, `setVerbosity`, `count`, `clear` | all tasks; diagnostics | try-lock whose failure is not seen |
| `InterlockManager` | conditions, soft abort, hard fault | `registerCondition`, triggers, `clearFault` | interrupts, operator, hardware | check-then-store against a new trip |
| `WatchdogSync` | last kick, alive flag | `kick`, `isStale` | two cores | a time read before it is used |
| Time utilities | `SystemTimer` epoch, `DeadlineTracker`, `NonBlockingStopwatch`, `PIDController` | `nowMicros`, `advance`, `elapsed`, `compute`, setters | applications | a counter that wraps, late callers, windup |
| `ConfigTraits` | none (compile time) | defaults, validation | builder, CLI, tasks | options without effect |
| `SystemBuilder` | task arrays, ring, modes, hooks, clock | registration, setters, `build`, `System::reset` | `System` | order of calls, limits, retry of a failed build, what a reset leaves |
| `CLI`, `CommandParser`, `FrameDecoder`, `ProtocolRouter` | mode, probe, line, frame, one command slot each | `tick`, `getCommand`, mode switches | stream, comms task | split reads, damaged input, mode switch in a read |
| Framed output: `FrameEncoder`, COBS, CRC, `ResponseSerializer` | none | encode, decode, serializers, `sendFramed...` | CLI, comms task, host tool | block edges, capacities, field order known on both sides |
| Text output: `LightweightStringBuilder`, `PerformanceFormatter` | one buffer | `append`, `flush`, `format` | comms task, diagnostics | cutting at the end, rounding, casts |
| `ScheduledCommsTask`, `ScheduledControlTask` | the drain loop, the abort | `tick` | CLI, command queue, safety monitors | back-pressure, acknowledgement |
| Example programs | their tasks and `main()`s | the ticks, stop conditions, final reports | builder, kernel, double buffer, TCP stream | self-gated periods, tokens between cores, timeouts counted in polls |

What makes each part correct is stated as the properties of section 4; the
hazards behind them are in `PROJECT.json` under `hazards`, each at its line.

### 1.2 How the parts meet

A command: host → stream → `CLI` → `ScheduledCommsTask` → `LockFreeQueue` →
`ScheduledControlTask` → application. `LockFreeQueue` is shown to implement the
abstract `BoundedFifo`, and `CommsPipeline` uses that FIFO as its queue, so the
fine-grained interleavings of the ring are dealt with once. The answer: comms
task → `ResponseSerializer` → `FrameEncoder` → line → decoder → host tool
(`Responses` over `FrameCodec`), or text (`TextOutput`). Start and stop:
`SystemBuilder` → `System::run` on each core → `MultiCoreSync` barriers →
`tick` or `CrunchDispatcher`. `KernelRun` EXTENDS `MultiCoreSync`: a step of
the kernel is a step of a core in the barrier or outside it. `CrunchLoop`
EXTENDS `AtomicDoubleBuffer` in the same way: its application and its servo
task take the steps of `write()` and `read()`.

## 2. Modules

| Module | Models | One step is |
|---|---|---|
| `BoundedFifo` | `IMessageQueue`, the promise of the queue | one call |
| `LockFreeQueue` | `LockFreeQueue.h`; refinement `ImplementsFifo` to `BoundedFifo` | one atomic access or slot copy |
| `AtomicDoubleBuffer` | `AtomicDoubleBuffer.h` | one atomic access or one word |
| `MultiCoreSync` | `MultiCoreSync.h` | one load or store of a core's state |
| `KernelRun` | `System::init`/`run`, `CrunchDispatcher` over `MultiCoreSync` | one access of shared state |
| `KernelRunProofs` | theorems about it | |
| `SchedulerTick` | `System::tick`, both phases | one loop iteration |
| `SchedulerTickProofs` | theorems about it | |
| `PerformanceMetrics` | the metrics classes, `snapshot()`, the aggregation of the diagnostics task | one member function; `recordGap` in two, `snapshot` one accessor |
| `MetricsProofs` | theorems about it | |
| `ErrorLogger` | `ErrorLogger.cpp` | one atomic access or slot copy |
| `TelemetryLogger` | `TelemetryLogger.cpp` | one field update |
| `InterlockManager` | `InterlockManager.cpp` | one store or one `isSafe()` |
| `WatchdogSync` | `WatchdogSync.h` | one atomic access |
| `TimeUtils` | `SystemTimer`, `DeadlineTracker`, `NonBlockingStopwatch`, `PIDController` | one call; one turn of the loop of `advance` |
| `ServiceProofs` | theorems about the queue, the two loggers, interlocks, watchdog, time utilities and the controller | |
| `Config` | `ConfigTraits.h` and the shipped configurations; evaluated as an assumption | |
| `SystemBuilder` | `SystemBuilder.h`, `CoreData`, `System::reset` for any resolved `Config` | one call |
| `BuilderProofs` | theorems about it | |
| `CommsPipeline` | CLI to application | one piece of input, one call of the loop |
| `Cobs` | `CobsCodec.h` on bytes (pure) | |
| `FrameCodec` | CRC, frame encoder and decoder on bytes, over `Cobs` (pure) | |
| `CommsProofs` | theorems about the pipeline and about COBS | |
| `Responses` | serializers, `sendFramed...`, METRICS_REQ handler, the line, `decode_metrics` of the host tool | one frame sent, damaged or received |
| `TextOutput` | string builder, NACK line, both formats of `PerformanceFormatter` | one call |
| `CrunchLoop` | the crunchloop example over `AtomicDoubleBuffer` | one step of a buffer or of a loop |
| `PingPong` | the pingpong example | one atomic access |
| `PeriodicExamples` | heartbeat, multirate, lifecycle | one task tick or loop test |
| `SensorPoll` | the sensorpoll example with its simulated ADC | one task tick |
| `TcpStream` | `TcpStreamServer`, the stream of the examples | one socket call, one critical section, or one byte of the one that stores |
| `ExampleProofs` | theorems about the double buffer, crunchloop, pingpong, sensorpoll, multirate and the TCP stream | |
| `Sums` | the sum of a stretch of a function, for reports and durations (pure) | |
| `InductionLemmas` | induction and recursion over the naturals, and what `Sums` computes | |

The MC modules instantiate them. `MCServices`, `MCResponses` and `MCExamples`
hold several components that share no state: a variable `part` picks one in the
initial state, and only its variables change afterwards, so a run checks each
component by itself and not a product. `MCKernelRun`, `MCSchedulerTick`,
`MCSystemBuilder`, `MCPerformanceMetrics` and `MCCommsPipeline` hold one each.

Variables keep the names of the members they stand for (`m_tail`,
`s_kernelState`); local variables that live across a step have names of their
own (`cTail`, `lExpected`). Program counters are `pc`, `bpc`, `cpc`, `kpc`. The
line range behind every definition is in `PROJECT.json` under `map`.
An operator that stands just before another one and differs from it in one
detail (`PushRoomUnchecked`, `ScanAllBorn`, `AddSampleMinElse`, ...) is a
mutated form of it, used to show that a property would notice that bug; it is
not part of any specification.

Abstractions. In `CommsPipeline` commands are numbers and input is cut into
pieces (a delimiter, a line end, one intact line, one intact frame, junk), so
`strtol`, `Cobs::decode` and `crc16` are "accepts exactly an intact one"; that
the codecs do accept exactly that is what `FrameCodec` and `Responses` show on
bytes, and for COBS what `CobsRoundTrip` proves. Task bodies are the time they take, a safety condition they may signal,
or an overrun. Averages and percentiles use exact fractions where the code uses
`float`; `TextOutput` has floats with their rounding, as integers with a bounded
number of significant bits, and a key or heading as one piece of text; the PID
controller has integers scaled so that every quotient is exact. All accesses are
sequentially consistent: the models check the algorithms, not the choice of
`memory_order` (the lock-free classes use acquire/release pairs on the index
that publishes a slot).

## 3. Runs

`tlc -workers 2 -config <cfg> <module>`. Deadlock is checked in `services` and
`builder`; the other systems may stop: the kernel when all cores have returned,
the examples at their end, the rest at a bound on calls, commands or ticks.

| Run | Configuration | Distinct states | Shows |
|---|---|---|---|
| services | `MCServices.cfg`, `MCServices` | 2,733,142 | The services that share no state with each other, one at a time: the command queue with its loads and stores interleaved, interlocks that trip while they are cleared, a watchdog, a fault log that two cores write at any time, a telemetry ring behind a try-lock that may fail, timers on a counter that wraps, a PID controller whose gains and limits change, gains of zero and below included. |
| kernel_run | `MCKernelRun.cfg`, `MCKernelRun` | 160,189 | run() on two cores, core 1 crunching, under every interleaving of the barriers, the unsynchronised kernel state, the safety abort and the stop condition. |
| scheduler | `MCSchedulerTick.cfg`, `MCSchedulerTick` | 32,156 | Ticks of the core that also runs the background ring, tasks taking any of several times: no task is overdue after a tick or early within one, and Phase 2 keeps to the gap. |
| builder | `MCSystemBuilder.cfg`, `MCSystemBuilder` | 341,076 | Every order of builder calls for a one-core and a two-core configuration with task arrays of four slots, with failed and repeated builds and resets: what a successful build() leaves is ordered, dispatched once and wired. |
| metrics | `MCPerformanceMetrics.cfg`, `MCPerformanceMetrics` | 1,688,816 | Three dispatches of a measured task over several window rotations, while the other core records gaps and reads a snapshot one accessor at a time: windows, percentiles, misses, utilisation and gaps agree with the samples. |
| metrics_totals | `PerformanceMetrics_totals.cfg`, `MCPerformanceMetrics` | until the first counterexample | With the diagnostics task as build() makes it, a deadline miss the diagnostics cycle finds never reaches the totals. |
| comms | `MCCommsPipeline.cfg`, `MCCommsPipeline` | 381,619 | Two commands, as text or in frames, whole or damaged, with handshakes, mode switches and any split into reads, through CLI, decoder, comms task, queue and control task: no command is run twice, none that waited at a mode switch is run later but one decoded behind an EXIT, the answer tells its fate, and the tick ends. |
| comms_answered | `CommsPipeline_answered.cfg`, `MCCommsPipeline` | until the first counterexample | A second complete command in one read, or a mode switch behind a command: the first gets neither ACK nor NACK. |
| responses | `MCResponses.cfg`, `MCResponses` | 43,662 | Real bytes: every frame the device can send, serialised, CRC and COBS encoded, over a line that alters, loses or repeats a byte, into the decoder and the host tool; and every text it writes, cut to its buffer, with its numbers through the rounding float operations of the code. |
| responses_metrics | `Responses_metrics.cfg`, `MCResponses` | until the first counterexample | A snapshot of eight tasks or more does not fit the default payload of 256 bytes, and the request is not answered at all. |
| examples | `MCExamples.cfg`, `MCExamples` | 399,142 | The example programs and their TCP stream: double buffers between an application, a crunch loop and the final summary, a turn token between two cores, tasks that gate themselves by time, an ADC polled with a timeout, a ring filled by a thread. |
| heartbeat_pulses | `Heartbeat_pulses.cfg`, `MCExamples` | until the first counterexample | The end of the heartbeat program is computed for four periods, and its first pulse comes after one: it prints four. |

### Bounds

- services. Queue: a ring with room for two commands (three slots), two
  different commands; the contents repeat, so every wrap is reached without a
  bound on the number of calls. Fault log: two cores that log at any time, a
  reader that also clears, capacity 2 and four log() calls, so that the ring is full,
  overwritten and lapped under a read. Telemetry: capacity 2, two contexts, no log()
  begun after three entries; any lock(0) may fail.
  Interlocks: three conditions and room for two, so registration can fail.
  Watchdog: a clock to four timeouts. Time: a raw counter of 16 values, started
  anywhere, for 12 units, so that it wraps at every point; a period of 3 and
  steps of 1 and 5, so that a caller misses no, one and two activations. PID:
  four sets of gains, one without and one with a negative integral gain, two of
  limits, errors of both signs, samples 0, 1 and 2 apart. What samples without an
  integral gain add to the integral is cut at `MaxDrift`; otherwise the integral is
  unbounded in the model and bounded by the code.
- kernel_run: two cores, the second crunching; two polls per barrier give a
  barrier that succeeds, one that times out and one that sees a peer's error.
- scheduler: three scheduled tasks (two kernel-managed) and three background
  tasks, a gap that admits some of them, time to 14 so that several periods pass; the
  age of a dispatch is counted to `AgeCap`, the longest period.
- builder: a one-core and a two-core configuration, five calls, arrays of four;
  tasks of equal priority, of priority 0, too fast, with unmet dependencies; a
  crunch task that is valid and one that is too fast; room for one stop
  condition and for three monitored tasks, so both limits are met.
- metrics: three dispatches, each in a different histogram bucket, a window of
  four microseconds so that it rotates after one, two or three of them, a raw
  clock with and without an epoch, one tick and one snapshot of the other core.
- comms: two commands, up to three pieces per read, buffers that overflow at
  the second piece, a queue of one.
- responses: three frames with payloads of up to 8 bytes, one of them damaged
  anywhere; and single frames of the default limit of 256 with payloads around
  the COBS block of 254, with and without a zero near its end, and snapshots of
  0, 1, 7, 8 and 16 tasks. Text: a builder of 16 characters, destinations of 1
  to 1000, three appends, and floats of 14 significant bits (the code has 24): all of
  those near 0, 1, 8 and 8.192, where thousandths stop being exact, and above, and
  values without a `uint32_t` value (`U32` is 2^15 in place of 2^32).
- examples: the constants of the programs scaled down so that each run has
  several periods, rounds or timeouts; five writes of the double buffer, so that
  a read is overlapped by none, one and several.

### Fairness

- `KernelRun!FairSpec`: weak fairness of each core's step. A core is a processor
  that executes its loop; nothing in `run()` blocks except on its own polls.
- `CommsPipeline!FairSpec`: weak fairness of the drain loop (the comms task runs
  to the end of its tick) and of the control task (the kernel dispatches it
  every tick). The host is not fair: it may stop sending. That safety aborts
  end is not assumed; `AcknowledgedIsExecuted` exempts behaviours in which they
  never do.
- `SchedulerTick!FairSpec` is used only to refute `RingIsFair`.

## 4. What the runs show

**services**

- Queue: no interleaving of `try_push`, `try_pop` and `size` puts both sides
  into one slot (`SlotExclusive`); the consumer's `size()` is never too large
  and the producer's never too small (`SizeIsBound`); every step is a step of
  the atomic FIFO or changes nothing it shows (`ImplementsFifo`).
- Fault log, two cores: they may lose entries to one another (section 6), but a
  `log()` that no other overlaps always leaves its entry as the newest. Until two of
  them overlap, the ring holds the newest entries in order whatever a `read()` does
  meanwhile; and until a `read()` overlaps too, none is dropped too soon and none is
  read twice or late (`KeepsNewest`).
- Telemetry: a failed `lock(0)` lets two contexts in (section 6), and nothing is
  claimed of what they leave. Until one fails, and again after a `clear()` that has
  the logger to itself, every entry is written, suppressed, cleared, overwritten by a
  full ring of newer ones, or still there, index and count stay together, and the
  drain is in order (`EveryEntryAccounted`).
- Interlocks: what `clearFault()` answers is true of the flags
  (`ClearTellsTrips`), and the hard fault falls only after each condition was
  seen safe (`ClearedAfterEachSafe`).
- Watchdog: a check without a concurrent kick says stale exactly when the core
  is silent for longer than the timeout (`StaleIffSilent`).
- Time: however late `advance()` is called, the next activation is in the
  future, at most a period away and in phase (`DeadlineKept`); elapsed times
  are right across a wrap of the counter (`ElapsedExact`).
- PID: the output is in its limits and the integral bounded by what crosses
  them, whatever changes of gains and limits came before; only samples taken with
  an integral gain of 0 add to it without bound, and what they added is told apart
  (`WindupBounded`).

**kernel_run**: a core leaves the startup barrier successfully only when all
cores were initialised and the shutdown barrier only when the others stopped or
one failed (`BarriersMeanAll`); after a safety abort at most the crunch call
that was past its test begins (`AbortLatency`); when all cores have returned
the kernel state is SHUTDOWN although it is written without synchronisation
(`EndsInShutdown`); a stop condition ends `run()` on every core (`StopEndsRun`).

**scheduler**: after a tick no kernel-managed task is overdue (`NoneOverdue`),
none is dispatched before its period (`PeriodRespected`), and Phase 2 runs its
first task in every tick and no further one beyond the gap (`GapRespected`).

**builder**: whatever the calls, retries and resets, a built system dispatches
in priority order with equals in order of registration (`DispatchOrder`); each
listed task is on exactly one ticking core and once, the kernel's own included
(`EveryTaskTickedOnce`); and it is wired with what this builder was given:
clock, windows, watchdog kick, drain hook, monitored tasks (`FullyWired`).

**metrics**: both windows of a timer are the statistics of exactly their
samples, no reported window has more misses than samples, utilisation is at
most 1 and averages are at most the peak (`WindowsExact`); a percentile lies in
the bucket of the true one (`PercentileInBucket`); gap records are exact unless
two cores overlap (`GapExact`); a snapshot of scheduler health and task is
coherent unless either changes meanwhile (`QuietSnapshotCoherent`).

**comms**: no command is queued twice, and none that waited when the mode changed
is run later, except a COMMAND frame behind an EXIT in the same read, which is
stored after the exit emptied the slots and runs in the next framed session
(`NoCommandTwice`); ACK means queued or executed, NACK means neither, the answer
carries the command's number and the last command of a read has one
(`AnswerTellsFate`); a whole command between separators is received whatever
came before (`WholeIsReceived`); the drain loop ends (`TickEnds`); an
acknowledged command is executed (`AcknowledgedIsExecuted`).

**responses**: a frame that arrives as it was encoded is delivered unchanged
whatever came before, and no altered, lost or repeated byte makes the decoder
deliver one that was not sent (`DeliveredIsSent`; one damaged byte, in every place
of the sampled frames); the host tool reads every metrics field with the value that was
written (`MetricsReadBack`); text is the longest prefix that fits of what was
meant, and the digits of a float are off by at most one in the last place although
the code rounds up to three times: from the string builder while the scaled value is
below half of what the significant bits can count (with three decimals 8388.608;
TLC finds larger values that are off by more), from `PerformanceFormatter` while the
value fits `uint32_t` (`TextTells`).

**examples**: a read of the double buffer overlapped by at most one write
returns one whole value (`SlowWriterExact`), none older than the value published
when it began (`NeverOlderThanPublished`); the state main() reads word by word
for crunchloop's summary is the whole record of the last call (`FinalEncoderCount`); ping and pong strictly alternate to
the last round (`TurnsAlternate`); multirate's reports and accumulator add up to
all samples (`ReportsConserve`); sensorpoll never takes the result of an
abandoned conversion for that of the next (`FreshReading`); the TCP ring keeps
order and content of what it does not drop (`BytesInOrder`).

**Violation runs**: `comms_answered`, `metrics_totals`, `responses_metrics` and
`heartbeat_pulses`; see section 6.

Most modules also state a type invariant. Those that a theorem of section 5
rests on are proved; the others document the state and hold in the instances above (add `INVARIANT <name>` to a configuration to see it).

## 5. What is proved

`tlapm <module>` for the seven modules whose names end in `Proofs` and for
`InductionLemmas`, on which three of them rest. A theorem
holds for every value of the constants that satisfies the named assumptions of
the module it is about, so for any number of cores, tasks, slots, entries or
commands; the bounds on time and on calls are constants too, and arbitrary.
Each property below was first checked by TLC; the inductive invariants are
definitions of the component's module (behind a comment that says what makes the
properties inductive), so that a run can check them as well: add `INVARIANT
IInv`, or the name given here, to the configuration.

| Module | Theorem | Property |
|---|---|---|
| `ServiceProofs` | `QueueSlotExclusive`, `QueueSizeIsBound` | `SlotExclusive`, `SizeIsBound` |
| | `QueueImplementsFifo` | `ImplementsFifo` (refinement) |
| | `TelemetryEveryEntryAccounted`, `ErrorKeepsNewest` | `EveryEntryAccounted`, `KeepsNewest` |
| | `InterlockClearTellsTrips` | `ClearTellsTrips` |
| | `InterlockClearedAfterEachSafe` | `ClearedAfterEachSafe` (action property) |
| | `WatchStaleIffSilent`, `ClockElapsedExact`, `DeadlineTrackerKept` | `StaleIffSilent`, `ElapsedExact`, `DeadlineKept` |
| | `PidWindupBounded` | `WindupBounded` |
| `KernelRunProofs` | `RunBarriersMeanAll`, `RunAbortLatency`, `RunEndsInShutdown` | `BarriersMeanAll`, `AbortLatency`, `EndsInShutdown` |
| `SchedulerTickProofs` | `TickGapRespected`, `TickNoneOverdue` | `GapRespected`, `NoneOverdue` |
| | `TickPeriodRespected` | `PeriodRespected` (action property) |
| `BuilderProofs` | `BuilderDispatchOrder`, `BuilderEveryTaskTickedOnce`, `BuilderFullyWired` | `DispatchOrder`, `EveryTaskTickedOnce`, `FullyWired` (action properties) |
| `CommsProofs` | `CommsNoCommandTwice`, `CommsAnswerTellsFate` | `NoCommandTwice`, `AnswerTellsFate` |
| | `CommsWholeIsReceived` | `WholeIsReceived` (action property) |
| | `CobsRoundTrip` | no property of a run: what is encoded, in a buffer of the size `cobsMaxEncodedLen()` gives, fits, has no zero, and is decoded to the message |
| `MetricsProofs` | `MetricsGapExact`, `MetricsWindowsExact` | `GapExact`, `WindowsExact` |
| | `MetricsPercentileInBucket`, `MetricsQuietSnapshotCoherent` | `PercentileInBucket`, `QuietSnapshotCoherent` |
| `ExampleProofs` | `BufferSlowWriterExact`, `BufferNeverOlder` | `SlowWriterExact`, `NeverOlderThanPublished` |
| | `CrunchImplementsBuffer`, `CrunchNeverOlder`, `CrunchFinalEncoderCount` | every step of crunchloop is one of the buffer; `NeverOlderThanPublished`, `FinalEncoderCount` |
| | `PingPongTurnsAlternate`, `SensorFreshReading` | `TurnsAlternate`, `FreshReading` |
| | `MultirateReportsConserve`, `TcpBytesInOrder` | `ReportsConserve`, `BytesInOrder` |

The other theorems (`QueueInvariant`, `RunInvariant`, `BuilderInvariant`, ...)
state the inductive invariants; the type invariants of the queue, the buffer, the kernel and the
tick have theorems of their own.

### The arguments

**Queue** (`Capacity` is a positive natural number, `DefaultCmd` is a command).
`SlotExclusive` and `SizeIsBound` are not inductive: that the producer's slot is
not the consumer's follows only from what the producer knew when it tested for
room. `IInv` adds it: each side's private copy of its own index equals the
index; past its test the producer has room *now* (the consumer can only make
more), and the consumer an item; a size that is half computed is already on the
right side. `QueueImplementsFifo` maps the ring to the sequence of its items
from tail to head; the lemmas `WriteLemma`, `PushLemma`, `PopLemma` and
`EmptyLemma` say what each store does to that sequence, and every step is then a
step of `BoundedFifo` or leaves its variables unchanged.

**Kernel** (at least two cores, core 0 is no crunch core, at least one poll per
barrier, the overrun limit fits its counter). A barrier's scan reads one core
after the other, so "all are ready" is never observed at one time. `ScanInv` is
what survives: a core passed by a scan for READY *has been* initialised, and
initialised cores stay so; a core passed by the shutdown scan has left its loop
for good, or some core failed. `PlaceInv` ties the lifecycle state a core shows
to where it is in `run()`. `AbortInv` says that a core which began a `crunch()`
after the signal has its next test of the abort still before it, and meets it
there. `EndsInShutdown` needs the most: the kernel state is a plain variable,
tested and assigned in separate steps, and a lost update could leave it short of
SHUTDOWN for ever. `StateInv` says that in every other state some core `MovesOn`:
it stands before the transition out of that state, and what its switch read, if
it has read, is that state. When all have returned nobody is left to, so the
state is SHUTDOWN.

**Tick** (any task list and non-empty ring; `AgeCap`, where the model stops
counting the age of a dispatch, is no less than any period). `GapInv` needs
nothing more: before its first background task a tick has used nothing, and only
the first may exceed the gap. `NoneOverdue` is about true ages and the code
compares stored times, so `AgeInv` relates them, and `VisitedInv` says that
Phase 1 leaves behind it only slots that ran or were not due. Both assume that
the clock does not wrap within the run (`MaxTime < TimeWidth`; the code's counter
has 64 bits): after a wrap a stored time may be ahead of the clock.
`PeriodRespected` also assumes that the clock does not start at 0, the value
`s_lastDispatch` uses for "never": with it the property is false (section 6),
and `NeverInv` is where the proof uses it.

**Builder** (any configurations with at least one core, any tasks, attributes
and capacities; the kernel's task names are not the application's). Two things
make it hard: `build()` sorts what an earlier failed `build()` already sorted and
grew, and the order it must keep is that of calls long past. `SortLemma` says what
`SortByPriority` computes for a list of any length: a permutation, in order of
priority, whose equals keep their order, given by the witness `from`. `Arranged`
carries such a witness through the behaviour: a `rank` that tells of each user
task in a list which registration it came from, increasing among equals, with
kernel tasks before. Sorting, appending a registration and putting kernel tasks in
front (`ArrangedSort`, `ArrangedAppend`, `ArrangedGrown`) keep one, and in a list
without duplicates the rank is the position in the registrations, which is
`DispatchOrder`. For `EveryTaskTickedOnce`, `PlacedInv`: if an earlier build put
diagnostics into the ring it put control into a list that has room, so a second
placement would be found as a duplicate. For `FullyWired`, `ClockInv`, and
`MonitoredLemma`: the concatenation of the lists, cut at what the diagnostics task
has room for, is all of them unless it is full.

**Command path** (all sizes and limits positive, a line of at least two
characters). A command is in at most one of the five places that may hold one
(text line, frame buffer, parser slot, framed slot, the task's copy), and in none
of the first four once it has been queued or answered (`HeldInv`); one that a
mode switch cut off can only remain in the parser's slot while the mode is
FRAMED, where nothing takes it, and the end of that mode empties it. The exception
is what is decoded behind an EXIT (`late`); it is kept apart, and the claim is about
the others. `NumberInv`
and `TaskInv` say that the answer's sequence number belongs to the command
beside it, and `NewestInv` that the last command of the current mode is answered
or still held. For `WholeIsReceived`, `WholeInv`: the buffer of the loop that
works on the rest of the read is empty after a separator, and holds nothing but
the command after a whole one.

**COBS** (a message of bytes, an output buffer of at least `cobsMaxEncodedLen()`,
an input buffer of at least the message). `OverSeq` walks a message in runs of 16
so that TLC needs no deep recursion; `EncodeFold` and `DecodeFold` say that this
is the walk byte by byte. `DecodeBlock` is what the decoder makes of a code byte
and its block, by induction over the block. `EncGood` is the invariant of the
encoder: after each byte of the message, what the decoder would make of the
bytes written, followed by the open block, is the message so far, and the bytes
written exceed the message by one for each full block of 254. The zero that a
block of fewer stands for is written by the decoder only when another block
follows; `Decoded` is that case distinction, and the one mistake it invites is
the mutant of `DeliveredIsSent`.

**Metrics** (the durations have a maximum, the window and bucket sizes are
positive where they divide). `TickInv`: the wall time of a tick covers the task
time measured in it although the two are taken from different clocks. `GapInv`:
until two cores overlap in `recordGap()`, at most one is inside, and what it
read is still what it overwrites. `WindowsInv` says of each window of the timer
that its count, sum, extremes and histogram are those of a stretch of the history
of samples (`Summarises`), and `MissInv` that a miss outstanding between `stop()`
and the deadline test is the only one not counted. `MetricsPercentileInBucket`
follows from it without a further invariant: the buckets below the one found hold
fewer samples than the rank, with it they hold at least as many, and the order
statistic of the samples lies between. `SnapshotInv`: as long as nothing disturbs
it, what a snapshot has read is what the accessors would read now, and every
window is `Balanced` whoever wrote it, so the finished snapshot is coherent.

**Loggers** (any number of contexts; any capacity). Both logs are used by several
cores without mutual exclusion, so the invariants say what remains and are
conditional on histories that record interference. `CallInv`: a `log()` that began
alone and was not joined has the head it loaded, and its entry stands there before
the head moves; this needs nothing of what overlapping calls left before. A `read()`
may store a stale tail, so nothing can be said about the tail: `NewestInv` places
the newest entries relative to the head, which only `log()` moves, and holds until
two of those overlap; `TurnInv` and `TakenInv` speak of the tail, until a `read()`
and a `log()` overlap. `TelemetryInv` is conditional on `missed`, that a `lock(0)`
has failed: otherwise who is inside holds the mutex (`HolderInv`), and `RingInv`
counts by the step under way: while the holder is between two of its updates, head,
tail and count differ by exactly that step. A `clear()` that acquired the mutex and
is alone inside makes all of it true from any state, which is the step of the proof
that uses nothing of the state before but its types.

**Interlocks, watchdog, time, controller.** `FlagsInv`: until `clearFault()` resets a flag,
each trip since it began stands in the flag, and a soft flag found between the
two stores belongs to a later trip. `ScanInv`: the conditions behind the scan
were safe at some time since the call. `WatchInv`: no stored time lies in the
future (the clock does not pass its width), and an undisturbed check read the
clock after the last kick. `ClockInv`: a reading is the epoch plus the true time
it was taken, less the width if it wrapped; two of them subtract correctly as
long as the time between is shorter than the width. `DeadlineInv`: while
`advance()` turns, the activation is in phase and at most a period past the time
it was given. Remainders and products by the variable period are kept in two
operators, `InPhase` and `Periods`, of which the proof uses only `PeriodLemma`: a
period more keeps the phase, and a turn more is a period more. `PidInv`: an
integral beyond what swings the output from one limit past the other saturates it
on the side of the error, so conditional integration does not let it grow;
products of variable gains and errors are bounded by one lemma each. A gain that is
not zero is at least one unit, so the integral shows in the output; with a gain of
zero it does not, and `drift` takes up what such a sample adds.

**Examples.** Double buffer (`MaxWrites` is a natural number): `IInv` says that
the published slot holds the last published value in both words, what the writer
has already put into the other, and, for a read in progress, that its slot holds
the value it began with as long as at most one write overlapped, and no word
older than that ever. `CrunchImplementsBuffer` lifts these to the program that
uses the buffer. `CrunchInv`: how far the `write()` of the state buffer has
come (`StateInv`), and that the servo has left its loop, after the `write()` of its
last call, before main() loads the index (`SummaryInv`). `PingPongInv`: each
side's place and the difference of the counts are determined by the token.
`AskedInv`: the conversion the simulated ADC times is the one the task waits for.
`ReportsInv`: a report moves the accumulator into the sum of reports, and a sample
extends both sides by one term (`SumNext`). `TcpInv`: the tail is where the unread
bytes end, the thread's local buffer holds the bytes received last, and the bytes
read, stored and dropped are a partition of those before it.

**Recursion.** The library's induction theorems take an operator as a parameter,
which the provers cannot instantiate. `InductionLemmas` states them for sets and
functions instead: a non-empty set of naturals has a least element (from the
well-foundedness of `<`), a set that contains 0 and successors contains all
naturals, and a recurrence given as a function has a solution (`RecursionExists`)
and only one (`RecursionUnique`). From these follow the equations of the recursive
functions in the models, which a `CHOOSE` hides: `SumEquation`, `SortEquation`,
`FlatEquation`.

### Only model-checked

- Liveness: `StopEndsRun`, `TickEnds`, `AcknowledgedIsExecuted`. Fairness and
  ENABLED are outside the prover's reach.
- `DeliveredIsSent`, `MetricsReadBack`, `TextTells`: what CRC, the
  serializers and the digits of a number compute on bytes and characters. The
  modules use `Bitwise`, and that no damage of one byte survives CRC-16 is a fact
  about its polynomial. Of `DeliveredIsSent` only the part that COBS has in it is
  proved (`CobsRoundTrip`).

## 6. Statements of the repository that the models refute

Four have a run of their own:

- `EveryCommandAnswered` (run `comms_answered`, `CommsPipeline_answered.cfg`; src/include/sputteros/comms/CLI.h:525). A read may hold several complete commands, but the CLI keeps one: a second COMMAND frame overwrites m_framedCommand (CommandParser::parseLine does the same with the text command), and a mode switch clears it, before ScheduledCommsTask takes it, so the earlier command is neither queued nor answered. The architecture says "Complete commands → `ICommandProducer::try_push()`. Success → `ACK <cmdId>\n`. Queue full → `NACK <cmdId> <targetDevice> <value>\n`" (src/docs/SystemArchitecture.md:238).
- `TotalsAggregated` (run `metrics_totals`, `PerformanceMetrics_totals.cfg`; src/include/sputteros/builder/SystemBuilder.h:465). build() constructs the diagnostics task and never calls setSchedulerHealth(), and nothing else does, so m_schedulerHealth is null, tick() skips setAggregates() and the totals of every snapshot, text report and METRICS_RESP stay 0 whatever the task timers counted. PerformanceSnapshot says "Aggregate overruns across all tasks." and "Aggregate deadline misses across all tasks." (src/include/sputteros/utils/PerformanceSnapshot.h:83).
- `MetricsAnswered` (run `responses_metrics`, `Responses_metrics.cfg`; src/include/sputteros/kernel/tasks/ScheduledCommsTask.h:220). onMetricsRequest() serialises up to 66 + 16 * 26 bytes, but sendFrame() encodes with the CLI's MaxPayload of 256: from eight tasks on (274 bytes) encode() returns 0 and nothing is written, not even an empty answer. The protocol says "Device responds with METRICS_RESP containing the current performance snapshot." (src/docs/CommsProtocol.md:241).
- `FivePulses` (run `heartbeat_pulses`, `Heartbeat_pulses.cfg`; src/exampleProjects/heartbeat/src/main_osNative.cpp:94). The end is set (kNumPulses - 1) periods and 100 ms after main() reached it, but the first pulse comes a full period after the clock started: four pulses are printed. The comment says "Stop condition: exit after kNumPulses unless --forever" (src/exampleProjects/heartbeat/src/main_osNative.cpp:89) and the README lists "Pulse #5" as expected output (src/exampleProjects/README.md:83).

The others are definitions of their modules, with a comment naming the line. To
see a counterexample make the definition the only INVARIANT (or PROPERTY, where
said) of the configuration named, with the constants given and
`CHECK_DEADLOCK FALSE`.

- `NoTornRead` (`MCExamples.cfg`). write() picks the slot that is not published, which a slow reader may still be copying: with two write() calls during one read() the reader returns words of two values. The comment says the opposite: "Selects the inactive slot (the one not currently being read)" (src/include/sputteros/osal/sync/AtomicDoubleBuffer.h:143).
- `TransitionsFollowTable` (a PROPERTY; `MCKernelRun.cfg` with `CrunchCores = {}`). transitionTo reads s_kernelState in the switch and assigns it later, and s_kernelState is a plain variable of all cores: a core whose switch saw an older state overwrites what another core stored, so the state makes a step that is not in the table. The comment says "Invalid transitions are logged to `ErrorLogger` and rejected." (src/include/sputteros/kernel/System.h:908).
- `PollFailsOnLatePeer` (a PROPERTY; `MCKernelRun.cfg` with `CrunchCores = {}`). allInState(READY) wants every peer in READY at the time of the poll, so a peer that passed the barrier, stopped and is in SHUTDOWN is taken for one that never became ready and the barrier ends in a timeout and ERROR. The comment says "@return true  if all cores reached READY within the timeout." (src/include/sputteros/osal/sync/MultiCoreSync.h:180).
- `TornDownAfterWork` (`MCKernelRun.cfg` with `CrunchCores = {}`). run() ignores the result of startupBarrier, so a core in ERROR enters its dispatch loop, and allTerminated() counts ERROR as terminated: shutdownBarrier returns true on the other core while this one ticks. The comment says "Ensures both cores finish outstanding work before any shared resources are torn down." (src/include/sputteros/osal/sync/MultiCoreSync.h:211).
- `AbortReachesTask` (a PROPERTY; `MCKernelRun.cfg`). When a stop condition fires, or the kernel leaves its active states, while the safety abort is set, the while condition ends runLoop before the abort test and onCrunchAbort is never called. ICrunchTask says "Emergency shutdown callback — called when safety abort fires." (src/include/sputteros/osal/tasks/ICrunchTask.h:96).
- `CrunchOnOwnCore` (`MCKernelRun.cfg` with `N_CORES = 3`, `CrunchCores = {1, 2}`, `Polls = 1`). With two CRUNCH cores (build() accepts them) both configure the one static s_crunchDispatcher; the core that configured first then runs the other core's crunch task, on two cores at once. ICrunchTask says "Base class for exclusive-core, blocking-tolerant tight-loop tasks." (src/include/sputteros/osal/tasks/ICrunchTask.h:44).
- `PeriodRespected` (a PROPERTY; `MCSchedulerTick.cfg` with `Scheduled <- MCOneTask`, `StartTimes = {0}`). s_lastDispatch uses 0 for "never dispatched"; SputterTime starts at 0, so a task dispatched at time 0 is dispatched again by the next tick whatever its period. IScheduledTask documents that the kernel skips a task whose declared `periodUs()` has not elapsed since the last kernel-managed dispatch (src/include/sputteros/osal/tasks/IScheduledTask.h:97).
- `DiagnosticsEveryTick` (`MCSchedulerTick.cfg` with `Scheduled <- MCBusyTask`, `Ring <- MCRing2`, `ControlBudget = 2`, `TaskTimes = {1, 2}`). The head that dispatches unconditionally is wherever s_bgRoundRobin stands, so under load the diagnostics task is passed over. The document says "this guarantees `BackgroundDiagnosticsTask` runs every tick regardless of how saturated Phase 1 is" (src/docs/SchedulingDesign.md:385).
- `RingIsFair` (a PROPERTY; `MCSchedulerTick.cfg` with `Scheduled <- MCBusyTask`, `Ring <- MCRing2`, `ControlBudget = 2`, `TaskTimes = {1, 2}`, `Gaps = {1}`, `StartTimes = {0}`, `TimeWidth = 8`, `MaxTime = 20`, `SPECIFICATION FairSpec`). The index advances past a task before the budget test breaks the loop, so the task that did not fit is skipped, not resumed: with suitable budgets one task is skipped in every tick for ever. The document says the index "advances each tick, ensuring all tasks receive equal priority distribution across ticks" (src/docs/SchedulingDesign.md:387).
- `DiscardsOnlyWhenFull` (a PROPERTY; `MCServices.cfg`). Between the test of m_tail and the reload into `expected` a read() may advance the tail; the compare_exchange then succeeds on the new tail and drops a second entry from a ring that is not full. The comment says "Uses compare_exchange so a concurrent read() that already advanced tail does not cause a double-advance." (src/src/utils/logging/ErrorLogger.cpp:28).
- `ReadRemovesOne` (a PROPERTY; `MCServices.cfg`). read() stores (tail + 1) from a tail loaded earlier; when log() has lapped it the store moves the tail backwards or onto the head, and a ring with entries looks empty or shows old ones. The header says the effect is "a concurrent `read()` may observe a stale tail for one cycle." (src/include/sputteros/utils/logging/ErrorLogger.h:26).
- `NothingLostBelowCapacity` (`MCServices.cfg`). Two cores that log at once load the same head and write the same slot: one entry is lost although the ring has room. The header says "Thread safety is provided by `std::atomic` head/tail indices" (src/include/sputteros/utils/logging/ErrorLogger.h:21) and the kernel logs from every core.
- `LatchedWhileViolated` (a PROPERTY; `MCServices.cfg`). clearFault() stores the flags after the scan, so a condition that is violated again in between does not keep the fault latched. The header says a hard fault "cannot be cleared by software alone while conditions remain violated" (src/include/sputteros/logic/InterlockManager.h:21).
- `TripSurvivesEarlierClear` (a PROPERTY; `MCServices.cfg`). triggerHardFault() during clearFault(), after the scan, stores a flag that the clear then erases: the new fault is never cleared by anybody and is not latched. The header says it "latches a fault flag that requires an explicit operator clear." (src/include/sputteros/logic/InterlockManager.h:87).
- `OneAtATime` (`MCServices.cfg`). Every operation calls lock(0) and ignores the answer; IMutex says "A value of 0 indicates a non-blocking attempt (try-lock)" (src/include/sputteros/osal/sync/IMutex.h:42), so two contexts are inside the logger at once and one unlocks the mutex the other holds. The header says "all public operations ... are protected against concurrent access" (src/include/sputteros/utils/logging/TelemetryLogger.h:20).
- `FilterLeavesRing` (`MCServices.cfg`). drain() takes an entry off the ring before it looks at its level, so a suppressed entry is lost. The header says the filter "suppresses messages below the current threshold at drain time, leaving the ring buffer intact." (src/include/sputteros/utils/logging/TelemetryLogger.h:16).
- `StaleMeansOld` (`MCServices.cfg`). isStale subtracts a kick time that may be newer than the time its caller read, and the unsigned difference wraps to a huge age: a core that has just kicked is reported stale. The comment says "true if the core has been kicked at least once AND its last kick is older than `timeout` relative to `systemTime`" (src/include/sputteros/osal/sync/WatchdogSync.h:106).
- `BackgroundCoreTicks` (`MCSystemBuilder.cfg`). The background core is the last active core, and a CRUNCH core is active: with core 1 crunching the ring, BackgroundDiagnosticsTask included, is given to a core that never calls tick(). The diagram of the CRUNCH layout has "BackgroundDiagnosticsTask" under "Core 0 (Deterministic)" (src/docs/MultiCoreImplementation.md:68).
- `RingWithinCapacity` (`MCSystemBuilder.cfg` with `Configs <- MCSmallRing`). build() appends the diagnostics task without the bound that addBackgroundTask has: with the ring full it writes one element past s_backgroundTasks. ConfigTraits says the constant "Controls the maximum number of background tasks that can be registered." (src/include/sputteros/ConfigTraits.h:304).
- `DiagnosticsFirst` (`MCSystemBuilder.cfg`). build() appends the diagnostics task behind the background tasks the application registered. The document lists "`BackgroundDiagnosticsTask` | *none* | — | Slot 0 (first)" (src/docs/SchedulingDesign.md:690).
- `UserTasksFollowKernel` (a PROPERTY; `MCSystemBuilder.cfg`). The sort goes by priority alone, so a user task that declares priority 0 precedes the comms task, whose priority is 1. The document says "User tasks added via `addScheduledTask()` follow the kernel scheduled tasks in tick order." (src/docs/SchedulingDesign.md:692).
- `ControlPlaced` (a PROPERTY; `MCSystemBuilder.cfg` with `kMaxTasks = 2`). prependTask silently drops the task when the list is full, and build() does not look: a system with an application is built without its control task. The comment of build() says the tasks "are created and pinned automatically" (src/include/sputteros/builder/SystemBuilder.h:435).
- `KickReachesCrunch` (`MCSystemBuilder.cfg`). setWatchdogKick() stores the function in the builder, and build() passes it to the kernel only in the branch for a system with an application: the crunch core of a system without one is never kicked. The comment of the setter says "Set the platform-specific watchdog kick function." (src/include/sputteros/builder/SystemBuilder.h:304).
- `ResetIsFull` (a PROPERTY; `MCSystemBuilder.cfg`). reset() leaves the telemetry mutex, the clock of user tasks' timers and the metrics windows in place. Its comment says "Full reset of all static state" (src/include/sputteros/kernel/System.h:722).
- `SnapshotIsPointInTime` (`MCPerformanceMetrics.cfg`). snapshot() reads a timer one accessor after the other and without a lock; a dispatch (or a window rotation) on the core of the task in between gives a minimum, an average, a count and a histogram of different sample sets. The comment says "Capture a point-in-time snapshot of all performance metrics." (src/include/sputteros/kernel/System.h:560).
- `EveryTickCounted` (`MCPerformanceMetrics.cfg`). All cores call recordGap on the one static s_schedulerHealth, whose counters are plain: overlapping calls lose a tick or, across a rotation, count a window twice. The header says it tracks "total tick count" (src/include/sputteros/kernel/metrics/SchedulerHealthMetrics.h:10).
- `MissesOfTheirWindow` (`MCPerformanceMetrics.cfg`). tick() calls recordDeadlineMiss after stop(), and stop() may have rotated the window: the miss of the dispatch that closes a window is counted in the next one. The accessor says "Return the number of recorded deadline misses in the current or last window." (src/include/sputteros/kernel/metrics/TaskTimer.h:194).
- `MissTotalNeverFalls` (a PROPERTY; `MCPerformanceMetrics.cfg` with `SchedulerHealthWired = TRUE`, `MaxTicks = 4`, `MaxSnapshots = 2`, `MaxPeerGaps = 0`, `Depths = {1}`). The aggregate is the sum of deadlineMissCount(), which is that of the last complete window only: the published total falls again. The comment says "Total deadline miss count across all tasks." (src/include/sputteros/kernel/metrics/SchedulerHealthMetrics.h:74).
- `HandshakeMeansFramed` (a PROPERTY; `MCCommsPipeline.cfg`). After an EXIT frame the rest of the read still goes through the frame decoder; a HANDSHAKE_REQ there is answered but the mode stays TEXT. The message type says "Response confirming framed mode entry" (src/include/sputteros/comms/protocol/MessageType.h:38).
- `AfterExitIsText` (a PROPERTY; `MCCommsPipeline.cfg`). processFramedBytesFrom does not look at the mode again after an EXIT: the rest of the read is fed to the frame decoder. The document says "Any subsequent bytes are parsed as ASCII commands" (src/docs/CommsProtocol.md:286).
- `ExecutedInOrder` (`MCCommsPipeline.cfg`). A COMMAND frame in the tail behind an EXIT sets m_hasFramedCommand in TEXT mode, where nothing takes it, and enterFramedMode does not clear it: it runs at the start of the next framed session, after every command sent in between. The architecture describes one FIFO path from the stream to the control task (src/docs/SystemArchitecture.md:238).
- `OnlyWholeExecuted` (a PROPERTY; `MCCommsPipeline.cfg`). On overflow the decoder empties its buffer and goes on collecting, so the tail of an oversized frame is decoded as a frame of its own (an overlong text line likewise, CommandParser.h:66). The comment says "Overflow — discard and wait for next delimiter to re-sync." (src/include/sputteros/comms/protocol/FrameDecoder.h:97).
- `HealthyNeverTimesOut` (`MCExamples.cfg`). AdcPollTask counts polls, not time, and its task has no kernel-managed period, so short turns of the loop exhaust kMaxIoRetries before an ADC that works has finished its conversion. The comment takes the number of polls for a hang: "If the simulated ADC hangs (exceeds `kMaxIoRetries` consecutive polls), the task logs a fault" (src/exampleProjects/sensorpoll/include/AdcPollTask.h:14).

Observed while modelling and not stated as a property: `recordOverrun()` is
called by nothing, although docs/SchedulingDesign.md:598 says it is incremented
by `BackgroundDiagnosticsTask`, so every overrun count is 0; nine options of
`ConfigTraits` have a default and a trait but no reader (`kMaxFramePayload`,
`kErrorLogCapacity`, `kTelemetryLogCapacity`, `kMaxInterlockConditions`,
`kMaxSlotsPerCore`, `kDiagsBudgetUs`, `kMinGapSliceUs`, `kStrictWCET`,
`kIsrContextBudgetUs`); the heap and stack figures of `MemoryProfiler` are
always 0, as the library core has no platform reader; docs/CommsProtocol.md:33
says the mode "reverts to TEXT mode automatically" on disconnect, and no code
does it; the comms task's `init()` feeds the CLI once without taking the
command; `percentileUs` may exceed the maximum of the window, as it
interpolates to the upper end of the bucket; `DeadlineTracker::advance` does
not end when the period is 0 (nothing calls it yet); `appendInt` negates the
smallest `int32_t`; `TcpStreamServer::stop()` joins a thread that may be
waiting in `recv()`, which closing the descriptor need not wake.

## 7. Not modelled

- `MemoryProfiler`, `MemUtils`: computations with zeros, `memcpy`, `memset`,
  `strlen`.
- `TypeTraits`, assertion macros, `InPlaceStorage` beyond the emplacement in
  `SystemBuilder`: compile-time selection.
- HAL and process interfaces: no code; a stream is the host of `CommsPipeline`
  and the line of `Responses`, a clock the counter of `TimeUtils`.
- `MultiCoreSync::waitForCore`: changes no state and has no caller.
- The dispatch of COMMAND by `ProtocolRouter`: `CLI` stores COMMAND frames
  itself, so it is unreachable from there.
- The budget scan and heap log of `BackgroundDiagnosticsTask`: they only append
  to the error log, whose behaviour is `ErrorLogger`.
- The queue and utilisation accessors inside `snapshot()`: single values.
- Unit conversions of `SputterTime`, argument parsing, the console host tool
  except `decode_metrics`, build files, `templates/main.cpp` (empty methods
  around builder calls).
- Registration after `build()`: possible in the code, forbidden by the documents.
- Memory orders weaker than sequential consistency.

## 8. Plan

Done: all components of section 1 modelled and checked; the lock-free channels
with the refinement; every safety property of the runs except the three on bytes
and text proved, and of those the round trip of COBS.

What could follow:

1. The round trip of a whole frame, from `CobsRoundTrip` and the little-endian
   fields; it needs `crc16` in a module without `Bitwise`.
2. `CommsPipeline` uses the atomic FIFO: state the composition with
   `LockFreeQueue` as a theorem, so that `NoCommandTwice` is one about the ring.
