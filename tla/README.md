# OPTKIT in TLA+

OPTKIT is a C++ library (with C and Python interfaces and a few tools) that measures scopes of a
program - CPU and GPU performance counters, energy, disk I/O, temperature, call stacks - and sets
CPU frequencies. This directory holds TLA+ models of the parts of it that keep state across calls,
threads or processes, the TLC configurations that check them on small instances, and TLAPS proofs of
theorems about them. Paths below are relative to the repository's root; `PROJECT.json` maps every
definition to the lines it models.

Contents: 1 inventory, 2 modules, 3 runs, 4 fairness, 5 proofs, 6 disagreements found,
7 what is not modelled, 8 plan, 9 how to run.

## 1. Inventory

### 1.1 Components

| component | code | state it keeps | operations | module |
|---|---|---|---|---|
| PMU event manager | `src/core/pmu/cpu/pmu_event_manager.*` | static map from descriptor to event count, the total of events | register, unregister (and close), disable all, enable all | `PmuEventManager` |
| CPU block profilers | `src/core/pmu/cpu/perf/` | descriptors, flags, sampling thread | constructor, enable, disable, reset, read, destructor | `PmuBlocks` |
| Callstack postman | `src/core/callstack/postman.hh`, `threadbuffer.hh` | one ring per target thread, counts, worker thread, target | start, stop, set target, refresh, sweep, consume | `Postman` |
| Callstack profiler | `src/core/callstack/profiler.*` | one session for the process; flags per profiler | constructor, enable, disable, read, reset, destructor | `CallstackProfiler` |
| Sample store | `src/utils/base_profiler.hh` | start of the current sample, read buffer, compacted sums | read_and_store, flush, aggregate | `SampleStore` |
| RAPL, HWMON, PDU, GPU energy; disk; temperature | `src/core/energy/`, `src/core/disk/`, `src/core/temperature/` | last snapshot, flags, sampling thread | read and the end of their scope, plugged into the store | `SampleStore` |
| JSON result file | `src/utils/utils.hh` | a file on disk, shared by threads and processes | append an element to an array | `ResultFile` |
| GPM sampler | `src/core/pmu/gpu/nvidia/gpm_sampler.cc` | its thread, a flag, samples | start, stop, loop | `GpuBlocks` |
| NVIDIA GPU block profiler | `src/core/pmu/gpu/nvidia/block_profiler.cc` | CUPTI's recording, global lists of records | constructor, read, CUPTI's callback, destructor | `GpuBlocks` |
| C API | `src/optkit_c.cc` | the OPTKIT object, a stack of profilers of each kind | init, finalize, nine pairs of start and stop | `CApi` |
| GPU query | `src/core/gpu_query.*` | which libraries are up, the lists of device handles | init, shutdown, what an index reaches | `GpuQuery` |
| CPU frequency control | `src/core/frequency/` | the cores' limits (sysfs), the sockets' uncore limits (MSR), static caches | set core (3 forms), set uncore, reset both | `FrequencyControl` |
| OPTKIT object | `src/optkit.cc` | its configuration, the libraries it switches on | constructor, destructor | `FrequencyControl`, `CApi` |
| optkit-daemon | `tools/optkit-daemon/main.cc` | last applied frequencies, signal handler | one turn of the loop, SIGINT, SIGTERM | `FrequencyControl` |
| optkit-setenv | `tools/optkit-setenv/` | frequencies and CPUs that are online | apply, roll back | `FrequencyControl` |
| optkit-cli stat | `tools/optkit-cli/stat.cc` | the frequencies it walks through; child, signal flag | frequency sweep | `FrequencyControl` (sweep) |
| metric builder | `src/utils/metric_builder.hh` | lists of events and formulas | add, merge | no (section 7) |
| symbolizer, topology and energy queries, libpfm4, metric tables, report and list commands, ONNX runtime, logging, Python binding | see `PROJECT.json` | little or none | mostly one library call or formatting | no (section 7) |

### 1.2 How they interact

- Every CPU block profiler, on any thread, goes through the one static `PMUEventManager`. A
  constructor stops all counters of all blocks, opens its own and starts all again; a read stops and
  restarts all of them around its reads. There is no lock.
- A profiler in sampling mode has a thread that calls `read_and_store()` until the destructor clears a
  flag and joins it. The destructor then does one last reading itself, aggregates and saves.
- What a destructor saves goes to a JSON file named after the block. Threads of a process take turns by
  a static mutex; processes that were given one folder do not.
- Every callstack profiler of a process shares one `CallstackSession`, whose postman has one worker, one
  target process and one set of counts. The worker shares rings with the kernel, the counts with the
  profilers, and three atomics with the thread that starts and stops it.
- Every GPU block shares CUPTI, whose recording is on or off for the process, and the global lists to which
  CUPTI's callback copies what it recorded; each has a sampler thread of its own.
- The C API keeps a stack of profilers of each kind, so a stop ends the profiler on top; its queries switch
  the GPU libraries on, which `optkit_finalize` and an explicit shutdown switch off again.
- Frequencies are the machine's: any OPTKIT program writes the same sysfs files and registers. What a
  program restores at its end is what it cached at its start (uncore) or the hardware's limits (cores).
  The daemon's signal handler restores in the middle of whatever the loop was doing, then exits.

### 1.3 What is hard, and what correct means

The complete list, line by line, is under `hazards` in `PROJECT.json`; where no property covers one, its
note says why. The main ones:

- *PMU*: a constructor that fails half-way; descriptor numbers reused by the kernel; leaders that stand
  for a whole group; value and reset as two calls. Correct: registry, kernel and the blocks' lists always
  agree; no block reads or closes another's counter; nothing counts after its scope; counters stand
  still during a reading.
- *Callstacks*: the kernel appends while the worker reads; threads start and exit between refreshes;
  one session for many profilers. Correct: a sample is reported once and by one profiler, or accounted
  for; start and stop leave the worker as the flags say; stop ends.
- *Store*: the sampler and the owner read the same object; the buffer is compacted; profilers are
  disabled and destroyed at any time; sensors fail. Correct: each count and each millisecond is in the
  report once.
- *Result file*: a process that dies, or a call that fails, while the array has no end; writers that do not
  share a mutex. Correct: one valid array, and a saved result is never lost.
- *GPU*: callbacks and samplers run beside destructors; blocks share lists; libraries fail in the middle of an
  enumeration. Correct: a record is reported once; the last reading has every sample; a library is up when
  the code believes so, and an index names one device.
- *C API*: the second of two profilers fails to start; scopes nest and share stacks. Correct: an open scope
  keeps its profilers until its own stop.
- *Frequencies*: signals and failures between two writes; several programs; cached values. Correct: the
  machine is given back as it was found; what the daemon thinks is set is set.

## 2. Modules

### `PmuEventManager`, `PmuBlocks`

`PmuEventManager` is the kernel's table of perf events (`leader`, `running`, `dirty`) and the manager's
map and total (`registry`, `eventCount`); its operators are the effects of `perf_event_open`, `close`,
`register_event`, `unregister_event`, `disable_all_events` and `enable_all_events`. `PmuBlocks` has
the callers: `Main`, the thread that owns the blocks, and one thread per sampled block. `pc` says where a
thread is, so that threads interleave between system calls:

| action | code |
|---|---|
| `CtorBegin`, `OpenOk`, `OpenFail`, `Launch`, `Arm` | the two constructors, one open per step; `Launch` starts the sampling thread before `Arm` starts the counters, as the code does |
| `Enable`, `Disable`, `Reset`, `Call` | the calls on one block |
| `ReadBegin`, `Fetch`, `ResetFetched`, `ReadEnd` | `read()`, by either thread, one descriptor at a time |
| `SamplerLoop` | the sampling thread's loop condition |
| `DtorBegin`, `Join`, `Close`, `DtorEnd` | the destructors, with the group's early return |
| `Tick` | the measured program: what runs counts |

A counter's value is one bit, whether it holds something nobody has read; the amounts are the subject
of `SampleStore`. `Grouped` says which blocks are `BlockGroupProfiler`s; there, only the leader of each
core is registered and kept. `close` follows the kernel: the siblings of a closed leader become
events of their own and keep their state.

### `Postman`, `CallstackProfiler`

`Postman` has the target's threads, their rings and the worker: `Refresh`, `AttachOne`, `AttachDone`
(`ThreadAttachManager::refresh`), `Loop`, `OpenMailbox`, `Parse`, `CloseMailbox`, `SweepDone` (the
sweep, with `data_head` read once and `data_tail` written at the end). A sample is a number; the hashing
of stacks is left out, since counting stacks is counting samples by a key. `CallstackProfiler` extends it
with the session and the profilers: `StartCas`, `StartClear`, `StartSpawn` and `Stop`, `StopJoin` are the
steps of `start()` and `stop()`, `Construct`, `Read`, `Reset`, `Disable`, `Enable` and `Destruct` the
calls. The worker runs between any two of them. The 25 ms between two refreshes are two or three
rounds of 10 ms of sleep (`rounds`).

### `SampleStore`, `Measurement`

One profiler object, its owner and its sampling thread. `mode.source` chooses what `read()` does:

| `mode.source` | a reading |
|---|---|
| `perf` | counters that are stopped, read, reset and started again |
| `rapl` | energy counters read and reset while they run |
| `disk` | a growing counter, as its change since the last snapshot |
| `hwmon`, `pdu` | a power level times the sample's duration; one that fails is 0 |
| `gpu_power` | a power level times the nominal `SamplingPeriod`, in a profiler that always samples; one that fails is 0, or the snapshot before once more when the devices cannot be counted |
| `hwmon_temperature`, `gpu_temperature` | a level, as its change since the last reading; one that fails is 0 degrees |
| `later_gpu_temperature` | the same for a GPU after the first: the loop replaces the snapshot of all devices at the first of them, so its change is always 0 |

`TakeEnd`, `read`, `Push`, `Advance` are the steps of `read_and_store`; `on_sample_stored` with the flush is
part of `Push`. A sequence of samples is represented by its sum, which is all that flush, aggregate and
report use. `wake` is when the sampler's sleep ends: between two readings of most profilers any time may
pass anyway, but the GPU's readings stand for a period each. `Destroy` has the destructor's early returns; in
the GPU energy profilers they leave a joinable thread, or join one that never was, and the program ends
(`Terminates`).

The history variables `counted`, `unread`, `lost` say what the meter counted and where it is. `ready` is
the time the constructor ended; `disturbed` remembers that the counters were started while the sampler was
inside a reading.

`Measurement` is the abstract specification: something is counted, reported or lost; a closed measurement
delivers a report that misses nothing counted before it was closed, or none. `Promise` is
`Measurement!Spec` under the refinement mapping `counted`, `Aggregate.val`, `lost`, "destructor not begun",
`due`, "the values saved". Profilers of power levels count nothing, and a temperature may fall, so the mapping
sends them to 0; their properties are `EnergyWithinLevels` and `CountedOnce`.

### `ResultFile`, `Journal`

`append_json_array_file` by the threads that destroy profilers, those of several processes included. The file
is a sequence of tokens: brackets, commas, results, zero bytes and parts of results. `Enter` takes the mutex
of the process, `Look` reads the end of the file and decides, `Cut` is `truncate`, `OpenFile` opens for
appending, `Flush` writes any part of what is left, `Fail` is a call that fails and `Crash` the end of a
process, which leaves whatever has been written, torn results included. `at` and `rest` are what a writer
carries over from its look at the file, which another process may change in the meantime.

`Journal` is the abstract specification: a list of results that only grows at its end, until two processes have
worked on it at once (`shared`); after that, results at its end may go. `GrowsAtItsEnd` is `Journal!Spec` with
`list <- ResultsIn(file)`, `shared <- overlap`.

### `GpuBlocks`

Blocks, CUPTI and samplers of one process. `Record` is the GPU that ends a copy or kernel, `Deliver` and
`Flush` are CUPTI's callback, which appends copies to a global list and keeps one kernel. `Construct` switches
recording on and starts the sampler, which may be refused; `sample_loop_` is its thread, with every library
call able to fail; `Destroy`, `StopJoin`, `Flush`, `Disable`, `Aggregate`, `Report` and `Clear` are the steps
of the destructor, between which records arrive and other samplers run. One thread of the program owns the
blocks: they nest, overlap or follow each other.

### `GpuQuery`, `CApi`

`GpuQuery` is `optkit::gpu::Query` for NVML and AMDSMI: `NvmlInit` and `AmdsmiInit` are rows of library calls
of which any number may succeed, `Shutdown` may be refused, `Discover` is what OPTKIT's constructor adds. The
list of handles is kept, so that `DeviceAt` can say which device an index reaches. `refs` counts the library's
own inits less its shutdowns.

`CApi` gives it its callers and adds the stacks. `Start(fn)` pushes the profilers of one of the nine start
functions in order until a constructor throws; `ReturnsOk` and `Pushed` say what the caller is told and what
stays. `Stop` pops the stacks of the innermost scope's function. The program is a careful one: it nests scopes,
looks at the status a start returns and stops what started. `scopes` is what that program believes;
`leftovers` and `swallowed` remember where the code let the two diverge.

### `FrequencyControl`

Several programs on one machine. A program's pending calls are `calls[p]`; the call under way is a
sequence of `writes[p]`, each to one file or register. `Begin` evaluates what a call reads (the static
limits, the uncore cache) and computes its writes; `Write` does one of them, and a strict call (one whose
`write_file` throws) gives up at the first CPU that is offline. `Construct` and `Leave` are OPTKIT's
constructor and destructor, `Predict` one turn of the daemon's loop, `signal_handler` a SIGINT or
SIGTERM, which abandons what the program was doing, `Unplug` a CPU going offline. `Use` is any other program:

- `Plain` and `Both`: one call of the frequency functions, or the macro that sets core and uncore;
- `Setenv`: optkit-setenv applies a configuration - frequencies of cores and uncore (`TryUncore`, with the
  roll-back of the sockets before one that fails: `RollBack`), then all CPUs online and the configuration's
  list (`Offlines`) offline, one after the other (`Hotplug`, never CPU 0) - and leaves main, where OPTKIT's
  destructor restores;
- `FreqScaling`: the frequency sweep of optkit-cli stat, every pair of a core and an uncore frequency in turn
  (`Sweep`, with the first frequency and the limit of the arguments as a `Window` on `Available`, the kernel's list
  in the kernel's order, and on the uncore's range) and the reset behind it (`AfterSweep`).

`Package` is the machine with all CPUs online: sockets numbered from 0 by their first CPU, each with its CPUs in
ascending order. A program has its own list of them: `detect_cpu_packages` makes it once, before main, and stops at
the first CPU that is offline, of whatever socket (`query.cc:52`), so `Construct` sets `seen[p]`, and the program
lists the CPUs with a smaller number. The setters and `reset_core_frequency` go through `Seen(p, ...)` only, also
after optkit-setenv has brought the others back online. A socket of which no CPU is listed is not in the map:
`package_info.at` throws an `out_of_range` that nobody catches, in OPTKIT's constructor at the latest, and the
program ends without its destructor (`Throws`, `Fail`, the phase `"failed"`). The
range and CPU forms of `set_core_frequency` go through a consecutive part of a socket's list
(`CpusBetween`). The statics that the code initialises once are `Unread` before, which is not the `NoInfo` that a CPU
without its `cpuinfo` files gives: a call that first looks at an offline CPU keeps -1 as its limits for good. CPU 0
never goes offline, as on the hardware this code is for.

External behaviour the module relies on: Linux since 5.4 keeps the minimum and the maximum as requests of
their own and holds a request to what the CPU can do; requests stay while a CPU is offline.

## 3. Runs

`expect: pass` unless noted. Sizes are distinct states; the longest run takes about two minutes and a half.

| run | instance | states | shows |
|---|---|---|---|
| `PmuBlocks_unsampled` | a group of 2 events on 2 cores, a block of 2 events and a group with too many events share 4 descriptors (symmetric); any open may fail | 404,690 | `TypeOK`, `BooksBalance`, `RegisteredAreOpenLeaders`, `OwnDescriptors`, `NothingLost` |
| `PmuBlocks_sampled` | 2 sampled blocks of 1 event, 2 descriptors | 85,694 | `RunningBelongsToLiveBlock`, `MeasuringWhenQuiet`, `CallsEnd` with two sampling threads |
| `PmuBlocks_group_orphans` | 1 group of 2 events | - | *violation* of `RunningIsManaged` |
| `Callstack_counts` | 2 profilers on 2 processes with a thread each, rings of 2, 2 samples, attaching may fail | 764,896 | `TypeOK`, `NothingCountedTwice`, `NothingSkipped`, `WorkerServes` |
| `Callstack_live` | 1 profiler, 2 threads, rings of 1, 1 sample and 1 other record | 99,056 | `StopReturns`, `ThreadsGetAttached`, `SamplesGetRead` |
| `Callstack_disable_others` | 2 profilers on one process | - | *violation* of `SamplingWhileEnabled` |
| `ResultFile` | 2 threads of one process and 1 of another, up to 4 results of at most 2 a save, an old result or none; 2 failing calls or killed processes | 1,804,944 | `TypeOK`, `ArrayOrDamage`, `SavedOnce`, `OnlyTheBracketGoes`, `GrowsAtItsEnd` |
| `Store_profilers` | all 9 sources, sampled or not, screenshot or not; flush period 2, sampling period 1, time to 4, counts to 2, levels 0 and 1 | 896,180 | `TypeOK`, `CountedOnce`, `NothingLost`, `TimeCoveredOnce`, `EnergyWithinLevels`, `DestroyReturns`, `Promise` |
| `Frequency_daemon` | 1 daemon, sockets with CPUs 0, 2 and 1, 3; CPUs 1 and 2 may go offline, 2 predictions of {1, 2, 4} where the hardware has 1..3, 2 signals | 350,231 | `TypeOK`, `LastAppliedInForce`, `SignalEnds` |
| `Frequency_shared` | 1 daemon (1 prediction, 1 signal) and 1 other program (1 use: a call, a configuration that may take CPU 2 offline, or a sweep); CPU 2 may go offline; the hardware has 1..2 | 4,476,604 | `CoresRestored`, `UncoreRestored` |
| `CApi` | 6 start functions, up to 4 starts, 2 failures of profilers or libraries, 2 devices of each vendor | 495,052 | `TypeOK`, `StacksFollowScopes`, `LibraryBalanced`, `IndexNamesDevice` |
| `GpuBlocks` | 2 blocks, 2 copies and a kernel, 1 reading in the middle of a block, samples counted to 1 | 542,605 | `TypeOK`, `ReportedOnce`, `LastReadingComplete`, `DestructorReturns` |

What each question means:

- *`BooksBalance`, `RegisteredAreOpenLeaders`, `OwnDescriptors`*: relate three tables that no code
  compares: the manager's map, its total, and each block's list, to the kernel's. They must survive failed
  constructors, the group's early return and the reuse of descriptor numbers.
- *`NothingLost` (`PmuBlocks`)*: without sampling threads, a reading and its resets drop nothing, whatever
  blocks do to each other. With sampling threads it fails in the model: another thread restarts all counters in
  the middle of a reading. The run with samplers therefore does not list it.
- *`MeasuringWhenQuiet`*: all stops of the shared counters are undone, whatever two sampling threads and a
  constructor or destructor do to each other. It is checked without failing opens: a constructor that
  fails leaves the other blocks stopped until the next reading or construction.
- *`NothingCountedTwice`, `NothingSkipped`*: every sample is in exactly one place, across resets, restarts and
  changes of target. Which profiler reports it is not promised: counts survive a release.
- *`ArrayOrDamage`, `SavedOnce`* (results are numbered in the order they are made): when nothing fails and no two processes save at once the file is the array of
  all results, in the order of their saves; a failed call or a killed process may cost it one bracket and split
  it in two, and the result of the save that failed, but never a result that was saved before or after.
- *`OnlyTheBracketGoes`, `GrowsAtItsEnd`*: the same as steps. The first says what one step may take from the file,
  the second that the file implements a journal, and what is left of the promise between two processes, where
  `Cut` works with an offset that another process has made stale.
- *`CountedOnce`, `TimeCoveredOnce`*: conservation laws of counts, degrees and time from meter to report. For
  RAPL the counts that arrive between value and reset are `lost`, and so are the changes of a GPU's temperature
  after the first GPU; `NothingLost` says that all others have none, unless the counters are started while the
  sampler is inside a reading.
- *`EnergyWithinLevels`*: energy is at most the highest power times the time covered. For GPUs it is that of one
  period more: each reading stands for a period, also the first, which is taken at once.
- *`CoresRestored`, `UncoreRestored`*: at the end of the last program the machine is as found. The first
  excludes, for each socket, CPUs behind one that is offline, and CPUs that a program did not list: of two runs of
  optkit-setenv the first takes CPU 2 offline and leaves it pinned, the second starts without CPU 2 in its list,
  brings it back online and cannot reset it. Without that condition TLC finds this in `Frequency_shared`. A program
  that failed in its constructor does not count, since it has set nothing. The second speaks of the registers within reach:
  `frequency.cc:292` addresses the register of socket *s* through the CPU with the number *s*, so it is the one of
  that CPU's socket, and only while that CPU is online; and it requires that every program's first look saw the
  machine's own limits (`clean`).
  Without `clean` TLC finds a program that starts while another has the uncore pinned, and later writes the
  pinned value back as the default (`src/optkit.cc:94`).
- *`LastAppliedInForce`*: the small differences that the daemon ignores are differences to what is set, on every
  CPU that is online and that the daemon listed at its start, and on every uncore register within reach: a daemon that
  starts while CPU 1 is offline never sets the CPUs behind it. It is about one daemon alone. With CPUs 0 and 1 on
  socket 0 the register of socket 1 is not within reach, and the property says nothing of it.
- *`StacksFollowScopes`*: an open scope keeps its profilers whatever starts and stops inside it, and what is on
  the stacks beyond the open scopes is what failed starts left there. It fails without `~swallowed`
  (`optkit_c.cc:1164`, section 6).
- *`LibraryBalanced`, `IndexNamesDevice`*: relate `initialized` to the library's own count and a device index to
  the device, over failures at each call of an enumeration. `spoiled` marks the two ways in which the list is
  known to go wrong (section 6).
- *`ReportedOnce`, `LastReadingComplete`*: no record is in two results, and what was recorded when a destructor
  began is in its result; the last reading comes after the sampler's last sample.

### Why these bounds suffice

- Two blocks are the least with which one can disturb the other; two events and two cores the least with a
  sibling and a second leader; a third group, too large for the hardware, stops all counters and does nothing
  else; four descriptors make them run out in a constructor and be
  reused. Nothing in the code distinguishes a further block otherwise.
  Descriptor numbers are only compared with each other, so permuting them is sound; the run that does so
  checks invariants only.
- Two samples and rings of two have the ring full, wrapped, overtaken by the kernel while parsed, and
  abandoned. Two thread ids and processes have a target that changes while threads come and go. The other
  record of `Callstack_live` is one that the parser must skip.
- Four results are two saves of two, or three and the one of an earlier process: enough for a save that starts an
  array, one that continues it, and one behind a damaged one. Two faults let a crash hit the repair of an earlier
  one. The two threads of a process are symmetric; the process of the third differs.
- A flush period of 2 with a clock to 4 flushes twice, with the remainder in the buffer; three readings fit,
  one of them the destructor's. Two counts can fall on both sides of a reset.
- Two sockets of unequal size distinguish "the socket's first CPU", "the CPU with the socket's number" and
  "all CPUs"; two whose CPUs alternate, with either of the middle ones offline at the daemon's start, have lists
  that stop in the middle of both sockets and lists without the second. Predictions 1, 2, 4 with threshold 2 give an ignored difference, an applied one and one above
  the hardware's limit. Two signals are the most that can come: each is blocked in its handler.
- Four starts nest a combined scope in a single one and a failing start between them; six of the nine start
  functions are used, since `perf`, `callstack` and `disk` are alike, and so are the two parts of
  `temperature`. Two devices distinguish an enumeration that fails at the first from one that fails later.
- Two GPU blocks nest, overlap and follow each other; two copies can be on both sides of a report; the number of
  samples matters only as "more have come".

`MaxSamples`, `MaxNoise`, `MaxTime`, `MaxCount`, `MaxPredictions`, `MaxUses`, `MaxSignals`, `MaxResults`,
`MaxPerSave`, `MaxFaults`, `MaxStarts`, `MaxReadings` are bounds of the model. They end what the world and the
program's user may do, not what a started call does.

Every property of a passing run has a mutant in `PROJECT.json`: a plausible bug in one of the mapped
definitions under which the run fails. The mutated forms stand before the definitions, with a suffix that
names the bug (`Kept_LastOpened`, `StopSampling_Forgotten`, `NextStart_Now`, ...).

## 4. Fairness

Only what a scheduler gives is assumed: a thread inside a call takes its next step, a thread that was
started runs. Weak fairness suffices, since no thread waits for a condition that another can take away
again - the code joins threads and takes short mutexes. Nothing obliges a program to call
anything, a thread of a target to be sampled, a GPU to end an operation, a signal to come or, but for the end
of a sleep, time to pass.

- `PmuBlocks`: `WF` on `MainProceeds` and on each sampler's steps; a constructor, reading or destructor ends.
- `CallstackProfiler`: `WF` on the calls under way and on the worker.
- `SampleStore`: `WF` on the reading under way of each thread, on the destructor's last reading, on
  `Ready`, `Join` and `Save`, and on the clock while the destructor waits for a sampler that sleeps.
- `FrequencyControl`: `WF` on the steps of each program's call, the exception that ends it included. The daemon has
  then ended too, which is what `SignalEnds` says of it.
- `GpuBlocks`: `WF` on each destructor's steps and on each sampler's.

`ResultFile` and `CApi` have safety properties only, so their runs state no fairness. The `Frequency_*` and
`GpuBlocks` runs have `CHECK_DEADLOCK FALSE`, since all programs and blocks may have ended. `SampleStore` and
`ResultFile` mark that state with `Done`.

## 5. Proofs

TLC checks the instances above; the theorems hold for every value of the constants.

**`PmuBlocksProofs`**, from `BlocksAssumption` and `NoFdAssumption` (blocks are not `Main`, every block has at
least one event and core, `NoFd` is no descriptor):

- `TypeCorrect`: `Spec => []TypeOK`. `TypeOK` alone is not inductive: what a group pushes to its list is the
  constructor's `coreLeader`, which is a descriptor only because the first event of the core has been
  opened. `TypeInv` adds that (`LeaderChosen`).
- `BooksAlwaysBalance`, `RegistryMatchesKernel`, `BlocksOwnTheirDescriptors`: the three conjuncts of
  `RegistryInv`, which also says that the leader a constructor holds is registered and in nobody's list
  (`HeldLeader`), without which the push of the last event would break `OwnDescriptors`. The total is the
  cardinality of a set of slots, one per event; `SlotsAdded` and `SlotsRemoved` count them by bijections.
  There is one lemma per call that touches the tables, and frame lemmas for all other steps.
- `NothingIsLost`, for programs without sampling threads (`Sampled = {}`): `NothingLost` rests on `StandsStill`, that
  nothing registered runs while the owner is between a value and its reset, so that no tick falls in between.
- `NoOrphanRuns`, for programs without groups (`Grouped = {}`), with any number of samplers and any opens failing:
  each open event leads itself and is in the list of a block in scope (`Belongs`), and what runs is open.
- `MeasuresWhenQuiet`, for programs without groups whose events all open (no `OpenFail` step): `Stopping` names the
  threads that have stopped the shared counters and not started them again; `Measuring` says that while there
  is none, everything an enabled block holds runs. Both hypotheses are needed and are those of the run: a group's
  members are not the manager's (section 6), and a constructor that fails leaves the others stopped.

**`SampleStoreProofs`**, from `StoreAssumption` and `OneReader`: readings reset the counters (the default)
and the user does not call `read_and_store` beside a sampler. The invariant is
`IInv == CountInv /\ FlushKeepsUp /\ TimeInv /\ DueInv /\ LossInv /\ EnergyInv`:

- `CountInv` strengthens `CountedOnce` by who may be reading when (`Turns`), at which places each kind of
  profiler passes (`Stations`) and that the meter shows what is unread (`MeterShowsUnread`). It gives
  `TypeCorrect` and `EveryCountOnce`. `Turns` is what makes the law inductive: two readers at once would both
  hold the same counts.
- `FlushKeepsUp` is inductive with the types: `BufferStaysShort`.
- `TimeInv` adds that no clock value lies in the future and what the durations are between `Push` and
  `Advance`: `TimeOnce`.
- `LossInv` says that counters that are being read stand still unless `disturbed`: `NothingGetsLost`.
- `EnergyInv` bounds the energy by the time that the samples reach to, for a GPU plus a period; it is inductive
  because no reading of a GPU, the destructor's included, begins before `wake`: `EnergyBounded`.
- `DueInv` says that the destructor's own reading picks up whatever was due when it began; with the others
  it proves `ImplementsMeasurement`, that `SampleStore` implements `Measurement`: the initial states map to
  initial states and each step to a step or a stutter, one lemma per kind of step.

All safety properties of `Store_profilers` are theorems.

**`CallstackProofs`**, from `PostmanAssumption` and `ProfilersAssumption`; all safety properties of
`Callstack_counts` are theorems. They hold for one calling thread, as in the model.

- `WorkerAlwaysServes`, `NeverTerminates`: the invariant `WorkerInv` says for each place inside `start()` and
  `stop()` what the flags and the worker are: the compare-and-swap lets one caller through, which finds no worker;
  while `stop()` waits, the worker exists and its flag is up.
- `TypeCorrect`: `Types` is `TypeOK` by the parts that different actions change, and adds that no buffer waits to be
  visited outside a sweep - else `refresh()` could leave the sweep a buffer that it has just given up.
- `CountedOnceOnly`, `EverySampleAccountedFor`: the invariant `Accounts` follows a sample. It is at one place in one
  ring (`InOnePlace`); it is noted - counted, or read by a profiler - when the reader passes it and not before
  (`NotedWhenParsed`), so what the reader has passed in the ring being read, the only samples that are at two places,
  has been noted or cleared (`ParsedIsNoted`) when `data_tail` moves; and of the counts and the profilers one has it
  (`NotedOnce`). Neither property is inductive by itself: a tail short of what was parsed would count a sample again,
  one beyond it would skip some, and only where the reader stands tells which samples of a ring are counted.

**`ResultFileProofs`**, from `FileAssumption`: all five properties of the run.

- `TypeCorrect`; `BracketOnly`, the action property `OnlyTheBracketGoes`; `NoResultLost`, that each saved result
  stays in the file. The invariant says that without overlap at most one writer is inside (`Exclusive`), and that
  its `at` is still the position of the file's last bracket when it cuts (`SawABracket`); what is saved is in the
  file, and what is being saved is there or to come (`NothingForgotten`).
- `ResultsInOrder` (`SavedOnce`): the numbers in the file ascend, and so does the file followed by what its writer
  has still to add (`Ordered`); with `NoResultLost`, a saved result is there once and in its place.
- `ArrayUnlessDamaged` (`ArrayOrDamage`): `Balance` counts brackets. Between saves (`Settled`) there are no more than
  the faults account for, and without faults the file is `Array(saved)`; during one (`SaveUnderWay`, `Completing`) the
  same holds of the file with what is still to be written behind it. A crash makes `Settled` of `Completing` at the
  cost of one fault, wherever it comes.
- `FileIsAJournal` (`GrowsAtItsEnd`): the refinement. `ResultsIn` reads a text from its front; a step that takes
  only the bracket at the end and puts tokens there leaves what was read before (`ReadsOn`, `ReadsAlike`,
  `LongerText`), so each step grows the list at its end or lets it be (`JournalStep`).

**`FrequencyProofs`**, from `FrequencyAssumption`: all safety properties of both frequency runs, for any number of
sockets, CPUs, daemons, tools, predictions and uses, and both signals (each is blocked in its own handler).

- `TypeCorrect`: what every call writes, and that each call the programs make is one of `Call`. Calls are built with
  the folds of the community modules, so `SequenceFacts` comes first.
- `CoresComeBack` (`CoresRestored`): a limit within reach that is not the hardware's belongs to a program that runs,
  or is still to be reset by one that exits (`CoresCovered`): by a reset that waits, or a write under way that is not
  behind an unreachable CPU. It needs that a program on its way out does nothing but restore (`Leaving`), and covers
  a signal anywhere, also in the middle of another program's writes. A reset goes through the list of the program that
  makes it, so the invariant is about CPUs that all programs list (`Known`); a program that fails and so resets
  nothing must have changed nothing: one that restores has, until its constructor has looked at every socket, nothing
  to do but to look, and has then found every socket in its list (`Building`). Only constructed programs answer for a
  limit, and those never fail (`FailedIsNotConstructed`).
- `UncoresComeBack` (`UncoreRestored`): the same for the registers within reach (`UncoresCovered`), with what `clean`
  buys: no program holds in its cache, or writes on its way out, other limits than the machine's (`CleanCaches`,
  `CleanWrites`).
- `RemembersWhatIsSet` (`LastAppliedInForce`): what a lone daemon remembers as applied is set on each CPU of its list, or is the
  value that a call or write still before it will set (`InControl`). One part is easily missed (`RangeKnown`): its
  first call asks CPU 0 for the hardware's limits, which is never offline, and keeps them.

**`SequenceFacts`**: what `FlattenSeq` of the community modules returns. The library's induction theorems take an
operator as a parameter and cannot be instantiated, so facts about every prefix of a sequence are proved, here and
about `ResultsIn`, from a least counterexample (`LeastElement`): a recursive function is right at a number if it is at
the one before, so the set of numbers where it is wrong has no least element.

**`GpuBlocksProofs`**, from `GpuAssumption`: `TypeCorrect`, `CopiesReportedOnce`, `ReadingsComplete`. A record
goes one way (`OneWay`): recorded, handed over, reported, cleared; what was due when a destructor
began is on its way to that block's result (`DueOnItsWay`), because only one destructor runs at a time
(`OneEnds`); and from `stop()` on a block has no sampler's thread (`Sampled`).

**`CApiProofs`**, from `ApiAssumption` and `DevicesAssumption`: `TypeCorrect`, `LibrariesBalanced`,
`IndicesNameDevices`, `ScopesAndStacksAgree`. `LibrariesBalanced` and `IndicesNameDevices` rest on an
invariant of each vendor's part (`AllSound`), with one lemma per operator of `GpuQuery`. `ScopesAndStacksAgree`
needs that starts come in the same order on the stacks and among the open scopes (`InOrder`), and that CPU energy
is read from one backend (`OneBackend`), since its stop pops the stacks of all: then a stop pops its own.

Every invariant and every safety property that a passing run checks is stated by a theorem, three of `PmuBlocks`
under the hypotheses named above, which are the constants of their runs. Only model-checked: the
liveness properties (`CallsEnd`, `StopReturns`, `ThreadsGetAttached`, `SamplesGetRead`, `DestroyReturns`,
`SignalEnds`, `DestructorReturns`), since fairness rests on `ENABLED`, which the prover does not reason about. The
proofs speak of one calling thread, one owner and so on wherever the models do (section 7). The other way
round, `FlushKeepsUp`, `SavedStays` and `NoTermination` are invariants that no run lists, since theorems state
them.

## 6. Disagreements found

Two are runs that TLC ends with a counterexample:

1. `PmuBlocks_group_orphans`: a group keeps and closes only its leaders. The members' descriptors are never
   closed; they become events of their own and keep counting (`block_group_profiler.cc:214`), though profiling
   "persists until the current scope is exited" (`block_group_profiler.hh:20`).
2. `Callstack_disable_others`: `disable()`, which "Disables this block profiler" (`profiler.hh:38`), and the
   destructor stop the one worker of all profilers (`profiler.cc:141`).

Others are in the models, and the properties say around them what still holds; no run is spent on them:

3. Samples: the constructor of a sampled perf block sets `start` after it has launched the sampler
   (`block_profiler.cc:183`), so the first sample can have a negative duration.
4. GPU energy: readings stand for a period each, the first one too, so the energy is that of one period too many
   (`energy/gpu/nvidia/profiler.cc:42`); the destructor of a profiler that `disable()` was called on returns
   without joining its sampler (`:77`), and that of one without devices that `enable()` was called on joins a thread
   it never had (`:81`): both end the program.
5. GPU temperature: the snapshot of all devices is replaced inside the loop over them, so those after the first
   always report a change of 0 (`temperature/gpu/profiler.cc:138`).
6. GPU blocks: the destructor of an inner block switches recording off for the outer one too
   (`block_profiler.cc:199`); `kernel_total_duration_ms` is that of the last kernel (`:71`, `:204`); averages
   since the start are summed over readings (`:366`).
7. C API: a start whose second profiler fails leaves the first on its stack (`optkit_c.cc:1251`, `:1351`), where
   the next stop finds it, though a stop pops "the most recent one" (`examples/c_api/README.md:82`);
   `optkit_energy_start` returns the status of its GPU part only (`:1164`); `optkit_finalize` destroys the OPTKIT
   object before the profilers (`:302`); libpfm4 is initialised once per process although finalize terminates it
   (`:117`).
8. GPU query: an NVML enumeration that fails midway leaves its handles in front of the next one's
   (`gpu_query.cc:141`); AMDSMI's devices are looked up once per process and forgotten by a shutdown
   (`gpu_query.hh:125`).
9. Frequencies: `OPTKIT_SET_CPU_FREQ(core_freq, uncore_freq, socket)` swaps its first two arguments
   (`src/core/frequency/module.hh:12`); the uncore is put back to what the program found, which another program
   may have set (`optkit.cc:94`), and through the CPU with the socket's number (`frequency.cc:292`).
10. optkit-setenv: the frequencies a configuration sets are reset when main returns (`main.cc:24`); a CPU it takes
    offline is out of that reset's reach; `set_turbo` opens a path that begins with "cat" (`cpu.cc:7`), so it
    always fails and applying a configuration always reports a failure.
11. CPU topology: a program lists the CPUs once, up to the first that is offline (`src/core/query.cc:52`, whose comment
    says "when there's no more file/cores"): a daemon that starts then never sets the CPUs behind it, a program that
    brings CPUs back online does not reset them, and where a whole socket is missing OPTKIT's constructor throws
    (`frequency.cc:222`, `optkit.cc:94`).
12. optkit-cli stat: the sweep resets the uncore only where it could not be set (`stat.cc:341`).

## 7. What is not modelled

- *No state to speak of*: symbolizer (lookups), topology and energy queries (read once), metric tables, metric
  builder (lists put together before anything is measured), the getters of GPU query, report, list and topology
  commands, ONNX runtime, logging, Python binding.
- *External*: libpfm4, NVML, AMDSMI, CUPTI, the perf subsystem, sysfs. Only what the code uses of them is
  modelled. A library whose initialization fails is taken to be down, and a shutdown directly after a failed
  initialization to succeed.
- *Undefined behaviour*: the data races on `PMUEventManager`'s map, the read buffer, CUPTI's global lists and the
  symbolizer's maps. A call into the manager and a callback are one step; what a torn container does is not
  explored.
- *Data*: names, units, JSON inside a result, hashes of stacks, parsing of arguments, warnings, the text of the C
  API's last error. One quantity, sensor or domain stands for all where each is treated alike.
- *GPU*: overhead records, which go the way of the copies; the ROCm SMI variant; devices that appear after a
  profiler's constructor, or are gone at a later reading (`last_snapshot.at` throws); what a profiler reads that is
  destroyed after its library was shut down.
- *PMU*: a counter is also reset right after it is opened (`block_profiler.cc:168`), when it has counted nothing.
- *Callstacks*: a record of size 0, at which the sweep of a ring stops (`postman.hh:144`); the kernel writes none.
- *Store*: a RAPL counter whose `::read` fails (`rapl/profiler.cc:211`) is left out of that one sample and not reset,
  so its next reading has the counts of both; the model's always succeeds.
- *CUPTI*: a call that fails ends the process (`cupti_utils.hh:23`); in the model those of `Construct`, `Flush` and
  `Disable` succeed. The sampler's look at `running_` and its push of a sample (`gpm_sampler.cc:128`, `:157`) are one
  step, which `stop()` cannot tell from two, since it joins before the last reading.
- *CPU frequency*: all CPUs have the same limits; sockets passed are numbers below that of the sockets; the list of
  CPUs is made in one step; the readers of frequencies and
  governors change no state; file descriptors that `write_msr` leaks are not counted; a kernel before 5.4,
  which refuses a maximum below the minimum in force, is not considered. Of optkit-setenv, governor, SMT, turbo,
  affinity, memory, GPU and cgroup settings are left out, and how configurations are read and written. Of optkit-cli stat, the child, its
  polling and the signals passed to it: in the model no signal ends a sweep, as in the code.
- *One calling thread* for `CallstackProfiler`, `CApi` and the owner of GPU blocks.
- *The end of the process* because `perf_event_paranoid` or libpfm4 refuses to start.

Most of the repository's lines are of these kinds: a vendored JSON parser of 24,600 lines, tables of metrics,
getters that make one library call, formatting, code generators and benchmarks. The map covers what keeps state.

Some hazards in `PROJECT.json` have no property, because what can go wrong there does go wrong in the code, so that the
properties nearest to it except the case, or because the model abstracts from it; the note of each says which. Others
it does not list:

- PMU: `pmu_event_manager.cc:52`, a sampler iterates the map while the owner changes it; `perf/module.hh:60`, the
  repeat-sampling macros call `read_and_store` beside the sampler; `perf/block_profiler.cc:391`, without reset
  after read totals are summed;
- callstacks: `postman.hh:59`, `stop()` racing with a start of another thread; `symbolizer.hh:12`, maps replaced
  under a reader;
- GPU: `gpm_sampler.cc:43`, a second start assigns over a joinable thread; `gpm_sampler.cc:143`, `running_` stays
  true after a failure;
- C API: `optkit_c.cc:241`, the stacks are shared by threads without a lock; `optkit.cc:127`, the first OPTKIT
  object to end terminates libpfm4 for all;
- frequency: `frequency.cc:51`, maximum before minimum on an older kernel; `:40`, the clamp of the first call's
  CPU is used for all; `:222`, an unreadable register is cached as (0, 0); `utils.hh:532`, a descriptor leaked per
  write; `optkit-daemon/main.cc:342`, a handler that allocates and logs;
- optkit-cli stat: `stat.cc:106`, a signal ends one child of a sweep; `:132`, the child runs before its counters
  are open, and a signal before the assignment is lost; `:242`, a failing `waitpid` spins; `:247`, a signal to a
  reaped process; `:471`, the last run's annotation;
- optkit-setenv: `cpu.cc:348`, frequencies before offline cores come back; `cgroup.cc:202`, steps that go on after
  a failure; metric builder: `metric_builder.hh:114`, formulas without events are dropped.

## 8. Plan

Done: the core (PMU, callstacks, store, frequencies), then the result file, the C API with GPU query, GPU blocks,
temperature and GPU energy, optkit-setenv and the sweep. What is left, in order of importance:

1. optkit-cli stat around its child: fork, poll loop, `CHILD_PID` and `IS_RUNNING`, signals at any point, the
   callstack and perf profilers of another process's threads.
2. `CallstackProfiler` and `CApi` with two calling threads.
3. Instances of `SampleStore` with `UserReads` (the repeat-sampling macros) and without `ResetAfterRead`; the
   constants exist, the properties then need an account of what is counted twice.
4. optkit-setenv's cgroup and memory settings, with backup and restore.
5. Further runs: callstack profilers that disturb each other's target, thread ids that are reused; disabled PMU
   blocks resumed by a neighbour; a sampled group that ends the program.

Theorems to come: `MeasuringWhenQuiet` with groups, for the counters that are the manager's; that what a lone daemon
restores is what `Construct` found; a bound on what a sweep of the postman can miss.

## 9. How to run

    tlc -workers 2 -config PmuBlocks_unsampled.cfg MCPmuBlocks
    tlapm PmuBlocksProofs.tla

The module of each run and its configuration are listed under `runs` in `PROJECT.json`.
