---------------------------- MODULE SampleStore ----------------------------
(***************************************************************************)
(* How every OPTKIT profiler turns readings into a report:                 *)
(* BaseProfiler::read_and_store (src/utils/base_profiler.hh) and what the  *)
(* profilers plug into it - read(), on_sample_stored(), the flush of the   *)
(* read buffer, aggregate() and the destructor.  One profiler object, its  *)
(* user's thread and its sampling thread.                                  *)
(*                                                                         *)
(* The readings differ in one way only, and that is mode.source:           *)
(*   perf   counters, stopped, read, reset and started again               *)
(*   rapl   energy counters, read and reset while they run                 *)
(*   disk   an ever growing counter, reported as the change since the last *)
(*          reading                                                        *)
(*   hwmon, pdu   a power level, multiplied by the sample's duration       *)
(*   gpu_power    a power level, multiplied by the sampling period, of a   *)
(*          profiler that always samples                                   *)
(*   hwmon_temperature, gpu_temperature                                    *)
(*          a temperature, reported as the change since the last reading;  *)
(*          later_gpu_temperature is that of a device that comes after     *)
(*          another one in the loop of read()                              *)
(* One quantity stands for all the events, domains and sensors of the      *)
(* profiler: each is read, stored and summed on its own.  A sum of samples *)
(* is kept in the place of a sequence of them.                             *)
(***************************************************************************)
EXTENDS Integers, FiniteSets

CONSTANTS
  Sources,         \* the kinds of profiler examined
  ResetAfterRead,  \* ProfilerConfig::is_reset_after_read
  UserReads,       \* may the user call read_and_store beside the sampler?
  FlushPeriod,     \* READ_BUFFER_FLUSH_PERIOD_MS
  SamplingPeriod,  \* sampling_frequency_sec of the GPU energy profilers
  MaxTime,         \* bound on the clock
  MaxCount,        \* bound on what is counted
  MaxLevel         \* the highest power level and temperature

Counters == {"perf", "rapl", "disk"}
Powers   == {"hwmon", "pdu", "gpu_power"}
Levels   == {"hwmon_temperature", "gpu_temperature", "later_gpu_temperature"}

ASSUME StoreAssumption ==
  /\ Sources \subseteq Counters \union Powers \union Levels
  /\ ResetAfterRead \in BOOLEAN /\ UserReads \in BOOLEAN
  /\ FlushPeriod \in Nat \ {0} /\ SamplingPeriod \in Nat \ {0} /\ MaxTime \in Nat
  /\ MaxCount \in Nat /\ MaxLevel \in Nat

Readers == {"main", "sampler"}

VARIABLES
  mode,        \* [source, sampled, screenshot]: the configuration
  phase,       \* how far the object's life is
  is_enabled,  \* BaseProfiler::is_enabled
  now,         \* high_resolution_clock
  running,     \* does the meter count?
  hw,          \* the meter: a count, or the level
  last_snapshot, start, read_buffer, buffered_duration_ms,
  compacted,   \* compacted_duration_ms and compacted_event_counts
  pc, end, val, \* each reader: its place in read_and_store, its locals
  wake,        \* the sampler sleeps until then
  saved,       \* the report the destructor made: at most one
  \* history: not in the program
  counted, unread, lost, due, ready, disturbed

config  == <<mode>>
meter   == <<running, hw, last_snapshot>>
store   == <<start, read_buffer, buffered_duration_ms, compacted>>
reader  == <<pc, end, val, wake>>
books   == <<counted, unread, lost>>
life    == <<phase, is_enabled, saved, due, ready, disturbed>>
vars    == <<config, meter, store, reader, books, life, now>>

Source     == mode.source
Disables   == {"perf", "disk", "pdu", "gpu_power"} \union Levels  \* disable() is not a mere warning
Goto(t, p) == pc' = [pc EXCEPT ![t] = p]
Empty      == [dur |-> 0, val |-> 0]

Unreadable == 0  \* a temperature or a power that cannot be read

\* The constructors that look for something to read, and disable the profiler
\* and launch no sampler when they find nothing.
FindDomains == {"rapl", "hwmon", "gpu_power"}

Init ==
  /\ mode \in [source : Sources, sampled : BOOLEAN, screenshot : BOOLEAN]
  /\ mode.sampled => Source \notin Levels
  /\ is_enabled \in BOOLEAN
  /\ ~is_enabled => Source \in FindDomains /\ ~mode.sampled
  /\ Source = "gpu_power" => (is_enabled <=> mode.sampled)
  /\ phase = IF Source = "perf" THEN "ctor" ELSE "open"
  /\ now = 0 /\ start = 0
  /\ running = (Source # "perf" /\ is_enabled)
  /\ hw = IF Source \in Powers \union Levels THEN MaxLevel ELSE 0
  /\ last_snapshot \in {hw, Unreadable}
  /\ last_snapshot # hw => Source \in Levels \union {"gpu_power"}
  /\ Source = "gpu_power" => last_snapshot = Unreadable
  /\ read_buffer = Empty /\ buffered_duration_ms = 0
  /\ compacted = Empty
  /\ pc = [t \in Readers |-> "idle"]
  /\ end = [t \in Readers |-> 0] /\ val = [t \in Readers |-> 0] /\ wake = 0
  /\ saved = {} /\ due = 0 /\ ready = 0 /\ disturbed = FALSE
  /\ counted = IF Source \in Levels THEN hw - last_snapshot ELSE 0
  /\ unread = counted /\ lost = 0

-----------------------------------------------------------------------------
(* The world. *)

Tick ==
  /\ now < MaxTime
  /\ now' = now + 1
  /\ UNCHANGED <<config, meter, store, reader, books, life>>

Count ==
  /\ Source \in Counters /\ running /\ phase # "closed"
  /\ counted < MaxCount
  /\ hw' = hw + 1 /\ counted' = counted + 1 /\ unread' = unread + 1
  /\ UNCHANGED <<config, running, last_snapshot, store, reader, lost, life, now>>

PowerChanges ==
  /\ Source \in Powers /\ phase # "closed"
  /\ hw' \in 0 .. MaxLevel
  /\ UNCHANGED <<config, running, last_snapshot, store, reader, books, life, now>>

LevelChanges ==
  /\ Source \in Levels /\ phase # "closed"
  /\ hw' \in 0 .. MaxLevel
  /\ counted' = counted + (hw' - hw) /\ unread' = unread + (hw' - hw)
  /\ UNCHANGED <<config, running, last_snapshot, store, reader, lost, life, now>>

-----------------------------------------------------------------------------
(* read_and_store, step by step. *)

SamplerLoops_Always == mode.sampled
\* The sampling thread tests is_sampling before each round.
SamplerLoops == mode.sampled /\ phase \in {"ctor", "open"}

\* How long it sleeps between two readings matters only where a reading stands
\* for the period.
Sleep == IF Source = "gpu_power" THEN SamplingPeriod ELSE 0
Awake == wake <= now /\ now + Sleep <= MaxTime

MayRead(t) ==
  \/ t = "sampler" /\ SamplerLoops /\ Awake
  \/ t = "main" /\ phase = "open" /\ (UserReads \/ ~mode.sampled)
  \/ t = "main" /\ phase = "last"

TakeEnd(t) ==
  /\ pc[t] = "idle" /\ MayRead(t)
  /\ end' = [end EXCEPT ![t] = now]
  /\ Goto(t, "read")
  /\ UNCHANGED <<config, meter, store, val, wake, books, life, now>>

\* A disabled profiler reads nothing, and stores that.
ReadNothing(t) ==
  /\ pc[t] = "read" /\ ~is_enabled
  /\ val' = [val EXCEPT ![t] = 0]
  /\ Goto(t, "push")
  /\ UNCHANGED <<config, meter, store, end, wake, books, life, now>>

\* The value of the meter, into a local.
Fetch(t, from, to) ==
  /\ pc[t] = from /\ (from = "read" => is_enabled)
  /\ val' = [val EXCEPT ![t] = hw]
  /\ unread' = 0
  /\ Goto(t, to)
  /\ UNCHANGED <<config, meter, store, end, wake, counted, lost, life, now>>

MeterAfterReset_Kept == hw
MeterAfterReset == 0

\* ioctl(PERF_EVENT_IOC_RESET): what was counted since the reading is lost.
ResetMeter(t, to) ==
  /\ pc[t] = "reset"
  /\ hw' = MeterAfterReset
  /\ lost' = lost + unread /\ unread' = 0
  /\ Goto(t, to)
  /\ UNCHANGED <<config, running, last_snapshot, store, end, val, wake, counted, life, now>>

\* PMUEventManager::disable_all_events and enable_all_events
SetCounters(t, from, to, on) ==
  /\ pc[t] = from /\ (from = "read" => is_enabled)
  /\ running' = on
  /\ Goto(t, to)
  /\ UNCHANGED <<config, hw, last_snapshot, store, end, val, wake, books, life, now>>

CountWhileRead_Yes == TRUE
CountWhileRead == FALSE

perf_read(t) ==
  /\ Source = "perf"
  /\ \/ SetCounters(t, "read", "count", CountWhileRead)
     \/ Fetch(t, "count", IF ResetAfterRead THEN "reset" ELSE "resume")
     \/ ResetMeter(t, "resume")
     \/ SetCounters(t, "resume", "push", TRUE)

rapl_read(t) ==
  /\ Source = "rapl"
  /\ \/ Fetch(t, "read", IF ResetAfterRead THEN "reset" ELSE "push")
     \/ ResetMeter(t, "push")

Delta_Swapped(t) == last_snapshot - val[t]
Delta(t) == val[t] - last_snapshot

TakeDelta(t) ==
  /\ pc[t] = "delta"
  /\ val' = [val EXCEPT ![t] = Delta(t)]
  /\ last_snapshot' = val[t]
  /\ Goto(t, "push")
  /\ UNCHANGED <<config, running, hw, store, end, wake, books, life, now>>

disk_read(t) ==
  /\ Source = "disk"
  /\ Fetch(t, "read", "delta") \/ TakeDelta(t)

\* read_temperature_sensors, get_device_temperature
FetchLevel(t) ==
  /\ pc[t] = "read" /\ is_enabled
  /\ \E level \in {hw, Unreadable} :
       val' = [val EXCEPT ![t] = level] /\ unread' = hw - level
  /\ Goto(t, "delta")
  /\ UNCHANGED <<config, meter, store, end, wake, counted, lost, life, now>>

\* The loop over the GPUs replaces the snapshot of all at the first of them.
SnapshotTooEarly == Source = "later_gpu_temperature"

LoseDelta(t) ==
  /\ pc[t] = "delta"
  /\ val' = [val EXCEPT ![t] = 0]
  /\ lost' = lost + Delta(t)
  /\ last_snapshot' = val[t]
  /\ Goto(t, "push")
  /\ UNCHANGED <<config, running, hw, store, end, wake, counted, unread, life, now>>

temperature_read(t) ==
  /\ Source \in Levels
  /\ \/ FetchLevel(t)
     \/ ~SnapshotTooEarly /\ TakeDelta(t)
     \/ SnapshotTooEarly /\ LoseDelta(t)

FetchPower(t, level) ==
  /\ pc[t] = "read" /\ is_enabled
  /\ val' = [val EXCEPT ![t] = level]
  /\ Goto(t, "push")
  /\ UNCHANGED <<config, running, hw, store, end, wake, books, life, now>>

\* A sensor or an endpoint that does not answer draws nothing.
meter_read(t) ==
  /\ Source \in {"hwmon", "pdu"}
  /\ \E level \in {hw, Unreadable} : FetchPower(t, level)
  /\ UNCHANGED last_snapshot

\* When the devices cannot be counted the snapshot before is stored once more.
gpu_power_read(t) ==
  /\ Source = "gpu_power"
  /\ \E level \in IF mode.sampled THEN {hw, Unreadable, last_snapshot} ELSE {Unreadable} :
       FetchPower(t, level) /\ last_snapshot' = level

read(t) ==
  \/ ReadNothing(t)
  \/ perf_read(t) \/ rapl_read(t) \/ disk_read(t) \/ temperature_read(t)
  \/ meter_read(t) \/ gpu_power_read(t)

PeriodOf(d) == IF Source = "gpu_power" THEN SamplingPeriod ELSE d
Amount_AllBuffered(v, d) ==
  IF Source \in Powers THEN v * PeriodOf(buffered_duration_ms + d) ELSE v
\* What a reading adds to the report: a count, or power times duration.
Amount(v, d) == IF Source \in Powers THEN v * PeriodOf(d) ELSE v

BufferedAfterFlush == 0

\* on_sample_stored and flush_compacted_samples
on_sample_stored(d, stored) ==
  LET sum == buffered_duration_ms + d IN
  IF mode.screenshot \/ sum < FlushPeriod
  THEN /\ read_buffer' = stored
       /\ buffered_duration_ms' = IF mode.screenshot THEN 0 ELSE sum
       /\ UNCHANGED compacted
  ELSE /\ compacted' = [dur |-> compacted.dur + sum,
                        val |-> compacted.val + stored.val]
       /\ read_buffer' = Empty
       /\ buffered_duration_ms' = BufferedAfterFlush

Push(t) ==
  LET d == end[t] - start IN
  /\ pc[t] = "push"
  /\ on_sample_stored(d, [dur |-> read_buffer.dur + d,
                          val |-> read_buffer.val + Amount(val[t], d)])
  /\ Goto(t, "advance")
  /\ UNCHANGED <<config, meter, start, end, val, wake, books, life, now>>

NextStart_Now(t) == now
NextStart(t) == end[t]

Advance(t) ==
  /\ pc[t] = "advance"
  /\ start' = NextStart(t)
  /\ phase' = IF phase = "last" THEN "saving" ELSE phase
  /\ Goto(t, "idle")
  /\ wake' = IF t = "sampler" THEN end[t] + Sleep ELSE wake
  /\ end' = [end EXCEPT ![t] = 0] /\ val' = [val EXCEPT ![t] = 0]
  /\ UNCHANGED <<config, meter, read_buffer, buffered_duration_ms, compacted,
                 books, is_enabled, saved, due, ready, disturbed, now>>

read_and_store(t) ==
  /\ phase # "terminated"
  /\ TakeEnd(t) \/ read(t) \/ Push(t) \/ Advance(t)

-----------------------------------------------------------------------------
(* The other calls of the user, one at a time. *)

UserCalls == phase = "open" /\ pc["main"] = "idle"

\* The constructor of a perf block restarts the clock and the counters after
\* it has launched the sampler.
Ready ==
  /\ phase = "ctor"
  /\ phase' = "open"
  /\ start' = now /\ ready' = now
  /\ running' = TRUE
  /\ disturbed' = (pc["sampler"] # "idle")
  /\ UNCHANGED <<config, hw, last_snapshot, read_buffer, buffered_duration_ms,
                 compacted, reader, books, is_enabled, saved, due, now>>

Disable ==
  /\ UserCalls /\ Source \in Disables
  /\ is_enabled' = FALSE
  /\ running' = IF Source = "perf" THEN FALSE ELSE running
  /\ UNCHANGED <<config, hw, last_snapshot, store, reader, books,
                 phase, saved, due, ready, disturbed, now>>

Enable ==
  /\ UserCalls /\ Source \in Disables
  /\ is_enabled' = TRUE
  /\ running' = IF Source = "perf" THEN TRUE ELSE running
  /\ disturbed' = (disturbed \/ pc["sampler"] # "idle")
  /\ UNCHANGED <<config, hw, last_snapshot, store, reader, books,
                 phase, saved, due, ready, now>>

\* Only the perf blocks implement reset().
Reset ==
  /\ UserCalls /\ Source = "perf" /\ is_enabled
  /\ hw' = 0
  /\ counted' = counted - unread /\ unread' = 0
  /\ UNCHANGED <<config, running, last_snapshot, store, reader, lost, life, now>>

ReturnsAtOnce == Source \in FindDomains /\ ~is_enabled

\* The GPU energy profilers' destructor returns without joining the sampler of a
\* profiler that was disabled, and joins the one that a profiler without devices
\* never had: either way the program is terminated.
Terminates == Source = "gpu_power" /\ (is_enabled <=> ~mode.sampled)

\* The destructor: stop counting and sampling.
Destroy ==
  /\ UserCalls
  /\ phase' = IF Terminates THEN "terminated"
              ELSE IF ReturnsAtOnce THEN "closed" ELSE "joining"
  /\ running' = (Source # "perf" /\ running)
  /\ due' = counted
  /\ UNCHANGED <<config, hw, last_snapshot, store, reader, books,
                 is_enabled, saved, ready, disturbed, now>>

\* A sleep is not cut short.
SamplerEnded == pc["sampler"] = "idle" /\ ~SamplerLoops /\ wake <= now

Join ==
  /\ phase = "joining" /\ SamplerEnded
  /\ phase' = "last"
  /\ UNCHANGED <<config, meter, store, reader, books,
                 is_enabled, saved, due, ready, disturbed, now>>

Aggregate_BufferOnly == [dur |-> read_buffer.dur, val |-> read_buffer.val]
\* aggregate(): the compacted sums and what is still in the buffer.
Aggregate == [dur |-> compacted.dur + read_buffer.dur,
              val |-> compacted.val + read_buffer.val]

\* A disabled perf, disk or temperature profiler aggregates and saves nothing.
Save ==
  /\ phase = "saving"
  /\ phase' = "closed"
  /\ saved' = IF Source \in {"perf", "disk"} \union Levels /\ ~is_enabled
              THEN {} ELSE {Aggregate}
  /\ UNCHANGED <<config, meter, store, reader, books,
                 is_enabled, due, ready, disturbed, now>>

Done == phase \in {"closed", "terminated"} /\ UNCHANGED vars

Next ==
  \/ Tick \/ Count \/ PowerChanges \/ LevelChanges
  \/ \E t \in Readers : read_and_store(t)
  \/ Ready \/ Disable \/ Enable \/ Reset \/ Destroy \/ Join \/ Save
  \/ Done

Spec == Init /\ [][Next]_vars

\* Threads run: neither a reading nor the destructor stops half-way, and a sleep
\* ends.
FairSpec ==
  /\ Spec
  /\ \A t \in Readers : WF_vars(pc[t] # "idle" /\ read_and_store(t))
  /\ WF_vars(phase = "last" /\ TakeEnd("main"))
  /\ WF_vars(Ready) /\ WF_vars(Join) /\ WF_vars(Save)
  /\ WF_vars(phase = "joining" /\ now < wake /\ Tick)

-----------------------------------------------------------------------------
(* Properties. *)

Places == {"idle", "read", "count", "reset", "resume", "delta", "push", "advance"}

TypeOK ==
  /\ mode \in [source : Sources, sampled : BOOLEAN, screenshot : BOOLEAN]
  /\ phase \in {"ctor", "open", "joining", "last", "saving", "closed", "terminated"}
  /\ is_enabled \in BOOLEAN /\ running \in BOOLEAN /\ disturbed \in BOOLEAN
  /\ now \in Nat /\ hw \in Nat /\ last_snapshot \in Nat
  /\ start \in Nat /\ ready \in Nat /\ buffered_duration_ms \in Int
  /\ read_buffer \in [dur : Int, val : Int]
  /\ compacted \in [dur : Int, val : Int]
  /\ pc \in [Readers -> Places]
  /\ end \in [Readers -> Nat] /\ val \in [Readers -> Int] /\ wake \in Nat
  /\ saved \subseteq [dur : Int, val : Int]
  /\ counted \in Int /\ unread \in Int /\ lost \in Int /\ due \in Int
  /\ Source \notin Levels =>
       /\ val \in [Readers -> Nat]
       /\ counted \in Nat /\ unread \in Nat /\ lost \in Nat /\ due \in Nat

\* What a reader holds that is in no sample yet and no longer at the meter.
InFlight(t) ==
  CASE pc[t] \in {"reset", "resume", "push"} -> val[t]
    [] pc[t] = "delta"                       -> Delta(t)
    [] OTHER                                 -> 0

\* Whatever the flushes, disables, threads and failing readings in between,
\* every count, and every degree up or down, is in the samples, on its way to
\* them, still at the meter or lost at a reset or a snapshot - in one place only
\* (read_and_store, flush_compacted_samples, aggregate).
CountedOnce ==
  Source \in Counters \union Levels =>
    counted = Aggregate.val + InFlight("main") + InFlight("sampler")
              + unread + lost

\* Counters that are stopped to be read, and snapshots, lose nothing, unless
\* the constructor or enable() starts them in the middle of a sampler's reading,
\* and unless a snapshot is that of a GPU after the first.
NothingLost ==
  Source \in {"perf", "disk", "hwmon_temperature", "gpu_temperature"} /\ ~disturbed =>
    lost = 0

Quiet == \A t \in Readers : pc[t] \in {"idle", "read", "count", "delta", "reset", "resume", "push"}

\* The durations of the samples cover the time since the constructor ended
\* without a gap and without an overlap; what a sampler read during the
\* constructor may come on top (base_profiler.hh: "re-set the start to end").
TimeCoveredOnce ==
  Quiet => /\ Aggregate.dur >= start - ready
           /\ Aggregate.dur <= start

\* The flush keeps the buffer shorter than its period, and the two ways the
\* code has of knowing its length agree.
FlushKeepsUp ==
  ~mode.screenshot =>
    /\ buffered_duration_ms = read_buffer.dur
    /\ buffered_duration_ms < FlushPeriod

\* Energy computed from power readings is never negative and never above what
\* the highest level would have used in the time covered - and in one period
\* more where each reading, the last one of the destructor included, stands for
\* a period (sampling_function of the GPU energy profilers).
EnergyWithinLevels ==
  Source \in Powers =>
    /\ Aggregate.val >= 0
    /\ Aggregate.val <= MaxLevel * (Aggregate.dur + Sleep)

\* A destructor that has begun ends, whatever the sampling thread is doing.
DestroyReturns == phase = "joining" ~> phase = "closed"

\* The profilers that count do what Measurement says; those that multiply
\* power by time count nothing, and what a temperature does may shrink.
Exact(x) == IF Source \in Counters THEN x ELSE 0
M == INSTANCE Measurement WITH
       counted   <- Exact(counted),
       reported  <- Exact(Aggregate.val),
       lost      <- Exact(lost),
       open      <- phase \in {"ctor", "open"},
       due       <- Exact(due),
       delivered <- {Exact(r.val) : r \in saved}
Promise == M!Spec

=============================================================================
