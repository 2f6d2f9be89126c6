----------------------------- MODULE GpuBlocks -----------------------------
(***************************************************************************)
(* NVIDIA GPU blocks (src/core/pmu/gpu/nvidia/block_profiler.cc) and the   *)
(* sampling thread that each may have (gpm_sampler.cc).                    *)
(*                                                                         *)
(* All blocks share CUPTI, whose recording is on or off for the process,   *)
(* and the global lists to which its callback copies what was recorded.    *)
(* One thread of the program constructs and destroys blocks; the GPU ends  *)
(* copies and kernels, CUPTI hands buffers over, and the samplers sample,  *)
(* at any moment.                                                          *)
(***************************************************************************)
EXTENDS Integers, Sequences, SequencesExt

CONSTANTS
  Blocks,          \* the BlockProfiler objects
  Copies, Kernels, \* the GPU's memory copies and kernels, each ends once
  None,            \* no kernel
  MaxSamples,      \* bound: up to here a sampler's samples are counted
  MaxReadings      \* bound on the readings in the middle of a block

Records == Copies \union Kernels

ASSUME GpuAssumption ==
  /\ Copies \intersect Kernels = {} /\ None \notin Records
  /\ MaxSamples \in Nat /\ MaxReadings \in Nat

VARIABLES
  recording,         \* are CUPTI's activity kinds enabled?
  buffered,          \* CUPTI: the records not handed over yet
  g_activity_memcpy, g_activity_kernel,
  phase,             \* of each block: its life, and where its destructor is
  running_, thread,  \* its GpmSampler
  samples,           \* length of samples_
  read_buffer,       \* for each reading, how many samples it averaged
  reported,          \* the records in its result
  \* history: not in the program
  done,              \* the copies and kernels the GPU has ended
  due                \* the copies recorded when a block's destructor began

cupti   == <<recording, buffered, done>>
globals == <<g_activity_memcpy, g_activity_kernel>>
sampler == <<running_, thread, samples>>
vars    == <<cupti, globals, phase, sampler, read_buffer, reported, due>>

Phases == {"none", "open", "stopping", "stopped", "flushed", "disabled", "read",
           "reported", "closed"}
Threads == {"none", "alloc", "test", "slept", "ended"}

\* Between the first and the last step of a destructor.
Ending(b) == phase[b] \notin {"none", "open", "closed"}

Init ==
  /\ recording = FALSE /\ buffered = <<>>
  /\ g_activity_memcpy = {} /\ g_activity_kernel = None
  /\ phase       = [b \in Blocks |-> "none"]
  /\ running_    = [b \in Blocks |-> FALSE]
  /\ thread      = [b \in Blocks |-> "none"]
  /\ samples     = [b \in Blocks |-> 0]
  /\ read_buffer = [b \in Blocks |-> <<>>]
  /\ reported    = [b \in Blocks |-> {}]
  /\ done = {} /\ due = [b \in Blocks |-> {}]

-----------------------------------------------------------------------------
(* CUPTI. *)

\* The GPU ends an operation; CUPTI records it if it is told to.
Record(r) ==
  /\ r \notin done
  /\ done' = done \union {r}
  /\ buffered' = IF recording THEN Append(buffered, r) ELSE buffered
  /\ UNCHANGED <<recording, globals, phase, sampler, read_buffer, reported, due>>

NewCopies_FallThrough(records) == ToSet(records)
\* Copies are appended, of the kernels only the last one is kept.
NewCopies(records) == ToSet(records) \intersect Copies
IsLastKernel(records, r) ==
  \/ r = g_activity_kernel /\ ToSet(records) \intersect Kernels = {}
  \/ \E i \in DOMAIN records :
       /\ r = records[i] /\ r \in Kernels
       /\ \A j \in DOMAIN records : j > i => records[j] \notin Kernels

BufferCompleted ==
  /\ g_activity_memcpy' = g_activity_memcpy \union NewCopies(buffered)
  /\ \E r \in Kernels \union {None} :
       IsLastKernel(buffered, r) /\ g_activity_kernel' = r
  /\ buffered' = <<>>

\* A buffer is full: CUPTI's thread calls back.
Deliver ==
  /\ buffered # <<>>
  /\ BufferCompleted
  /\ UNCHANGED <<recording, done, phase, sampler, read_buffer, reported, due>>

-----------------------------------------------------------------------------
(* GpmSampler. *)

\* start(): the device may not support it.
StartSampler(b, supported) ==
  /\ running_' = [running_ EXCEPT ![b] = supported]
  /\ thread' = [thread EXCEPT ![b] = IF supported THEN "alloc" ELSE "none"]
  /\ UNCHANGED samples

Loops(b) == running_[b]

\* sample_loop_; any call of NVML may fail, which ends the thread and leaves
\* running_ as it is.
sample_loop_(b) ==
  /\ \/ /\ thread[b] = "alloc"
        /\ \E next \in {"test", "ended"} : thread' = [thread EXCEPT ![b] = next]
        /\ UNCHANGED samples
     \/ /\ thread[b] = "test"
        /\ \E next \in IF Loops(b) THEN {"slept", "ended"} ELSE {"ended"} :
             thread' = [thread EXCEPT ![b] = next]
        /\ UNCHANGED samples
     \/ /\ thread[b] = "slept"
        /\ thread' = [thread EXCEPT ![b] = "ended"]
        /\ UNCHANGED samples
     \/ /\ thread[b] = "slept" /\ Loops(b)
        /\ thread' = [thread EXCEPT ![b] = "test"]
        /\ samples' = [samples EXCEPT ![b] = IF @ < MaxSamples THEN @ + 1 ELSE @]
  /\ UNCHANGED <<cupti, globals, phase, running_, read_buffer, reported, due>>

RunningAfterStop_Kept(b) == running_[b]
RunningAfterStop(b) == FALSE

Joinable_Never(b) == FALSE
Joinable(b) == thread[b] # "none"

-----------------------------------------------------------------------------
(* BlockProfiler. *)

Free == \A b \in Blocks : ~Ending(b)

Construct(b) ==
  /\ phase[b] = "none" /\ Free
  /\ phase' = [phase EXCEPT ![b] = "open"]
  /\ recording' = TRUE
  /\ \E supported \in BOOLEAN : StartSampler(b, supported)
  /\ UNCHANGED <<buffered, done, globals, read_buffer, reported, due>>

\* read_and_store: an average of all samples so far, or nothing from a device
\* that does not support them.
Store(b) == read_buffer' = [read_buffer EXCEPT ![b] = Append(@, samples[b])]

\* The program reads in the middle of the block.
read_and_store(b) ==
  /\ phase[b] = "open" /\ Free
  /\ Len(read_buffer[b]) < MaxReadings
  /\ Store(b)
  /\ UNCHANGED <<cupti, globals, phase, sampler, reported, due>>

Goes(b, from, to) == phase[b] = from /\ phase' = [phase EXCEPT ![b] = to]

\* ~BlockProfiler, from here on.  GpmSampler::stop(): nothing to do for a sampler
\* that never ran.
Destroy(b) ==
  /\ Free
  /\ Goes(b, "open", IF running_[b] THEN "stopping" ELSE "stopped")
  /\ running_' = [running_ EXCEPT ![b] = RunningAfterStop(b)]
  /\ due' = [due EXCEPT ![b] = (ToSet(buffered) \union g_activity_memcpy) \intersect Copies]
  /\ UNCHANGED <<cupti, globals, thread, samples, read_buffer, reported>>

StopJoin(b) ==
  /\ Goes(b, "stopping", "stopped")
  /\ Joinable(b) => thread[b] = "ended"
  /\ thread' = [thread EXCEPT ![b] = IF Joinable(b) THEN "none" ELSE @]
  /\ UNCHANGED <<cupti, globals, running_, samples, read_buffer, reported, due>>

\* cuptiActivityFlushAll calls back for everything that is recorded.
Flush(b) ==
  /\ Goes(b, "stopped", "flushed")
  /\ BufferCompleted
  /\ UNCHANGED <<recording, done, sampler, read_buffer, reported, due>>

\* Recording ends for every block of the process.
Disable(b) ==
  /\ Goes(b, "flushed", "disabled")
  /\ recording' = FALSE
  /\ UNCHANGED <<buffered, done, globals, sampler, read_buffer, reported, due>>

Aggregate(b) ==
  /\ Goes(b, "disabled", "read")
  /\ Store(b)
  /\ UNCHANGED <<cupti, globals, sampler, reported, due>>

Report(b) ==
  /\ Goes(b, "read", "reported")
  /\ reported' = [reported EXCEPT ![b] =
       g_activity_memcpy \union ({g_activity_kernel} \ {None})]
  /\ UNCHANGED <<cupti, globals, sampler, read_buffer, due>>

CopiesAfterReport_Kept == g_activity_memcpy
CopiesAfterReport == {}

Clear(b) ==
  /\ Goes(b, "reported", "closed")
  /\ g_activity_memcpy' = CopiesAfterReport
  /\ g_activity_kernel' = None
  /\ UNCHANGED <<cupti, sampler, read_buffer, reported, due>>

Destructor(b) ==
  StopJoin(b) \/ Flush(b) \/ Disable(b) \/ Aggregate(b) \/ Report(b) \/ Clear(b)

Next ==
  \/ \E r \in Records : Record(r)
  \/ Deliver
  \/ \E b \in Blocks :
       \/ Construct(b) \/ read_and_store(b) \/ Destroy(b)
       \/ StopJoin(b) \/ Flush(b) \/ Disable(b) \/ Aggregate(b) \/ Report(b) \/ Clear(b)
       \/ sample_loop_(b)

Spec == Init /\ [][Next]_vars
\* The threads of the program and of the samplers are scheduled.
FairSpec == Spec /\ \A b \in Blocks : WF_vars(Destructor(b)) /\ WF_vars(sample_loop_(b))

-----------------------------------------------------------------------------
(* Properties. *)

TypeOK ==
  /\ recording \in BOOLEAN
  /\ buffered \in Seq(Records)
  /\ g_activity_memcpy \subseteq Copies /\ g_activity_kernel \in Kernels \union {None}
  /\ phase \in [Blocks -> Phases]
  /\ running_ \in [Blocks -> BOOLEAN] /\ thread \in [Blocks -> Threads]
  /\ samples \in [Blocks -> Nat] /\ read_buffer \in [Blocks -> Seq(Nat)]
  /\ reported \in [Blocks -> SUBSET Records]
  /\ done \subseteq Records /\ due \in [Blocks -> SUBSET Copies]

\* A record is in the result of at most one block, and a copy that was recorded
\* and not yet reported when a block's destructor began is in that block's result
\* when it has ended - although blocks nest and overlap, share the lists, and
\* CUPTI goes on filling them while a destructor reports and clears them.
\* Of the kernels only the last one is promised a result
\* (BufferCompleted, ~BlockProfiler).
ReportedOnce ==
  /\ \A b, c \in Blocks : b # c => reported[b] \intersect reported[c] = {}
  /\ \A b \in Blocks : phase[b] = "closed" => due[b] \subseteq reported[b]

\* The sampler's thread is joined before the block takes its last reading, which
\* therefore has every sample, and no thread outlives the block it belongs to.
LastReadingComplete ==
  \A b \in Blocks : phase[b] = "closed" =>
    /\ thread[b] = "none"
    /\ Last(read_buffer[b]) = samples[b]

\* A destructor that has begun ends, whatever the sampler is doing.
DestructorReturns == \A b \in Blocks : phase[b] = "stopping" ~> phase[b] = "closed"
=============================================================================
