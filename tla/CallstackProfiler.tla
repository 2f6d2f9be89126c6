-------------------------- MODULE CallstackProfiler --------------------------
(***************************************************************************)
(* callstack::Profiler over the process-wide CallstackSession              *)
(* (callstack/profiler.cc).  Every profiler acquires and releases the one  *)
(* session, whose Postman has a single target, worker and set of counts.   *)
(***************************************************************************)
EXTENDS Postman

CONSTANTS
  Profilers,   \* the profiler objects
  TargetOf,    \* PerfProfilerConfig::pid of each
  MaxOpen      \* how many profilers may be open at a time

ASSUME ProfilersAssumption ==
  TargetOf \in [Profilers -> Pids] /\ MaxOpen \in Nat \ {0}

VARIABLES
  open,        \* the profilers between constructor and destructor
  is_enabled,
  stored,      \* what each profiler has read so far, over its read_buffer
  upc,         \* where the user's thread is in Postman::start or stop
  cleared,     \* history: the samples a reset() threw away
  terminated   \* std::terminate was called

profilers == <<open, is_enabled, stored, cleared>>
vars == <<postman, profilers, upc, terminated>>

Init ==
  /\ PostmanInit
  /\ open = {}
  /\ is_enabled = [p \in Profilers |-> FALSE]
  /\ stored = [p \in Profilers |-> [s \in Samples |-> 0]]
  /\ upc = "idle"
  /\ cleared = {}
  /\ terminated = FALSE

Idle == upc = "idle" /\ ~terminated

-----------------------------------------------------------------------------
(* CallstackSession::acquire and release *)

Acquire_KeepsTarget(p) ==
  upc' = "cas" /\ UNCHANGED <<running, stop_flag, target_pid>>

Acquire(p) ==
  /\ target_pid' = TargetOf[p]
  /\ upc' = "cas"
  /\ UNCHANGED <<running, stop_flag>>

\* Postman::start
StartCas ==
  /\ upc = "cas"
  /\ running' = TRUE
  /\ upc' = IF running THEN "idle" ELSE "clear"
  /\ UNCHANGED <<kernel, stop_flag, target_pid, worker, books, counts, profilers, terminated>>

ClearStopFlag_Kept == UNCHANGED stop_flag
ClearStopFlag == stop_flag' = FALSE

StartClear ==
  /\ upc = "clear"
  /\ ClearStopFlag
  /\ upc' = "spawn"
  /\ UNCHANGED <<kernel, running, target_pid, worker, books, counts, profilers, terminated>>

\* Assigning to a joinable std::thread terminates the program.
StartSpawn ==
  /\ upc = "spawn"
  /\ terminated' = (wpc # "none")
  /\ wpc' = "refresh"
  /\ upc' = "idle"
  /\ UNCHANGED <<kernel, control, attach, rounds, sweep, books, counts, profilers>>

\* Postman::stop
JoinsWorker == wpc # "none"

Stop ==
  /\ upc = "stop"
  /\ stop_flag' = (running \/ stop_flag)
  /\ upc' = IF running THEN "join" ELSE "idle"
  /\ UNCHANGED <<kernel, running, target_pid, worker, books, counts, profilers, terminated>>

StopJoin ==
  /\ upc = "join"
  /\ IF JoinsWorker
       THEN wpc = "done" /\ wpc' = "none"
       ELSE UNCHANGED wpc
  /\ running' = FALSE
  /\ upc' = "idle"
  /\ UNCHANGED <<kernel, stop_flag, target_pid, attach, rounds, sweep, books, counts,
                 profilers, terminated>>

-----------------------------------------------------------------------------
(* callstack::Profiler *)

Construct(p) ==
  /\ Idle /\ p \notin open /\ Cardinality(open) < MaxOpen
  /\ Acquire(p)
  /\ open' = open \union {p}
  /\ is_enabled' = [is_enabled EXCEPT ![p] = TRUE]
  /\ UNCHANGED <<kernel, worker, books, counts, stored, cleared, terminated>>

NoCounts == [s \in Samples |-> 0]

\* consume_counts(is_reset_after_read), whose default is to reset.
Remaining_Kept == counts
Remaining == NoCounts

\* read_and_store of an enabled profiler; a disabled one stores nothing.
Store(p) ==
  IF is_enabled[p]
    THEN /\ stored' = [stored EXCEPT ![p] = [s \in Samples |-> @[s] + counts[s]]]
         /\ counts' = Remaining
    ELSE UNCHANGED <<stored, counts>>

Read(p) ==
  /\ Idle /\ p \in open /\ is_enabled[p]
  /\ Store(p)
  /\ UNCHANGED <<kernel, control, worker, books, open, is_enabled, upc,
                 cleared, terminated>>

Reset(p) ==
  /\ Idle /\ p \in open /\ is_enabled[p]
  /\ cleared' = cleared \union {s \in Samples : counts[s] > 0}
  /\ counts' = NoCounts
  /\ UNCHANGED <<kernel, control, worker, books, open, is_enabled, stored,
                 upc, terminated>>

Disable(p) ==
  /\ Idle /\ p \in open
  /\ is_enabled' = [is_enabled EXCEPT ![p] = FALSE]
  /\ upc' = "stop"
  /\ UNCHANGED <<kernel, control, worker, books, counts, open, stored, cleared, terminated>>

Enable(p) ==
  /\ Idle /\ p \in open
  /\ is_enabled' = [is_enabled EXCEPT ![p] = TRUE]
  /\ Acquire(p)
  /\ UNCHANGED <<kernel, worker, books, counts, open, stored, cleared,
                 terminated>>

\* The last read, then release(); the worker goes on counting in between.
Destruct(p) ==
  /\ Idle /\ p \in open
  /\ Store(p)
  /\ open' = open \ {p}
  /\ is_enabled' = [is_enabled EXCEPT ![p] = FALSE]
  /\ upc' = "stop"
  /\ UNCHANGED <<kernel, control, worker, books, cleared,
                 terminated>>

-----------------------------------------------------------------------------

UserCalls(p) ==
  \/ Construct(p) \/ Read(p) \/ Reset(p) \/ Disable(p) \/ Enable(p) \/ Destruct(p)

UserProceeds == StartCas \/ StartClear \/ StartSpawn \/ Stop \/ StopJoin

Work == WorkerStep /\ UNCHANGED <<profilers, upc, terminated>>

World == Environment /\ UNCHANGED <<profilers, upc, terminated>>

Next ==
  \/ \E p \in Profilers : UserCalls(p)
  \/ ~terminated /\ UserProceeds
  \/ ~terminated /\ Work
  \/ ~terminated /\ World

Spec == Init /\ [][Next]_vars

\* The worker is scheduled and a call under way is finished; when calls are
\* made, and when threads start, stop and are sampled, is up to the program.
Fairness == WF_vars(~terminated /\ UserProceeds) /\ WF_vars(~terminated /\ Work)

FairSpec == Spec /\ Fairness

-----------------------------------------------------------------------------
(* Properties *)

UserPlaces == {"idle", "cas", "clear", "spawn", "stop", "join"}
WorkerPlaces == {"none", "refresh", "attach", "loop", "sweep", "parse", "done"}

\* The variables have the types the C++ declarations give them; rings are
\* never over-full and the reader's position stays inside its buffer.
TypeOK ==
  /\ threads \subseteq Tids /\ listening \subseteq threads \intersect owned
  /\ owned \subseteq Tids /\ attach \subseteq Tids /\ todo \subseteq owned
  /\ \A t \in Tids : ring[t] \in Seq(0 .. MaxSamples) /\ Len(ring[t]) <= RingSize
  /\ taken \in 0 .. MaxSamples /\ noise \in 0 .. MaxNoise
  /\ running \in BOOLEAN /\ stop_flag \in BOOLEAN /\ terminated \in BOOLEAN
  /\ target_pid \in Pids /\ current_pid \in Pids \union {NoPid}
  /\ counts \in [Samples -> Nat]
  /\ wpc \in WorkerPlaces /\ upc \in UserPlaces
  /\ rounds \in 0 .. 3 /\ buf \in Tids
  /\ wpc = "parse" => pos <= head /\ head <= Len(ring[buf])
  /\ open \subseteq Profilers /\ is_enabled \in [Profilers -> BOOLEAN]
  /\ stored \in [Profilers -> [Samples -> Nat]]

Readings(s) == {p \in Profilers : stored[p][s] > 0}
Pending(s) == \E t \in Tids : s \in SamplesIn(ring[t])

\* A sample is counted at most once and reported by at most one profiler,
\* whatever the kernel writes while the worker reads, whenever a profiler reads
\* the counts, and across a stop and a restart of the worker.
NothingCountedTwice ==
  \A s \in Samples :
    /\ counts[s] <= 1 /\ \A p \in Profilers : stored[p][s] <= 1
    /\ Cardinality(Readings(s)) <= IF counts[s] = 1 THEN 0 ELSE 1

\* A sample for which there was room is never skipped: it waits in its ring,
\* is counted, was reported, was cleared by reset(), or went with its buffer.
NothingSkipped ==
  \A s \in 1 .. taken :
    \/ Pending(s) \/ counts[s] > 0 \/ Readings(s) # {}
    \/ s \in overflowed \union cleared \union discarded

\* When no call is in progress a running postman has a worker nobody told to
\* stop, and a stopped one has none: a restart is as good as the first start.
WorkerServes ==
  upc = "idle" => IF running THEN wpc \notin {"none", "done"} /\ ~stop_flag
                             ELSE wpc = "none"

\* start() never assigns to a thread object that is still joinable.
NoTermination == ~terminated

\* While no call is in progress, an open and enabled profiler has a postman
\* that works for it.
SamplingWhileEnabled == upc = "idle" /\ (\E p \in open : is_enabled[p]) => running

\* stop() ends: the worker sees the flag whatever it is doing.
StopReturns == upc = "join" ~> upc = "idle"

\* While the worker keeps running on its target, a thread of the target that
\* stays alive is attached sooner or later.
ThreadsGetAttached ==
  \A t \in Tids :
    (running /\ t \in TargetThreads) ~> (~running \/ t \notin TargetThreads \/ t \in listening)

\* While the worker keeps running, no sample stays in a ring.
SamplesGetRead == \A s \in Samples : (running /\ Pending(s)) ~> (~running \/ ~Pending(s))

=============================================================================
