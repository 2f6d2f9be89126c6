------------------------------- MODULE Postman -------------------------------
(***************************************************************************)
(* The callstack sampler's "postman" (postman.hh, threadbuffer.hh): a      *)
(* thread that attaches a ring buffer to every thread of a target process, *)
(* sweeps the rings and counts the call stacks it finds.                   *)
(*                                                                         *)
(* A sample is a number, in the order they are taken; 0 is a record that   *)
(* is not a sample or has no usable address.  What a sample's stack looks  *)
(* like is immaterial here: counting stacks is counting samples by key.    *)
(* The postman's own thread, which it never attaches to, is not in Tids.   *)
(***************************************************************************)
EXTENDS Integers, Sequences, SequencesExt, FiniteSets

CONSTANTS
  Tids,        \* the thread ids target processes may have
  Pids,        \* the target processes
  PidOf,       \* the process each thread id belongs to
  NoPid,       \* current_pid before the first refresh
  RingSize,    \* records a ring buffer holds
  MaxSamples,  \* bound on the samples taken
  MaxNoise,    \* bound on the records that are not samples
  TidReuse,    \* may a thread id be given to a new thread at once
  MayFail      \* may init_for_tid fail on a live thread

ASSUME PostmanAssumption ==
  /\ PidOf \in [Tids -> Pids] /\ NoPid \notin Pids
  /\ RingSize \in Nat \ {0}
  /\ MaxSamples \in Nat /\ MaxNoise \in Nat
  /\ TidReuse \in BOOLEAN /\ MayFail \in BOOLEAN

Samples == 1 .. MaxSamples

VARIABLES
  threads,     \* the live threads of all target processes
  listening,   \* the attached threads whose event still counts for a live thread
  ring,        \* the unread records of each thread's ring buffer
  taken,       \* samples taken so far
  noise,       \* other records written so far
  overflowed,  \* the samples for which there was no room
  running, stop_flag, target_pid,  \* the Postman's atomics
  current_pid, \* ThreadAttachManager::current_pid
  owned,       \* the threads that have a buffer, in `owned` and the registry
  counts,      \* how often each sample was counted and not yet consumed
  wpc,         \* where the worker thread is; "none" when it is not joinable
  attach,      \* the thread ids refresh() has still to attach to
  rounds,      \* sweeps since the last refresh
  todo,        \* the buffers this sweep has still to visit
  buf,         \* the buffer being read
  head, pos,   \* data_head as read once, and the records parsed so far
  discarded    \* history: unread samples that went with their buffer

kernel == <<threads, listening, ring, taken, noise, overflowed>>
control == <<running, stop_flag, target_pid>>
sweep == <<todo, buf, head, pos>>
worker == <<wpc, attach, rounds, sweep>>
books == <<current_pid, owned, discarded>>
postman == <<kernel, control, worker, books, counts>>

PostmanInit ==
  /\ threads \in SUBSET Tids
  /\ listening = {} /\ owned = {}
  /\ ring = [t \in Tids |-> <<>>]
  /\ taken = 0 /\ noise = 0 /\ overflowed = {} /\ discarded = {}
  /\ running = FALSE /\ stop_flag = FALSE
  /\ target_pid \in Pids /\ current_pid = NoPid
  /\ counts = [s \in Samples |-> 0]
  /\ wpc = "none"
  /\ attach = {} /\ rounds = 0 /\ todo = {}
  /\ buf \in Tids /\ head = 0 /\ pos = 0

-----------------------------------------------------------------------------
(* The target processes and the kernel *)

ThreadStart(t) ==
  /\ t \notin threads
  /\ TidReuse \/ t \notin owned
  /\ threads' = threads \union {t}
  /\ UNCHANGED <<listening, ring, taken, noise, overflowed, control, worker,
                 books, counts>>

\* The event of a thread that is gone never fires again, whoever gets its id.
ThreadExit(t) ==
  /\ t \in threads
  /\ threads' = threads \ {t}
  /\ listening' = listening \ {t}
  /\ UNCHANGED <<ring, taken, noise, overflowed, control, worker, books, counts>>

TakeSample(t) ==
  /\ t \in listening /\ taken < MaxSamples
  /\ taken' = taken + 1
  /\ IF Len(ring[t]) < RingSize
       THEN /\ ring' = [ring EXCEPT ![t] = Append(@, taken')]
            /\ UNCHANGED overflowed
       ELSE /\ overflowed' = overflowed \union {taken'}
            /\ UNCHANGED ring
  /\ UNCHANGED <<threads, listening, noise, control, worker, books, counts>>

OtherRecord(t) ==
  /\ t \in listening /\ noise < MaxNoise /\ Len(ring[t]) < RingSize
  /\ noise' = noise + 1
  /\ ring' = [ring EXCEPT ![t] = Append(@, 0)]
  /\ UNCHANGED <<threads, listening, taken, overflowed, control, worker, books,
                 counts>>

-----------------------------------------------------------------------------
(* The worker thread *)

SamplesIn(records) == ToSet(records) \ {0}

\* unregister_buffer and erase, for the buffers of gone.
Detach(gone) ==
  /\ owned' = owned \ gone
  /\ listening' = listening \ gone
  /\ ring' = [t \in Tids |-> IF t \in gone THEN <<>> ELSE ring[t]]
  /\ discarded' = discarded \union UNION {SamplesIn(ring[t]) : t \in gone}

TargetThreads == {t \in threads : PidOf[t] = target_pid}

\* The buffers refresh() gives up: all of them when the target has changed,
\* else those of threads that are gone.
Stale_NeverRemoved == IF target_pid # current_pid THEN owned ELSE {}
Stale == IF target_pid # current_pid THEN owned ELSE owned \ TargetThreads

Refresh ==
  /\ wpc = "refresh"
  /\ Detach(Stale)
  /\ current_pid' = target_pid
  /\ attach' = TargetThreads \ owned'
  /\ wpc' = "attach"
  /\ rounds' = 0
  /\ UNCHANGED <<threads, taken, noise, overflowed, control, counts, sweep>>

\* init_for_tid fails for a thread that has exited since it was listed.
AttachOne(t) ==
  /\ wpc = "attach" /\ t \in attach
  /\ attach' = attach \ {t}
  /\ \/ /\ t \in threads
        /\ owned' = owned \union {t}
        /\ listening' = listening \union {t}
     \/ /\ t \notin threads \/ MayFail
        /\ UNCHANGED <<owned, listening>>
  /\ UNCHANGED <<threads, ring, taken, noise, overflowed, control, wpc, rounds,
                 sweep, current_pid, discarded, counts>>

AttachDone ==
  /\ wpc = "attach" /\ attach = {}
  /\ wpc' = "loop"
  /\ UNCHANGED <<kernel, control, attach, rounds, sweep, books, counts>>

\* The head of the loop: leave, refresh when 25 ms have passed, which the
\* 10 ms of sleep per round make at most three rounds, or sweep.
MustRefresh_Never == FALSE
MustRefresh == rounds = 3

SeesStop_Never == FALSE
SeesStop == stop_flag

Loop ==
  /\ wpc = "loop"
  /\ IF SeesStop
       THEN wpc' = "done" /\ UNCHANGED <<todo, rounds>>
       ELSE \/ /\ rounds > 0
               /\ wpc' = "refresh"
               /\ UNCHANGED <<todo, rounds>>
            \/ /\ ~MustRefresh
               /\ wpc' = "sweep"
               /\ todo' = owned
               /\ rounds' = IF rounds < 3 THEN rounds + 1 ELSE 3
  /\ UNCHANGED <<kernel, control, attach, buf, head, pos, books, counts>>

\* data_head and data_tail are read once; an empty buffer is skipped.
HeadOf_Capacity(t) == RingSize
HeadOf(t) == Len(ring[t])

OpenMailbox(t) ==
  /\ wpc = "sweep" /\ t \in todo
  /\ todo' = todo \ {t}
  /\ IF ring[t] = <<>>
       THEN UNCHANGED <<wpc, buf, head, pos>>
       ELSE wpc' = "parse" /\ buf' = t /\ head' = HeadOf(t) /\ pos' = 0
  /\ UNCHANGED <<kernel, control, attach, rounds, books, counts>>

\* One record, counted under counts_lock if it is a sample.
Parse ==
  LET s == ring[buf][pos + 1] IN
  /\ wpc = "parse" /\ pos < head
  /\ counts' = IF s = 0 THEN counts ELSE [counts EXCEPT ![s] = @ + 1]
  /\ pos' = pos + 1
  /\ UNCHANGED <<kernel, control, wpc, attach, rounds, todo, buf, head, books>>

\* data_tail = tail
CommittedTail_Head == Len(ring[buf])
CommittedTail_Unmoved == 0
CommittedTail == pos

CloseMailbox ==
  /\ wpc = "parse" /\ pos = head
  /\ ring' = [ring EXCEPT ![buf] = SubSeq(@, CommittedTail + 1, Len(@))]
  /\ wpc' = "sweep"
  /\ head' = 0 /\ pos' = 0
  /\ UNCHANGED <<threads, listening, taken, noise, overflowed, control, attach,
                 rounds, todo, buf, books, counts>>

SweepDone ==
  /\ wpc = "sweep" /\ todo = {}
  /\ wpc' = "loop"
  /\ UNCHANGED <<kernel, control, attach, rounds, sweep, books, counts>>

WorkerStep ==
  \/ Refresh \/ (\E t \in Tids : AttachOne(t)) \/ AttachDone
  \/ Loop
  \/ (\E t \in Tids : OpenMailbox(t)) \/ Parse \/ CloseMailbox \/ SweepDone

Environment ==
  \E t \in Tids : ThreadStart(t) \/ ThreadExit(t) \/ TakeSample(t) \/ OtherRecord(t)

=============================================================================
