--------------------------- MODULE GpuBlocksProofs ---------------------------
(***************************************************************************)
(* What GPU blocks promise for any number of blocks, copies and kernels:   *)
(* every copy goes to one result, and the last reading has every sample.   *)
(***************************************************************************)
EXTENDS GpuBlocks, TLAPS, SequenceTheorems

(* The destructors are run one at a time. *)
OneEnds == \A b, c \in Blocks : Ending(b) /\ Ending(c) => b = c

Listed == g_activity_memcpy \union {g_activity_kernel}

(* A record goes one way: it is recorded, handed over, reported and cleared. *)
OneWay ==
  /\ ToSet(buffered) \subseteq done /\ Listed \subseteq done \union {None}
  /\ ToSet(buffered) \intersect Listed = {}
  /\ \A b \in Blocks :
       /\ reported[b] \subseteq done
       /\ reported[b] \intersect ToSet(buffered) = {}
       /\ phase[b] # "reported" => reported[b] \intersect Listed = {}
       /\ phase[b] \notin {"reported", "closed"} => reported[b] = {}
       /\ \A c \in Blocks : b # c => reported[b] \intersect reported[c] = {}

(* How far the copies due have come. *)
DueOnItsWay ==
  \A b \in Blocks :
    /\ phase[b] \in {"stopping", "stopped"} =>
         due[b] \subseteq ToSet(buffered) \union g_activity_memcpy
    /\ phase[b] \in {"flushed", "disabled", "read"} => due[b] \subseteq g_activity_memcpy
    /\ phase[b] \in {"reported", "closed"} => due[b] \subseteq reported[b]

(* A block without a running sampler's thread has none at all, but between the *)
(* two halves of stop(). *)
Sampled ==
  \A b \in Blocks :
    /\ phase[b] = "none" => thread[b] = "none"
    /\ phase[b] = "open" /\ ~running_[b] => thread[b] = "none"
    /\ phase[b] \in {"stopped", "flushed", "disabled", "read", "reported", "closed"} =>
         thread[b] = "none"
    /\ phase[b] \in {"read", "reported", "closed"} =>
         /\ Len(read_buffer[b]) >= 1
         /\ read_buffer[b][Len(read_buffer[b])] = samples[b]

IInv == TypeOK /\ OneEnds /\ OneWay /\ DueOnItsWay /\ Sampled

-----------------------------------------------------------------------------
(* A buffer's records, and what is left of them. *)

LEMMA RecordsOf ==
  ASSUME NEW s \in Seq(Records)
  PROVE  /\ ToSet(s) \subseteq Records
         /\ \A i \in DOMAIN s : s[i] \in ToSet(s)
         /\ \A r \in Records : Append(s, r) \in Seq(Records)
         /\ \A r \in Records : ToSet(Append(s, r)) = ToSet(s) \union {r}
<1>1. \A i \in DOMAIN s : s[i] \in Records
  BY ElementOfSeq, LenProperties
<1>2. ASSUME NEW r \in Records
      PROVE  ToSet(Append(s, r)) = ToSet(s) \union {r}
  BY AppendProperties, LenProperties DEF ToSet
<1>3. QED
  BY <1>1, <1>2, AppendProperties DEF ToSet

LEMMA NoRecords == <<>> \in Seq(Records) /\ ToSet(<<>>) = {}
BY DEF ToSet

(* A buffer handed over becomes part of the lists. *)
LEMMA HandedOver ==
  ASSUME TypeOK, BufferCompleted
  PROVE  /\ buffered' = <<>> /\ ToSet(buffered') = {}
         /\ g_activity_memcpy' = g_activity_memcpy \union (ToSet(buffered) \intersect Copies)
         /\ g_activity_kernel' \in Kernels \union {None}
         /\ g_activity_kernel' \in {g_activity_kernel} \union ToSet(buffered)
<1>1. PICK r \in Kernels \union {None} :
        IsLastKernel(buffered, r) /\ g_activity_kernel' = r
  BY DEF BufferCompleted
<1>2. r \in {g_activity_kernel} \union ToSet(buffered)
  BY <1>1, RecordsOf DEF IsLastKernel, TypeOK
<1>3. QED
  BY <1>1, <1>2, NoRecords DEF BufferCompleted, NewCopies

LEMMA ReadingStored ==
  ASSUME NEW s \in Seq(Nat), NEW n \in Nat
  PROVE  /\ Append(s, n) \in Seq(Nat)
         /\ Len(Append(s, n)) >= 1
         /\ Append(s, n)[Len(Append(s, n))] = n
BY AppendProperties, LenProperties

-----------------------------------------------------------------------------
(* The invariant. *)

LEMMA Initially == Init => IInv
<1>1. Init => TypeOK
  <2>1. <<>> \in Seq(Nat)
    OBVIOUS
  <2>2. FALSE \in BOOLEAN /\ 0 \in Nat /\ "none" \in Phases /\ "none" \in Threads
    BY DEF Phases, Threads
  <2>3. QED
    BY <2>1, <2>2, NoRecords DEF Init, TypeOK
<1>2. Init => OneEnds /\ Sampled /\ DueOnItsWay
  BY DEF Init, OneEnds, Ending, Sampled, DueOnItsWay
<1>3. Init => OneWay
  BY NoRecords DEF Init, OneWay, Listed
<1>4. QED
  BY <1>1, <1>2, <1>3 DEF IInv

(* Actions of which no part of the invariant but the first sees anything. *)
LEMMA RecordStep ==
  ASSUME IInv, NEW r \in Records, Record(r)
  PROVE  IInv'
<1> USE GpuAssumption DEF IInv
<1>1. /\ buffered' \in Seq(Records)
      /\ ToSet(buffered) \subseteq ToSet(buffered')
      /\ ToSet(buffered') \subseteq ToSet(buffered) \union {r}
  BY RecordsOf DEF Record, TypeOK
<1>2. TypeOK'
  BY <1>1 DEF Record, TypeOK, globals, sampler
<1>3. OneEnds'
  BY DEF Record, OneEnds, Ending
<1>4. None # r /\ r \notin done
  BY DEF Record, Records
<1>5. OneWay'
  BY <1>1, <1>4 DEF Record, OneWay, Listed, globals
<1>6. DueOnItsWay'
  BY <1>1 DEF Record, DueOnItsWay, globals
<1>7. Sampled'
  BY DEF Record, Sampled, sampler
<1>8. QED
  BY <1>2, <1>3, <1>5, <1>6, <1>7

(* A buffer handed over, by CUPTI's thread or by a flush. *)
LEMMA Delivered ==
  ASSUME IInv, BufferCompleted, UNCHANGED <<recording, done, reported, due>>
  PROVE  /\ ToSet(buffered') = {}
         /\ Listed' \subseteq Listed \union ToSet(buffered)
         /\ ToSet(buffered) \intersect Copies \subseteq g_activity_memcpy'
         /\ g_activity_memcpy \subseteq g_activity_memcpy'
         /\ buffered' \in Seq(Records)
         /\ g_activity_memcpy' \subseteq Copies
         /\ g_activity_kernel' \in Kernels \union {None}
<1> USE DEF IInv
<1>1. QED
  BY HandedOver, NoRecords DEF Listed, TypeOK

LEMMA DeliverStep ==
  ASSUME IInv, Deliver
  PROVE  IInv'
<1>1. /\ BufferCompleted
      /\ UNCHANGED <<recording, done, reported, due>>
      /\ UNCHANGED <<phase, running_, thread, samples, read_buffer>>
  BY DEF Deliver, sampler
<1>2. TypeOK'
  BY <1>1, Delivered DEF TypeOK, IInv
<1>3. OneEnds' /\ Sampled'
  BY <1>1 DEF OneEnds, Ending, Sampled, IInv
<1>4. OneWay'
  BY <1>1, Delivered DEF OneWay, IInv
<1>5. DueOnItsWay'
  BY <1>1, Delivered DEF DueOnItsWay, IInv, TypeOK
<1>6. QED
  BY <1>2, <1>3, <1>4, <1>5 DEF IInv

LEMMA FlushStep ==
  ASSUME IInv, NEW b \in Blocks, Flush(b)
  PROVE  IInv'
<1>1. /\ BufferCompleted
      /\ UNCHANGED <<recording, done, reported, due>>
      /\ UNCHANGED <<running_, thread, samples, read_buffer>>
      /\ phase[b] = "stopped" /\ phase' = [phase EXCEPT ![b] = "flushed"]
  BY DEF Flush, Goes, sampler
<1>2. TypeOK'
  BY <1>1, Delivered DEF TypeOK, IInv, Phases
<1>3. OneEnds' /\ Sampled'
  BY <1>1 DEF OneEnds, Ending, Sampled, IInv, TypeOK
<1>4. OneWay'
  BY <1>1, Delivered DEF OneWay, IInv, TypeOK
<1>5. DueOnItsWay'
  BY <1>1, Delivered DEF DueOnItsWay, IInv, TypeOK
<1>6. QED
  BY <1>2, <1>3, <1>4, <1>5 DEF IInv

LEMMA SampleStep ==
  ASSUME IInv, NEW b \in Blocks, sample_loop_(b)
  PROVE  IInv'
<1> USE DEF IInv
<1>1. /\ UNCHANGED <<cupti, globals, phase, running_, read_buffer, reported, due>>
      /\ thread[b] \in {"alloc", "test", "slept"}
      /\ \E next \in {"test", "slept", "ended"} : thread' = [thread EXCEPT ![b] = next]
      /\ \E n \in Nat : samples' = [samples EXCEPT ![b] = n]
  BY GpuAssumption DEF sample_loop_, TypeOK
<1>2. TypeOK'
  BY <1>1 DEF TypeOK, Threads, cupti, globals
<1>3. OneEnds' /\ OneWay' /\ DueOnItsWay'
  BY <1>1 DEF OneEnds, Ending, OneWay, Listed, DueOnItsWay, cupti, globals
<1>4. Sampled'
  BY <1>1 DEF Sampled, TypeOK
<1>5. QED
  BY <1>2, <1>3, <1>4

LEMMA ConstructStep ==
  ASSUME IInv, NEW b \in Blocks, Construct(b)
  PROVE  IInv'
<1> USE DEF IInv
<1>1. /\ UNCHANGED <<buffered, done, g_activity_memcpy, g_activity_kernel,
                     samples, read_buffer, reported, due>>
      /\ recording' = TRUE
      /\ phase[b] = "none" /\ phase' = [phase EXCEPT ![b] = "open"]
      /\ \E supported \in BOOLEAN :
           /\ running_' = [running_ EXCEPT ![b] = supported]
           /\ thread' = [thread EXCEPT ![b] = IF supported THEN "alloc" ELSE "none"]
  BY DEF Construct, StartSampler, globals
<1>2. TypeOK'
  BY <1>1 DEF TypeOK, Phases, Threads
<1>3. OneEnds' /\ OneWay' /\ DueOnItsWay'
  BY <1>1 DEF OneEnds, Ending, OneWay, Listed, DueOnItsWay, TypeOK
<1>4. Sampled'
  BY <1>1 DEF Sampled, TypeOK
<1>5. QED
  BY <1>2, <1>3, <1>4

LEMMA ReadStep ==
  ASSUME IInv, NEW b \in Blocks, read_and_store(b)
  PROVE  IInv'
<1> USE DEF IInv
<1>1. /\ UNCHANGED <<cupti, globals, phase, sampler, reported, due>>
      /\ phase[b] = "open"
      /\ read_buffer' = [read_buffer EXCEPT ![b] = Append(@, samples[b])]
  BY DEF read_and_store, Store
<1>2. TypeOK'
  BY <1>1, ReadingStored DEF TypeOK, cupti, globals, sampler
<1>3. OneEnds' /\ OneWay' /\ DueOnItsWay'
  BY <1>1 DEF OneEnds, Ending, OneWay, Listed, DueOnItsWay, cupti, globals
<1>4. Sampled'
  BY <1>1 DEF Sampled, TypeOK, sampler
<1>5. QED
  BY <1>2, <1>3, <1>4

LEMMA DestroyStep ==
  ASSUME IInv, NEW b \in Blocks, Destroy(b)
  PROVE  IInv'
<1> USE DEF IInv
<1>1. /\ UNCHANGED <<recording, buffered, done, g_activity_memcpy, g_activity_kernel,
                     thread, samples, read_buffer, reported>>
      /\ Free /\ phase[b] = "open"
      /\ phase' = [phase EXCEPT ![b] = IF running_[b] THEN "stopping" ELSE "stopped"]
      /\ running_' = [running_ EXCEPT ![b] = FALSE]
      /\ due' = [due EXCEPT ![b] =
                   (ToSet(buffered) \union g_activity_memcpy) \intersect Copies]
  BY DEF Destroy, Goes, RunningAfterStop, cupti, globals
<1>2. TypeOK'
  BY <1>1 DEF TypeOK, Phases
<1>3. OneEnds'
  BY <1>1 DEF OneEnds, Free, Ending, TypeOK
<1>4. OneWay' /\ DueOnItsWay'
  BY <1>1 DEF OneWay, Listed, DueOnItsWay, TypeOK
<1>5. Sampled'
  BY <1>1 DEF Sampled, TypeOK
<1>6. QED
  BY <1>2, <1>3, <1>4, <1>5

LEMMA StopJoinStep ==
  ASSUME IInv, NEW b \in Blocks, StopJoin(b)
  PROVE  IInv'
<1> USE DEF IInv
<1>1. /\ UNCHANGED <<cupti, globals, running_, samples, read_buffer, reported, due>>
      /\ phase[b] = "stopping" /\ phase' = [phase EXCEPT ![b] = "stopped"]
      /\ thread' = [thread EXCEPT ![b] = "none"]
  BY DEF StopJoin, Goes, Joinable, TypeOK
<1>2. TypeOK'
  BY <1>1 DEF TypeOK, Phases, Threads, cupti, globals
<1>3. OneEnds' /\ OneWay' /\ DueOnItsWay'
  BY <1>1 DEF OneEnds, Ending, OneWay, Listed, DueOnItsWay, TypeOK, cupti, globals
<1>4. Sampled'
  BY <1>1 DEF Sampled, TypeOK
<1>5. QED
  BY <1>2, <1>3, <1>4

LEMMA DisableStep ==
  ASSUME IInv, NEW b \in Blocks, Disable(b)
  PROVE  IInv'
<1> USE DEF IInv
<1>1. /\ UNCHANGED <<buffered, done, globals, sampler, read_buffer, reported, due>>
      /\ recording' = FALSE
      /\ phase[b] = "flushed" /\ phase' = [phase EXCEPT ![b] = "disabled"]
  BY DEF Disable, Goes
<1>2. TypeOK'
  BY <1>1 DEF TypeOK, Phases, globals, sampler
<1>3. OneEnds' /\ OneWay' /\ DueOnItsWay'
  BY <1>1 DEF OneEnds, Ending, OneWay, Listed, DueOnItsWay, TypeOK, globals
<1>4. Sampled'
  BY <1>1 DEF Sampled, TypeOK, sampler
<1>5. QED
  BY <1>2, <1>3, <1>4

LEMMA AggregateStep ==
  ASSUME IInv, NEW b \in Blocks, Aggregate(b)
  PROVE  IInv'
<1> USE DEF IInv
<1>1. /\ UNCHANGED <<cupti, globals, sampler, reported, due>>
      /\ phase[b] = "disabled" /\ phase' = [phase EXCEPT ![b] = "read"]
      /\ read_buffer' = [read_buffer EXCEPT ![b] = Append(@, samples[b])]
  BY DEF Aggregate, Goes, Store
<1>2. TypeOK'
  BY <1>1, ReadingStored DEF TypeOK, Phases, cupti, globals, sampler
<1>3. OneEnds' /\ OneWay' /\ DueOnItsWay'
  BY <1>1 DEF OneEnds, Ending, OneWay, Listed, DueOnItsWay, TypeOK, cupti, globals
<1>4. Sampled'
  BY <1>1, ReadingStored DEF Sampled, TypeOK, sampler
<1>5. QED
  BY <1>2, <1>3, <1>4

LEMMA ReportStep ==
  ASSUME IInv, NEW b \in Blocks, Report(b)
  PROVE  IInv'
<1> USE DEF IInv
<1>1. /\ UNCHANGED <<cupti, globals, sampler, read_buffer, due>>
      /\ phase[b] = "read" /\ phase' = [phase EXCEPT ![b] = "reported"]
      /\ reported' = [reported EXCEPT ![b] =
                        g_activity_memcpy \union ({g_activity_kernel} \ {None})]
  BY DEF Report, Goes
<1>2. TypeOK'
  BY <1>1 DEF TypeOK, Phases, Records, cupti, globals, sampler
<1>3. OneEnds' /\ DueOnItsWay'
  BY <1>1 DEF OneEnds, Ending, DueOnItsWay, TypeOK, cupti, globals
<1>4. \A c \in Blocks : c # b => phase[c] # "reported"
  BY <1>1 DEF OneEnds, Ending
<1>5. OneWay'
  <2>1. UNCHANGED <<buffered, done, g_activity_memcpy, g_activity_kernel>>
    BY <1>1 DEF cupti, globals
  <2>2. /\ reported'[b] \subseteq Listed \intersect done
        /\ \A c \in Blocks : c # b => reported'[c] = reported[c] /\ phase'[c] = phase[c]
        /\ phase'[b] = "reported"
    <3>1. g_activity_memcpy \subseteq done
      BY GpuAssumption DEF OneWay, Listed, TypeOK, Records
    <3>2. {g_activity_kernel} \ {None} \subseteq done
      BY DEF OneWay, Listed
    <3>3. QED
      BY <1>1, <3>1, <3>2 DEF Listed, TypeOK
  <2>3. \A c \in Blocks : phase[c] # "reported"
    BY <1>1, <1>4
  <2>4. ASSUME NEW c \in Blocks, c # b
        PROVE  reported'[c] \intersect reported'[b] = {}
    BY <2>2, <2>3, <2>4 DEF OneWay
  <2>5. Listed' = Listed
    BY <2>1 DEF Listed
  <2>6. QED
    BY <2>1, <2>2, <2>3, <2>4, <2>5 DEF OneWay
<1>6. Sampled'
  BY <1>1 DEF Sampled, TypeOK, sampler
<1>7. QED
  BY <1>2, <1>3, <1>5, <1>6

LEMMA ClearStep ==
  ASSUME IInv, NEW b \in Blocks, Clear(b)
  PROVE  IInv'
<1> USE DEF IInv
<1>1. /\ UNCHANGED <<cupti, sampler, read_buffer, reported, due>>
      /\ g_activity_memcpy' = {} /\ g_activity_kernel' = None
      /\ phase[b] = "reported" /\ phase' = [phase EXCEPT ![b] = "closed"]
  BY DEF Clear, Goes, CopiesAfterReport
<1>2. TypeOK'
  BY <1>1 DEF TypeOK, Phases, cupti, sampler
<1>3. \A c \in Blocks : c # b => ~Ending(c)
  BY <1>1 DEF OneEnds, Ending
<1>4. OneEnds' /\ DueOnItsWay'
  BY <1>1, <1>3 DEF OneEnds, Ending, DueOnItsWay, TypeOK, cupti
<1>5. None \notin done
  BY GpuAssumption DEF TypeOK
<1>6. OneWay'
  BY <1>1, <1>5 DEF OneWay, Listed, TypeOK, cupti
<1>7. Sampled'
  BY <1>1 DEF Sampled, TypeOK, sampler
<1>8. QED
  BY <1>2, <1>4, <1>6, <1>7

LEMMA Preserved == IInv /\ [Next]_vars => IInv'
<1>1. CASE UNCHANGED vars
  BY <1>1 DEF vars, cupti, globals, sampler, IInv, TypeOK, OneEnds, Ending, OneWay,
              Listed, DueOnItsWay, Sampled
<1>2. SUFFICES ASSUME IInv, Next PROVE IInv'
  BY <1>1
<1>3. CASE \E r \in Records : Record(r)
  BY <1>2, <1>3, RecordStep
<1>4. CASE Deliver
  BY <1>2, <1>4, DeliverStep
<1>5. ASSUME NEW b \in Blocks,
             \/ Construct(b) \/ read_and_store(b) \/ Destroy(b)
             \/ StopJoin(b) \/ Flush(b) \/ Disable(b) \/ Aggregate(b) \/ Report(b) \/ Clear(b)
             \/ sample_loop_(b)
      PROVE  IInv'
  BY <1>2, <1>5, ConstructStep, ReadStep, DestroyStep, StopJoinStep, FlushStep,
     DisableStep, AggregateStep, ReportStep, ClearStep, SampleStep
<1>6. QED
  BY <1>2, <1>3, <1>4, <1>5 DEF Next

LEMMA Invariance == Spec => []IInv
BY Initially, Preserved, PTL DEF Spec

-----------------------------------------------------------------------------
(* What is promised. *)

(* Every variable keeps its type in every run. *)
THEOREM TypeCorrect == Spec => []TypeOK
<1>1. IInv => TypeOK
  BY DEF IInv
<1>2. QED
  BY <1>1, Invariance, PTL

(* A record is in at most one block's result, and a copy that had been recorded *)
(* when a destructor began is in the result of its block: the flush comes       *)
(* before the report, and what is cleared has been reported or came later.      *)
THEOREM CopiesReportedOnce == Spec => []ReportedOnce
<1>1. IInv => ReportedOnce
  BY DEF IInv, OneWay, DueOnItsWay, ReportedOnce
<1>2. QED
  BY <1>1, Invariance, PTL

(* The last reading of a block comes after its sampler's last sample, and no *)
(* sampler's thread is left when the block has ended.                        *)
THEOREM ReadingsComplete == Spec => []LastReadingComplete
<1>1. IInv => LastReadingComplete
  BY DEF IInv, Sampled, LastReadingComplete, Last
<1>2. QED
  BY <1>1, Invariance, PTL
=============================================================================
