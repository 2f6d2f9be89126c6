---------------------------- MODULE CallstackProofs ----------------------------
(***************************************************************************)
(* What start() and stop() of the postman guarantee, and that every sample *)
(* is accounted for and reported once, for any number of profilers,        *)
(* processes, threads and samples.                                         *)
(***************************************************************************)
EXTENDS CallstackProfiler, FiniteSetTheorems, SequenceTheorems, TLAPS

\* Between calls, and at the head of each call, a running postman has a worker
\* that nobody told to stop, and a stopped one has none.
Settled == IF running THEN wpc \notin {"none", "done"} /\ ~stop_flag ELSE wpc = "none"

\* WorkerServes for the places inside start() and stop().  The places "clear"
\* and "spawn" are reached only by the caller that set `running` itself; while
\* stop() waits the worker exists and its flag is up.
WorkerInv ==
  /\ ~terminated
  /\ upc \in UserPlaces
  /\ upc \in {"idle", "cas", "stop"} => Settled
  /\ upc \in {"clear", "spawn"} => running /\ wpc = "none"
  /\ upc = "spawn" => ~stop_flag
  /\ upc = "join" => running /\ stop_flag /\ wpc # "none"

(* A worker's own steps begin at one of its places, keep the flags, and end it
   only when it has seen the stop flag. *)
LEMMA WorkerMoves ==
  ASSUME WorkerStep
  PROVE  /\ wpc # "none" /\ wpc' # "none" /\ (wpc' = "done" => stop_flag \/ wpc = "done")
         /\ (running' <=> running) /\ (stop_flag' <=> stop_flag)
<1>1. CASE Refresh
  BY <1>1 DEF Refresh, control
<1>2. ASSUME NEW t \in Tids, AttachOne(t) \/ OpenMailbox(t)
      PROVE  /\ wpc # "none" /\ wpc' # "none" /\ (wpc' = "done" => stop_flag \/ wpc = "done")
             /\ (running' <=> running) /\ (stop_flag' <=> stop_flag)
  BY <1>2 DEF AttachOne, OpenMailbox, control
<1>3. CASE AttachDone \/ SweepDone
  BY <1>3 DEF AttachDone, SweepDone, control
<1>4. CASE Loop
  BY <1>4 DEF Loop, SeesStop, control
<1>5. CASE Parse \/ CloseMailbox
  BY <1>5 DEF Parse, CloseMailbox, control
<1>6. QED
  BY <1>1, <1>2, <1>3, <1>4, <1>5 DEF WorkerStep

(* The target processes and the kernel touch neither flags nor worker. *)
LEMMA WorldLeavesWorker ==
  ASSUME Environment
  PROVE  wpc' = wpc /\ (running' <=> running) /\ (stop_flag' <=> stop_flag)
BY DEF Environment, ThreadStart, ThreadExit, TakeSample, OtherRecord, worker, control

(* A profiler's calls reach the postman one at a time. *)
LEMMA CallKeepsWorker ==
  ASSUME WorkerInv, NEW p \in Profilers, UserCalls(p)
  PROVE  WorkerInv'
<1>1. CASE Construct(p) \/ Enable(p)
  BY <1>1 DEF Construct, Enable, Acquire, Idle, WorkerInv, Settled, UserPlaces, worker
<1>2. CASE Read(p) \/ Reset(p)
  BY <1>2 DEF Read, Reset, Idle, WorkerInv, Settled, UserPlaces, worker, control
<1>3. CASE Disable(p) \/ Destruct(p)
  BY <1>3 DEF Disable, Destruct, Idle, WorkerInv, Settled, UserPlaces, worker, control
<1>4. QED
  BY <1>1, <1>2, <1>3 DEF UserCalls

(* Inside start() and stop(). *)
LEMMA ProceedKeepsWorker ==
  ASSUME WorkerInv, UserProceeds
  PROVE  WorkerInv'
<1> USE DEF WorkerInv, Settled, UserPlaces
<1>1. CASE StartCas
  BY <1>1 DEF StartCas, worker
<1>2. CASE StartClear
  BY <1>2 DEF StartClear, ClearStopFlag, worker
<1>3. CASE StartSpawn
  BY <1>3 DEF StartSpawn, control
<1>4. CASE Stop
  BY <1>4 DEF Stop, worker
<1>5. CASE StopJoin
  BY <1>5 DEF StopJoin, JoinsWorker
<1>6. QED
  BY <1>1, <1>2, <1>3, <1>4, <1>5 DEF UserProceeds

(* No step of user, worker, kernel or target breaks the invariant. *)
LEMMA WorkerInvStep == WorkerInv /\ [Next]_vars => WorkerInv'
<1> SUFFICES ASSUME WorkerInv, [Next]_vars PROVE WorkerInv'
  OBVIOUS
<1>1. ASSUME NEW p \in Profilers, UserCalls(p) PROVE WorkerInv'
  BY <1>1, CallKeepsWorker
<1>2. CASE UserProceeds
  BY <1>2, ProceedKeepsWorker
<1>3. CASE Work
  <2>1. /\ wpc # "none" /\ wpc' # "none" /\ (wpc' = "done" => stop_flag \/ wpc = "done")
        /\ (running' <=> running) /\ (stop_flag' <=> stop_flag)
    BY <1>3, WorkerMoves DEF Work
  <2>2. upc' = upc /\ (terminated' <=> terminated)
    BY <1>3 DEF Work
  <2>3. QED
    BY <2>1, <2>2 DEF WorkerInv, Settled
<1>4. CASE World
  <2>1. wpc' = wpc /\ (running' <=> running) /\ (stop_flag' <=> stop_flag)
    BY <1>4, WorldLeavesWorker DEF World
  <2>2. upc' = upc /\ (terminated' <=> terminated)
    BY <1>4 DEF World
  <2>3. QED
    BY <2>1, <2>2 DEF WorkerInv, Settled
<1>5. CASE UNCHANGED vars
  BY <1>5 DEF vars, postman, worker, control, WorkerInv, Settled
<1>6. QED
  BY <1>1, <1>2, <1>3, <1>4, <1>5 DEF Next

(* Before the first profiler there is no worker. *)
LEMMA WorkerInvariant == Spec => []WorkerInv
<1>1. Init => WorkerInv
  BY DEF Init, PostmanInit, WorkerInv, Settled, UserPlaces
<1>2. QED
  BY <1>1, WorkerInvStep, PTL DEF Spec

(* start() after stop() is as good as the first start(): whenever no call is
   under way, `running` says truly whether a worker is at work (postman.hh). *)
THEOREM WorkerAlwaysServes == Spec => []WorkerServes
<1>1. WorkerInv => WorkerServes
  BY DEF WorkerInv, Settled, WorkerServes
<1>2. QED
  BY <1>1, WorkerInvariant, PTL

(* No sequence of constructors, enables, disables and destructors assigns to a
   thread object that is still joinable. *)
THEOREM NeverTerminates == Spec => []NoTermination
<1>1. WorkerInv => NoTermination
  BY DEF WorkerInv, NoTermination
<1>2. QED
  BY <1>1, WorkerInvariant, PTL

-----------------------------------------------------------------------------
(* Rings *)

(* A record of a ring is a sample or 0. *)
LEMMA RecordIn ==
  ASSUME NEW s \in Seq(0 .. MaxSamples), NEW i \in 1 .. Len(s)
  PROVE  s[i] \in 0 .. MaxSamples
BY ElementOfSeq

(* What is left of a ring when its first k records have been taken off. *)
LEMMA RestOfRing ==
  ASSUME NEW s \in Seq(0 .. MaxSamples), NEW k \in Nat, k <= Len(s)
  PROVE  /\ SubSeq(s, k + 1, Len(s)) \in Seq(0 .. MaxSamples)
         /\ Len(SubSeq(s, k + 1, Len(s))) = Len(s) - k
         /\ Len(SubSeq(s, k + 1, Len(s))) <= Len(s)
         /\ \A i \in 1 .. Len(s) - k : SubSeq(s, k + 1, Len(s))[i] = s[k + i]
<1>1. Len(s) \in Nat /\ k + 1 \in Int
  OBVIOUS
<1>2. \A i \in k + 1 .. Len(s) : s[i] \in 0 .. MaxSamples
  BY <1>1, RecordIn
<1>3. /\ SubSeq(s, k + 1, Len(s)) \in Seq(0 .. MaxSamples)
      /\ Len(SubSeq(s, k + 1, Len(s))) = IF k + 1 <= Len(s) THEN Len(s) - (k + 1) + 1 ELSE 0
      /\ \A i \in 1 .. Len(s) - (k + 1) + 1 : SubSeq(s, k + 1, Len(s))[i] = s[(k + 1) + i - 1]
  BY <1>1, <1>2, SubSeqProperties
<1> DEFINE rest == SubSeq(s, k + 1, Len(s))
<1> HIDE DEF rest
<1>4. Len(rest) = Len(s) - k
  BY <1>1, <1>3 DEF rest
<1>5. \A i \in 1 .. Len(s) - k : rest[i] = s[k + i]
  BY <1>1, <1>3 DEF rest
<1>6. QED
  BY <1>1, <1>3, <1>4, <1>5 DEF rest

-----------------------------------------------------------------------------
(* Types *)

(* TypeOK by the parts that different actions change.  A ring's positions are
   numbers, and no buffer waits to be visited between sweeps. *)
ThreadTypes ==
  /\ threads \subseteq Tids /\ listening \subseteq threads \intersect owned
  /\ owned \subseteq Tids /\ attach \subseteq Tids /\ todo \subseteq owned

RingTypes ==
  /\ ring \in [Tids -> Seq(0 .. MaxSamples)]
  /\ \A t \in Tids : Len(ring[t]) <= RingSize
  /\ taken \in 0 .. MaxSamples /\ noise \in 0 .. MaxNoise

ControlTypes ==
  /\ running \in BOOLEAN /\ stop_flag \in BOOLEAN /\ terminated \in BOOLEAN
  /\ target_pid \in Pids /\ current_pid \in Pids \union {NoPid}

ReaderTypes ==
  /\ wpc \in WorkerPlaces /\ rounds \in 0 .. 3 /\ buf \in Tids
  /\ head \in Nat /\ pos \in Nat
  /\ wpc = "parse" => pos <= head /\ head <= Len(ring[buf])
  /\ wpc \notin {"sweep", "parse"} => todo = {}

UserTypes ==
  /\ counts \in [Samples -> Nat] /\ upc \in UserPlaces
  /\ open \subseteq Profilers /\ is_enabled \in [Profilers -> BOOLEAN]
  /\ stored \in [Profilers -> [Samples -> Nat]]

Types == ThreadTypes /\ RingTypes /\ ControlTypes /\ ReaderTypes /\ UserTypes

(* These are the types the runs check. *)
LEMMA TypesSuffice == Types => TypeOK
<1> SUFFICES ASSUME Types PROVE TypeOK
  OBVIOUS
<1>1. ThreadTypes /\ RingTypes /\ ControlTypes /\ ReaderTypes /\ UserTypes
  BY DEF Types
<1>2. \A t \in Tids : ring[t] \in Seq(0 .. MaxSamples)
  BY <1>1 DEF RingTypes
<1>3. running \in BOOLEAN /\ stop_flag \in BOOLEAN /\ terminated \in BOOLEAN
  BY <1>1 DEF ControlTypes
<1> HIDE DEF Types
<1>4. /\ threads \subseteq Tids /\ listening \subseteq threads \intersect owned
      /\ owned \subseteq Tids /\ attach \subseteq Tids /\ todo \subseteq owned
  BY <1>1 DEF ThreadTypes
<1>5. /\ \A t \in Tids : ring[t] \in Seq(0 .. MaxSamples) /\ Len(ring[t]) <= RingSize
      /\ taken \in 0 .. MaxSamples /\ noise \in 0 .. MaxNoise
  BY <1>1, <1>2 DEF RingTypes
<1>6. target_pid \in Pids /\ current_pid \in Pids \union {NoPid}
  BY <1>1 DEF ControlTypes
<1>7. /\ wpc \in WorkerPlaces /\ rounds \in 0 .. 3 /\ buf \in Tids
      /\ wpc = "parse" => pos <= head /\ head <= Len(ring[buf])
  BY <1>1 DEF ReaderTypes
<1>8. /\ counts \in [Samples -> Nat] /\ upc \in UserPlaces
      /\ open \subseteq Profilers /\ is_enabled \in [Profilers -> BOOLEAN]
      /\ stored \in [Profilers -> [Samples -> Nat]]
  BY <1>1 DEF UserTypes
<1>9. QED
  BY <1>3, <1>4, <1>5, <1>6, <1>7, <1>8, Zenon DEF TypeOK

(* The target's threads and the kernel, which writes at a ring's end. *)
LEMMA WorldTypes ==
  ASSUME Types, World
  PROVE  Types'
<1> USE PostmanAssumption DEF PostmanAssumption
<1>1. PICK t \in Tids : ThreadStart(t) \/ ThreadExit(t) \/ TakeSample(t) \/ OtherRecord(t)
  BY DEF World, Environment
<1>2. ThreadTypes'
  BY <1>1 DEF Types, ThreadTypes, ThreadStart, ThreadExit, TakeSample, OtherRecord,
              worker, sweep, books
<1>3. RingTypes' /\ Len(ring[buf]) <= Len(ring'[buf])
  <2>1. RingTypes /\ buf \in Tids
    BY DEF Types, ReaderTypes
  <2>2. CASE ThreadStart(t) \/ ThreadExit(t)
    BY <2>1, <2>2 DEF RingTypes, ThreadStart, ThreadExit
  <2>3. ASSUME NEW r \in 0 .. MaxSamples, Len(ring[t]) < RingSize,
               ring' = [ring EXCEPT ![t] = Append(@, r)]
        PROVE  /\ ring' \in [Tids -> Seq(0 .. MaxSamples)]
               /\ \A u \in Tids : Len(ring'[u]) <= RingSize
               /\ Len(ring[buf]) <= Len(ring'[buf])
    <3>1. \A u \in Tids : ring[u] \in Seq(0 .. MaxSamples) /\ Len(ring[u]) \in Nat
      BY <2>1 DEF RingTypes
    <3>2. /\ Append(ring[t], r) \in Seq(0 .. MaxSamples)
          /\ Len(Append(ring[t], r)) = Len(ring[t]) + 1
      BY <2>3, <3>1
    <3>3. \A u \in Tids : ring'[u] = IF u = t THEN Append(ring[t], r) ELSE ring[u]
      BY <2>1, <2>3 DEF RingTypes
    <3>4. ring' \in [Tids -> Seq(0 .. MaxSamples)]
      BY <2>1, <2>3, <3>2 DEF RingTypes
    <3>5. QED
      BY <2>1, <2>3, <3>1, <3>2, <3>3, <3>4 DEF RingTypes
  <2>4. CASE TakeSample(t)
    <3>1. taken + 1 \in 0 .. MaxSamples
      BY <2>1, <2>4 DEF TakeSample, RingTypes
    <3>2. CASE Len(ring[t]) < RingSize
      BY <2>1, <2>3, <2>4, <3>1, <3>2 DEF TakeSample, RingTypes
    <3>3. CASE ~(Len(ring[t]) < RingSize)
      BY <2>1, <2>4, <3>1, <3>3 DEF TakeSample, RingTypes
    <3>4. QED
      BY <3>2, <3>3
  <2>5. CASE OtherRecord(t)
    <3>1. noise + 1 \in 0 .. MaxNoise
      BY <2>1, <2>5 DEF OtherRecord, RingTypes
    <3>2. 0 \in 0 .. MaxSamples
      OBVIOUS
    <3>3. QED
      BY <2>1, <2>3, <2>5, <3>1, <3>2 DEF OtherRecord, RingTypes
  <2>6. QED
    BY <1>1, <2>2, <2>4, <2>5
<1>4. ControlTypes'
  <2>1. UNCHANGED <<running, stop_flag, target_pid, terminated, current_pid>>
    BY <1>1 DEF World, ThreadStart, ThreadExit, TakeSample, OtherRecord, control, books
  <2>2. QED
    BY <2>1 DEF Types, ControlTypes
<1>5. UNCHANGED <<wpc, rounds, buf, head, pos, todo>>
  BY <1>1 DEF ThreadStart, ThreadExit, TakeSample, OtherRecord, worker, sweep
<1>6. ReaderTypes'
  <2>1. ReaderTypes /\ RingTypes
    BY DEF Types
  <2>2. Len(ring[buf]) \in Nat /\ Len(ring'[buf]) \in Nat
    BY <1>3, <2>1, <1>5 DEF ReaderTypes, RingTypes
  <2>3. QED
    BY <2>1, <2>2, <1>3, <1>5 DEF ReaderTypes
<1>7. UserTypes'
  <2>1. UNCHANGED <<counts, upc, open, is_enabled, stored>>
    BY <1>1 DEF World, ThreadStart, ThreadExit, TakeSample, OtherRecord, profilers
  <2>2. QED
    BY <2>1 DEF Types, UserTypes
<1>8. QED
  BY <1>2, <1>3, <1>4, <1>6, <1>7 DEF Types

(* refresh() empties the rings it gives up. *)
LEMMA RefreshTypes ==
  ASSUME Types, Refresh, UNCHANGED <<profilers, upc, terminated>>
  PROVE  Types'
<1>1. ThreadTypes'
  <2>1. ThreadTypes /\ todo = {}
    BY DEF Types, ReaderTypes, Refresh
  <2>2. QED
    BY <2>1 DEF Refresh, Detach, ThreadTypes, TargetThreads, sweep
<1>2. RingTypes'
  <2>1. RingTypes
    BY DEF Types
  <2>2. ring' = [t \in Tids |-> IF t \in Stale THEN <<>> ELSE ring[t]]
    BY DEF Refresh, Detach
  <2>3. \A t \in Tids : /\ ring'[t] \in Seq(0 .. MaxSamples)
                        /\ Len(ring'[t]) <= RingSize
    <3>1. /\ <<>> \in Seq(0 .. MaxSamples) /\ Len(<<>>) <= RingSize
      BY PostmanAssumption DEF PostmanAssumption
    <3>2. QED
      BY <2>1, <2>2, <3>1 DEF RingTypes
  <2>4. ring' \in [Tids -> Seq(0 .. MaxSamples)]
    BY <2>2, <2>3
  <2>5. QED
    BY <2>1, <2>3, <2>4 DEF RingTypes, Refresh
<1>3. ControlTypes'
  <2>1. UNCHANGED <<running, stop_flag, target_pid, terminated>> /\ current_pid' = target_pid
    BY DEF Refresh, control
  <2>2. QED
    BY <2>1 DEF Types, ControlTypes
<1>4. ReaderTypes'
  BY DEF Types, ReaderTypes, Refresh, sweep, WorkerPlaces
<1>5. UserTypes'
  BY DEF Types, UserTypes, Refresh, profilers
<1>6. QED
  BY <1>1, <1>2, <1>3, <1>4, <1>5 DEF Types

(* The worker's other steps. *)
LEMMA WorkTypes ==
  ASSUME Types, Work
  PROVE  Types'
<1>1. ThreadTypes /\ RingTypes /\ ControlTypes /\ ReaderTypes /\ UserTypes
  BY DEF Types
<1>2. UNCHANGED <<profilers, upc, terminated>>
  BY DEF Work
<1>3. CASE Refresh
  BY <1>2, <1>3, RefreshTypes
<1>4. UNCHANGED control /\ UNCHANGED current_pid => ControlTypes'
  <2>1. UNCHANGED control /\ UNCHANGED current_pid =>
          UNCHANGED <<running, stop_flag, target_pid, terminated, current_pid>>
    BY <1>2 DEF control
  <2>2. QED
    BY <1>1, <2>1 DEF ControlTypes
<1>5. UNCHANGED counts => UserTypes'
  BY <1>1, <1>2 DEF UserTypes, profilers
<1>6. UNCHANGED <<ring, taken, noise>> => RingTypes'
  BY <1>1 DEF RingTypes
<1>7. ASSUME NEW t \in Tids, AttachOne(t) PROVE Types'
  <2>1. /\ UNCHANGED <<ring, taken, noise, counts, current_pid, wpc, rounds, sweep>>
        /\ UNCHANGED control
    BY <1>7 DEF AttachOne
  <2>2. ThreadTypes'
    BY <1>1, <1>7 DEF ThreadTypes, AttachOne, sweep
  <2>3. ReaderTypes'
    BY <1>1, <2>1 DEF ReaderTypes, sweep
  <2>4. QED
    BY <2>1, <2>2, <2>3, <1>4, <1>5, <1>6 DEF Types
<1>8. CASE AttachDone \/ SweepDone
  <2>1. UNCHANGED <<kernel, attach, rounds, sweep, books, counts>> /\ UNCHANGED control
    BY <1>8 DEF AttachDone, SweepDone
  <2>2. ThreadTypes'
    BY <1>1, <2>1 DEF ThreadTypes, kernel, sweep, books
  <2>3. ReaderTypes'
    BY <1>1, <1>8, <2>1 DEF ReaderTypes, AttachDone, SweepDone, sweep, kernel, WorkerPlaces
  <2>4. QED
    BY <2>1, <2>2, <2>3, <1>4, <1>5, <1>6 DEF Types, kernel, books
<1>9. CASE Loop
  <2>1. UNCHANGED <<kernel, attach, buf, head, pos, books, counts>> /\ UNCHANGED control
    BY <1>9 DEF Loop
  <2>2. ThreadTypes'
    BY <1>1, <1>9, <2>1 DEF ThreadTypes, Loop, kernel, books
  <2>3. ReaderTypes'
    BY <1>1, <1>9, <2>1 DEF ReaderTypes, Loop, kernel, WorkerPlaces
  <2>4. QED
    BY <2>1, <2>2, <2>3, <1>4, <1>5, <1>6 DEF Types, kernel, books
<1>10. ASSUME NEW t \in Tids, OpenMailbox(t) PROVE Types'
  <2>1. UNCHANGED <<kernel, attach, rounds, books, counts>> /\ UNCHANGED control
    BY <1>10 DEF OpenMailbox
  <2>2. ThreadTypes'
    BY <1>1, <1>10, <2>1 DEF ThreadTypes, OpenMailbox, kernel, books
  <2>3. Len(ring[t]) \in Nat
    BY <1>1 DEF RingTypes
  <2>4. ReaderTypes'
    BY <1>1, <1>10, <2>1, <2>3 DEF ReaderTypes, OpenMailbox, HeadOf, kernel, WorkerPlaces
  <2>5. QED
    BY <2>1, <2>2, <2>4, <1>4, <1>5, <1>6 DEF Types, kernel, books
<1>11. CASE Parse
  <2>1. UNCHANGED <<kernel, wpc, attach, rounds, todo, buf, head, books>> /\ UNCHANGED control
    BY <1>11 DEF Parse
  <2>2. ThreadTypes'
    BY <1>1, <2>1 DEF ThreadTypes, kernel, books
  <2>3. ReaderTypes'
    BY <1>1, <1>11, <2>1 DEF ReaderTypes, Parse, kernel
  <2>4. UserTypes'
    <3>1. counts' \in [Samples -> Nat]
      <4>1. /\ buf \in Tids /\ ring[buf] \in Seq(0 .. MaxSamples) /\ Len(ring[buf]) \in Nat
            /\ pos \in Nat /\ pos + 1 \in 1 .. Len(ring[buf])
        BY <1>1, <1>11 DEF ReaderTypes, RingTypes, Parse
      <4>2. ring[buf][pos + 1] \in 0 .. MaxSamples
        BY <4>1, RecordIn
      <4>3. ring[buf][pos + 1] = 0 \/ ring[buf][pos + 1] \in Samples
        BY <4>2, PostmanAssumption DEF PostmanAssumption, Samples
      <4>4. QED
        BY <1>1, <1>11, <4>3 DEF UserTypes, Parse
    <3>2. QED
      BY <1>1, <1>2, <3>1 DEF UserTypes, profilers
  <2>5. QED
    BY <2>1, <2>2, <2>3, <2>4, <1>4, <1>6 DEF Types, kernel, books
<1>12. CASE CloseMailbox
  <2>1. UNCHANGED <<threads, listening, taken, noise, attach, rounds, todo, buf, books, counts>>
        /\ UNCHANGED control
    BY <1>12 DEF CloseMailbox
  <2>2. ThreadTypes'
    BY <1>1, <2>1 DEF ThreadTypes, books
  <2>3. RingTypes'
    <3>1. /\ buf \in Tids /\ ring[buf] \in Seq(0 .. MaxSamples) /\ Len(ring[buf]) \in Nat
          /\ pos \in Nat /\ pos <= Len(ring[buf])
      BY <1>1, <1>12 DEF ReaderTypes, RingTypes, CloseMailbox
    <3> DEFINE rest == SubSeq(ring[buf], pos + 1, Len(ring[buf]))
    <3>2. rest \in Seq(0 .. MaxSamples) /\ Len(rest) <= Len(ring[buf])
      BY <3>1, RestOfRing
    <3>3. ring' = [ring EXCEPT ![buf] = rest]
      BY <1>12 DEF CloseMailbox, CommittedTail
    <3> HIDE DEF rest
    <3>4. ring' \in [Tids -> Seq(0 .. MaxSamples)]
      BY <1>1, <3>2, <3>3 DEF RingTypes
    <3>5. \A u \in Tids : Len(ring'[u]) <= RingSize
      <4>1. \A u \in Tids : ring'[u] = IF u = buf THEN rest ELSE ring[u]
        BY <1>1, <3>3 DEF RingTypes
      <4>2. Len(rest) \in Nat /\ Len(ring[buf]) <= RingSize /\ RingSize \in Nat
        BY <1>1, <3>1, <3>2, PostmanAssumption DEF RingTypes, PostmanAssumption
      <4>3. Len(rest) <= RingSize
        BY <3>1, <3>2, <4>2
      <4>4. QED
        BY <1>1, <4>1, <4>3 DEF RingTypes
    <3>6. QED
      BY <1>1, <2>1, <3>4, <3>5 DEF RingTypes
  <2>4. ReaderTypes'
    BY <1>1, <1>12, <2>1 DEF ReaderTypes, CloseMailbox, WorkerPlaces
  <2>5. QED
    BY <2>1, <2>2, <2>3, <2>4, <1>4, <1>5 DEF Types, books
<1>13. QED
  BY <1>3, <1>7, <1>8, <1>9, <1>10, <1>11, <1>12 DEF Work, WorkerStep

(* The user's calls and what happens inside start() and stop(). *)
LEMMA UserChangesTypes ==
  ASSUME Types, WorkerInv,
         UserProceeds \/ \E p \in Profilers : UserCalls(p)
  PROVE  Types'
<1>1. ThreadTypes /\ RingTypes /\ ControlTypes /\ ReaderTypes /\ UserTypes
  BY DEF Types
<1>2. UNCHANGED <<kernel, attach, rounds, sweep, books>>
  BY DEF UserProceeds, UserCalls, StartCas, StartClear, StartSpawn, Stop, StopJoin,
         Construct, Read, Reset, Disable, Enable, Destruct, worker
<1>3. ThreadTypes' /\ RingTypes'
  BY <1>1, <1>2 DEF ThreadTypes, RingTypes, kernel, sweep, books
<1>4. ControlTypes'
  <2>1. \A p \in Profilers : TargetOf[p] \in Pids
    BY ProfilersAssumption DEF ProfilersAssumption
  <2>2. target_pid' \in Pids
    BY <1>1, <2>1 DEF ControlTypes, UserProceeds, UserCalls, StartCas, StartClear, StartSpawn,
           Stop, StopJoin, Construct, Read, Reset, Disable, Enable, Destruct, Acquire, control
  <2>3. current_pid' = current_pid
    BY <1>2 DEF books
  <2>4. running \in BOOLEAN /\ stop_flag \in BOOLEAN /\ terminated \in BOOLEAN
    BY <1>1 DEF ControlTypes
  <2>5. running' \in BOOLEAN /\ stop_flag' \in BOOLEAN /\ terminated' \in BOOLEAN
    <3>1. ASSUME NEW p \in Profilers, UserCalls(p)
          PROVE  running' \in BOOLEAN /\ stop_flag' \in BOOLEAN /\ terminated' \in BOOLEAN
      <4>1. UNCHANGED <<running, stop_flag, terminated>>
        BY <3>1, Zenon DEF UserCalls, Construct, Read, Reset, Disable, Enable, Destruct, Acquire, control
      <4>2. QED
        BY <2>4, <4>1, Zenon
    <3>2. CASE UserProceeds
      BY <2>4, <3>2 DEF UserProceeds, StartCas, StartClear, ClearStopFlag, StartSpawn, Stop,
                  StopJoin, control
    <3>3. QED
      BY <3>1, <3>2
  <2>6. QED
    BY <1>1, <2>2, <2>3, <2>5 DEF ControlTypes
<1>5. ReaderTypes'
  <2>1. StartSpawn => wpc = "none"
    BY DEF WorkerInv, StartSpawn
  <2>2. /\ wpc' \in WorkerPlaces
        /\ wpc' = wpc \/ (wpc \in {"none", "done"} /\ wpc' \in {"none", "refresh"})
    BY <1>1, <2>1 DEF ReaderTypes, WorkerPlaces, UserProceeds, UserCalls, StartCas, StartClear,
         StartSpawn, Stop, StopJoin, JoinsWorker, Construct, Read, Reset, Disable, Enable,
         Destruct, worker
  <2>3. QED
    BY <1>1, <1>2, <2>2 DEF ReaderTypes, sweep, kernel
<1>6. UserTypes'
  <2>1. counts' \in [Samples -> Nat] /\ stored' \in [Profilers -> [Samples -> Nat]]
    <3>1. CASE UNCHANGED <<counts, stored>>
      BY <1>1, <3>1 DEF UserTypes
    <3>2. ASSUME NEW p \in Profilers, Store(p)
          PROVE  counts' \in [Samples -> Nat] /\ stored' \in [Profilers -> [Samples -> Nat]]
      <4>1. CASE ~is_enabled[p]
        BY <1>1, <3>2, <4>1 DEF UserTypes, Store
      <4>2. CASE is_enabled[p]
        <5>1. counts' \in [Samples -> Nat]
          BY <3>2, <4>2 DEF Store, Remaining, NoCounts
        <5> DEFINE more == [s \in Samples |-> stored[p][s] + counts[s]]
        <5>2. more \in [Samples -> Nat]
          BY <1>1 DEF UserTypes
        <5>3. stored' = [stored EXCEPT ![p] = more]
          BY <3>2, <4>2 DEF Store
        <5> HIDE DEF more
        <5>4. QED
          BY <1>1, <5>1, <5>2, <5>3 DEF UserTypes
      <4>3. QED
        BY <4>1, <4>2
    <3>3. ASSUME NEW p \in Profilers, Reset(p)
          PROVE  counts' \in [Samples -> Nat] /\ stored' \in [Profilers -> [Samples -> Nat]]
      BY <1>1, <3>3 DEF UserTypes, Reset, NoCounts
    <3>4. QED
      BY <3>1, <3>2, <3>3 DEF UserProceeds, UserCalls, StartCas, StartClear, StartSpawn, Stop,
           StopJoin, Construct, Read, Disable, Enable, Destruct, profilers
  <2>2. open' \subseteq Profilers /\ is_enabled' \in [Profilers -> BOOLEAN]
    BY <1>1 DEF UserTypes, UserProceeds, UserCalls, StartCas, StartClear, StartSpawn, Stop,
         StopJoin, Construct, Read, Reset, Disable, Enable, Destruct, profilers
  <2>3. upc' \in UserPlaces
    BY <1>1 DEF UserTypes, UserPlaces, UserProceeds, UserCalls, StartCas, StartClear, StartSpawn,
         Stop, StopJoin, Construct, Acquire, Read, Reset, Disable, Enable, Destruct
  <2>4. QED
    BY <2>1, <2>2, <2>3 DEF UserTypes
<1>7. QED
  BY <1>3, <1>4, <1>5, <1>6 DEF Types

(* Every step keeps the types; that start() finds no worker matters to `todo`. *)
LEMMA TypesStep == Types /\ WorkerInv /\ [Next]_vars => Types'
<1> SUFFICES ASSUME Types, WorkerInv, [Next]_vars PROVE Types'
  OBVIOUS
<1>1. CASE UNCHANGED vars
  BY <1>1 DEF vars, postman, profilers, kernel, control, worker, sweep, books, Types,
       ThreadTypes, RingTypes, ControlTypes, ReaderTypes, UserTypes
<1>2. QED
  BY <1>1, WorldTypes, WorkTypes, UserChangesTypes DEF Next

(* The types hold from the start on. *)
LEMMA TypesInvariant == Spec => []Types
<1>1. Init => Types
  <2> SUFFICES ASSUME Init PROVE Types
    OBVIOUS
  <2> USE PostmanAssumption DEF PostmanAssumption, Init, PostmanInit
  <2>1. ThreadTypes
    BY DEF ThreadTypes
  <2>2. RingTypes
    BY DEF RingTypes
  <2>3. ControlTypes
    BY DEF ControlTypes
  <2>4. ReaderTypes
    BY DEF ReaderTypes, WorkerPlaces
  <2>5. UserTypes
    BY DEF UserTypes, UserPlaces
  <2>6. QED
    BY <2>1, <2>2, <2>3, <2>4, <2>5 DEF Types
<1>2. QED
  BY <1>1, TypesStep, WorkerInvariant, PTL DEF Spec

(* The variables have the types the C++ declarations give them; a ring is
   never over-full and the reader's position stays inside its buffer, however
   the kernel writes while the worker reads. *)
THEOREM TypeCorrect == Spec => []TypeOK
<1>1. QED
  BY TypesSuffice, TypesInvariant, PTL

-----------------------------------------------------------------------------
(* Where samples are *)

(* A sample that is being counted for a stack, or that a profiler has read. *)
Noted(s) == counts[s] > 0 \/ Readings(s) # {}

(* The records the worker has gone through and not yet taken off the ring. *)
Parsed(t, i) == wpc = "parse" /\ t = buf /\ i <= pos

(* A sample is in one ring at most, at one place. *)
InOnePlace ==
  /\ \A t \in Tids : \A i \in 1 .. Len(ring[t]) : ring[t][i] <= taken
  /\ \A t, u \in Tids : \A i \in 1 .. Len(ring[t]) : \A j \in 1 .. Len(ring[u]) :
       ring[t][i] = ring[u][j] /\ ring[t][i] # 0 => t = u /\ i = j

(* One place among the counts and the profilers has a sample at a time. *)
NotedOnce ==
  /\ \A s \in Samples : counts[s] <= 1 /\ (counts[s] = 1 => Readings(s) = {})
  /\ \A s \in Samples : \A p \in Profilers : stored[p][s] <= 1
  /\ \A s \in Samples : \A p, q \in Readings(s) : p = q

(* A sample is noted when it is parsed, and not before. *)
NotedWhenParsed ==
  /\ \A s \in Samples : s > taken => ~Noted(s)
  /\ \A t \in Tids : \A i \in 1 .. Len(ring[t]) :
       ring[t][i] # 0 /\ ~Parsed(t, i) => ~Noted(ring[t][i])

(* What is about to leave a ring has been noted, or was cleared since. *)
ParsedIsNoted ==
  \A t \in Tids : \A i \in 1 .. Len(ring[t]) :
    ring[t][i] # 0 /\ Parsed(t, i) => Noted(ring[t][i]) \/ ring[t][i] \in cleared

Accounts ==
  InOnePlace /\ NotedOnce /\ NotedWhenParsed /\ ParsedIsNoted /\ NothingSkipped

(* A sample waits in a ring at some position. *)
LEMMA PendingAt ==
  ASSUME NEW r \in Seq(0 .. MaxSamples), NEW s \in Samples
  PROVE  s \in SamplesIn(r) <=> \E i \in 1 .. Len(r) : r[i] = s
<1>1. s # 0 /\ DOMAIN r = 1 .. Len(r)
  BY DEF Samples
<1>2. QED
  BY <1>1 DEF SamplesIn, ToSet

(* A step that leaves the rings and the books alone, and the reader between the
   same two records, leaves every sample where it is. *)
LEMMA QuietStep ==
  ASSUME Accounts,
         UNCHANGED <<ring, taken, overflowed, discarded, counts, stored, cleared>>,
         \A t \in Tids : \A i \in 1 .. Len(ring[t]) : Parsed(t, i)' <=> Parsed(t, i)
  PROVE  Accounts'
<1>1. \A s : Readings(s)' = Readings(s) /\ (Noted(s)' <=> Noted(s)) /\ (Pending(s)' <=> Pending(s))
  BY DEF Readings, Noted, Pending
<1>2. InOnePlace' /\ NotedOnce'
  BY <1>1 DEF Accounts, InOnePlace, NotedOnce
<1>3. NotedWhenParsed' /\ ParsedIsNoted'
  BY <1>1 DEF Accounts, NotedWhenParsed, ParsedIsNoted
<1>4. NothingSkipped'
  BY <1>1 DEF Accounts, NothingSkipped
<1>5. QED
  BY <1>2, <1>3, <1>4 DEF Accounts

(* A record written at the end of a ring is a new sample or none. *)
LEMMA WrittenRecord ==
  ASSUME Types, Accounts, NEW t \in Tids, NEW r \in 0 .. MaxSamples,
         \/ r = 0 /\ taken' = taken
         \/ r = taken + 1 /\ taken' = r,
         ring' = [ring EXCEPT ![t] = Append(@, r)],
         UNCHANGED <<overflowed, discarded, counts, stored, cleared, wpc, buf, pos>>
  PROVE  Accounts'
<1> DEFINE n == Len(ring[t])
<1>1. /\ \A u \in Tids : ring[u] \in Seq(0 .. MaxSamples) /\ Len(ring[u]) \in Nat
      /\ taken \in Nat /\ taken' \in Nat /\ taken <= taken' /\ n \in Nat
  BY DEF Types, RingTypes
<1>2. \A u \in Tids : u # t => ring'[u] = ring[u]
  BY DEF Types, RingTypes
<1>3. /\ ring'[t] = Append(ring[t], r)
      /\ Len(ring'[t]) = n + 1 /\ ring'[t][n + 1] = r
      /\ \A i \in 1 .. n : ring'[t][i] = ring[t][i]
  BY <1>1 DEF Types, RingTypes
<1>4. \A u \in Tids : \A i \in 1 .. Len(ring'[u]) :
        \/ i \in 1 .. Len(ring[u]) /\ ring'[u][i] = ring[u][i]
        \/ u = t /\ i = n + 1 /\ ring'[u][i] = r
  <2>1. SUFFICES ASSUME NEW u \in Tids, NEW i \in 1 .. Len(ring'[u])
                 PROVE  \/ i \in 1 .. Len(ring[u]) /\ ring'[u][i] = ring[u][i]
                        \/ u = t /\ i = n + 1 /\ ring'[u][i] = r
    OBVIOUS
  <2>2. CASE u = t
    BY <1>1, <1>3, <2>1, <2>2
  <2>3. CASE u # t
    BY <1>2, <2>1, <2>3
  <2>4. QED
    BY <2>2, <2>3
<1>5. \A u \in Tids : \A i \in 1 .. Len(ring[u]) :
        i \in 1 .. Len(ring'[u]) /\ ring'[u][i] = ring[u][i]
  <2>1. SUFFICES ASSUME NEW u \in Tids, NEW i \in 1 .. Len(ring[u])
                 PROVE  i \in 1 .. Len(ring'[u]) /\ ring'[u][i] = ring[u][i]
    OBVIOUS
  <2>2. CASE u = t
    BY <1>1, <1>3, <2>1, <2>2
  <2>3. CASE u # t
    BY <1>2, <2>1, <2>3
  <2>4. QED
    BY <2>2, <2>3
<1>6. \A s : Readings(s)' = Readings(s) /\ (Noted(s)' <=> Noted(s))
  BY DEF Readings, Noted
<1>7. \A u \in Tids : \A i : Parsed(u, i)' <=> Parsed(u, i)
  BY DEF Parsed
<1>8. ~Parsed(t, n + 1)
  BY <1>1 DEF Parsed, Types, ReaderTypes
<1> HIDE DEF n
<1>9. r # 0 => r \in Samples /\ r > taken /\ ~Noted(r)
  BY <1>1 DEF Samples, Accounts, NotedWhenParsed
<1>10. InOnePlace'
  <2>1. \A u \in Tids : \A i \in 1 .. Len(ring[u]) :
          ring[u][i] \in Nat /\ ring[u][i] <= taken
    BY <1>1, RecordIn DEF Accounts, InOnePlace
  <2>2. \A u \in Tids : \A i \in 1 .. Len(ring'[u]) : ring'[u][i] <= taken'
    BY <1>1, <1>4, <2>1
  <2>3. ASSUME NEW u \in Tids, NEW v \in Tids, NEW i \in 1 .. Len(ring'[u]),
               NEW j \in 1 .. Len(ring'[v]), ring'[u][i] = ring'[v][j], ring'[u][i] # 0
        PROVE  u = v /\ i = j
    <3>1. CASE u = t /\ i = n + 1 /\ ring'[u][i] = r
      <4>1. r > taken
        BY <1>9, <2>3, <3>1
      <4>2. v = t /\ j = n + 1
        BY <1>1, <1>4, <2>1, <2>3, <3>1, <4>1
      <4>3. QED
        BY <3>1, <4>2
    <3>2. CASE v = t /\ j = n + 1 /\ ring'[v][j] = r
      <4>1. r > taken
        BY <1>9, <2>3, <3>2
      <4>2. u = t /\ i = n + 1
        BY <1>1, <1>4, <2>1, <2>3, <3>2, <4>1
      <4>3. QED
        BY <3>2, <4>2
    <3>3. CASE /\ i \in 1 .. Len(ring[u]) /\ ring'[u][i] = ring[u][i]
               /\ j \in 1 .. Len(ring[v]) /\ ring'[v][j] = ring[v][j]
      BY <2>3, <3>3 DEF Accounts, InOnePlace
    <3>4. QED
      BY <1>4, <2>3, <3>1, <3>2, <3>3
  <2>4. QED
    BY <2>2, <2>3 DEF InOnePlace
<1>11. NotedOnce'
  BY <1>6 DEF Accounts, NotedOnce
<1>12. NotedWhenParsed'
  <2>1. \A s \in Samples : s > taken' => ~Noted(s)'
    BY <1>1, <1>6 DEF Accounts, NotedWhenParsed, Samples
  <2>2. ASSUME NEW u \in Tids, NEW i \in 1 .. Len(ring'[u]),
               ring'[u][i] # 0, ~Parsed(u, i)
        PROVE  ~Noted(ring'[u][i])
    BY <1>4, <1>9, <2>2 DEF Accounts, NotedWhenParsed
  <2>3. QED
    BY <1>6, <1>7, <2>1, <2>2 DEF NotedWhenParsed
<1>13. ParsedIsNoted'
  <2>1. ASSUME NEW u \in Tids, NEW i \in 1 .. Len(ring'[u]),
               ring'[u][i] # 0, Parsed(u, i)
        PROVE  Noted(ring'[u][i]) \/ ring'[u][i] \in cleared
    BY <1>4, <1>8, <2>1 DEF Accounts, ParsedIsNoted
  <2>2. QED
    BY <1>6, <1>7, <2>1 DEF ParsedIsNoted
<1>14. NothingSkipped'
  <2>1. ASSUME NEW s \in 1 .. taken'
        PROVE  Pending(s)' \/ counts[s] > 0 \/ Readings(s) # {}
                 \/ s \in overflowed \union cleared \union discarded
    <3>1. s \in Samples
      <4>1. taken' \in 0 .. MaxSamples /\ MaxSamples \in Nat
        BY PostmanAssumption DEF PostmanAssumption, Types, RingTypes
      <4>2. QED
        BY <2>1, <4>1 DEF Samples
    <3>2. (\E u \in Tids : \E i \in 1 .. Len(ring'[u]) : ring'[u][i] = s) => Pending(s)'
      <4>1. \A u \in Tids : ring'[u] \in Seq(0 .. MaxSamples)
        <5>1. Append(ring[t], r) \in Seq(0 .. MaxSamples)
          BY <1>1, AppendProperties
        <5>2. QED
          BY <1>1, <1>2, <1>3, <5>1
      <4>2. \A u \in Tids : s \in SamplesIn(ring'[u]) <=> \E i \in 1 .. Len(ring'[u]) : ring'[u][i] = s
        BY <3>1, <4>1, PendingAt
      <4>3. QED
        BY <4>2 DEF Pending
    <3>3. CASE s = r
      <4>1. n + 1 \in 1 .. Len(ring'[t])
        BY <1>1, <1>3 DEF n
      <4>2. QED
        BY <1>3, <3>2, <3>3, <4>1
    <3>4. CASE s # r
      <4>1. s \in 1 .. taken
        BY <1>1, <2>1, <3>4
      <4>2. Pending(s) => \E u \in Tids : \E i \in 1 .. Len(ring[u]) : ring[u][i] = s
        BY <1>1, <3>1, PendingAt DEF Pending
      <4>3. Pending(s) => Pending(s)'
        BY <1>5, <3>2, <4>2
      <4>4. QED
        BY <4>1, <4>3 DEF Accounts, NothingSkipped
    <3>5. QED
      BY <3>3, <3>4
  <2>2. QED
    BY <1>6, <2>1 DEF NothingSkipped
<1>15. QED
  BY <1>10, <1>11, <1>12, <1>13, <1>14 DEF Accounts

(* The kernel writes a sample, or loses it for want of room and says so. *)
LEMMA WorldAccounts ==
  ASSUME Types, Accounts, World
  PROVE  Accounts'
<1>1. PICK t \in Tids : ThreadStart(t) \/ ThreadExit(t) \/ TakeSample(t) \/ OtherRecord(t)
  BY DEF World, Environment
<1>2. UNCHANGED <<discarded, counts, stored, cleared, wpc, buf, pos>>
  BY <1>1 DEF World, ThreadStart, ThreadExit, TakeSample, OtherRecord, worker, sweep, books,
       profilers
<1>3. taken \in 0 .. MaxSamples /\ MaxSamples \in Nat
  BY PostmanAssumption DEF PostmanAssumption, Types, RingTypes
<1>4. CASE ThreadStart(t) \/ ThreadExit(t)
  BY <1>2, <1>4, QuietStep DEF ThreadStart, ThreadExit, Parsed
<1>5. CASE TakeSample(t) /\ Len(ring[t]) < RingSize
  <2>1. /\ taken + 1 \in 0 .. MaxSamples /\ taken' = taken + 1
        /\ ring' = [ring EXCEPT ![t] = Append(@, taken + 1)] /\ overflowed' = overflowed
    BY <1>3, <1>5 DEF TakeSample
  <2>2. QED
    BY <1>2, <2>1, WrittenRecord
<1>6. CASE TakeSample(t) /\ ~(Len(ring[t]) < RingSize)
  <2>1. /\ taken' = taken + 1 /\ taken' \in Samples
        /\ ring' = ring /\ overflowed' = overflowed \union {taken'}
    BY <1>3, <1>6 DEF TakeSample, Samples
  <2>2. \A s : /\ Readings(s)' = Readings(s) /\ (Noted(s)' <=> Noted(s))
               /\ (Pending(s)' <=> Pending(s))
    BY <1>2, <2>1 DEF Readings, Noted, Pending
  <2>3. \A u \in Tids : \A i : Parsed(u, i)' <=> Parsed(u, i)
    BY <1>2 DEF Parsed
  <2>4. \A u \in Tids : \A i \in 1 .. Len(ring[u]) : ring[u][i] \in Nat
    BY RecordIn DEF Types, RingTypes
  <2>5. InOnePlace'
    BY <1>3, <2>1, <2>4 DEF Accounts, InOnePlace
  <2>6. NotedOnce'
    BY <1>2, <2>2 DEF Accounts, NotedOnce
  <2>7. NotedWhenParsed'
    <3>1. \A s \in Samples : s > taken' => ~Noted(s)
      BY <1>3, <2>1 DEF Accounts, NotedWhenParsed, Samples
    <3>2. QED
      BY <2>1, <2>2, <2>3, <3>1 DEF Accounts, NotedWhenParsed
  <2>8. ParsedIsNoted'
    BY <1>2, <2>1, <2>2, <2>3 DEF Accounts, ParsedIsNoted
  <2>9. NothingSkipped'
    <3>1. \A s \in 1 .. taken' : s \in 1 .. taken \/ s \in overflowed'
      BY <1>3, <2>1
    <3>2. QED
      BY <1>2, <2>1, <2>2, <3>1 DEF Accounts, NothingSkipped
  <2>10. QED
    BY <2>5, <2>6, <2>7, <2>8, <2>9 DEF Accounts
<1>7. CASE OtherRecord(t)
  <2>1. /\ 0 \in 0 .. MaxSamples /\ taken' = taken
        /\ ring' = [ring EXCEPT ![t] = Append(@, 0)] /\ overflowed' = overflowed
    BY <1>3, <1>7 DEF OtherRecord
  <2>2. QED
    BY <1>2, <2>1, WrittenRecord
<1>8. QED
  BY <1>1, <1>4, <1>5, <1>6, <1>7

(* The rings refresh() gives up go with their samples, and the books know it. *)
LEMMA RefreshAccounts ==
  ASSUME Types, Accounts, Refresh, UNCHANGED <<stored, cleared>>
  PROVE  Accounts'
<1>1. /\ ring' = [t \in Tids |-> IF t \in Stale THEN <<>> ELSE ring[t]]
      /\ discarded' = discarded \union UNION {SamplesIn(ring[t]) : t \in Stale}
      /\ UNCHANGED <<taken, overflowed, counts>> /\ wpc = "refresh" /\ wpc' = "attach"
  BY DEF Refresh, Detach
<1>2. \A t \in Tids : \A i \in 1 .. Len(ring'[t]) :
        t \notin Stale /\ i \in 1 .. Len(ring[t]) /\ ring'[t][i] = ring[t][i]
  BY <1>1
<1>3. \A s : Readings(s)' = Readings(s) /\ (Noted(s)' <=> Noted(s))
  BY <1>1 DEF Readings, Noted
<1>4. \A t \in Tids : \A i : ~Parsed(t, i) /\ ~Parsed(t, i)'
  BY <1>1 DEF Parsed
<1>5. InOnePlace'
  BY <1>1, <1>2 DEF Accounts, InOnePlace
<1>6. NotedOnce'
  BY <1>1, <1>3 DEF Accounts, NotedOnce
<1>7. NotedWhenParsed'
  BY <1>1, <1>2, <1>3, <1>4 DEF Accounts, NotedWhenParsed
<1>8. ParsedIsNoted'
  BY <1>4 DEF ParsedIsNoted
<1>9. NothingSkipped'
  <2>1. ASSUME NEW s, Pending(s) PROVE Pending(s)' \/ s \in discarded'
    <3>1. PICK t \in Tids : s \in SamplesIn(ring[t])
      BY <2>1 DEF Pending
    <3>2. CASE t \in Stale
      BY <1>1, <3>1, <3>2
    <3>3. CASE t \notin Stale
      <4>1. ring'[t] = ring[t]
        BY <1>1, <3>3
      <4>2. QED
        BY <3>1, <4>1 DEF Pending
    <3>4. QED
      BY <3>2, <3>3
  <2>2. QED
    BY <1>1, <1>3, <2>1 DEF Accounts, NothingSkipped
<1>10. QED
  BY <1>5, <1>6, <1>7, <1>8, <1>9 DEF Accounts

(* A record is counted as the reader passes it. *)
LEMMA ParseAccounts ==
  ASSUME Types, Accounts, Parse, UNCHANGED <<stored, cleared>>
  PROVE  Accounts'
<1> DEFINE s == ring[buf][pos + 1]
<1>1. /\ wpc = "parse" /\ wpc' = "parse" /\ pos < head /\ pos' = pos + 1 /\ buf' = buf
      /\ UNCHANGED <<ring, taken, overflowed, discarded>>
      /\ counts' = IF s = 0 THEN counts ELSE [counts EXCEPT ![s] = @ + 1]
  BY DEF Parse, kernel, books
<1>2. /\ buf \in Tids /\ ring[buf] \in Seq(0 .. MaxSamples) /\ Len(ring[buf]) \in Nat
      /\ pos \in Nat /\ pos + 1 \in 1 .. Len(ring[buf]) /\ counts \in [Samples -> Nat]
  BY <1>1 DEF Types, ReaderTypes, RingTypes, UserTypes
<1>3. s = 0 \/ s \in Samples
  <2>1. s \in 0 .. MaxSamples /\ MaxSamples \in Nat
    BY <1>2, RecordIn, PostmanAssumption DEF PostmanAssumption
  <2>2. QED
    BY <2>1 DEF Samples
<1>4. s # 0 => ~Noted(s) /\ s <= taken
  BY <1>1, <1>2 DEF Accounts, NotedWhenParsed, InOnePlace, Parsed
<1> HIDE DEF s
<1>5. \A x : Readings(x)' = Readings(x) /\ (Pending(x)' <=> Pending(x))
  BY <1>1 DEF Readings, Pending
<1>6. \A x \in Samples : counts'[x] = IF x = s /\ s # 0 THEN counts[x] + 1 ELSE counts[x]
  BY <1>1, <1>2, <1>3
<1>7. s # 0 => counts[s] = 0 /\ counts'[s] = 1 /\ Readings(s) = {}
  BY <1>2, <1>3, <1>4, <1>6 DEF Noted
<1>8. \A x \in Samples : Noted(x)' <=> Noted(x) \/ (s # 0 /\ x = s)
  BY <1>5, <1>6, <1>7 DEF Noted
<1>9. \A t \in Tids : \A i \in 1 .. Len(ring[t]) :
        /\ Parsed(t, i)' <=> Parsed(t, i) \/ (t = buf /\ i = pos + 1)
        /\ ring[t][i] # 0 => ring[t][i] \in Samples
  <2>1. SUFFICES ASSUME NEW t \in Tids, NEW i \in 1 .. Len(ring[t])
                 PROVE  /\ Parsed(t, i)' <=> Parsed(t, i) \/ (t = buf /\ i = pos + 1)
                        /\ ring[t][i] # 0 => ring[t][i] \in Samples
    OBVIOUS
  <2>2. ring[t] \in Seq(0 .. MaxSamples) /\ Len(ring[t]) \in Nat /\ MaxSamples \in Nat
    BY PostmanAssumption DEF PostmanAssumption, Types, RingTypes
  <2>3. ring[t][i] \in 0 .. MaxSamples
    BY <2>2, RecordIn
  <2>4. QED
    BY <1>1, <1>2, <2>2, <2>3 DEF Parsed, Samples
<1>10. InOnePlace'
  BY <1>1 DEF Accounts, InOnePlace
<1>11. NotedOnce'
  BY <1>5, <1>6, <1>7 DEF Accounts, NotedOnce
<1>12. NotedWhenParsed'
  <2>1. \A x \in Samples : x > taken => ~Noted(x) /\ (s # 0 => x # s)
    <3>1. taken \in Nat
      BY DEF Types, RingTypes
    <3>2. QED
      BY <1>4, <3>1 DEF Accounts, NotedWhenParsed, Samples
  <2>2. ASSUME NEW t \in Tids, NEW i \in 1 .. Len(ring[t]), ring[t][i] # 0,
               ~Parsed(t, i), ~(t = buf /\ i = pos + 1)
        PROVE  ~Noted(ring[t][i])'
    <3>1. ~Noted(ring[t][i])
      BY <2>2 DEF Accounts, NotedWhenParsed
    <3>2. ring[t][i] # s
      BY <1>2, <2>2 DEF Accounts, InOnePlace, s
    <3>3. QED
      BY <1>1, <1>8, <1>9, <2>2, <3>1, <3>2
  <2>3. QED
    BY <1>1, <1>8, <1>9, <2>1, <2>2 DEF NotedWhenParsed
<1>13. ParsedIsNoted'
  <2>1. ASSUME NEW t \in Tids, NEW i \in 1 .. Len(ring[t]), ring[t][i] # 0, Parsed(t, i)'
        PROVE  Noted(ring[t][i])' \/ ring[t][i] \in cleared
    BY <1>1, <1>8, <1>9, <2>1 DEF Accounts, ParsedIsNoted, s
  <2>2. QED
    BY <1>1, <2>1 DEF ParsedIsNoted
<1>14. NothingSkipped'
  <2>1. \A x \in 1 .. taken : x \in Samples
    BY PostmanAssumption DEF PostmanAssumption, Types, RingTypes, Samples
  <2>2. \A x \in Samples : counts[x] > 0 => counts'[x] > 0
    BY <1>2, <1>6
  <2>3. QED
    BY <1>1, <1>5, <2>1, <2>2 DEF Accounts, NothingSkipped
<1>15. QED
  BY <1>10, <1>11, <1>12, <1>13, <1>14 DEF Accounts

(* What leaves a ring when its mailbox is closed has been counted. *)
LEMMA CloseAccounts ==
  ASSUME Types, Accounts, CloseMailbox, UNCHANGED <<stored, cleared>>
  PROVE  Accounts'
<1> DEFINE rest == SubSeq(ring[buf], pos + 1, Len(ring[buf]))
           n == Len(ring[buf])
<1>1. /\ wpc = "parse" /\ wpc' = "sweep"
      /\ UNCHANGED <<taken, overflowed, counts, discarded>>
      /\ ring' = [ring EXCEPT ![buf] = rest]
  BY DEF CloseMailbox, CommittedTail, books
<1>2. /\ buf \in Tids /\ ring[buf] \in Seq(0 .. MaxSamples) /\ n \in Nat
      /\ pos \in Nat /\ pos <= n
  BY DEF CloseMailbox, Types, ReaderTypes, RingTypes
<1>3. /\ rest \in Seq(0 .. MaxSamples) /\ Len(rest) = n - pos
      /\ \A i \in 1 .. n - pos : rest[i] = ring[buf][pos + i]
  BY <1>2, RestOfRing
<1>4. \A t \in Tids : ring'[t] = IF t = buf THEN rest ELSE ring[t]
  BY <1>1 DEF Types, RingTypes
<1> HIDE DEF rest, n
<1> DEFINE at(t, i) == IF t = buf THEN pos + i ELSE i
<1>5. \A t \in Tids : \A i \in 1 .. Len(ring'[t]) :
        at(t, i) \in 1 .. Len(ring[t]) /\ ring'[t][i] = ring[t][at(t, i)] /\ ~Parsed(t, at(t, i))
  <2>1. SUFFICES ASSUME NEW t \in Tids, NEW i \in 1 .. Len(ring'[t])
                 PROVE  /\ at(t, i) \in 1 .. Len(ring[t]) /\ ring'[t][i] = ring[t][at(t, i)]
                        /\ ~Parsed(t, at(t, i))
    OBVIOUS
  <2>2. CASE t = buf
    <3>1. i \in 1 .. n - pos /\ Len(ring[t]) = n
      BY <1>3, <1>4, <2>1, <2>2 DEF n
    <3>2. pos + i \in 1 .. n /\ ~(pos + i <= pos)
      BY <1>2, <3>1
    <3>3. QED
      BY <1>3, <1>4, <2>2, <3>1, <3>2 DEF Parsed
  <2>3. CASE t # buf
    BY <1>4, <2>1, <2>3 DEF Parsed
  <2>4. QED
    BY <2>2, <2>3
<1>6. \A t \in Tids : \A i : ~Parsed(t, i)'
  BY <1>1 DEF Parsed
<1>7. \A s : Readings(s)' = Readings(s) /\ (Noted(s)' <=> Noted(s))
  BY <1>1 DEF Readings, Noted
<1>8. InOnePlace'
  <2>1. \A t \in Tids : \A i \in 1 .. Len(ring'[t]) : ring'[t][i] <= taken'
    BY <1>1, <1>5 DEF Accounts, InOnePlace
  <2>2. ASSUME NEW t \in Tids, NEW u \in Tids, NEW i \in 1 .. Len(ring'[t]),
               NEW j \in 1 .. Len(ring'[u]), ring'[t][i] = ring'[u][j], ring'[t][i] # 0
        PROVE  t = u /\ i = j
    <3>1. t = u /\ at(t, i) = at(u, j)
      <4>1. /\ at(t, i) \in 1 .. Len(ring[t]) /\ ring[t][at(t, i)] # 0
            /\ at(u, j) \in 1 .. Len(ring[u]) /\ ring[t][at(t, i)] = ring[u][at(u, j)]
        BY <1>5, <2>2
      <4> HIDE DEF at
      <4>2. QED
        BY <4>1 DEF Accounts, InOnePlace
    <3>2. i \in Int /\ j \in Int
      OBVIOUS
    <3>3. QED
      BY <1>2, <3>1, <3>2
  <2>3. QED
    BY <2>1, <2>2 DEF InOnePlace
<1>9. NotedOnce'
  BY <1>1, <1>7 DEF Accounts, NotedOnce
<1>10. NotedWhenParsed'
  <2>1. ASSUME NEW t \in Tids, NEW i \in 1 .. Len(ring'[t]), ring'[t][i] # 0
        PROVE  ~Noted(ring'[t][i])
    BY <1>5, <2>1 DEF Accounts, NotedWhenParsed
  <2>2. QED
    BY <1>1, <1>7, <2>1 DEF Accounts, NotedWhenParsed
<1>11. ParsedIsNoted'
  BY <1>6 DEF ParsedIsNoted
<1>12. NothingSkipped'
  <2>1. ASSUME NEW s \in 1 .. taken, Pending(s)
        PROVE  Pending(s)' \/ Noted(s) \/ s \in cleared
    <3>1. s \in Samples /\ s # 0 /\ \A t \in Tids : ring[t] \in Seq(0 .. MaxSamples)
      BY PostmanAssumption DEF PostmanAssumption, Types, RingTypes, Samples
    <3>2. PICK t \in Tids : \E i \in 1 .. Len(ring[t]) : ring[t][i] = s
      BY <2>1, <3>1, PendingAt DEF Pending
    <3>3. PICK i \in 1 .. Len(ring[t]) : ring[t][i] = s
      BY <3>2
    <3>4. CASE Parsed(t, i)
      BY <3>1, <3>3, <3>4 DEF Accounts, ParsedIsNoted
    <3>5. CASE t # buf
      BY <1>4, <2>1, <3>1, <3>2, <3>5, PendingAt DEF Pending
    <3>6. CASE t = buf /\ ~Parsed(t, i)
      <4>1. Len(ring[t]) = n /\ ~(i <= pos)
        BY <1>1, <3>6 DEF Parsed, n
      <4>2. i - pos \in 1 .. n - pos /\ pos + (i - pos) = i
        BY <1>2, <4>1
      <4>3. rest[i - pos] = s /\ i - pos \in 1 .. Len(rest)
        BY <1>3, <3>3, <3>6, <4>2
      <4>4. s \in SamplesIn(rest)
        BY <1>3, <3>1, <4>3, PendingAt
      <4>5. QED
        BY <1>2, <1>4, <4>4 DEF Pending
    <3>7. QED
      BY <3>4, <3>5, <3>6
  <2>2. QED
    BY <1>1, <1>7, <2>1 DEF Accounts, NothingSkipped, Noted
<1>13. QED
  BY <1>8, <1>9, <1>10, <1>11, <1>12 DEF Accounts

(* The worker's steps. *)
LEMMA WorkAccounts ==
  ASSUME Types, Accounts, Work
  PROVE  Accounts'
<1>1. UNCHANGED <<stored, cleared>>
  BY DEF Work, profilers
<1>2. CASE Refresh
  BY <1>1, <1>2, RefreshAccounts
<1>3. CASE Parse
  BY <1>1, <1>3, ParseAccounts
<1>4. CASE CloseMailbox
  BY <1>1, <1>4, CloseAccounts
<1>5. CASE AttachDone \/ Loop \/ SweepDone \/ \E t \in Tids : AttachOne(t)
  <2>1. /\ UNCHANGED <<ring, taken, overflowed, discarded, counts, buf, pos>>
        /\ wpc # "parse" /\ wpc' # "parse"
    BY <1>5 DEF AttachDone, Loop, SweepDone, AttachOne, kernel, books, sweep
  <2>2. QED
    BY <1>1, <2>1, QuietStep DEF Parsed
<1>6. ASSUME NEW t \in Tids, OpenMailbox(t) PROVE Accounts'
  <2>1. /\ UNCHANGED <<ring, taken, overflowed, discarded, counts>>
        /\ wpc # "parse" /\ (wpc' = "parse" => pos' = 0)
    BY <1>6 DEF OpenMailbox, kernel, books
  <2>2. \A u \in Tids : \A i \in 1 .. Len(ring[u]) : Parsed(u, i)' <=> Parsed(u, i)
    BY <2>1 DEF Parsed
  <2>3. QED
    BY <1>1, <2>1, <2>2, QuietStep
<1>7. QED
  BY <1>2, <1>3, <1>4, <1>5, <1>6 DEF Work, WorkerStep

(* A profiler that reads takes the counts with it, and each sample from there. *)
LEMMA StoreAccounts ==
  ASSUME Types, Accounts, NEW p \in Profilers, Store(p),
         UNCHANGED <<ring, taken, overflowed, discarded, cleared, wpc, buf, pos>>
  PROVE  Accounts'
<1>1. \A t \in Tids : \A i : Parsed(t, i)' <=> Parsed(t, i)
  BY DEF Parsed
<1>2. CASE ~is_enabled[p]
  BY <1>1, <1>2, QuietStep DEF Store
<1>3. CASE is_enabled[p]
  <2>1. counts \in [Samples -> Nat] /\ stored \in [Profilers -> [Samples -> Nat]]
    BY DEF Types, UserTypes
  <2>2. counts' = [s \in Samples |-> 0]
    BY <1>3 DEF Store, Remaining, NoCounts
  <2>3. \A q \in Profilers : \A s \in Samples :
          stored'[q][s] = IF q = p THEN stored[q][s] + counts[s] ELSE stored[q][s]
    <3> DEFINE more == [s \in Samples |-> stored[p][s] + counts[s]]
    <3>1. stored' = [stored EXCEPT ![p] = more] /\ \A s \in Samples : more[s] = stored[p][s] + counts[s]
      BY <1>3 DEF Store
    <3> HIDE DEF more
    <3>2. QED
      BY <2>1, <3>1
  <2>4. \A s \in Samples : counts[s] \in Nat /\ counts[s] <= 1 /\ (counts[s] = 1 => Readings(s) = {})
    BY <2>1 DEF Accounts, NotedOnce
  <2>5. \A s \in Samples : Readings(s)' = IF counts[s] = 1 THEN {p} ELSE Readings(s)
    <3>1. ASSUME NEW s \in Samples, counts[s] = 1 PROVE Readings(s)' = {p}
      <4>1. \A q \in Profilers : stored[q][s] = 0
        BY <2>1, <2>4, <3>1 DEF Readings
      <4>2. QED
        BY <2>3, <3>1, <4>1 DEF Readings
    <3>2. ASSUME NEW s \in Samples, counts[s] # 1 PROVE Readings(s)' = Readings(s)
      <4>1. counts[s] = 0
        BY <2>4, <3>2
      <4>2. \A q \in Profilers : stored'[q][s] = stored[q][s]
        BY <2>1, <2>3, <4>1
      <4>3. QED
        BY <4>2 DEF Readings
    <3>3. QED
      BY <3>1, <3>2
  <2>6. \A s \in Samples : counts'[s] = 0 /\ (Noted(s)' <=> Noted(s))
    <3>1. ASSUME NEW s \in Samples PROVE Noted(s)' <=> Noted(s)
      <4>1. CASE counts[s] = 1
        BY <2>5, <4>1 DEF Noted
      <4>2. CASE counts[s] = 0
        BY <2>2, <2>5, <4>2 DEF Noted
      <4>3. QED
        BY <2>4, <4>1, <4>2
    <3>2. QED
      BY <2>2, <3>1
  <2>7. \A t \in Tids : \A i \in 1 .. Len(ring[t]) : ring[t][i] # 0 => ring[t][i] \in Samples
    BY RecordIn, PostmanAssumption DEF PostmanAssumption, Types, RingTypes, Samples
  <2>8. InOnePlace'
    BY DEF Accounts, InOnePlace
  <2>9. NotedOnce'
    <3>1. \A s \in Samples : \A q \in Profilers : stored'[q][s] <= 1
      <4>1. ASSUME NEW s \in Samples, NEW q \in Profilers PROVE stored'[q][s] <= 1
        <5>1. CASE counts[s] = 0
          BY <2>1, <2>3, <5>1 DEF Accounts, NotedOnce
        <5>2. CASE counts[s] = 1
          <6>1. stored[q][s] = 0
            BY <2>1, <2>4, <5>2 DEF Readings
          <6>2. QED
            BY <2>3, <5>2, <6>1
        <5>3. QED
          BY <2>4, <5>1, <5>2
      <4>2. QED
        BY <4>1
    <3>2. \A s \in Samples : \A q, r \in Readings(s)' : q = r
      BY <2>5 DEF Accounts, NotedOnce
    <3>3. QED
      BY <2>6, <3>1, <3>2 DEF NotedOnce
  <2>10. NotedWhenParsed'
    BY <1>1, <2>6, <2>7 DEF Accounts, NotedWhenParsed
  <2>11. ParsedIsNoted'
    BY <1>1, <2>6, <2>7 DEF Accounts, ParsedIsNoted
  <2>12. NothingSkipped'
    <3>1. \A s \in 1 .. taken : s \in Samples
      BY PostmanAssumption DEF PostmanAssumption, Types, RingTypes, Samples
    <3>2. \A s : Pending(s)' <=> Pending(s)
      BY DEF Pending
    <3>3. QED
      BY <2>6, <3>1, <3>2 DEF Accounts, NothingSkipped, Noted
  <2>13. QED
    BY <2>8, <2>9, <2>10, <2>11, <2>12 DEF Accounts
<1>4. QED
  BY <1>2, <1>3

(* reset() throws away what was counted, and nothing else. *)
LEMMA ResetAccounts ==
  ASSUME Types, Accounts, NEW p \in Profilers, Reset(p)
  PROVE  Accounts'
<1>1. /\ UNCHANGED <<ring, taken, overflowed, discarded, stored, wpc, buf, pos>>
      /\ counts' = [s \in Samples |-> 0]
      /\ cleared' = cleared \union {s \in Samples : counts[s] > 0}
  BY DEF Reset, kernel, worker, sweep, books, NoCounts
<1>2. \A t \in Tids : \A i : Parsed(t, i)' <=> Parsed(t, i)
  BY <1>1 DEF Parsed
<1>3. \A s : Readings(s)' = Readings(s) /\ (Pending(s)' <=> Pending(s))
  BY <1>1 DEF Readings, Pending
<1>4. \A s \in Samples : /\ counts'[s] = 0 /\ (Noted(s)' => Noted(s))
                         /\ Noted(s) => Noted(s)' \/ s \in cleared'
  BY <1>1, <1>3 DEF Noted
<1>5. \A t \in Tids : \A i \in 1 .. Len(ring[t]) : ring[t][i] # 0 => ring[t][i] \in Samples
  BY RecordIn, PostmanAssumption DEF PostmanAssumption, Types, RingTypes, Samples
<1>6. InOnePlace'
  BY <1>1 DEF Accounts, InOnePlace
<1>7. NotedOnce'
  BY <1>1, <1>3, <1>4 DEF Accounts, NotedOnce
<1>8. NotedWhenParsed'
  BY <1>1, <1>2, <1>4, <1>5 DEF Accounts, NotedWhenParsed
<1>9. ParsedIsNoted'
  BY <1>1, <1>2, <1>4, <1>5 DEF Accounts, ParsedIsNoted
<1>10. NothingSkipped'
  <2>1. \A s \in 1 .. taken : s \in Samples
    BY PostmanAssumption DEF PostmanAssumption, Types, RingTypes, Samples
  <2>2. QED
    BY <1>1, <1>3, <2>1 DEF Accounts, NothingSkipped
<1>11. QED
  BY <1>6, <1>7, <1>8, <1>9, <1>10 DEF Accounts

(* The user's calls, and what happens inside start() and stop(), where a worker
   that reads a buffer is left to finish. *)
LEMMA UserAccounts ==
  ASSUME Types, WorkerInv, Accounts,
         UserProceeds \/ \E p \in Profilers : UserCalls(p)
  PROVE  Accounts'
<1>1. ASSUME NEW p \in Profilers, Read(p) \/ Destruct(p) PROVE Accounts'
  <2>1. Store(p) /\ UNCHANGED <<ring, taken, overflowed, discarded, cleared, wpc, buf, pos>>
    BY <1>1 DEF Read, Destruct, kernel, worker, sweep, books
  <2>2. QED
    BY <2>1, StoreAccounts
<1>2. ASSUME NEW p \in Profilers, Reset(p) PROVE Accounts'
  BY <1>2, ResetAccounts
<1>3. ASSUME NEW p \in Profilers, Construct(p) \/ Disable(p) \/ Enable(p) PROVE Accounts'
  <2>1. UNCHANGED <<ring, taken, overflowed, discarded, counts, stored, cleared, wpc, buf, pos>>
    BY <1>3 DEF Construct, Disable, Enable, kernel, worker, sweep, books
  <2>2. QED
    BY <2>1, QuietStep DEF Parsed
<1>4. CASE UserProceeds
  <2>1. /\ UNCHANGED <<ring, taken, overflowed, discarded, counts, stored, cleared, buf, pos>>
        /\ wpc' = wpc \/ (wpc # "parse" /\ wpc' # "parse")
    BY <1>4 DEF WorkerInv, UserProceeds, StartCas, StartClear, StartSpawn, Stop, StopJoin,
         JoinsWorker, kernel, worker, sweep, books, profilers
  <2>2. QED
    BY <2>1, QuietStep DEF Parsed
<1>5. QED
  BY <1>1, <1>2, <1>3, <1>4 DEF UserCalls

(* Every step of user, worker, kernel and target keeps the accounts straight. *)
LEMMA AccountsStep == Types /\ WorkerInv /\ Accounts /\ [Next]_vars => Accounts'
<1> SUFFICES ASSUME Types, WorkerInv, Accounts, [Next]_vars PROVE Accounts'
  OBVIOUS
<1>1. CASE UNCHANGED vars
  <2>1. UNCHANGED <<ring, taken, overflowed, discarded, counts, stored, cleared, wpc, buf, pos>>
    BY <1>1 DEF vars, postman, profilers, kernel, worker, sweep, books
  <2>2. QED
    BY <2>1, QuietStep DEF Parsed
<1>2. QED
  BY <1>1, WorldAccounts, WorkAccounts, UserAccounts DEF Next

(* Before the first sample every account is empty. *)
LEMMA AccountsInvariant == Spec => []Accounts
<1>1. Init => Accounts
  <2> SUFFICES ASSUME Init PROVE Accounts
    OBVIOUS
  <2>1. /\ \A t \in Tids : ring[t] = <<>>
        /\ taken = 0 /\ wpc = "none" /\ \A s \in Samples : counts[s] = 0
        /\ \A p \in Profilers : \A s \in Samples : stored[p][s] = 0
    BY DEF Init, PostmanInit
  <2>2. \A s \in Samples : Readings(s) = {} /\ ~Noted(s)
    BY <2>1 DEF Readings, Noted
  <2>3. InOnePlace /\ NotedWhenParsed /\ ParsedIsNoted /\ NothingSkipped
    BY <2>1, <2>2 DEF InOnePlace, NotedWhenParsed, ParsedIsNoted, NothingSkipped
  <2>4. NotedOnce
    BY <2>1, <2>2 DEF NotedOnce
  <2>5. QED
    BY <2>3, <2>4 DEF Accounts
<1>2. QED
  BY <1>1, AccountsStep, TypesInvariant, WorkerInvariant, PTL DEF Spec

(* A sample is counted at most once and reported by at most one profiler,
   whatever the kernel writes between the reader's look at data_head and its
   store of data_tail, and across a stop and a restart (threadbuffer.hh). *)
THEOREM CountedOnceOnly == Spec => []NothingCountedTwice
<1>1. Accounts => NothingCountedTwice
  <2> SUFFICES ASSUME Accounts, NEW s \in Samples
               PROVE  /\ counts[s] <= 1 /\ \A p \in Profilers : stored[p][s] <= 1
                      /\ Cardinality(Readings(s)) <= IF counts[s] = 1 THEN 0 ELSE 1
    BY DEF NothingCountedTwice
  <2>1. /\ counts[s] <= 1 /\ (counts[s] = 1 => Readings(s) = {})
        /\ \A p \in Profilers : stored[p][s] <= 1
        /\ \A p, q \in Readings(s) : p = q
    BY DEF Accounts, NotedOnce
  <2>2. CASE Readings(s) = {}
    <3>1. Cardinality(Readings(s)) = 0
      BY <2>2, FS_EmptySet
    <3>2. QED
      BY <2>1, <3>1
  <2>3. CASE Readings(s) # {}
    <3>1. PICK p : Readings(s) = {p}
      BY <2>1, <2>3
    <3>2. Cardinality(Readings(s)) = 1
      BY <3>1, FS_Singleton
    <3>3. QED
      BY <2>1, <2>3, <3>2
  <2>4. QED
    BY <2>2, <2>3
<1>2. QED
  BY <1>1, AccountsInvariant, PTL

(* A sample for which its ring had room is never skipped: it waits there, is
   counted, was read by a profiler or cleared by reset(), or went with the ring
   of a thread that ended or of a former target (postman.hh). *)
THEOREM EverySampleAccountedFor == Spec => []NothingSkipped
<1>1. Accounts => NothingSkipped
  BY DEF Accounts
<1>2. QED
  BY <1>1, AccountsInvariant, PTL
=============================================================================
