------------------------- MODULE SampleStoreProofs -------------------------
(***************************************************************************)
(* What SampleStore promises for every flush period, however long it runs  *)
(* and however much is counted, as long as the user leaves the readings to *)
(* the sampler while there is one, and readings reset the counters.        *)
(***************************************************************************)
EXTENDS SampleStore, TLAPS

OneReader == ~UserReads /\ ResetAfterRead

-----------------------------------------------------------------------------
(* The inductive invariant. *)

(* The user's thread and the sampler never read at the same time. *)
Turns ==
  /\ ~mode.sampled => pc["sampler"] = "idle"
  /\ pc["main"] # "idle" =>
       /\ pc["sampler"] = "idle"
       /\ \/ phase = "last"
          \/ phase = "open" /\ ~mode.sampled
  /\ phase \in {"last", "saving", "closed"} => pc["sampler"] = "idle"
  /\ phase = "ctor" => Source = "perf" /\ ready = 0
  /\ Source # "gpu_power" /\ ReturnsAtOnce => ~mode.sampled

(* The places a reader passes depend on the kind of profiler. *)
Stations ==
  \A t \in Readers :
    /\ pc[t] = "reset" => Source \in {"perf", "rapl"}
    /\ pc[t] \in {"count", "resume"} => Source = "perf"
    /\ pc[t] = "delta" => Source = "disk" \/ Source \in Levels

(* What the meter shows beyond what was read of it is what is unread. *)
MeterShowsUnread ==
  /\ Source \in {"perf", "rapl"} /\ (\A t \in Readers : pc[t] # "reset")
       => hw = unread
  /\ (Source = "disk" \/ Source \in Levels) /\ (\A t \in Readers : pc[t] # "delta")
       => hw = last_snapshot + unread
  /\ \A t \in Readers : pc[t] = "delta" =>
       /\ val[t] >= 0 /\ hw = val[t] + unread
       /\ Source = "disk" => val[t] >= last_snapshot

ReportNatural == Source \in Counters => Aggregate.val >= 0

CountInv ==
  TypeOK /\ Turns /\ Stations /\ MeterShowsUnread /\ ReportNatural /\ CountedOnce

(* While a sample is stored and the start not yet moved, the durations     *)
(* reach to the reader's end.                                              *)
TimeInv ==
  /\ start <= now /\ ready <= now
  /\ \A t \in Readers : end[t] <= now
  /\ TimeCoveredOnce
  /\ \A t \in Readers :
       pc[t] = "advance" => /\ Aggregate.dur >= end[t] - ready
                            /\ Aggregate.dur <= end[t]
(* The destructor's own reading picks up all that was due when it began. *)
Fetched == {"reset", "resume", "delta", "push", "advance"}

DueInv ==
  /\ phase # "closed" => saved = {}
  /\ phase \in {"joining", "last", "saving"} => ~ReturnsAtOnce
  /\ Source \in Counters /\ is_enabled =>
       /\ phase \in {"joining", "last"} => due <= counted
       /\ phase = "last" /\ pc["main"] \in Fetched =>
            due <= Aggregate.val + InFlight("main") + lost
       /\ phase = "saving" => due <= Aggregate.val + lost

(* Counters that are being read stand still, unless somebody has started   *)
(* them meanwhile, so that their reset finds nothing unread.               *)
LossInv ==
  /\ phase = "ctor" => ~disturbed
  /\ Source \notin {"perf", "rapl", "later_gpu_temperature"} => lost = 0
  /\ Source = "perf" /\ ~disturbed =>
       /\ lost = 0
       /\ \A t \in Readers :
            /\ pc[t] \in {"count", "reset", "resume"} => ~running
            /\ pc[t] = "reset" => unread = 0

(* Until when the samples reach, once a reading that is being stored has   *)
(* moved the start.                                                        *)
Reach ==
  IF pc["main"] = "advance" THEN end["main"]
  ELSE IF pc["sampler"] = "advance" THEN end["sampler"] ELSE start

(* A GPU's readings are a period apart, also the sampler's last and the    *)
(* destructor's, so that each adds no more energy than the time since the  *)
(* one before allows; the first comes on top.                              *)
EnergyInv ==
  Source \in Powers =>
    /\ hw <= MaxLevel /\ last_snapshot <= MaxLevel /\ ready = 0
    /\ \A t \in Readers :
         /\ val[t] <= MaxLevel
         /\ pc[t] # "idle" => end[t] >= start
    /\ Aggregate.val >= 0
    /\ Source # "gpu_power" => Aggregate.val <= MaxLevel * Aggregate.dur
    /\ Source = "gpu_power" =>
         /\ Aggregate.val <= MaxLevel * (Reach + SamplingPeriod)
         /\ ~mode.sampled => Aggregate.val = 0 /\ last_snapshot = 0 /\ \A t \in Readers : val[t] = 0
         /\ \A t \in Readers : pc[t] # "idle" /\ mode.sampled => wake <= end[t]
         /\ phase = "last" /\ mode.sampled => wake <= now
         /\ phase # "saving" /\ phase # "closed" /\ (\A t \in Readers : pc[t] # "advance")
              => Aggregate.val <= MaxLevel * wake

-----------------------------------------------------------------------------
(* Typing and counting hold at the start. *)
LEMMA CountInit == Init => CountInv
<1> SUFFICES ASSUME Init PROVE CountInv
  OBVIOUS
<1>1. running \in BOOLEAN
  BY Zenon DEF Init
<1>2. mode \in [source : Sources, sampled : BOOLEAN, screenshot : BOOLEAN]
  BY DEF Init
<1>3. TypeOK
  <2>1. /\ is_enabled \in BOOLEAN /\ disturbed \in BOOLEAN
        /\ phase \in {"ctor", "open"}
    BY DEF Init
  <2>2. /\ hw \in Nat /\ last_snapshot \in Nat
        /\ counted = (IF Source \in Levels THEN hw - last_snapshot ELSE 0)
        /\ unread = counted
    BY StoreAssumption DEF StoreAssumption, Init, Unreadable
  <2>3. /\ now = 0 /\ start = 0 /\ ready = 0 /\ buffered_duration_ms = 0
        /\ read_buffer = Empty /\ compacted = Empty /\ saved = {}
        /\ lost = 0 /\ due = 0 /\ wake = 0
        /\ pc = [t \in Readers |-> "idle"]
        /\ end = [t \in Readers |-> 0] /\ val = [t \in Readers |-> 0]
    BY DEF Init
  <2>4. QED
    BY <1>1, <1>2, <2>1, <2>2, <2>3 DEF TypeOK, Empty, Places
<1>4. Turns /\ Stations
  <2>1. /\ pc = [t \in Readers |-> "idle"] /\ ready = 0
        /\ phase = IF Source = "perf" THEN "ctor" ELSE "open"
    BY DEF Init
  <2>2. ReturnsAtOnce => ~mode.sampled
    BY DEF Init, ReturnsAtOnce
  <2>3. QED
    BY <2>1, <2>2 DEF Turns, Stations, Readers
<1>5. MeterShowsUnread /\ ReportNatural
  BY <1>3 DEF TypeOK, Init, MeterShowsUnread, ReportNatural, Aggregate, Empty, Readers,
         Source, Counters, Powers, Levels
<1>6. CountedOnce
  BY <1>3 DEF TypeOK, Init, CountedOnce, Aggregate, InFlight, Empty, Readers
<1>7. QED
  BY <1>3, <1>4, <1>5, <1>6 DEF CountInv

(* No step counts twice or forgets: one case per action. *)
LEMMA CountStep ==
  OneReader /\ CountInv /\ [Next]_vars => CountInv'
<1> SUFFICES ASSUME OneReader, CountInv, [Next]_vars PROVE CountInv'
  OBVIOUS
<1> USE StoreAssumption DEF StoreAssumption
<1> USE DEF OneReader, CountInv, TypeOK, Turns, Stations, MeterShowsUnread,
            ReportNatural, CountedOnce, Aggregate, InFlight, Delta, Readers, Places,
            Source, Counters, Levels, ReturnsAtOnce, FindDomains,
            config, meter, store, reader, books, life
<1>1. CASE Tick
  BY <1>1 DEF Tick
<1>2. CASE Count
  BY <1>2 DEF Count
<1>3. CASE PowerChanges
  BY <1>3 DEF PowerChanges, Powers
<1>4. CASE LevelChanges
  <2>1. /\ hw' \in Nat /\ Source \in Levels
        /\ counted' = counted + (hw' - hw) /\ unread' = unread + (hw' - hw)
        /\ UNCHANGED <<config, running, last_snapshot, store, reader, lost, life, now>>
    BY <1>4 DEF LevelChanges
  <2>2. counted' \in Int /\ unread' \in Int
    BY <2>1
  <2>3. TypeOK'
    BY <2>1, <2>2
  <2>4. MeterShowsUnread' /\ CountedOnce'
    BY <2>1, <2>2
  <2>5. QED
    BY <2>1, <2>3, <2>4
<1>5. ASSUME NEW t \in Readers, TakeEnd(t) PROVE CountInv'
  BY <1>5 DEF TakeEnd, MayRead, SamplerLoops, Goto
<1>6. ASSUME NEW t \in Readers, ReadNothing(t) PROVE CountInv'
  BY <1>6 DEF ReadNothing, Goto
<1>7. ASSUME NEW t \in Readers, perf_read(t) PROVE CountInv'
  <2>1. CASE SetCounters(t, "read", "count", CountWhileRead)
    BY <1>7, <2>1 DEF perf_read, SetCounters, CountWhileRead, Goto
  <2>2. CASE Fetch(t, "count", "reset")
    BY <1>7, <2>2 DEF perf_read, Fetch, Goto
  <2>3. CASE ResetMeter(t, "resume")
    BY <1>7, <2>3 DEF perf_read, ResetMeter, MeterAfterReset, Goto
  <2>4. CASE SetCounters(t, "resume", "push", TRUE)
    BY <1>7, <2>4 DEF perf_read, SetCounters, Goto
  <2>5. QED
    BY <1>7, <2>1, <2>2, <2>3, <2>4 DEF perf_read
<1>8. ASSUME NEW t \in Readers, rapl_read(t) PROVE CountInv'
  <2>1. CASE Fetch(t, "read", "reset")
    BY <1>8, <2>1 DEF rapl_read, Fetch, Goto
  <2>2. CASE ResetMeter(t, "push")
    BY <1>8, <2>2 DEF rapl_read, ResetMeter, MeterAfterReset, Goto
  <2>3. QED
    BY <1>8, <2>1, <2>2 DEF rapl_read
<1>9. ASSUME NEW t \in Readers, disk_read(t) PROVE CountInv'
  <2>1. CASE Fetch(t, "read", "delta")
    BY <1>9, <2>1 DEF disk_read, Fetch, Delta, Goto
  <2>2. CASE TakeDelta(t)
    BY <1>9, <2>2 DEF disk_read, TakeDelta, Delta, Goto
  <2>3. QED
    BY <1>9, <2>1, <2>2 DEF disk_read
<1>10. ASSUME NEW t \in Readers, meter_read(t) \/ gpu_power_read(t) PROVE CountInv'
  <2>1. PICK level \in {hw, Unreadable, last_snapshot} :
          /\ Source \notin Counters \union Levels
          /\ FetchPower(t, level) /\ last_snapshot' \in {last_snapshot, level}
    BY <1>10 DEF meter_read, gpu_power_read
  <2>2. level \in Nat
    BY DEF Unreadable
  <2>3. QED
    BY <2>1, <2>2 DEF FetchPower, Goto
<1>11. ASSUME NEW t \in Readers, temperature_read(t) PROVE CountInv'
  <2>1. CASE FetchLevel(t)
    <3>1. PICK level \in {hw, Unreadable} :
            /\ val' = [val EXCEPT ![t] = level] /\ unread' = hw - level
      BY <2>1 DEF FetchLevel
    <3>2. level \in Nat
      BY DEF Unreadable
    <3>3. QED
      BY <1>11, <2>1, <3>1, <3>2 DEF temperature_read, FetchLevel, Goto
  <2>2. CASE TakeDelta(t)
    <3>1. /\ Source \in Levels /\ pc[t] = "delta" /\ pc' = [pc EXCEPT ![t] = "push"]
          /\ val' = [val EXCEPT ![t] = val[t] - last_snapshot] /\ last_snapshot' = val[t]
          /\ UNCHANGED <<config, running, hw, store, end, wake, books, life, now>>
      BY <1>11, <2>2 DEF temperature_read, TakeDelta, Goto
    <3>2. val[t] \in Nat /\ val[t] - last_snapshot \in Int
      BY <3>1
    <3>3. TypeOK'
      BY <3>1, <3>2
    <3>4. Turns' /\ Stations' /\ MeterShowsUnread'
      BY <3>1, <3>2
    <3>5. ReportNatural' /\ CountedOnce'
      BY <3>1, <3>2
    <3>6. QED
      BY <3>3, <3>4, <3>5
  <2>3. CASE LoseDelta(t)
    <3>1. /\ Source \in Levels /\ pc[t] = "delta" /\ pc' = [pc EXCEPT ![t] = "push"]
          /\ val' = [val EXCEPT ![t] = 0] /\ last_snapshot' = val[t]
          /\ lost' = lost + (val[t] - last_snapshot)
          /\ UNCHANGED <<config, running, hw, store, end, wake, counted, unread, life, now>>
      BY <1>11, <2>3 DEF temperature_read, LoseDelta, Goto
    <3>2. val[t] \in Nat /\ val[t] - last_snapshot \in Int
      BY <3>1
    <3>3. TypeOK'
      BY <3>1, <3>2
    <3>4. Turns' /\ Stations' /\ MeterShowsUnread'
      BY <3>1, <3>2
    <3>5. ReportNatural' /\ CountedOnce'
      BY <3>1, <3>2
    <3>6. QED
      BY <3>3, <3>4, <3>5
  <2>4. QED
    BY <1>11, <2>1, <2>2, <2>3 DEF temperature_read
<1>12. ASSUME NEW t \in Readers, Push(t) PROVE CountInv'
  <2> DEFINE d == end[t] - start
             a == Amount(val[t], d)
  <2>1. d \in Int /\ a \in Int /\ (Source \in Counters \union Levels => a = val[t])
    BY DEF Amount, PeriodOf, Powers
  <2>2. /\ read_buffer' \in [dur : Int, val : Int]
        /\ compacted' \in [dur : Int, val : Int]
        /\ buffered_duration_ms' \in Int
        /\ compacted'.val + read_buffer'.val = compacted.val + read_buffer.val + a
    <3> HIDE DEF a, d
    <3>1. on_sample_stored(d, [dur |-> read_buffer.dur + d, val |-> read_buffer.val + a])
      BY <1>12 DEF Push, a, d
    <3>2. QED
      BY <2>1, <3>1 DEF on_sample_stored, BufferedAfterFlush, Empty
  <2>3. /\ pc[t] = "push" /\ Goto(t, "advance")
        /\ UNCHANGED <<mode, running, hw, last_snapshot, start, end, val, wake, counted, unread, lost,
                       phase, is_enabled, saved, due, ready, disturbed, now>>
    BY <1>12 DEF Push
  <2> HIDE DEF a, d
  <2>4. TypeOK'
    BY <2>2, <2>3 DEF Goto
  <2>5. Turns' /\ Stations' /\ MeterShowsUnread'
    BY <2>3 DEF Goto
  <2>6. ReportNatural' /\ CountedOnce'
    BY <2>1, <2>2, <2>3 DEF Goto
  <2>7. QED
    BY <2>4, <2>5, <2>6
<1>13. ASSUME NEW t \in Readers, Advance(t) PROVE CountInv'
  <2>1. wake' \in Nat /\ start' \in Nat
    BY <1>13 DEF Advance, NextStart, Sleep
  <2>2. /\ phase' = (IF phase = "last" THEN "saving" ELSE phase)
        /\ pc[t] = "advance" /\ pc' = [pc EXCEPT ![t] = "idle"]
        /\ end' = [end EXCEPT ![t] = 0] /\ val' = [val EXCEPT ![t] = 0]
        /\ UNCHANGED <<config, meter, read_buffer, buffered_duration_ms, compacted,
                       books, is_enabled, saved, due, ready, disturbed, now>>
    BY <1>13 DEF Advance, Goto
  <2>3. QED
    BY <2>1, <2>2
<1>14. CASE Ready
  BY <1>14 DEF Ready
<1>15. CASE Disable \/ Enable
  <2>1. Source \notin FindDomains \/ Source = "gpu_power"
    BY <1>15 DEF Disable, Enable, Disables
  <2>2. running' \in BOOLEAN /\ is_enabled' \in BOOLEAN /\ disturbed' \in BOOLEAN
    BY <1>15, Zenon DEF Disable, Enable
  <2>3. UNCHANGED <<config, hw, last_snapshot, store, reader, books, phase, saved, due, ready, now>>
    BY <1>15 DEF Disable, Enable
  <2>4. QED
    BY <2>1, <2>2, <2>3
<1>16. CASE Reset
  BY <1>16 DEF Reset, UserCalls
<1>17. CASE Destroy
  <2>1. running' \in BOOLEAN
    BY <1>17, Zenon DEF Destroy
  <2>2. /\ phase = "open" /\ pc["main"] = "idle" /\ due' = counted
        /\ phase' \in {"joining", "closed", "terminated"}
        /\ phase' = "closed" => pc["sampler"] = "idle"
        /\ UNCHANGED <<mode, hw, last_snapshot, start, read_buffer, buffered_duration_ms,
                       compacted, pc, end, val, wake, counted, unread, lost, is_enabled, saved,
                       ready, disturbed, now>>
    BY <1>17 DEF Destroy, UserCalls, Terminates
  <2>3. QED
    BY <2>1, <2>2
<1>18. CASE Join
  BY <1>18 DEF Join, SamplerEnded
<1>19. CASE Save
  BY <1>19 DEF Save
<1>20. CASE UNCHANGED vars
  BY <1>20 DEF vars
<1>21. QED
  BY <1>1, <1>2, <1>3, <1>4, <1>5, <1>6, <1>7, <1>8, <1>9, <1>10, <1>11, <1>12, <1>13,
     <1>14, <1>15, <1>16, <1>17, <1>18, <1>19, <1>20
  DEF Next, read_and_store, read, Done

-----------------------------------------------------------------------------
(* Flushing. *)

(* Storing a sample keeps the buffer's two lengths equal and below the      *)
(* period; no other step touches them.                                     *)
LEMMA FlushStep ==
  TypeOK /\ FlushKeepsUp /\ [Next]_vars => FlushKeepsUp'
<1> SUFFICES ASSUME TypeOK, FlushKeepsUp, [Next]_vars PROVE FlushKeepsUp'
  OBVIOUS
<1>1. ASSUME NEW t \in Readers, Push(t) PROVE FlushKeepsUp'
  <2> DEFINE d == end[t] - start
             stored == [dur |-> read_buffer.dur + d,
                        val |-> read_buffer.val + Amount(val[t], d)]
  <2>1. on_sample_stored(d, stored) /\ mode' = mode
    BY <1>1 DEF Push, config
  <2>2. d \in Int /\ stored.dur = read_buffer.dur + d
    BY DEF TypeOK
  <2> HIDE DEF d, stored
  <2>3. QED
    BY <2>1, <2>2, StoreAssumption
    DEF StoreAssumption, TypeOK, FlushKeepsUp, on_sample_stored, BufferedAfterFlush, Empty
<1>2. ASSUME NEW t \in Readers, TakeEnd(t) \/ read(t) \/ Advance(t)
      PROVE UNCHANGED <<mode, read_buffer, buffered_duration_ms>>
  BY <1>2 DEF TakeEnd, read, Advance, ReadNothing, perf_read, rapl_read, disk_read,
     temperature_read, FetchLevel, LoseDelta,
     meter_read, gpu_power_read, FetchPower, Fetch, ResetMeter, SetCounters, TakeDelta, config, store
<1>3. CASE Tick \/ Count \/ PowerChanges \/ LevelChanges \/ Ready \/ Disable \/ Enable \/ Reset
           \/ Destroy \/ Join \/ Save \/ UNCHANGED vars
  <2>1. UNCHANGED <<mode, read_buffer, buffered_duration_ms>>
    BY <1>3 DEF Tick, Count, PowerChanges, LevelChanges, Ready, Disable, Enable, Reset, Destroy,
       Join, Save, vars, config, store
  <2>2. QED
    BY <2>1 DEF FlushKeepsUp
<1>4. QED
  BY <1>1, <1>2, <1>3 DEF Next, read_and_store, Done, FlushKeepsUp

-----------------------------------------------------------------------------
(* Time. *)

(* Storing a sample extends the covered time to the reader's end, and       *)
(* moving the start makes that the beginning of the next sample.           *)
LEMMA TimeStep ==
  OneReader /\ CountInv /\ FlushKeepsUp /\ TimeInv /\ [Next]_vars => TimeInv'
<1> SUFFICES ASSUME OneReader, CountInv, FlushKeepsUp, TimeInv, [Next]_vars PROVE TimeInv'
  OBVIOUS
<1> USE DEF OneReader, CountInv, TypeOK, Turns, TimeInv, TimeCoveredOnce, Quiet,
            Aggregate, Readers, Places, config, meter, store, reader, books, life
<1>1. CASE Tick
  BY <1>1 DEF Tick
<1>2. ASSUME NEW t \in Readers, TakeEnd(t) PROVE TimeInv'
  BY <1>2 DEF TakeEnd, MayRead, SamplerLoops, Goto
<1>3. ASSUME NEW t \in Readers, read(t) PROVE TimeInv'
  <2>1. /\ pc[t] \in {"read", "count", "reset", "delta", "resume"}
        /\ \E p \in Places \ {"advance"} : Goto(t, p)
        /\ UNCHANGED <<start, ready, now, end, compacted, read_buffer>>
    BY <1>3 DEF read, ReadNothing, perf_read, rapl_read, disk_read, meter_read,
       gpu_power_read, FetchPower, Fetch, ResetMeter, SetCounters, TakeDelta,
       temperature_read, FetchLevel, LoseDelta
  <2>2. QED
    BY <2>1 DEF Goto
<1>4. ASSUME NEW t \in Readers, Push(t) PROVE TimeInv'
  <2> DEFINE d == end[t] - start
             a == Amount(val[t], d)
             stored == [dur |-> read_buffer.dur + d, val |-> read_buffer.val + a]
  <2>1. /\ on_sample_stored(d, stored) /\ pc[t] = "push" /\ Goto(t, "advance")
        /\ UNCHANGED <<start, ready, now, end>>
    BY <1>4 DEF Push
  <2>2. d \in Int /\ stored.dur = read_buffer.dur + d
    OBVIOUS
  <2>3. compacted'.dur + read_buffer'.dur = compacted.dur + read_buffer.dur + d
    <3> HIDE DEF d, stored
    <3>1. QED
      BY <2>1, <2>2 DEF on_sample_stored, Empty, FlushKeepsUp
  <2>4. QED
    BY <2>1, <2>2, <2>3 DEF Goto
<1>5. ASSUME NEW t \in Readers, Advance(t) PROVE TimeInv'
  BY <1>5 DEF Advance, NextStart, Goto
<1>6. CASE Ready
  BY <1>6 DEF Ready
<1>7. CASE Count \/ PowerChanges \/ LevelChanges \/ Disable \/ Enable \/ Reset
           \/ Destroy \/ Join \/ Save \/ UNCHANGED vars
  <2>1. UNCHANGED <<start, ready, now, end, pc, compacted, read_buffer>>
    BY <1>7 DEF Count, PowerChanges, LevelChanges, Disable, Enable, Reset, Destroy, Join, Save, vars
  <2>2. QED
    BY <2>1
<1>8. QED
  BY <1>1, <1>2, <1>3, <1>4, <1>5, <1>6, <1>7 DEF Next, read_and_store, Done

-----------------------------------------------------------------------------
(* The last reading. *)

(* What was counted when the destructor began is fetched by its reading,    *)
(* then stored by it.                                                      *)
LEMMA DueStep ==
  OneReader /\ CountInv /\ CountInv' /\ DueInv /\ [Next]_vars => DueInv'
<1> SUFFICES ASSUME OneReader, CountInv, CountInv', DueInv, [Next]_vars PROVE DueInv'
  OBVIOUS
<1> USE DEF OneReader, CountInv, TypeOK, Turns, Stations, DueInv, Fetched, Readers, Source,
            Counters, Levels, ReturnsAtOnce, config, meter, store, reader, books, life
<1> DEFINE held == InFlight("main")
<1>0. /\ InFlight("main") \in Int /\ InFlight("sampler") \in Int
      /\ Source \in Counters => InFlight("sampler") >= 0
      /\ pc["sampler"] = "idle" => InFlight("sampler") = 0
      /\ Aggregate.val \in Int
  BY DEF InFlight, Delta, MeterShowsUnread, Aggregate
<1>1. CASE Tick \/ PowerChanges \/ LevelChanges \/ Ready \/ Join \/ UNCHANGED vars
  BY <1>1, <1>0 DEF Tick, PowerChanges, LevelChanges, Ready, Join, SamplerEnded, vars, Aggregate, InFlight, Delta
<1>2. CASE Count
  BY <1>2, <1>0 DEF Count, Aggregate, InFlight, Delta
<1>3. CASE Disable \/ Enable \/ Reset
  BY <1>3 DEF Disable, Enable, Reset, UserCalls
<1>4. CASE Destroy
  BY <1>4 DEF Destroy, UserCalls
<1>5. CASE Save
  BY <1>5 DEF Save
<1>6. ASSUME read_and_store("sampler") PROVE DueInv'
  <2>1. phase \notin {"last", "saving", "closed"}
    BY <1>6 DEF read_and_store, TakeEnd, MayRead, SamplerLoops, read, ReadNothing, perf_read,
       rapl_read, disk_read, meter_read, gpu_power_read, FetchPower, Fetch, ResetMeter, SetCounters, TakeDelta,
       temperature_read, FetchLevel, LoseDelta, Push, Advance
  <2>2. UNCHANGED <<mode, phase, is_enabled, saved, due, counted>>
    BY <1>6, <2>1 DEF read_and_store, TakeEnd, read, ReadNothing, perf_read,
       rapl_read, disk_read, meter_read, gpu_power_read, FetchPower, Fetch, ResetMeter, SetCounters, TakeDelta,
       temperature_read, FetchLevel, LoseDelta, Push, Advance
  <2>3. QED
    BY <2>1, <2>2
<1>7. ASSUME read_and_store("main") PROVE DueInv'
  <2>1. CASE TakeEnd("main")
    BY <2>1 DEF TakeEnd, Goto, Aggregate
  <2>2. CASE ReadNothing("main")
    BY <2>2 DEF ReadNothing, Goto, Aggregate
  <2>3. ASSUME NEW from \in {"read", "count"}, NEW to \in Fetched, Fetch("main", from, to)
        PROVE DueInv'
    <3>1. /\ counted' = counted /\ unread' = 0 /\ lost' = lost
          /\ pc'["sampler"] = pc["sampler"]
          /\ UNCHANGED <<mode, phase, is_enabled, saved, due, compacted, read_buffer>>
      BY <2>3 DEF Fetch, Goto
    <3>2. pc["main"] # "idle"
      BY <2>3 DEF Fetch
    <3>3. pc'["sampler"] = "idle" /\ InFlight("sampler")' = 0
      BY <3>1, <3>2 DEF InFlight
    <3>4. InFlight("main")' \in Int /\ Aggregate'.val = Aggregate.val
      BY <3>1 DEF InFlight, Delta, Aggregate
    <3>5. Source \in Counters => counted' = Aggregate'.val + InFlight("main")' + lost'
      BY <3>1, <3>3, <3>4, <1>0 DEF CountedOnce
    <3>6. QED
      BY <3>1, <3>4, <3>5
  <2>4. ASSUME NEW to \in {"resume", "push"}, ResetMeter("main", to) PROVE DueInv'
    BY <2>4, <1>0 DEF ResetMeter, Goto, Aggregate, InFlight
  <2>5. ASSUME NEW from \in {"read", "resume"}, NEW to \in {"count", "push"}, NEW on \in BOOLEAN,
               (from = "read") = (to = "count"), SetCounters("main", from, to, on)
        PROVE DueInv'
    BY <2>5, <1>0 DEF SetCounters, Goto, Aggregate, InFlight
  <2>6. CASE TakeDelta("main")
    BY <2>6, <1>0 DEF TakeDelta, Goto, Aggregate, InFlight, Delta
  <2>7. CASE Push("main")
    <3> DEFINE d == end["main"] - start
               a == Amount(val["main"], d)
    <3>1. /\ UNCHANGED <<mode, counted, lost, due, saved, phase, is_enabled>>
          /\ pc["main"] = "push" /\ pc'["main"] = "advance"
          /\ on_sample_stored(d, [dur |-> read_buffer.dur + d, val |-> read_buffer.val + a])
      BY <2>7 DEF Push, Goto
    <3>2. d \in Int /\ a \in Int /\ (Source \in Counters => a = val["main"])
      BY StoreAssumption DEF StoreAssumption, Amount, PeriodOf, Powers, Counters
    <3>3. Aggregate'.val = Aggregate.val + a
      <4> HIDE DEF a, d
      <4>1. QED
        BY <3>1, <3>2 DEF on_sample_stored, Empty, Aggregate
    <3>4. InFlight("main") = val["main"] /\ InFlight("main")' = 0
      BY <3>1 DEF InFlight
    <3>5. QED
      BY <3>1, <3>2, <3>3, <3>4, <1>0
  <2>8. CASE Advance("main")
    BY <2>8, <1>0 DEF Advance, Goto, Aggregate, InFlight
  <2>9. ASSUME Source \in Levels, FetchLevel("main") \/ LoseDelta("main") PROVE DueInv'
    BY <2>9 DEF FetchLevel, LoseDelta
  <2>10. ASSUME Source \notin Counters, NEW level, FetchPower("main", level) PROVE DueInv'
    BY <2>10 DEF FetchPower
  <2>11. QED
    BY <1>7, <2>1, <2>2, <2>3, <2>4, <2>5, <2>6, <2>7, <2>8, <2>9, <2>10
    DEF read_and_store, read, perf_read, rapl_read, disk_read, meter_read, gpu_power_read,
        temperature_read, CountWhileRead
<1>8. QED
  BY <1>1, <1>2, <1>3, <1>4, <1>5, <1>6, <1>7 DEF Next, Done

-----------------------------------------------------------------------------
(* What is lost. *)

(* Nothing is lost yet and nobody reads. *)
LEMMA LossInit == Init => LossInv
  BY DEF Init, LossInv, Readers

(* Only a step of the kinds that may lose something changes what is lost.  *)
LEMMA LossStep ==
  OneReader /\ CountInv /\ LossInv /\ [Next]_vars => LossInv'
<1> SUFFICES ASSUME OneReader, CountInv, LossInv, [Next]_vars PROVE LossInv'
  OBVIOUS
<1> USE DEF OneReader, CountInv, TypeOK, Turns, Stations, LossInv, Readers, Source, Places,
            Levels, config, meter, store, reader, books, life
<1>1. CASE Tick \/ PowerChanges \/ Join \/ Save \/ UNCHANGED vars
  BY <1>1 DEF Tick, PowerChanges, Join, Save, vars
<1>2. CASE Count
  BY <1>2 DEF Count
<1>3. CASE LevelChanges
  BY <1>3 DEF LevelChanges
<1>4. CASE Ready \/ Enable
  <2>1. pc["main"] = "idle" /\ UNCHANGED <<mode, lost, unread, pc>> /\ phase' = "open"
    BY <1>4 DEF Ready, Enable, UserCalls
  <2>2. ~disturbed' => ~disturbed /\ pc["sampler"] = "idle"
    BY <1>4, Zenon DEF Ready, Enable, LossInv
  <2>3. QED
    BY <2>1, <2>2
<1>5. CASE Disable
  BY <1>5 DEF Disable
<1>6. CASE Reset
  BY <1>6 DEF Reset
<1>7. CASE Destroy
  <2>1. /\ Source = "perf" => ~running'
        /\ phase' # "ctor"
        /\ UNCHANGED <<mode, lost, unread, pc, disturbed>>
    BY <1>7 DEF Destroy
  <2>2. QED
    BY <2>1
<1>8. ASSUME NEW t \in Readers, TakeEnd(t) \/ ReadNothing(t) \/ Push(t) \/ Advance(t) PROVE LossInv'
  BY <1>8 DEF TakeEnd, ReadNothing, Push, Advance, Goto
<1>9. ASSUME NEW t \in Readers, perf_read(t) PROVE LossInv'
  <2>1. CASE SetCounters(t, "read", "count", CountWhileRead)
    BY <1>9, <2>1 DEF perf_read, SetCounters, CountWhileRead, Goto
  <2>2. CASE Fetch(t, "count", "reset")
    BY <1>9, <2>2 DEF perf_read, Fetch, Goto
  <2>3. CASE ResetMeter(t, "resume")
    BY <1>9, <2>3 DEF perf_read, ResetMeter, Goto
  <2>4. CASE SetCounters(t, "resume", "push", TRUE)
    BY <1>9, <2>4 DEF perf_read, SetCounters, Goto
  <2>5. QED
    BY <1>9, <2>1, <2>2, <2>3, <2>4 DEF perf_read
<1>10. ASSUME NEW t \in Readers, rapl_read(t) PROVE LossInv'
  BY <1>10 DEF rapl_read, Fetch, ResetMeter
<1>11. ASSUME NEW t \in Readers, disk_read(t) \/ meter_read(t) \/ gpu_power_read(t) PROVE LossInv'
  BY <1>11 DEF disk_read, Fetch, TakeDelta, meter_read, gpu_power_read, FetchPower
<1>12. ASSUME NEW t \in Readers, temperature_read(t) PROVE LossInv'
  BY <1>12 DEF temperature_read, FetchLevel, TakeDelta, LoseDelta, SnapshotTooEarly
<1>13. QED
  BY <1>1, <1>2, <1>3, <1>4, <1>5, <1>6, <1>7, <1>8, <1>9, <1>10, <1>11, <1>12
  DEF Next, read_and_store, read, Done

-----------------------------------------------------------------------------
(* Energy. *)

(* Nothing has been used yet. *)
LEMMA EnergyInit == Init => EnergyInv
<1> SUFFICES ASSUME Init, Source \in Powers PROVE EnergyInv
  BY DEF EnergyInv
<1>1. /\ hw = MaxLevel /\ last_snapshot \in {hw, Unreadable} /\ ready = 0 /\ wake = 0 /\ start = 0
      /\ Source = "gpu_power" => last_snapshot = Unreadable
      /\ pc = [t \in Readers |-> "idle"] /\ val = [t \in Readers |-> 0]
      /\ read_buffer = Empty /\ compacted = Empty /\ phase # "last"
  BY DEF Init
<1>2. QED
  BY <1>1, StoreAssumption DEF StoreAssumption, EnergyInv, Unreadable, Aggregate, Empty, Reach, Readers

LEMMA Monotone ==
  ASSUME NEW c \in Nat, NEW a \in Int, NEW b \in Int, a <= b
  PROVE  c * a <= c * b
OBVIOUS

LEMMA MonotoneLeft ==
  ASSUME NEW c \in Nat, NEW a \in Nat, NEW b \in Nat, a <= b
  PROVE  0 <= a * c /\ a * c <= b * c
<1>1. a * c >= 0 /\ (b - a) * c >= 0
  OBVIOUS
<1>2. QED
  BY <1>1

(* A stored reading adds at most what the highest level would have used in *)
(* its duration, or in a period.                                           *)
LEMMA EnergyStep ==
  OneReader /\ CountInv /\ FlushKeepsUp /\ TimeInv /\ EnergyInv /\ [Next]_vars => EnergyInv'
<1> SUFFICES ASSUME OneReader, CountInv, FlushKeepsUp, TimeInv, EnergyInv, [Next]_vars,
                    Source' \in Powers
             PROVE  EnergyInv'
  BY DEF EnergyInv
<1>1. Source = Source' /\ Source \in Powers /\ mode' = mode
  <2>1. mode' = mode
    BY DEF Next, vars, config, Tick, Count, PowerChanges, LevelChanges, read_and_store, TakeEnd,
       read, ReadNothing, perf_read, rapl_read, disk_read, temperature_read, meter_read,
       gpu_power_read, FetchPower, Fetch, ResetMeter, SetCounters, TakeDelta, FetchLevel,
       LoseDelta, Push, Advance, Ready, Disable, Enable, Reset, Destroy, Join, Save, Done
  <2>2. QED
    BY <2>1 DEF Source
<1>2. Source \notin Counters \union Levels
  BY <1>1 DEF Powers, Counters, Levels
<1> USE StoreAssumption DEF StoreAssumption
<1> USE DEF OneReader, CountInv, TypeOK, Turns, Stations, EnergyInv, Readers, Places, Reach,
            Aggregate, config, meter, store, reader, books, life
<1>3. CASE PowerChanges
  BY <1>1, <1>3 DEF PowerChanges
<1>4. CASE Tick
  BY <1>1, <1>4 DEF Tick
<1>5. CASE Disable \/ Enable
  BY <1>1, <1>5 DEF Disable, Enable
<1>6. CASE Destroy
  BY <1>1, <1>6 DEF Destroy, UserCalls
<1>7. CASE Join
  BY <1>1, <1>7 DEF Join, SamplerEnded
<1>8. CASE Save
  BY <1>1, <1>8 DEF Save
<1>9. ASSUME NEW t \in Readers, TakeEnd(t) PROVE EnergyInv'
  BY <1>1, <1>9 DEF TakeEnd, MayRead, Awake, Goto, TimeInv
<1>10. ASSUME NEW t \in Readers, ReadNothing(t) PROVE EnergyInv'
  BY <1>1, <1>10 DEF ReadNothing, Goto
<1>11. ASSUME NEW t \in Readers, meter_read(t) \/ gpu_power_read(t) PROVE EnergyInv'
  <2>1. PICK level \in Nat :
          /\ level <= MaxLevel /\ FetchPower(t, level) /\ last_snapshot' \in {last_snapshot, level}
          /\ Source = "gpu_power" /\ ~mode.sampled => level = 0
    BY <1>1, <1>11 DEF meter_read, gpu_power_read, Unreadable
  <2>2. QED
    BY <1>1, <2>1 DEF FetchPower, Goto
<1>12. ASSUME NEW t \in Readers, Push(t) PROVE EnergyInv'
  <2> DEFINE d == end[t] - start
             a == Amount(val[t], d)
  <2>1. /\ on_sample_stored(d, [dur |-> read_buffer.dur + d, val |-> read_buffer.val + a])
        /\ pc[t] = "push" /\ pc' = [pc EXCEPT ![t] = "advance"]
        /\ UNCHANGED <<hw, last_snapshot, start, end, val, wake, ready, phase, now>>
    BY <1>12 DEF Push, Goto
  <2>2. /\ d \in Nat /\ val[t] \in Nat /\ val[t] <= MaxLevel
        /\ a = val[t] * PeriodOf(d) /\ PeriodOf(d) \in Nat
    BY <1>1, <1>2, <2>1 DEF Amount, PeriodOf
  <2>3. 0 <= a /\ a <= MaxLevel * PeriodOf(d) /\ a \in Int
    <3> HIDE DEF d, a
    <3>1. QED
      BY <2>2, MonotoneLeft
  <2>4. /\ Aggregate'.val = Aggregate.val + a
        /\ Aggregate'.dur = Aggregate.dur + d
    <3> HIDE DEF a, d
    <3>1. QED
      BY <2>1, <2>2, <2>3 DEF on_sample_stored, Empty, BufferedAfterFlush, FlushKeepsUp
  <2>5. \A u \in Readers : u # t => pc[u] = "idle"
    BY <2>1
  <2>6. Reach = start /\ Reach' = end[t]
    BY <2>1, <2>5
  <2>7. CASE Source # "gpu_power"
    <3>1. Aggregate'.val <= MaxLevel * Aggregate'.dur
      <4>1. a <= MaxLevel * d
        BY <2>3, <2>7 DEF PeriodOf
      <4>2. Aggregate.dur \in Int /\ Aggregate.val \in Int /\ Aggregate.val <= MaxLevel * Aggregate.dur
        BY <1>1, <2>7
      <4>3. QED
        <5> HIDE DEF a, d, Aggregate
        <5>1. QED
          BY <2>2, <2>3, <2>4, <4>1, <4>2
    <3>2. QED
      <4> HIDE DEF a, d
      <4>1. QED
        BY <1>1, <2>1, <2>3, <2>4, <2>7, <3>1
  <2>8. CASE Source = "gpu_power"
    <3>1. a <= MaxLevel * SamplingPeriod
      BY <2>3, <2>8 DEF PeriodOf
    <3>2. Aggregate'.val <= MaxLevel * (end[t] + SamplingPeriod)
      <4>1. CASE mode.sampled
        <5>1. wake <= end[t] /\ Aggregate.val <= MaxLevel * wake
          BY <1>1, <2>1, <2>5, <2>8, <4>1
        <5>2. MaxLevel * (wake + SamplingPeriod) <= MaxLevel * (end[t] + SamplingPeriod)
          BY <5>1, Monotone
        <5>3. Aggregate.val + a <= MaxLevel * (wake + SamplingPeriod)
          <6> HIDE DEF a, Aggregate
          <6>1. Aggregate.val \in Int
            BY DEF Aggregate
          <6>2. QED
            BY <2>3, <3>1, <5>1, <6>1
        <5>4. QED
          <6> HIDE DEF a, Aggregate
          <6>1. Aggregate.val \in Int
            BY DEF Aggregate
          <6>2. QED
            BY <2>3, <2>4, <5>2, <5>3, <6>1
      <4>2. CASE ~mode.sampled
        <5>1. a = 0 /\ Aggregate.val = 0
          BY <1>1, <2>2, <2>8, <4>2
        <5>2. MaxLevel * (end[t] + SamplingPeriod) >= 0
          OBVIOUS
        <5>3. QED
          <6> HIDE DEF a
          <6>1. QED
            BY <2>4, <5>1, <5>2
      <4>3. QED
        BY <4>1, <4>2
    <3>3. ~mode.sampled => a = 0
      BY <1>1, <2>2, <2>8
    <3>4. QED
      <4> HIDE DEF a, d
      <4>1. QED
        BY <1>1, <2>1, <2>3, <2>4, <2>6, <2>8, <3>2, <3>3
  <2>9. QED
    BY <2>7, <2>8
<1>13. ASSUME NEW t \in Readers, Advance(t) PROVE EnergyInv'
  <2>1. /\ pc[t] = "advance" /\ pc' = [pc EXCEPT ![t] = "idle"]
        /\ start' = end[t] /\ val' = [val EXCEPT ![t] = 0] /\ end' = [end EXCEPT ![t] = 0]
        /\ phase' = (IF phase = "last" THEN "saving" ELSE phase)
        /\ wake' = (IF t = "sampler" THEN end[t] + Sleep ELSE wake)
        /\ UNCHANGED <<hw, last_snapshot, ready, compacted, read_buffer, now>>
    BY <1>13 DEF Advance, NextStart, Goto
  <2>2. \A u \in Readers : u # t => pc[u] = "idle"
    BY <2>1
  <2>3. Reach = end[t] /\ Reach' = end[t] /\ UNCHANGED Aggregate
    BY <2>1, <2>2
  <2>4. CASE Source # "gpu_power"
    BY <1>1, <2>1, <2>2, <2>3, <2>4
  <2>5. CASE Source = "gpu_power"
    <3>1. t = "sampler" => wake' = end[t] + SamplingPeriod
      BY <2>1, <2>5 DEF Sleep
    <3>2. t = "main" => phase = "last" \/ ~mode.sampled
      BY <2>1
    <3>3. MaxLevel * wake' >= 0
      BY <2>1, <2>5 DEF Sleep
    <3>4. QED
      BY <1>1, <2>1, <2>2, <2>3, <2>5, <3>1, <3>2, <3>3
  <2>6. QED
    BY <2>4, <2>5
<1>14. CASE UNCHANGED vars
  BY <1>1, <1>14 DEF vars
<1>15. ASSUME Count \/ LevelChanges \/ Ready \/ Reset
              \/ \E t \in Readers : perf_read(t) \/ rapl_read(t) \/ disk_read(t) \/ temperature_read(t)
       PROVE  FALSE
  BY <1>2, <1>15 DEF Count, LevelChanges, Ready, Reset, perf_read, rapl_read, disk_read,
     temperature_read, Counters, Levels, Source
<1>16. QED
  BY <1>3, <1>4, <1>5, <1>6, <1>7, <1>8, <1>9, <1>10, <1>11, <1>12, <1>13, <1>14, <1>15
  DEF Next, read_and_store, read, Done

-----------------------------------------------------------------------------
(* The theorems. *)

IInv == CountInv /\ FlushKeepsUp /\ TimeInv /\ DueInv /\ LossInv /\ EnergyInv

(* The invariant holds at the start and every step preserves it. *)
LEMMA Invariant == ASSUME OneReader PROVE Spec => []IInv
<1>1. Init => FlushKeepsUp
  BY StoreAssumption DEF StoreAssumption, Init, FlushKeepsUp, Empty
<1>2. Init => TimeInv
  <2> SUFFICES ASSUME Init PROVE TimeInv
    OBVIOUS
  <2>1. /\ now = 0 /\ start = 0 /\ ready = 0
        /\ compacted.dur = 0 /\ read_buffer.dur = 0
        /\ pc = [t \in Readers |-> "idle"] /\ end = [t \in Readers |-> 0]
    BY DEF Init, Empty
  <2>2. QED
    BY <2>1 DEF TimeInv, TimeCoveredOnce, Aggregate
<1>3. IInv /\ [Next]_vars => IInv'
  BY CountStep, FlushStep, TimeStep, DueStep, LossStep, EnergyStep DEF IInv, CountInv
<1>4. Init => IInv
  <2>1. Init => saved = {} /\ phase \in {"ctor", "open"}
    BY DEF Init
  <2>2. QED
    BY CountInit, <1>1, <1>2, <2>1, LossInit, EnergyInit DEF IInv, DueInv
<1>5. QED
  BY <1>3, <1>4, PTL DEF Spec

(* Every variable keeps its type: readings and counts never go negative,   *)
(* but those of a temperature.                                             *)
THEOREM TypeCorrect == ASSUME OneReader PROVE Spec => []TypeOK
<1>1. IInv => TypeOK
  BY DEF IInv, CountInv
<1>2. QED
  BY Invariant, <1>1, PTL

(* With one reader at a time every count is in one place only, whatever    *)
(* the flush period and however the calls interleave.                      *)
THEOREM EveryCountOnce == ASSUME OneReader PROVE Spec => []CountedOnce
<1>1. IInv => CountedOnce
  BY DEF IInv, CountInv
<1>2. QED
  BY Invariant, <1>1, PTL

(* The two accounts of the buffer's length agree, and the buffer stays     *)
(* shorter than the flush period.                                          *)
THEOREM BufferStaysShort == ASSUME OneReader PROVE Spec => []FlushKeepsUp
<1>1. IInv => FlushKeepsUp
  BY DEF IInv
<1>2. QED
  BY Invariant, <1>1, PTL

(* The durations of the samples cover the time of the measurement without  *)
(* gap or overlap.                                                         *)
THEOREM TimeOnce == ASSUME OneReader PROVE Spec => []TimeCoveredOnce
<1>1. IInv => TimeCoveredOnce
  BY DEF IInv, TimeInv
<1>2. QED
  BY Invariant, <1>1, PTL

(* Stopping the counters around a reading, and snapshots, lose nothing,    *)
(* where nobody starts the counters in between and the snapshot is not     *)
(* that of a GPU after the first.                                          *)
THEOREM NothingGetsLost == ASSUME OneReader PROVE Spec => []NothingLost
<1>1. IInv => NothingLost
  BY DEF IInv, LossInv, NothingLost
<1>2. QED
  BY Invariant, <1>1, PTL

(* Energy is never negative and never above what the highest level would   *)
(* have used in the time covered, or in a period more.                     *)
THEOREM EnergyBounded == ASSUME OneReader PROVE Spec => []EnergyWithinLevels
<1>1. IInv => EnergyWithinLevels
  <2> SUFFICES ASSUME IInv, Source \in Powers PROVE EnergyWithinLevels
    BY DEF EnergyWithinLevels
  <2> USE StoreAssumption DEF StoreAssumption, IInv, CountInv, TypeOK, EnergyInv
  <2>1. CASE Source # "gpu_power"
    BY <2>1 DEF EnergyWithinLevels, Sleep, Aggregate
  <2>2. CASE Source = "gpu_power"
    <3>1. Reach <= Aggregate.dur /\ Reach \in Int /\ Aggregate.dur \in Int
      BY DEF Reach, TimeInv, TimeCoveredOnce, Quiet, Readers, Places, Aggregate
    <3>2. MaxLevel * (Reach + SamplingPeriod) <= MaxLevel * (Aggregate.dur + SamplingPeriod)
      BY <3>1, Monotone
    <3>3. /\ Aggregate.val >= 0 /\ Aggregate.val <= MaxLevel * (Reach + SamplingPeriod)
          /\ Aggregate.val \in Int
      BY <2>2 DEF Aggregate
    <3>4. Sleep = SamplingPeriod
      BY <2>2 DEF Sleep
    <3>5. QED
      <4> HIDE DEF Aggregate, Reach
      <4>1. QED
        BY <3>1, <3>2, <3>3, <3>4 DEF EnergyWithinLevels
  <2>3. QED
    BY <2>1, <2>2
<1>2. QED
  BY Invariant, <1>1, PTL

-----------------------------------------------------------------------------
(* The store implements Measurement. *)

(* A newly built profiler is a measurement at its start. *)
LEMMA MeasurementStarts == Init => M!Init
<1> SUFFICES ASSUME Init PROVE M!Init
  OBVIOUS
<1>1. /\ Exact(counted) = 0 /\ lost = 0 /\ due = 0 /\ saved = {}
      /\ compacted.val = 0 /\ read_buffer.val = 0
      /\ phase \in {"ctor", "open"}
  BY StoreAssumption DEF StoreAssumption, Init, Empty, Exact, Counters, Powers, Levels
<1>2. QED
  BY <1>1 DEF M!Init, Exact, Aggregate

(* Steps that leave the counts, the report and the life of the profiler    *)
(* alone are stutters of the measurement.                                  *)
LEMMA Stutter ==
  ASSUME UNCHANGED <<mode, counted, lost, due, saved, Aggregate.val>>,
         phase' \in {"ctor", "open"} <=> phase \in {"ctor", "open"}
  PROVE  UNCHANGED M!vars
  BY DEF M!vars, Exact, Source

(* Every step of the store is a step of the measurement or a stutter. *)
LEMMA MeasurementStep ==
  OneReader /\ IInv /\ IInv' /\ [Next]_vars => [M!Next]_(M!vars)
<1> SUFFICES ASSUME OneReader, IInv, IInv', [Next]_vars PROVE [M!Next]_(M!vars)
  OBVIOUS
<1> USE DEF IInv, CountInv, TypeOK, Readers, Counters, Levels,
            config, meter, store, reader, books, life
<1>1. CASE Count
  <2>1. M!Count
    BY <1>1 DEF Count, M!Count, Exact, Source, Aggregate
  <2>2. QED
    BY <2>1 DEF M!Next
<1>2. ASSUME NEW t \in Readers, Push(t) PROVE [M!Next]_(M!vars)
  <2> DEFINE d == end[t] - start
             a == Amount(val[t], d)
  <2>1. /\ UNCHANGED <<mode, counted, unread, lost, due, saved, phase>>
        /\ on_sample_stored(d, [dur |-> read_buffer.dur + d, val |-> read_buffer.val + a])
    BY <1>2 DEF Push
  <2>2. d \in Int /\ a \in Int /\ (Source \in Counters => a \in Nat)
    BY StoreAssumption DEF StoreAssumption, Amount, PeriodOf, Powers, Counters
  <2>3. Aggregate'.val = Aggregate.val + a
    <3> HIDE DEF a, d
    <3>1. QED
      BY <2>1, <2>2 DEF on_sample_stored, Empty, Aggregate
  <2>4. Aggregate.val \in Int /\ Aggregate'.val \in Int
    BY DEF Aggregate
  <2>5. CASE Source \in Counters
    <3>1. InFlight("main")' \in Nat /\ InFlight("sampler")' \in Nat
      BY <2>1, <2>5 DEF InFlight, Stations, Source, Delta, MeterShowsUnread
    <3>2. Aggregate'.val \in Aggregate.val .. (counted - lost)
      <4>1. counted' = Aggregate'.val + InFlight("main")' + InFlight("sampler")'
                       + unread' + lost'
        BY <2>1, <2>5 DEF CountedOnce, Source
      <4>2. QED
        BY <4>1, <3>1, <2>1, <2>2, <2>3, <2>4, <2>5
    <3>3. M!Report
      BY <3>2, <2>1, <2>5 DEF M!Report, Exact, Source
    <3>4. QED
      BY <3>3 DEF M!Next
  <2>6. CASE Source \notin Counters
    BY <2>1, <2>6 DEF M!vars, Exact, Source
  <2>7. QED
    BY <2>5, <2>6
<1>3. ASSUME NEW t \in Readers, read(t) PROVE [M!Next]_(M!vars)
  <2>1. CASE ResetMeter(t, "resume") \/ ResetMeter(t, "push")
    <3>1. /\ lost' = lost + unread
          /\ UNCHANGED <<mode, counted, due, saved, phase, compacted, read_buffer>>
      BY <2>1 DEF ResetMeter
    <3>2. CASE Source \in Counters
      <4>1. InFlight("main") \in Nat /\ InFlight("sampler") \in Nat
        BY <3>2 DEF Stations, Source, InFlight, Delta, MeterShowsUnread
      <4>2. Aggregate.val \in Int /\ UNCHANGED Aggregate
        BY <3>1 DEF Aggregate
      <4>3. lost' \in lost .. (counted - Aggregate.val)
        BY <4>1, <4>2, <3>1, <3>2 DEF CountedOnce
      <4>4. M!Lose
        BY <4>2, <4>3, <3>1, <3>2 DEF M!Lose, Exact, Source
      <4>5. QED
        BY <4>4 DEF M!Next
    <3>3. CASE Source \notin Counters
      BY <3>3, <2>1 DEF ResetMeter, Stations, Counters
    <3>4. QED
      BY <3>2, <3>3
  <2>2. CASE Source \in Levels
    <3>1. UNCHANGED <<mode, due, saved, phase>>
      BY <1>3 DEF read, ReadNothing, perf_read, rapl_read, disk_read, meter_read, gpu_power_read, FetchPower,
         temperature_read, FetchLevel, LoseDelta, Fetch, SetCounters, ResetMeter, TakeDelta
    <3>2. QED
      BY <2>2, <3>1 DEF M!vars, Exact, Source
  <2>3. CASE Source \notin Levels /\ ~(ResetMeter(t, "resume") \/ ResetMeter(t, "push"))
    <3>1. UNCHANGED <<mode, counted, lost, due, saved, phase, compacted, read_buffer>>
      BY <1>3, <2>3 DEF read, ReadNothing, perf_read, rapl_read, disk_read, meter_read,
         gpu_power_read, FetchPower, temperature_read, Fetch, SetCounters, TakeDelta, Source
    <3>2. QED
      BY <3>1, Stutter DEF Aggregate
  <2>4. QED
    BY <2>1, <2>3, <2>2
<1>4. CASE Reset
  <2>1. /\ counted' = counted - unread /\ phase = "open" /\ Source = "perf"
        /\ UNCHANGED <<mode, lost, due, saved, phase, compacted, read_buffer>>
    BY <1>4 DEF Reset, UserCalls
  <2>2. InFlight("main") \in Nat /\ InFlight("sampler") \in Nat
    BY <2>1 DEF Stations, Source, InFlight, Delta, MeterShowsUnread
  <2>3. Aggregate.val \in Int /\ UNCHANGED Aggregate
    BY <2>1 DEF Aggregate
  <2>4. counted' \in (Aggregate.val + lost) .. counted
    BY <2>1, <2>2, <2>3 DEF CountedOnce, Counters
  <2>5. M!Forget
    BY <2>1, <2>3, <2>4 DEF M!Forget, Exact, Source, Counters
  <2>6. QED
    BY <2>5 DEF M!Next
<1>5. CASE Destroy
  <2>1. /\ phase = "open" /\ phase' \in {"joining", "closed", "terminated"} /\ due' = counted
        /\ UNCHANGED <<mode, counted, lost, saved, compacted, read_buffer>>
    BY <1>5 DEF Destroy, UserCalls
  <2>2. M!Close
    BY <2>1 DEF M!Close, Exact, Source, Aggregate
  <2>3. QED
    BY <2>2 DEF M!Next
<1>6. CASE Tick \/ PowerChanges \/ Ready \/ Disable \/ Enable \/ Join
           \/ (\E t \in Readers : TakeEnd(t) \/ Advance(t)) \/ UNCHANGED vars
  <2>1. /\ UNCHANGED <<mode, counted, lost, due, saved, compacted, read_buffer>>
        /\ phase' \in {"ctor", "open"} <=> phase \in {"ctor", "open"}
    BY <1>6 DEF Tick, PowerChanges, Ready, Disable, Enable, Join, TakeEnd, Advance, vars
  <2>2. QED
    BY <2>1, Stutter DEF Aggregate
<1>7. CASE Save
  <2>1. /\ phase = "saving" /\ phase' = "closed"
        /\ UNCHANGED <<mode, counted, lost, due, compacted, read_buffer>>
        /\ \/ saved' = {}
           \/ saved' = {Aggregate} /\ (is_enabled \/ Source \notin {"perf", "disk"} \union Levels)
    BY <1>7 DEF Save
  <2>2. saved = {} /\ UNCHANGED Aggregate
    BY <2>1 DEF DueInv, Aggregate
  <2>3. CASE saved' = {}
    BY <2>1, <2>2, <2>3, Stutter
  <2>4. CASE saved' = {Aggregate}
    <3>1. Source \in Counters => is_enabled
      BY <2>1, <2>2, <2>4 DEF Counters, DueInv, ReturnsAtOnce, FindDomains
    <3>2. Exact(Aggregate.val) + Exact(lost) >= Exact(due)
      BY <2>1, <3>1 DEF Exact, DueInv, Aggregate, Source
    <3>3. M!Deliver
      BY <2>1, <2>2, <2>4, <3>2 DEF M!Deliver, Exact, Source
    <3>4. QED
      BY <3>3 DEF M!Next
  <2>5. QED
    BY <2>1, <2>3, <2>4
<1>8. CASE LevelChanges
  <2>1. Source \in Levels /\ UNCHANGED <<mode, due, saved, phase>>
    BY <1>8 DEF LevelChanges
  <2>2. QED
    BY <2>1 DEF M!vars, Exact, Source
<1>9. QED
  BY <1>1, <1>2, <1>3, <1>4, <1>5, <1>6, <1>7, <1>8 DEF Next, read_and_store, Done

(* A profiler that counts does what Measurement says: its samples only add *)
(* what was counted, and the report its destructor saves misses nothing    *)
(* that was counted when the destructor began and not lost at a reset.     *)
THEOREM ImplementsMeasurement == ASSUME OneReader PROVE Spec => Promise
<1>1. IInv /\ IInv' /\ [Next]_vars => [M!Next]_(M!vars)
  BY MeasurementStep
<1>2. QED
  BY Invariant, MeasurementStarts, <1>1, PTL DEF Spec, Promise, M!Spec
=============================================================================
