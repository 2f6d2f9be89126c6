------------------------------ MODULE PmuBlocks ------------------------------
(***************************************************************************)
(* BlockProfiler and BlockGroupProfiler: scoped measurements over perf     *)
(* events.  The program's thread (Main) constructs, uses and destroys the  *)
(* blocks; a block in sampling mode also has a thread that reads it        *)
(* periodically.  All of them share one PMUEventManager without a lock.    *)
(*                                                                         *)
(* A step is one call into the manager or the kernel together with the     *)
(* bookkeeping around it, so that two threads interleave between any two   *)
(* system calls of a constructor, a read or a destructor.                  *)
(***************************************************************************)
EXTENDS PmuEventManager

CONSTANTS
  Blocks,     \* the profiler objects a program may hold
  Main,       \* the thread that owns them
  Grouped,    \* the blocks that are BlockGroupProfilers
  Sampled,    \* the blocks whose config has is_sampling
  Events,     \* metric_events.size() of each block's MetricBuilder
  Cores,      \* iterations of the constructor's core loop, for each block
  NumCntrs,   \* PMUEventManager::pmu_num_cntrs()
  MayFail     \* can perf_event_open fail for a reason other than no free fd

ASSUME BlocksAssumption ==
  /\ Main \notin Blocks
  /\ Grouped \subseteq Blocks
  /\ Sampled \subseteq Blocks
  /\ Events \in [Blocks -> Nat \ {0}]
  /\ Cores \in [Blocks -> Nat \ {0}]
  /\ NumCntrs \in Nat
  /\ MayFail \in BOOLEAN

VARIABLES
  alive,         \* the blocks whose constructor has begun and destructor not ended
  fdList,        \* fd_list of a BlockProfiler, group_leaders of a BlockGroupProfiler
  isEnabled,     \* BaseProfiler::is_enabled
  isConfigured,  \* BlockGroupProfiler::is_configured
  isSampling,    \* the flag the sampling thread polls
  pc,            \* where each thread is
  cur,           \* the block Main is working on
  inDtor,        \* whether Main's read is the destructor's last one
  opened,        \* events the running constructor has opened
  coreLeader,    \* the constructor's group_leader variable
  todo,          \* per thread: descriptors its read() has still to visit
  at,            \* per thread: the descriptor fetched and not yet reset
  lossy,         \* history: blocks one of whose counters was reset unread
  terminated     \* std::terminate was called

block == <<alive, fdList, isEnabled, isConfigured, isSampling>>
ctor == <<cur, inDtor, opened, coreLeader>>
reader == <<todo, at, lossy>>
vars == <<kernel, manager, block, pc, ctor, reader, terminated>>

Threads == {Main} \union Sampled
BlockOf(t) == IF t = Main THEN cur ELSE t
MainAt(place) == ~terminated /\ pc[Main] = place
Goto(t, place) == pc' = [pc EXCEPT ![t] = place]
Total(b) == Events[b] * Cores[b]

Init ==
  /\ leader = [f \in Fds |-> NoFd]
  /\ running = {} /\ dirty = {}
  /\ registry = [f \in Fds |-> 0]
  /\ eventCount = 0
  /\ alive = {}
  /\ fdList = [b \in Blocks |-> {}]
  /\ isEnabled = [b \in Blocks |-> FALSE]
  /\ isConfigured = [b \in Blocks |-> FALSE]
  /\ isSampling = [b \in Blocks |-> FALSE]
  /\ pc = [t \in Threads |-> IF t = Main THEN "idle" ELSE "off"]
  /\ cur \in Blocks
  /\ inDtor = FALSE /\ opened = 0 /\ coreLeader = NoFd
  /\ todo = [t \in Threads |-> {}]
  /\ at = [t \in Threads |-> NoFd]
  /\ lossy = {}
  /\ terminated = FALSE

-----------------------------------------------------------------------------
(* The constructors *)

(* Both start by stopping every registered counter.  A group larger than   *)
(* the hardware gives up here, and leaves them stopped.                    *)
CtorBegin(b) ==
  LET fits == b \notin Grouped \/ Events[b] < NumCntrs IN
  /\ MainAt("idle") /\ b \notin alive
  /\ disable_all_events
  /\ alive' = alive \union {b}
  /\ isEnabled' = [isEnabled EXCEPT ![b] = TRUE]
  /\ isConfigured' = [isConfigured EXCEPT ![b] = fits]
  /\ cur' = b /\ inDtor' = FALSE /\ opened' = 0 /\ coreLeader' = NoFd
  /\ Goto(Main, IF fits THEN "open" ELSE "idle")
  /\ UNCHANGED <<leader, dirty, manager, fdList, isSampling, reader, terminated>>

FirstOfCore == opened % Events[cur] = 0
LastOfCore == (opened + 1) % Events[cur] = 0

(* A block registers every descriptor; a group the first of each core. *)
Registers(f) == cur \notin Grouped \/ FirstOfCore

(* What is pushed to fd_list once f is open: a group keeps its leader, and *)
(* only when all events of the core are open.                              *)
Kept_BeforeAssignment(f) ==
  IF cur \notin Grouped \/ LastOfCore THEN {coreLeader} ELSE {}
Kept_LastOpened(f) == IF cur \notin Grouped \/ LastOfCore THEN {f} ELSE {}
Kept(f) ==
  CASE cur \notin Grouped -> {f}
    [] cur \in Grouped /\ LastOfCore -> {IF FirstOfCore THEN f ELSE coreLeader}
    [] OTHER -> {}

(* One successful perf_event_open. *)
OpenOk(f) ==
  LET follows == cur \in Grouped /\ ~FirstOfCore IN
  /\ MainAt("open") /\ opened < Total(cur)
  /\ perf_event_open(f, IF follows THEN coreLeader ELSE NoFd)
  /\ IF Registers(f)
       THEN register_event(f, IF cur \in Grouped THEN Events[cur] ELSE 1)
       ELSE UNCHANGED manager
  /\ fdList' = [fdList EXCEPT ![cur] = @ \union Kept(f)]
  /\ coreLeader' = IF cur \in Grouped /\ FirstOfCore THEN f ELSE coreLeader
  /\ opened' = opened + 1
  /\ UNCHANGED <<alive, isEnabled, isConfigured, isSampling, pc, cur, inDtor,
                 reader, terminated>>

(* A failed one: the object is left disabled, the other counters stopped.  *)
OpenFail ==
  /\ MainAt("open") /\ opened < Total(cur)
  /\ MayFail \/ OpenFds = Fds
  /\ isEnabled' = [isEnabled EXCEPT ![cur] = FALSE]
  /\ Goto(Main, "idle")
  /\ UNCHANGED <<kernel, manager, alive, fdList, isConfigured, isSampling, ctor,
                 reader, terminated>>

(* All events open: the sampling thread starts before the counters do. *)
Launch ==
  /\ MainAt("open") /\ opened = Total(cur)
  /\ IF cur \in Sampled
       THEN /\ isSampling' = [isSampling EXCEPT ![cur] = TRUE]
            /\ pc' = [pc EXCEPT ![Main] = "arm", ![cur] = "loop"]
       ELSE /\ Goto(Main, "arm")
            /\ UNCHANGED isSampling
  /\ UNCHANGED <<kernel, manager, alive, fdList, isEnabled, isConfigured, ctor,
                 reader, terminated>>

(* The group's reset(), then enable_all_events: the constructor returns. *)
Arm ==
  /\ MainAt("arm")
  /\ dirty' = IF cur \in Grouped THEN dirty \ GroupsOf(fdList[cur]) ELSE dirty
  /\ enable_all_events
  /\ Goto(Main, "idle")
  /\ UNCHANGED <<leader, manager, block, ctor, reader, terminated>>

-----------------------------------------------------------------------------
(* disable, enable and reset of one block *)

Disable(b) ==
  /\ MainAt("idle") /\ b \in alive
  /\ isEnabled' = [isEnabled EXCEPT ![b] = FALSE]
  /\ running' = running \ GroupsOf(fdList[b])
  /\ UNCHANGED <<leader, dirty, manager, alive, fdList, isConfigured, isSampling,
                 pc, ctor, reader, terminated>>

Enable(b) ==
  /\ MainAt("idle") /\ b \in alive
  /\ isEnabled' = [isEnabled EXCEPT ![b] = TRUE]
  /\ running' = running \union GroupsOf(fdList[b])
  /\ UNCHANGED <<leader, dirty, manager, alive, fdList, isConfigured, isSampling,
                 pc, ctor, reader, terminated>>

Reset(b) ==
  /\ MainAt("idle") /\ b \in alive /\ isEnabled[b]
  /\ dirty' = dirty \ GroupsOf(fdList[b])
  /\ UNCHANGED <<leader, running, manager, block, pc, ctor, reader, terminated>>

-----------------------------------------------------------------------------
(* read(), by Main (read_and_store and the destructor) or a sampling thread *)

Call(b) ==
  /\ MainAt("idle") /\ b \in alive
  /\ cur' = b /\ inDtor' = FALSE
  /\ Goto(Main, "call")
  /\ UNCHANGED <<kernel, manager, block, opened, coreLeader, reader, terminated>>

ReturnFrom(t) ==
  Goto(t, CASE t # Main -> "loop"
            [] t = Main /\ inDtor -> "close"
            [] OTHER -> "idle")

(* A disabled block returns at once; an unconfigured group returns after it *)
(* has stopped every counter.                                              *)
ReadBegin(t) ==
  LET b == BlockOf(t) IN
  /\ ~terminated /\ pc[t] = "call"
  /\ IF isEnabled[b] THEN disable_all_events ELSE UNCHANGED running
  /\ IF isEnabled[b] /\ isConfigured[b]
       THEN /\ todo' = [todo EXCEPT ![t] = fdList[b]]
            /\ Goto(t, "fetch")
       ELSE /\ ReturnFrom(t)
            /\ UNCHANGED todo
  /\ UNCHANGED <<leader, dirty, manager, block, ctor, at, lossy, terminated>>

Fetch(t) ==
  /\ ~terminated /\ pc[t] = "fetch"
  /\ \E f \in todo[t] :
       /\ dirty' = dirty \ GroupsOf({f})
       /\ at' = [at EXCEPT ![t] = f]
       /\ todo' = [todo EXCEPT ![t] = @ \ {f}]
  /\ Goto(t, "reset")
  /\ UNCHANGED <<leader, running, manager, block, ctor, lossy, terminated>>

(* is_reset_after_read, the default: what was counted since the fetch goes. *)
ResetFetched(t) ==
  LET unread == dirty \intersect GroupsOf({at[t]}) IN
  /\ ~terminated /\ pc[t] = "reset"
  /\ dirty' = dirty \ unread
  /\ lossy' = IF unread = {} THEN lossy ELSE lossy \union {BlockOf(t)}
  /\ at' = [at EXCEPT ![t] = NoFd]
  /\ Goto(t, "fetch")
  /\ UNCHANGED <<leader, running, manager, block, ctor, todo, terminated>>

ReadEnd(t) ==
  /\ ~terminated /\ pc[t] = "fetch" /\ todo[t] = {}
  /\ enable_all_events
  /\ ReturnFrom(t)
  /\ UNCHANGED <<leader, dirty, manager, block, ctor, reader, terminated>>

(* The sampling thread's loop condition. *)
SamplerLoop(b) ==
  /\ ~terminated /\ pc[b] = "loop"
  /\ Goto(b, IF isSampling[b] THEN "call" ELSE "exited")
  /\ UNCHANGED <<kernel, manager, block, ctor, reader, terminated>>

-----------------------------------------------------------------------------
(* The destructors *)

StopSampling_Forgotten(b) == UNCHANGED isSampling
StopSampling(b) == isSampling' = [isSampling EXCEPT ![b] = FALSE]

(* A group that is disabled or not configured returns after it has stopped  *)
(* every counter: its leaders stay registered, and destroying a joinable    *)
(* std::thread ends the program.                                           *)
DtorBegin(b) ==
  LET bails == b \in Grouped /\ ~(isConfigured[b] /\ isEnabled[b]) IN
  /\ MainAt("idle") /\ b \in alive
  /\ disable_all_events
  /\ cur' = b
  /\ inDtor' = ~bails
  /\ alive' = IF bails THEN alive \ {b} ELSE alive
  /\ fdList' = IF bails THEN [fdList EXCEPT ![b] = {}] ELSE fdList
  /\ terminated' = (bails /\ b \in Sampled /\ pc[b] # "off")
  /\ IF bails THEN UNCHANGED isSampling ELSE StopSampling(b)
  /\ Goto(Main, IF bails THEN "idle" ELSE "join")
  /\ UNCHANGED <<leader, dirty, manager, isEnabled, isConfigured, opened,
                 coreLeader, reader>>

Join ==
  /\ MainAt("join")
  /\ IF cur \in Sampled
       THEN /\ pc[cur] \in {"off", "exited"}
            /\ pc' = [pc EXCEPT ![Main] = "call", ![cur] = "off"]
       ELSE Goto(Main, "call")
  /\ UNCHANGED <<kernel, manager, block, ctor, reader, terminated>>

Close ==
  /\ MainAt("close")
  /\ \E f \in fdList[cur] :
       /\ unregister_event(f)
       /\ fdList' = [fdList EXCEPT ![cur] = @ \ {f}]
  /\ UNCHANGED <<alive, isEnabled, isConfigured, isSampling, pc, ctor, reader,
                 terminated>>

DtorEnd ==
  /\ MainAt("close") /\ fdList[cur] = {}
  /\ enable_all_events
  /\ alive' = alive \ {cur}
  /\ inDtor' = FALSE
  /\ Goto(Main, "idle")
  /\ UNCHANGED <<leader, dirty, manager, fdList, isEnabled, isConfigured,
                 isSampling, cur, opened, coreLeader, reader, terminated>>

-----------------------------------------------------------------------------
(* The measured program makes every running counter count. *)
Tick ==
  /\ ~terminated
  /\ dirty' = dirty \union running
  /\ UNCHANGED <<leader, running, manager, block, pc, ctor, reader, terminated>>

MainProceeds ==
  \/ \E f \in Fds : OpenOk(f)
  \/ OpenFail \/ Launch \/ Arm
  \/ ReadBegin(Main) \/ Fetch(Main) \/ ResetFetched(Main) \/ ReadEnd(Main)
  \/ Join \/ Close \/ DtorEnd

Samples(b) ==
  SamplerLoop(b) \/ ReadBegin(b) \/ Fetch(b) \/ ResetFetched(b) \/ ReadEnd(b)

UserCalls(b) ==
  CtorBegin(b) \/ Disable(b) \/ Enable(b) \/ Reset(b) \/ Call(b) \/ DtorBegin(b)

Next ==
  \/ \E b \in Blocks : UserCalls(b)
  \/ MainProceeds
  \/ \E b \in Sampled : Samples(b)
  \/ Tick

Spec == Init /\ [][Next]_vars

\* A started call runs to its end and a started thread is scheduled; nothing
\* obliges the program to call anything.
Fairness == WF_vars(MainProceeds) /\ \A b \in Sampled : WF_vars(Samples(b))

FairSpec == Spec /\ Fairness

-----------------------------------------------------------------------------
(* Properties *)

Places == {"idle", "open", "arm", "call", "fetch", "reset", "join", "close",
           "off", "loop", "exited"}

\* The variables have the types the C++ declarations give them.
TypeOK ==
  /\ leader \in [Fds -> Fds \union {NoFd}]
  /\ running \subseteq OpenFds /\ dirty \subseteq OpenFds
  /\ registry \in [Fds -> Nat]
  /\ eventCount \in Int
  /\ alive \subseteq Blocks
  /\ fdList \in [Blocks -> SUBSET Fds]
  /\ isEnabled \in [Blocks -> BOOLEAN]
  /\ isConfigured \in [Blocks -> BOOLEAN]
  /\ isSampling \in [Blocks -> BOOLEAN]
  /\ pc \in [Threads -> Places]
  /\ cur \in Blocks /\ inDtor \in BOOLEAN
  /\ opened \in Nat /\ coreLeader \in Fds \union {NoFd}
  /\ todo \in [Threads -> SUBSET Fds]
  /\ at \in [Threads -> Fds \union {NoFd}]
  /\ lossy \subseteq Blocks
  /\ terminated \in BOOLEAN

\* One slot for each event a registry says is monitored.
SlotsOf(r) == UNION {{f} \X (1 .. r[f]) : f \in Fds}

\* number_of_events_being_monitored() is the sum over the registered
\* descriptors, whatever constructors failed and in whatever order blocks
\* went: the decision to warn about multiplexing rests on it.
BooksBalance == eventCount = Cardinality(SlotsOf(registry))

\* Every registered descriptor is open and leads its group, so no ioctl or
\* close of the manager ever hits a number the kernel has given to someone
\* else, and register_event, whose result both constructors ignore, never
\* meets a descriptor it already has.
RegisteredAreOpenLeaders == \A f \in Registered : leader[f] = f

\* The descriptors a block will read, reset and close are registered and its
\* own: the destructor of one block never closes a counter of another, even
\* when the kernel hands a closed number out again.
OwnDescriptors ==
  /\ \A b \in Blocks : fdList[b] \subseteq Registered
  /\ \A a, b \in Blocks : a # b => fdList[a] \intersect fdList[b] = {}

\* Ungrouped blocks leave nothing behind: a counter that runs belongs to a
\* block whose scope has not ended.
RunningBelongsToLiveBlock ==
  running \subseteq GroupsOf(UNION {fdList[b] : b \in alive})

\* A running counter is in the group of a registered descriptor, so that the
\* next disable_all_events stops it.
RunningIsManaged == running \subseteq GroupsOf(Registered)

\* A block in scope and enabled is measuring whenever no thread is inside a
\* profiler call: every stop of the shared counters is followed by a start.
Quiet == /\ pc[Main] = "idle"
         /\ \A b \in Sampled : pc[b] \in {"off", "loop", "exited"}
MeasuringWhenQuiet ==
  Quiet => \A b \in alive : isEnabled[b] => GroupsOf(fdList[b]) \subseteq running

\* A reset after a read never drops events the read has not returned: without
\* sampling threads the counters stand still from the first value that is
\* fetched to the last reset.
NothingLost == lossy = {}

\* Every call ends, the destructor's wait for the sampling thread included.
CallsEnd == pc[Main] # "idle" ~> pc[Main] = "idle"

=============================================================================
