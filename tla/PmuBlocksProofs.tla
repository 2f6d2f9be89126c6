--------------------------- MODULE PmuBlocksProofs ---------------------------
(***************************************************************************)
(* What PmuBlocks promises for any number of blocks, descriptors, events,  *)
(* cores and sampling threads.                                             *)
(***************************************************************************)
EXTENDS PmuBlocks, FiniteSetTheorems, TLAPS

(* Between the first and the last event of a core, the constructor of a     *)
(* group holds the descriptor of its leader.                               *)
LeaderChosen ==
  pc[Main] = "open" /\ cur \in Grouped /\ ~FirstOfCore => coreLeader \in Fds

TypeInv == TypeOK /\ LeaderChosen

(* The first event a constructor opens is the first of its core. *)
LEMMA StartsAtFirst == \A b \in Blocks : 0 % Events[b] = 0
  BY BlocksAssumption DEF BlocksAssumption

(* What an open adds to fd_list is a descriptor. *)
LEMMA KeptIsFd ==
  ASSUME TypeInv, pc[Main] = "open", NEW f \in Fds
  PROVE  Kept(f) \in SUBSET Fds
<1>1. CASE cur \notin Grouped
  BY <1>1 DEF Kept
<1>2. CASE cur \in Grouped /\ LastOfCore
  BY <1>2 DEF Kept, TypeInv, LeaderChosen
<1>3. CASE cur \in Grouped /\ ~LastOfCore
  BY <1>3 DEF Kept
<1>4. QED
  BY <1>1, <1>2, <1>3

(* Every call, step of a call and step of a sampling thread keeps the types,
   the reader that shares no variable with the constructor included. *)
LEMMA TypeStep == TypeInv /\ [Next]_vars => TypeInv'
<1> SUFFICES ASSUME TypeInv, [Next]_vars PROVE TypeInv'
  OBVIOUS
<1> USE BlocksAssumption, NoFdAssumption DEF BlocksAssumption, NoFdAssumption
<1> USE DEF TypeInv, LeaderChosen, FirstOfCore, TypeOK, Threads, Places, MainAt, Goto
<1>1. ASSUME NEW b \in Blocks, CtorBegin(b) PROVE TypeInv'
  BY <1>1, StartsAtFirst DEF CtorBegin, disable_all_events, reader, manager, OpenFds, GroupsOf, Registered
<1>2. ASSUME NEW b \in Blocks, Disable(b) \/ Enable(b) \/ Reset(b) PROVE TypeInv'
  BY <1>2 DEF Disable, Enable, Reset, reader, manager, ctor, block, OpenFds, GroupsOf
<1>3. ASSUME NEW b \in Blocks, Call(b) PROVE TypeInv'
  BY <1>3 DEF Call, reader, manager, kernel, block, OpenFds
<1>4. ASSUME NEW b \in Blocks, DtorBegin(b) PROVE TypeInv'
  BY <1>4 DEF DtorBegin, StopSampling, disable_all_events, reader, manager, OpenFds, GroupsOf, Registered
<1>5. ASSUME NEW f \in Fds, OpenOk(f) PROVE TypeInv'
  <2>1. Events[cur] \in Nat \ {0} /\ Kept(f) \in SUBSET Fds
    BY <1>5, KeptIsFd DEF OpenOk
  <2>2. /\ leader' \in [Fds -> Fds \union {NoFd}]
        /\ running' \subseteq OpenFds' /\ dirty' \subseteq OpenFds'
    BY <1>5 DEF OpenOk, perf_event_open, OpenFds
  <2>3. registry' \in [Fds -> Nat] /\ eventCount' \in Int
    BY <1>5, <2>1 DEF OpenOk, register_event, manager
  <2>4. /\ fdList' \in [Blocks -> SUBSET Fds]
        /\ opened' \in Nat /\ coreLeader' \in Fds \union {NoFd}
    BY <1>5, <2>1 DEF OpenOk
  <2>5. QED
    BY <1>5, <2>2, <2>3, <2>4 DEF OpenOk, reader
<1>6. CASE OpenFail \/ Launch
  BY <1>6 DEF OpenFail, Launch, reader, manager, kernel, ctor, OpenFds
<1>7. CASE Arm
  BY <1>7 DEF Arm, enable_all_events, reader, manager, ctor, block, OpenFds, GroupsOf, Registered
<1>8. ASSUME NEW t \in Threads, ReadBegin(t) PROVE TypeInv'
  BY <1>8 DEF ReadBegin, ReturnFrom, BlockOf, disable_all_events, manager, block, ctor, OpenFds, GroupsOf, Registered
<1>9. ASSUME NEW t \in Threads, Fetch(t) \/ ResetFetched(t) PROVE TypeInv'
  <2>1. CASE Fetch(t)
    BY <2>1 DEF Fetch, manager, block, ctor, OpenFds
  <2>2. CASE ResetFetched(t)
    BY <2>2 DEF ResetFetched, BlockOf, manager, block, ctor, OpenFds
  <2>3. QED
    BY <1>9, <2>1, <2>2
<1>10. ASSUME NEW t \in Threads, ReadEnd(t) PROVE TypeInv'
  BY <1>10 DEF ReadEnd, ReturnFrom, enable_all_events, reader, manager, block, ctor, OpenFds, GroupsOf, Registered
<1>11. ASSUME NEW b \in Sampled, SamplerLoop(b) PROVE TypeInv'
  BY <1>11 DEF SamplerLoop, reader, manager, kernel, block, ctor, OpenFds
<1>12. CASE Join
  BY <1>12 DEF Join, reader, manager, kernel, block, ctor, OpenFds
<1>13. CASE Close
  BY <1>13 DEF Close, unregister_event, perf_close, reader, manager, kernel, ctor, OpenFds
<1>14. CASE DtorEnd
  BY <1>14 DEF DtorEnd, enable_all_events, reader, manager, OpenFds, GroupsOf, Registered
<1>15. CASE Tick
  BY <1>15 DEF Tick, reader, manager, block, ctor, OpenFds
<1>16. CASE UNCHANGED vars
  BY <1>16 DEF vars, reader, manager, kernel, block, ctor, OpenFds
<1>17. QED
  BY <1>1, <1>2, <1>3, <1>4, <1>5, <1>6, <1>7, <1>8, <1>9, <1>10, <1>11,
     <1>12, <1>13, <1>14, <1>15, <1>16
  DEF Next, UserCalls, MainProceeds, Samples

(* Nothing is open, registered or running before the first constructor. *)
LEMMA TypeInit == Init => TypeInv
<1> SUFFICES ASSUME Init PROVE TypeInv
  OBVIOUS
<1>1. pc \in [Threads -> Places] /\ todo \in [Threads -> SUBSET Fds]
      /\ at \in [Threads -> Fds \union {NoFd}]
  BY DEF Init, Places
<1>2. /\ leader \in [Fds -> Fds \union {NoFd}] /\ registry \in [Fds -> Nat]
      /\ fdList \in [Blocks -> SUBSET Fds] /\ isEnabled \in [Blocks -> BOOLEAN]
      /\ isConfigured \in [Blocks -> BOOLEAN] /\ isSampling \in [Blocks -> BOOLEAN]
  BY DEF Init
<1>3. TypeOK
  <2>1. inDtor \in BOOLEAN /\ terminated \in BOOLEAN
    BY Zenon DEF Init
  <2>2. /\ eventCount \in Int /\ opened \in Nat
        /\ cur \in Blocks /\ coreLeader \in Fds \union {NoFd}
    BY DEF Init
  <2>3. /\ running \subseteq OpenFds /\ dirty \subseteq OpenFds
        /\ alive \subseteq Blocks /\ lossy \subseteq Blocks
    BY DEF Init
  <2>4. QED
    BY <1>1, <1>2, <2>1, <2>2, <2>3, Zenon DEF TypeOK
<1>4. pc[Main] = "idle"
  BY DEF Init, Threads
<1>5. QED
  BY <1>3, <1>4 DEF TypeInv, LeaderChosen

(* Every variable keeps its type. *)
THEOREM TypeCorrect == Spec => []TypeOK
BY TypeInit, TypeStep, PTL DEF Spec, TypeInv

-----------------------------------------------------------------------------
(* The registry's books *)

(* Giving a free descriptor n events adds n slots. *)
LEMMA SlotsAdded ==
  ASSUME NEW r \in [Fds -> Nat], NEW f \in Fds, NEW n \in Nat, r[f] = 0,
         IsFiniteSet(SlotsOf(r))
  PROVE  /\ IsFiniteSet(SlotsOf([r EXCEPT ![f] = n]))
         /\ Cardinality(SlotsOf([r EXCEPT ![f] = n])) = Cardinality(SlotsOf(r)) + n
<1> DEFINE S == SlotsOf(r)
           T == {f} \X (1 .. n)
<1>1. SlotsOf([r EXCEPT ![f] = n]) = S \union T
  <2>1. \A g \in Fds : [r EXCEPT ![f] = n][g] = IF g = f THEN n ELSE r[g]
    OBVIOUS
  <2>2. 1 .. r[f] = {}
    OBVIOUS
  <2>3. QED
    BY <2>1, <2>2 DEF SlotsOf
<1>2. S \intersect T = {}
  <2>1. ASSUME NEW x \in S \intersect T PROVE FALSE
    <3>1. PICK g \in Fds : x \in {g} \X (1 .. r[g])
      BY <2>1 DEF SlotsOf
    <3>2. g = f
      BY <3>1, <2>1
    <3>3. QED
      BY <3>1, <3>2
  <2>2. QED
    BY <2>1
<1>3. IsFiniteSet(T) /\ Cardinality(T) = n
  <2>1. IsFiniteSet({f}) /\ Cardinality({f}) = 1
    BY FS_Singleton
  <2>2. IsFiniteSet(1 .. n) /\ Cardinality(1 .. n) = n
    <3>1. 1 \in Int /\ n \in Int /\ (IF 1 > n THEN 0 ELSE n - 1 + 1) = n
      OBVIOUS
    <3>2. /\ IsFiniteSet(1 .. n)
          /\ Cardinality(1 .. n) = IF 1 > n THEN 0 ELSE n - 1 + 1
      BY <3>1, FS_Interval, Zenon
    <3>3. QED
      BY <3>1, <3>2
  <2>3. IsFiniteSet(T) /\ Cardinality(T) = Cardinality({f}) * Cardinality(1 .. n)
    BY <2>1, <2>2, FS_Product
  <2>4. QED
    BY <2>1, <2>2, <2>3
<1>4. Cardinality(S) \in Nat /\ Cardinality({}) = 0
  BY FS_CardinalityType, FS_EmptySet
<1>5. IsFiniteSet(S)
  OBVIOUS
<1>6. /\ IsFiniteSet(S \union T)
      /\ Cardinality(S \union T) = Cardinality(S) + n - Cardinality({})
  <2> HIDE DEF S, T
  <2>1. QED
    BY <1>2, <1>3, <1>5, FS_Union
<1>7. Cardinality(S \union T) = Cardinality(S) + n
  BY <1>4, <1>6
<1>8. QED
  BY <1>1, <1>6, <1>7

(* Clearing an entry removes its slots. *)
LEMMA SlotsRemoved ==
  ASSUME NEW r \in [Fds -> Nat], NEW f \in Fds, IsFiniteSet(SlotsOf(r))
  PROVE  /\ IsFiniteSet(SlotsOf([r EXCEPT ![f] = 0]))
         /\ Cardinality(SlotsOf([r EXCEPT ![f] = 0])) = Cardinality(SlotsOf(r)) - r[f]
<1> DEFINE q == [r EXCEPT ![f] = 0]
<1>1. q \in [Fds -> Nat] /\ q[f] = 0 /\ r = [q EXCEPT ![f] = r[f]]
  OBVIOUS
<1>2. SlotsOf(q) \subseteq SlotsOf(r)
  <2>1. \A g \in Fds : q[g] = IF g = f THEN 0 ELSE r[g]
    OBVIOUS
  <2>2. \A g \in Fds : 1 .. q[g] \subseteq 1 .. r[g]
    BY <2>1
  <2>3. QED
    BY <2>2 DEF SlotsOf
<1>3. IsFiniteSet(SlotsOf(q))
  BY <1>2, FS_Subset
<1>4. Cardinality(SlotsOf(r)) = Cardinality(SlotsOf(q)) + r[f]
  <2> HIDE DEF q
  <2>1. Cardinality(SlotsOf([q EXCEPT ![f] = r[f]])) = Cardinality(SlotsOf(q)) + r[f]
    BY <1>1, <1>3, SlotsAdded
  <2>2. QED
    BY <1>1, <2>1
<1>5. Cardinality(SlotsOf(q)) \in Nat /\ r[f] \in Nat
  BY <1>3, FS_CardinalityType
<1>6. QED
  BY <1>3, <1>4, <1>5

Books == IsFiniteSet(SlotsOf(registry)) /\ BooksBalance

(* The two calls that change the registry keep its books. *)
LEMMA RegisterKeepsBooks ==
  ASSUME TypeOK, Books, NEW f \in Fds, NEW n \in Nat, register_event(f, n)
  PROVE  Books'
<1>1. CASE f \in Registered
  BY <1>1 DEF register_event, manager, Books, BooksBalance
<1>2. CASE f \notin Registered
  <2>1. registry \in [Fds -> Nat] /\ registry[f] = 0
    BY <1>2 DEF TypeOK, Registered
  <2>2. registry' = [registry EXCEPT ![f] = n] /\ eventCount' = eventCount + n
    BY <1>2 DEF register_event
  <2>3. QED
    BY <2>1, <2>2, SlotsAdded DEF Books, BooksBalance
<1>3. QED
  BY <1>1, <1>2

(* Closing one descriptor takes exactly its share out of the event count:
   the books balance after unregister_event when they balanced before. *)
LEMMA UnregisterKeepsBooks ==
  ASSUME TypeOK, Books, NEW f \in Fds, unregister_event(f)
  PROVE  Books'
<1>1. CASE f \notin Registered
  BY <1>1 DEF unregister_event, manager, Books, BooksBalance
<1>2. CASE f \in Registered
  <2>1. registry' = [registry EXCEPT ![f] = 0] /\ eventCount' = eventCount - registry[f]
    BY <1>2 DEF unregister_event
  <2>2. QED
    BY <2>1, SlotsRemoved DEF Books, BooksBalance, TypeOK
<1>3. QED
  BY <1>1, <1>2

-----------------------------------------------------------------------------
(* The registry, the kernel's table and the blocks agree *)

(* The leader a constructor holds is registered and not yet in any list. *)
HeldLeader ==
  pc[Main] = "open" /\ cur \in Grouped /\ ~FirstOfCore =>
    /\ coreLeader \in Registered
    /\ \A b \in Blocks : coreLeader \notin fdList[b]

RegistryInv ==
  TypeInv /\ RegisteredAreOpenLeaders /\ OwnDescriptors /\ HeldLeader /\ Books

(* Steps that touch neither the tables nor the lists. *)
LEMMA RegistryFrame ==
  ASSUME RegistryInv, TypeInv', UNCHANGED <<leader, registry, eventCount, fdList>>,
         HeldLeader'
  PROVE  RegistryInv'
BY DEF RegistryInv, RegisteredAreOpenLeaders, OwnDescriptors, Books, BooksBalance,
       Registered

(* Threads other than the constructor's do not move its local state. *)
LEMMA ConstructorFrame ==
  ASSUME RegistryInv, UNCHANGED <<registry, fdList, ctor>>,
         pc'[Main] = "open" => pc[Main] = "open"
  PROVE  HeldLeader'
BY DEF RegistryInv, HeldLeader, Registered, FirstOfCore, ctor

(* Opening one more event. *)
LEMMA OpenKeepsRegistry ==
  ASSUME RegistryInv, TypeInv', NEW f \in Fds, OpenOk(f)
  PROVE  RegistryInv'
<1> USE DEF RegistryInv, TypeInv, TypeOK
<1>1. /\ pc[Main] = "open" /\ cur \in Blocks /\ Events[cur] \in Nat \ {0}
      /\ pc' = pc /\ cur' = cur /\ opened' = opened + 1
      /\ fdList' = [fdList EXCEPT ![cur] = @ \union Kept(f)]
      /\ coreLeader' = IF cur \in Grouped /\ FirstOfCore THEN f ELSE coreLeader
  BY BlocksAssumption DEF BlocksAssumption, OpenOk, MainAt
<1>2. FirstOfCore' <=> LastOfCore
  BY <1>1 DEF FirstOfCore, LastOfCore
<1>3. /\ f \notin OpenFds /\ f \notin Registered
      /\ \A b \in Blocks : f \notin fdList[b]
  <2>1. f \notin OpenFds
    BY DEF OpenOk, perf_event_open
  <2>2. f \notin Registered
    BY <2>1, NoFdAssumption DEF NoFdAssumption, RegisteredAreOpenLeaders, OpenFds
  <2>3. QED
    BY <2>1, <2>2 DEF OwnDescriptors
<1>4. CASE cur \notin Grouped \/ FirstOfCore
  <2> DEFINE n == IF cur \in Grouped THEN Events[cur] ELSE 1
  <2>1. n \in Nat \ {0}
    BY <1>1
  <2>2. register_event(f, n) /\ leader' = [leader EXCEPT ![f] = f]
    BY <1>4 DEF OpenOk, Registers, perf_event_open
  <2>3. Books'
    BY <2>1, <2>2, RegisterKeepsBooks
  <2>4. registry' = [registry EXCEPT ![f] = n]
    BY <1>3, <2>2 DEF register_event
  <2>5. Registered' = Registered \union {f}
    BY <2>1, <2>4 DEF Registered
  <2>6. RegisteredAreOpenLeaders'
    BY <2>2, <2>5 DEF RegisteredAreOpenLeaders, Registered
  <2>7. Kept(f) \subseteq {f}
    BY <1>4 DEF Kept
  <2>8. OwnDescriptors'
    BY <1>1, <1>3, <2>5, <2>7 DEF OwnDescriptors
  <2>9. HeldLeader'
    <3>1. SUFFICES ASSUME cur \in Grouped, ~LastOfCore
                   PROVE  /\ coreLeader' \in Registered'
                          /\ \A b \in Blocks : coreLeader' \notin fdList'[b]
      BY <1>1, <1>2 DEF HeldLeader
    <3>2. coreLeader' = f /\ fdList' = fdList
      <4>1. Kept(f) = {}
        BY <3>1 DEF Kept
      <4>2. QED
        BY <1>1, <1>4, <3>1, <4>1
    <3>3. QED
      BY <1>3, <2>5, <3>2
  <2>10. QED
    BY <2>3, <2>6, <2>8, <2>9
<1>5. CASE cur \in Grouped /\ ~FirstOfCore
  <2>1. /\ UNCHANGED manager
        /\ leader' = [leader EXCEPT ![f] = IF coreLeader = NoFd THEN f ELSE coreLeader]
        /\ coreLeader' = coreLeader
    BY <1>1, <1>5 DEF OpenOk, Registers, perf_event_open
  <2>2. Books' /\ Registered' = Registered
    BY <2>1 DEF manager, Books, BooksBalance, Registered
  <2>3. RegisteredAreOpenLeaders'
    BY <1>3, <2>1, <2>2 DEF RegisteredAreOpenLeaders, Registered
  <2>4. /\ coreLeader \in Registered
        /\ \A b \in Blocks : coreLeader \notin fdList[b]
    BY <1>1, <1>5 DEF HeldLeader
  <2>5. Kept(f) \subseteq {coreLeader} /\ (~LastOfCore => Kept(f) = {})
    BY <1>5 DEF Kept
  <2>6. OwnDescriptors'
    BY <1>1, <2>2, <2>4, <2>5 DEF OwnDescriptors
  <2>7. HeldLeader'
    <3>1. SUFFICES ASSUME ~LastOfCore PROVE fdList' = fdList
      BY <1>1, <1>2, <2>1, <2>2, <2>4 DEF HeldLeader
    <3>2. QED
      BY <1>1, <2>5, <3>1
  <2>8. QED
    BY <2>2, <2>3, <2>6, <2>7
<1>6. QED
  BY <1>4, <1>5

(* Closing one descriptor in a destructor. *)
LEMMA CloseKeepsRegistry ==
  ASSUME RegistryInv, TypeInv', Close
  PROVE  RegistryInv'
<1> USE DEF RegistryInv, TypeInv, TypeOK
<1>1. PICK f \in fdList[cur] :
         /\ unregister_event(f)
         /\ fdList' = [fdList EXCEPT ![cur] = @ \ {f}]
  BY DEF Close
<1>2. /\ pc' = pc /\ pc[Main] = "close" /\ cur \in Blocks /\ f \in Fds
  BY <1>1 DEF Close, MainAt
<1>3. f \in Registered
  BY <1>1, <1>2 DEF OwnDescriptors
<1>4. Books'
  BY <1>1, <1>2, UnregisterKeepsBooks
<1>5. /\ perf_close(f) /\ registry' = [registry EXCEPT ![f] = 0]
      /\ Registered' = Registered \ {f}
  BY <1>1, <1>2, <1>3 DEF unregister_event, Registered
<1>6. RegisteredAreOpenLeaders'
  BY <1>5 DEF RegisteredAreOpenLeaders, perf_close, Registered
<1>7. OwnDescriptors'
  BY <1>1, <1>2, <1>5 DEF OwnDescriptors
<1>8. HeldLeader'
  BY <1>2 DEF HeldLeader
<1>9. QED
  BY <1>4, <1>6, <1>7, <1>8

(* A destructor that bails out only forgets its list. *)
LEMMA DtorBeginKeepsRegistry ==
  ASSUME RegistryInv, TypeInv', NEW b \in Blocks, DtorBegin(b)
  PROVE  RegistryInv'
<1> USE DEF RegistryInv, TypeInv, TypeOK
<1>1. /\ UNCHANGED <<leader, registry, eventCount>>
      /\ fdList' \in {fdList, [fdList EXCEPT ![b] = {}]}
      /\ pc'[Main] # "open"
  BY DEF DtorBegin, manager, Goto, Threads
<1>2. HeldLeader'
  BY <1>1 DEF HeldLeader
<1>3. OwnDescriptors'
  BY <1>1 DEF OwnDescriptors, Registered
<1>4. RegisteredAreOpenLeaders' /\ Books'
  BY <1>1 DEF RegisteredAreOpenLeaders, Registered, Books, BooksBalance
<1>5. QED
  BY <1>2, <1>3, <1>4

(* No step of any thread separates the registry from the kernel, or hands a
   descriptor to two blocks. *)
LEMMA RegistryStep == RegistryInv /\ [Next]_vars => RegistryInv'
<1> SUFFICES ASSUME RegistryInv, [Next]_vars PROVE RegistryInv'
  OBVIOUS
<1> USE DEF manager, kernel, block, ctor, Goto, MainAt
<1>1. TypeInv'
  BY TypeStep DEF RegistryInv
<1>2. pc \in [Threads -> Places] /\ Main \in Threads /\ Main \notin Sampled
  BY BlocksAssumption DEF BlocksAssumption, RegistryInv, TypeInv, TypeOK, Threads
<1>3. ASSUME NEW b \in Blocks, CtorBegin(b) PROVE RegistryInv'
  <2>1. HeldLeader'
    BY <1>3, StartsAtFirst DEF CtorBegin, HeldLeader, FirstOfCore
  <2>2. QED
    BY <1>1, <1>3, <2>1, RegistryFrame DEF CtorBegin
<1>4. ASSUME NEW b \in Blocks, Disable(b) \/ Enable(b) \/ Reset(b) \/ Call(b)
      PROVE RegistryInv'
  <2>1. UNCHANGED <<leader, registry, eventCount, fdList>> /\ pc'[Main] # "open"
    BY <1>2, <1>4 DEF Disable, Enable, Reset, Call
  <2>2. QED
    BY <1>1, <2>1, RegistryFrame DEF HeldLeader
<1>5. ASSUME NEW b \in Blocks, DtorBegin(b) PROVE RegistryInv'
  BY <1>1, <1>5, DtorBeginKeepsRegistry
<1>6. ASSUME NEW f \in Fds, OpenOk(f) PROVE RegistryInv'
  BY <1>1, <1>6, OpenKeepsRegistry
<1>7. CASE OpenFail \/ Launch \/ Arm \/ Join \/ DtorEnd
  <2>1. UNCHANGED <<leader, registry, eventCount, fdList>> /\ pc'[Main] # "open"
    BY <1>2, <1>7 DEF OpenFail, Launch, Arm, Join, DtorEnd
  <2>2. QED
    BY <1>1, <2>1, RegistryFrame DEF HeldLeader
<1>8. ASSUME NEW t \in Threads,
             ReadBegin(t) \/ Fetch(t) \/ ResetFetched(t) \/ ReadEnd(t)
      PROVE RegistryInv'
  <2>1. /\ UNCHANGED <<leader, registry, eventCount, fdList, ctor>>
        /\ pc'[Main] = "open" => pc[Main] = "open"
    BY <1>2, <1>8 DEF ReadBegin, Fetch, ResetFetched, ReadEnd, ReturnFrom
  <2>2. QED
    BY <1>1, <2>1, RegistryFrame, ConstructorFrame
<1>9. ASSUME NEW b \in Sampled, SamplerLoop(b) PROVE RegistryInv'
  <2>1. /\ UNCHANGED <<leader, registry, eventCount, fdList, ctor>>
        /\ pc'[Main] = pc[Main]
    BY <1>2, <1>9 DEF SamplerLoop
  <2>2. QED
    BY <1>1, <2>1, RegistryFrame, ConstructorFrame
<1>10. CASE Close
  BY <1>1, <1>10, CloseKeepsRegistry
<1>11. CASE Tick \/ UNCHANGED vars
  BY <1>1, <1>11, RegistryFrame, ConstructorFrame DEF Tick, vars
<1>12. QED
  BY <1>3, <1>4, <1>5, <1>6, <1>7, <1>8, <1>9, <1>10, <1>11
  DEF Next, UserCalls, MainProceeds, Samples, Threads

(* Nothing is registered before the first constructor. *)
LEMMA RegistryInit == Init => RegistryInv
<1> SUFFICES ASSUME Init PROVE RegistryInv
  OBVIOUS
<1>1. TypeInv
  BY TypeInit
<1>2. Registered = {} /\ pc[Main] = "idle"
  BY DEF Init, Registered, Threads
<1>3. SlotsOf(registry) = {}
  BY DEF Init, SlotsOf
<1>4. QED
  BY <1>1, <1>2, <1>3, FS_EmptySet
  DEF Init, RegistryInv, RegisteredAreOpenLeaders, OwnDescriptors, HeldLeader,
      Books, BooksBalance

(* The registry part of the invariant holds in every reachable state; the
   three theorems after it are its conjuncts. *)
LEMMA RegistryInvariant == Spec => []RegistryInv
BY RegistryInit, RegistryStep, PTL DEF Spec

(* The event count the manager reports is the sum over its registry. *)
THEOREM BooksAlwaysBalance == Spec => []BooksBalance
BY RegistryInvariant, PTL DEF RegistryInv, Books

(* The manager only ever touches open descriptors that lead their group. *)
THEOREM RegistryMatchesKernel == Spec => []RegisteredAreOpenLeaders
BY RegistryInvariant, PTL DEF RegistryInv

(* A destructor closes its own block's descriptors and no others. *)
THEOREM BlocksOwnTheirDescriptors == Spec => []OwnDescriptors
BY RegistryInvariant, PTL DEF RegistryInv

-----------------------------------------------------------------------------
(* Nothing is counted between the fetch of a value and its reset *)

(* While the program's thread reads, no counter in the group of a registered
   descriptor runs, and what was fetched has counted nothing since. *)
StandsStill ==
  pc[Main] \in {"fetch", "reset"} =>
    /\ \A f \in Registered, g \in running : leader[f] # leader[g]
    /\ todo[Main] \subseteq Registered
    /\ pc[Main] = "reset" => /\ at[Main] \in Registered
                             /\ \A g \in dirty : leader[g] # leader[at[Main]]

LossInv == RegistryInv /\ StandsStill /\ NothingLost

(* Without sampling threads only the program's thread reads, and no one starts
   a counter while it does. *)
LEMMA LossStep ==
  ASSUME Sampled = {}
  PROVE  LossInv /\ [Next]_vars => LossInv'
<1> SUFFICES ASSUME LossInv, [Next]_vars PROVE LossInv'
  OBVIOUS
<1> USE DEF LossInv, StandsStill, NothingLost, manager, kernel, block, ctor, reader,
            Goto, MainAt
<1>1. SUFFICES StandsStill' /\ NothingLost'
  BY RegistryStep
<1>2. /\ pc \in [Threads -> Places] /\ Threads = {Main}
      /\ todo \in [Threads -> SUBSET Fds] /\ at \in [Threads -> Fds \union {NoFd}]
      /\ fdList \in [Blocks -> SUBSET Fds] /\ cur \in Blocks
  BY DEF RegistryInv, TypeInv, TypeOK, Threads
<1>3. ASSUME NEW b \in Blocks, UserCalls(b) PROVE StandsStill' /\ NothingLost'
  BY <1>2, <1>3 DEF UserCalls, CtorBegin, Disable, Enable, Reset, Call, DtorBegin
<1>4. ASSUME NEW f \in Fds, OpenOk(f) PROVE StandsStill' /\ NothingLost'
  BY <1>2, <1>4 DEF OpenOk
<1>5. CASE OpenFail \/ Launch \/ Arm \/ Join \/ Close \/ DtorEnd
  <2>1. pc'[Main] \notin {"fetch", "reset"} /\ lossy' = lossy
    BY <1>2, <1>5 DEF OpenFail, Launch, Arm, Join, Close, DtorEnd
  <2>2. QED
    BY <2>1
<1>6. CASE ReadBegin(Main)
  <2>1. /\ UNCHANGED <<leader, registry, lossy>>
        /\ pc'[Main] = "fetch" =>
             /\ running' = running \ GroupsOf(Registered)
             /\ todo'[Main] = fdList[cur]
        /\ pc'[Main] # "reset"
    BY <1>2, <1>6 DEF ReadBegin, ReturnFrom, BlockOf, disable_all_events
  <2>2. fdList[cur] \subseteq Registered /\ Registered' = Registered
    BY <1>2, <2>1 DEF RegistryInv, OwnDescriptors, Registered
  <2>3. running \subseteq OpenFds
    BY DEF RegistryInv, TypeInv, TypeOK
  <2>4. pc'[Main] = "fetch" =>
          \A f \in Registered, g \in running' : leader[f] # leader[g]
    BY <2>1, <2>3 DEF GroupsOf
  <2>5. QED
    BY <2>1, <2>2, <2>4
<1>7. CASE Fetch(Main)
  <2>1. PICK f \in todo[Main] :
          /\ dirty' = dirty \ GroupsOf({f})
          /\ at' = [at EXCEPT ![Main] = f]
          /\ todo' = [todo EXCEPT ![Main] = @ \ {f}]
    BY <1>7 DEF Fetch
  <2>2. /\ pc[Main] = "fetch" /\ pc'[Main] = "reset"
        /\ UNCHANGED <<leader, running, registry, lossy>>
    BY <1>2, <1>7 DEF Fetch
  <2>3. f \in Registered /\ at'[Main] = f /\ todo'[Main] \subseteq Registered
    BY <1>2, <2>1, <2>2
  <2>4. Registered' = Registered /\ dirty \subseteq OpenFds
    BY <2>2 DEF Registered, RegistryInv, TypeInv, TypeOK
  <2>5. \A g \in dirty' : leader[g] # leader[f]
    BY <2>1, <2>4 DEF GroupsOf
  <2>6. QED
    BY <2>2, <2>3, <2>4, <2>5
<1>8. CASE ResetFetched(Main)
  <2>1. pc[Main] = "reset" /\ dirty \intersect GroupsOf({at[Main]}) = {}
    BY <1>8 DEF ResetFetched, GroupsOf
  <2>2. /\ pc'[Main] = "fetch"
        /\ UNCHANGED <<leader, running, registry, todo, lossy>>
    BY <1>2, <1>8, <2>1 DEF ResetFetched
  <2>3. Registered' = Registered
    BY <2>2 DEF Registered
  <2>4. QED
    BY <2>1, <2>2, <2>3
<1>9. CASE ReadEnd(Main)
  <2>1. pc'[Main] \notin {"fetch", "reset"} /\ lossy' = lossy
    BY <1>2, <1>9 DEF ReadEnd, ReturnFrom
  <2>2. QED
    BY <2>1
<1>10. CASE Tick
  <2>1. dirty' = dirty \union running
        /\ UNCHANGED <<leader, running, registry, pc, todo, at, lossy>>
    BY <1>10 DEF Tick
  <2>2. Registered' = Registered
    BY <2>1 DEF Registered
  <2>3. QED
    BY <2>1, <2>2
<1>11. CASE UNCHANGED vars
  <2>1. Registered' = Registered
    BY <1>11 DEF vars, Registered
  <2>2. QED
    BY <1>11, <2>1 DEF vars
<1>12. QED
  BY <1>3, <1>4, <1>5, <1>6, <1>7, <1>8, <1>9, <1>10, <1>11 DEF Next, MainProceeds

(* A reset after a read throws away nothing that was not returned, whatever
   blocks and groups a program without sampling threads uses. *)
THEOREM NothingIsLost ==
  ASSUME Sampled = {}
  PROVE  Spec => []NothingLost
<1>1. Init => LossInv
  <2> SUFFICES ASSUME Init PROVE LossInv
    OBVIOUS
  <2>1. RegistryInv
    BY RegistryInit
  <2>2. pc[Main] = "idle" /\ lossy = {}
    BY DEF Init, Threads
  <2>3. QED
    BY <2>1, <2>2 DEF LossInv, StandsStill, NothingLost
<1>2. LossInv /\ [Next]_vars => LossInv'
  BY LossStep
<1>3. LossInv => NothingLost
  BY DEF LossInv
<1>4. QED
  BY <1>1, <1>2, <1>3, PTL DEF Spec

-----------------------------------------------------------------------------
(* Blocks without groups *)

(* Without groups every open event leads itself and is in the list of a block
   in scope; the block a constructor works on is one of them. *)
Belongs ==
  /\ \A f \in OpenFds : leader[f] = f /\ \E b \in alive : f \in fdList[b]
  /\ pc[Main] = "open" => cur \in alive

LiveInv == RegistryInv /\ Belongs

LEMMA LiveStep ==
  ASSUME Grouped = {}
  PROVE  LiveInv /\ [Next]_vars => LiveInv'
<1> SUFFICES ASSUME LiveInv, [Next]_vars PROVE LiveInv'
  OBVIOUS
<1> USE DEF LiveInv, Belongs, manager, kernel, block, ctor, reader, Goto, MainAt
<1>1. SUFFICES Belongs'
  BY RegistryStep
<1>2. /\ pc \in [Threads -> Places] /\ Main \in Threads /\ Main \notin Sampled
      /\ Sampled \subseteq Threads
      /\ fdList \in [Blocks -> SUBSET Fds] /\ cur \in Blocks /\ alive \subseteq Blocks
      /\ leader \in [Fds -> Fds \union {NoFd}] /\ NoFd \notin Fds
  BY BlocksAssumption, NoFdAssumption
  DEF BlocksAssumption, NoFdAssumption, RegistryInv, TypeInv, TypeOK, Threads
<1>3. ASSUME UNCHANGED <<leader, fdList>>, alive \subseteq alive',
             pc'[Main] = "open" => cur' \in alive'
      PROVE  Belongs'
  BY <1>3 DEF OpenFds
<1>4. ASSUME NEW b \in Blocks, UserCalls(b) PROVE Belongs'
  <2>1. UNCHANGED <<leader, fdList>> /\ alive \subseteq alive'
    BY <1>4 DEF UserCalls, CtorBegin, Disable, Enable, Reset, Call, DtorBegin
  <2>2. pc'[Main] = "open" => cur' \in alive'
    BY <1>2, <1>4 DEF UserCalls, CtorBegin, Disable, Enable, Reset, Call, DtorBegin
  <2>3. QED
    BY <1>3, <2>1, <2>2
<1>5. ASSUME NEW f \in Fds, OpenOk(f) PROVE Belongs'
  <2>1. /\ leader' = [leader EXCEPT ![f] = f] /\ Kept(f) = {f}
        /\ fdList' = [fdList EXCEPT ![cur] = @ \union Kept(f)]
        /\ pc[Main] = "open" /\ UNCHANGED <<pc, cur, alive>>
    BY <1>5 DEF OpenOk, perf_event_open, Kept
  <2>2. QED
    BY <1>2, <2>1 DEF OpenFds
<1>6. CASE OpenFail \/ Launch \/ Arm \/ Join
  <2>1. UNCHANGED <<leader, fdList, alive>> /\ pc'[Main] # "open"
    BY <1>2, <1>6 DEF OpenFail, Launch, Arm, Join
  <2>2. alive \subseteq alive'
    BY <2>1
  <2>3. QED
    BY <1>3, <2>1, <2>2
<1>7. ASSUME NEW t \in Threads,
             ReadBegin(t) \/ Fetch(t) \/ ResetFetched(t) \/ ReadEnd(t)
      PROVE  Belongs'
  <2>1. /\ UNCHANGED <<leader, fdList, alive, cur>>
        /\ pc'[Main] = "open" => pc[Main] = "open"
    BY <1>2, <1>7 DEF ReadBegin, Fetch, ResetFetched, ReadEnd, ReturnFrom
  <2>2. QED
    BY <1>3, <2>1
<1>8. ASSUME NEW b \in Sampled, SamplerLoop(b) PROVE Belongs'
  <2>1. UNCHANGED <<leader, fdList, alive, cur>> /\ pc'[Main] = pc[Main]
    BY <1>2, <1>8 DEF SamplerLoop
  <2>2. QED
    BY <1>3, <2>1
<1>9. CASE Close
  <2>1. PICK f \in fdList[cur] :
           unregister_event(f) /\ fdList' = [fdList EXCEPT ![cur] = @ \ {f}]
    BY <1>9 DEF Close
  <2>2. pc[Main] = "close" /\ UNCHANGED <<pc, cur, alive>>
    BY <1>9 DEF Close
  <2>3. f \in Registered /\ f \in Fds
    BY <1>2, <2>1 DEF RegistryInv, OwnDescriptors
  <2>4. leader' = [g \in Fds |-> CASE g = f -> NoFd
                                   [] g # f /\ leader[g] = f -> g
                                   [] OTHER -> leader[g]]
    BY <2>1, <2>3 DEF unregister_event, perf_close
  <2>5. ASSUME NEW g \in OpenFds' PROVE g \in OpenFds /\ g # f /\ leader'[g] = g
    <3>1. g \in Fds /\ leader'[g] # NoFd
      BY <2>5 DEF OpenFds
    <3>2. g # f
      BY <2>4, <3>1
    <3>3. leader'[g] = IF leader[g] = f THEN g ELSE leader[g]
      BY <2>4, <3>1, <3>2
    <3>4. leader[g] # NoFd
      BY <2>3, <3>1, <3>3, <1>2
    <3>5. g \in OpenFds /\ leader[g] = g
      BY <3>1, <3>4 DEF OpenFds
    <3>6. QED
      BY <3>2, <3>3, <3>5
  <2>6. ASSUME NEW g \in OpenFds' PROVE \E b \in alive' : g \in fdList'[b]
    <3>1. PICK b \in alive : g \in fdList[b]
      BY <2>5, <2>6
    <3>2. g \in fdList'[b] /\ b \in alive'
      BY <1>2, <2>1, <2>2, <2>5, <2>6, <3>1
    <3>3. QED
      BY <3>2
  <2>7. pc'[Main] # "open"
    BY <2>2
  <2>8. QED
    BY <2>5, <2>6, <2>7
<1>10. CASE DtorEnd
  <2>1. /\ UNCHANGED <<leader, fdList>> /\ fdList[cur] = {} /\ alive' = alive \ {cur}
        /\ pc'[Main] # "open"
    BY <1>2, <1>10 DEF DtorEnd
  <2>2. OpenFds' = OpenFds
    BY <2>1 DEF OpenFds
  <2>3. \A f \in OpenFds : \E b \in alive' : f \in fdList[b]
    BY <2>1
  <2>4. QED
    BY <2>1, <2>2, <2>3
<1>11. CASE Tick \/ UNCHANGED vars
  <2>1. UNCHANGED <<leader, fdList, alive, cur, pc>>
    BY <1>11 DEF Tick, vars
  <2>2. QED
    BY <1>3, <2>1
<1>12. QED
  BY <1>4, <1>5, <1>6, <1>7, <1>8, <1>9, <1>10, <1>11
  DEF Next, MainProceeds, Samples, Threads

LEMMA LiveInvariant ==
  ASSUME Grouped = {}
  PROVE  Spec => []LiveInv
<1>1. Init => LiveInv
  BY RegistryInit DEF Init, LiveInv, Belongs, OpenFds, Threads
<1>2. LiveInv /\ [Next]_vars => LiveInv'
  BY LiveStep
<1>3. QED
  BY <1>1, <1>2, PTL DEF Spec

(* A counter that runs belongs to a block whose scope has not ended, with any
   number of sampling threads and whatever opens fail, as long as the program
   uses no groups. *)
THEOREM NoOrphanRuns ==
  ASSUME Grouped = {}
  PROVE  Spec => []RunningBelongsToLiveBlock
<1>1. LiveInv => RunningBelongsToLiveBlock
  BY DEF LiveInv, Belongs, RunningBelongsToLiveBlock, GroupsOf, RegistryInv, TypeInv, TypeOK
<1>2. QED
  BY <1>1, LiveInvariant, PTL

(* The counters may stand still: someone has stopped them and will start them
   again. *)
Stopping ==
  \/ pc[Main] \in {"open", "arm", "fetch", "reset", "join", "close"}
  \/ pc[Main] = "call" /\ inDtor
  \/ \E b \in Sampled : pc[b] \in {"fetch", "reset"}

(* Otherwise every enabled block in scope is counting; and a block without
   groups is configured from its constructor on, so that no read of it returns
   between the stop and the start. *)
Measuring ==
  /\ ~Stopping => \A b \in alive : isEnabled[b] => fdList[b] \subseteq running
  /\ \A b \in Blocks : b \in alive \/ isEnabled[b] => isConfigured[b]
  /\ pc[Main] = "join" => inDtor

(* Starting all counters starts those of every block. *)
LEMMA EnableAllStarts ==
  ASSUME RegistryInv, enable_all_events, NEW b \in Blocks
  PROVE  fdList[b] \subseteq running'
<1>1. fdList[b] \subseteq Registered /\ \A f \in Registered : leader[f] = f
  BY DEF RegistryInv, OwnDescriptors, RegisteredAreOpenLeaders
<1>2. Registered \subseteq OpenFds
  BY <1>1, NoFdAssumption DEF NoFdAssumption, Registered, OpenFds
<1>3. Registered \subseteq GroupsOf(Registered)
  BY <1>2 DEF GroupsOf
<1>4. QED
  BY <1>1, <1>3 DEF enable_all_events

(* A step that stops nothing, starts nothing, and ends no one's stop. *)
LEMMA MeasuringFrame ==
  ASSUME Measuring, Stopping' <=> Stopping, running \subseteq running',
         UNCHANGED <<alive, fdList, isEnabled, isConfigured>>,
         pc'[Main] = "join" => inDtor'
  PROVE  Measuring'
BY DEF Measuring

LEMMA MeasuringStep ==
  ASSUME Grouped = {}
  PROVE  LiveInv /\ Measuring /\ [Next]_vars /\ [~OpenFail]_vars => Measuring'
<1> SUFFICES ASSUME LiveInv, Measuring, [Next]_vars, [~OpenFail]_vars PROVE Measuring'
  OBVIOUS
<1> USE DEF manager, kernel, block, ctor, reader, Goto, MainAt
<1>1. /\ pc \in [Threads -> Places] /\ Main \in Threads /\ Main \notin Sampled
      /\ Sampled \subseteq Threads /\ Sampled \subseteq Blocks
      /\ fdList \in [Blocks -> SUBSET Fds] /\ cur \in Blocks /\ alive \subseteq Blocks
      /\ isEnabled \in [Blocks -> BOOLEAN] /\ isConfigured \in [Blocks -> BOOLEAN]
  BY BlocksAssumption DEF BlocksAssumption, LiveInv, RegistryInv, TypeInv, TypeOK, Threads
<1>2. /\ RegistryInv
      /\ \A a, b \in Blocks : a # b => fdList[a] \intersect fdList[b] = {}
      /\ \A b \in Blocks : fdList[b] \subseteq OpenFds
      /\ \A f \in OpenFds : leader[f] = f
  BY NoFdAssumption DEF LiveInv, Belongs, RegistryInv, OwnDescriptors, NoFdAssumption,
                        RegisteredAreOpenLeaders, Registered, OpenFds
<1>3. \A b \in Blocks : GroupsOf(fdList[b]) = fdList[b]
  BY <1>2 DEF GroupsOf
<1>4. ASSUME NEW b \in Blocks, CtorBegin(b) PROVE Measuring'
  <2>1. /\ pc'[Main] = "open" /\ alive' = alive \union {b}
        /\ isConfigured' = [isConfigured EXCEPT ![b] = TRUE]
        /\ isEnabled' = [isEnabled EXCEPT ![b] = TRUE]
    BY <1>1, <1>4 DEF CtorBegin
  <2>2. Stopping'
    BY <2>1 DEF Stopping
  <2>3. \A c \in Blocks : c \in alive' \/ isEnabled'[c] => isConfigured'[c]
    BY <1>1, <2>1 DEF Measuring
  <2>4. QED
    BY <2>1, <2>2, <2>3 DEF Measuring
<1>5. ASSUME NEW b \in Blocks, Disable(b) PROVE Measuring'
  <2>1. /\ UNCHANGED <<alive, fdList, isConfigured, pc, inDtor>> /\ b \in alive
        /\ isEnabled' = [isEnabled EXCEPT ![b] = FALSE]
        /\ running' = running \ fdList[b]
    BY <1>3, <1>5 DEF Disable
  <2>2. Stopping' <=> Stopping
    BY <2>1 DEF Stopping
  <2>3. QED
    BY <1>1, <1>2, <2>1, <2>2 DEF Measuring
<1>6. ASSUME NEW b \in Blocks, Enable(b) PROVE Measuring'
  <2>1. /\ UNCHANGED <<alive, fdList, isConfigured, pc, inDtor>> /\ b \in alive
        /\ isEnabled' = [isEnabled EXCEPT ![b] = TRUE]
        /\ running' = running \union fdList[b]
    BY <1>3, <1>6 DEF Enable
  <2>2. Stopping' <=> Stopping
    BY <2>1 DEF Stopping
  <2>3. QED
    BY <1>1, <2>1, <2>2 DEF Measuring
<1>7. ASSUME NEW b \in Blocks, Reset(b) \/ Call(b) PROVE Measuring'
  <2>1. /\ UNCHANGED <<alive, fdList, isEnabled, isConfigured, running>>
        /\ pc[Main] = "idle" /\ \A c \in Sampled : pc'[c] = pc[c]
        /\ pc'[Main] = "idle" \/ pc'[Main] = "call"
    BY <1>1, <1>7 DEF Reset, Call
  <2>2. pc'[Main] = "call" => ~inDtor'
    <3>1. Call(b) => inDtor' = FALSE
      BY Zenon DEF Call
    <3>2. Reset(b) => pc'[Main] = "idle"
      BY <2>1 DEF Reset
    <3>3. QED
      BY <1>7, <3>1, <3>2
  <2>3. Stopping' <=> Stopping
    BY <2>1, <2>2 DEF Stopping
  <2>4. QED
    BY <2>1, <2>3, MeasuringFrame
<1>8. ASSUME NEW b \in Blocks, DtorBegin(b) PROVE Measuring'
  <2>1. /\ UNCHANGED <<alive, fdList, isEnabled, isConfigured>>
        /\ pc'[Main] = "join" /\ inDtor'
    BY <1>1, <1>8 DEF DtorBegin
  <2>2. QED
    BY <2>1 DEF Measuring, Stopping
<1>9. ASSUME NEW f \in Fds, OpenOk(f) PROVE Measuring'
  <2>1. UNCHANGED <<alive, isEnabled, isConfigured, pc, inDtor>> /\ pc[Main] = "open"
    BY <1>9 DEF OpenOk
  <2>2. QED
    BY <2>1 DEF Measuring, Stopping
<1>10. CASE Launch \/ Join
  <2>1. UNCHANGED <<alive, fdList, isEnabled, isConfigured, inDtor>>
    BY <1>10 DEF Launch, Join
  <2>2. CASE Launch
    <3>1. pc'[Main] = "arm"
      BY <1>1, <2>2 DEF Launch
    <3>2. QED
      BY <2>1, <3>1 DEF Measuring, Stopping
  <2>3. CASE Join
    <3>1. pc[Main] = "join" /\ pc'[Main] = "call"
      BY <1>1, <2>3 DEF Join
    <3>2. QED
      BY <2>1, <3>1 DEF Measuring, Stopping
  <2>4. QED
    BY <1>10, <2>2, <2>3
<1>11. ASSUME Arm \/ DtorEnd \/ \E t \in Threads : ReadEnd(t) PROVE Measuring'
  <2>1. /\ enable_all_events /\ alive' \subseteq alive
        /\ UNCHANGED <<fdList, isEnabled, isConfigured>>
        /\ (pc'[Main] = pc[Main] /\ inDtor' = inDtor) \/ pc'[Main] # "join"
    BY <1>1, <1>11 DEF Arm, DtorEnd, ReadEnd, ReturnFrom
  <2>2. \A b \in Blocks : fdList'[b] \subseteq running'
    BY <1>2, <2>1, EnableAllStarts
  <2>3. QED
    BY <1>1, <2>1, <2>2 DEF Measuring
<1>12. ASSUME NEW t \in Threads, ReadBegin(t) PROVE Measuring'
  <2>1. pc[t] = "call" /\ UNCHANGED <<alive, fdList, isEnabled, isConfigured, inDtor>>
    BY <1>12 DEF ReadBegin
  <2>2. BlockOf(t) \in Blocks
    BY <1>1 DEF BlockOf, Threads
  <2>3. CASE isEnabled[BlockOf(t)]
    <3>1. isConfigured[BlockOf(t)]
      BY <2>2, <2>3 DEF Measuring
    <3>2. pc' = [pc EXCEPT ![t] = "fetch"]
      BY <1>12, <2>3, <3>1 DEF ReadBegin
    <3>3. Stopping' /\ (pc'[Main] # "join" \/ pc'[Main] = pc[Main])
      BY <1>1, <3>2 DEF Stopping, Threads
    <3>4. QED
      BY <2>1, <3>3 DEF Measuring
  <2>4. CASE ~isEnabled[BlockOf(t)]
    <3>1. running' = running /\ ReturnFrom(t)
      BY <1>12, <2>4 DEF ReadBegin
    <3>2. CASE t = Main
      <4>1. /\ pc'[Main] = IF inDtor THEN "close" ELSE "idle"
            /\ \A b \in Sampled : pc'[b] = pc[b]
        BY <1>1, <3>1, <3>2 DEF ReturnFrom
      <4>2. Stopping' <=> Stopping
        BY <2>1, <3>2, <4>1 DEF Stopping
      <4>3. QED
        BY <2>1, <3>1, <4>1, <4>2, MeasuringFrame
    <3>3. CASE t # Main
      <4>1. pc' = [pc EXCEPT ![t] = "loop"]
        BY <3>1, <3>3 DEF ReturnFrom
      <4>2. pc'[Main] = pc[Main] /\ \A b \in Sampled : b # t => pc'[b] = pc[b]
        BY <1>1, <3>3, <4>1
      <4>3. pc'[t] = "loop"
        BY <1>1, <4>1
      <4>4. Stopping' <=> Stopping
        BY <2>1, <4>2, <4>3 DEF Stopping
      <4>5. pc'[Main] = "join" => inDtor'
        BY <2>1, <4>2 DEF Measuring
      <4>6. QED
        BY <2>1, <3>1, <4>4, <4>5, MeasuringFrame
    <3>4. QED
      BY <3>2, <3>3
  <2>5. QED
    BY <2>3, <2>4
<1>13. ASSUME NEW t \in Threads, Fetch(t) \/ ResetFetched(t) PROVE Measuring'
  <2>1. /\ UNCHANGED <<running, alive, fdList, isEnabled, isConfigured, inDtor>>
        /\ pc[t] \in {"fetch", "reset"} /\ pc'[t] \in {"fetch", "reset"}
        /\ \A u \in Threads : u # t => pc'[u] = pc[u]
    BY <1>1, <1>13 DEF Fetch, ResetFetched
  <2>2. Stopping' <=> Stopping
    BY <1>1, <2>1 DEF Stopping, Threads
  <2>3. pc'[Main] = "join" => inDtor'
    BY <1>1, <2>1 DEF Measuring
  <2>4. QED
    BY <2>1, <2>2, <2>3, MeasuringFrame
<1>14. ASSUME NEW b \in Sampled, SamplerLoop(b) PROVE Measuring'
  <2>1. /\ UNCHANGED <<running, alive, fdList, isEnabled, isConfigured, inDtor>>
        /\ pc[b] = "loop" /\ pc'[b] \in {"call", "exited"}
        /\ \A u \in Threads : u # b => pc'[u] = pc[u]
    BY <1>1, <1>14 DEF SamplerLoop
  <2>2. Stopping' <=> Stopping
    BY <1>1, <2>1 DEF Stopping
  <2>3. pc'[Main] = "join" => inDtor'
    BY <1>1, <2>1 DEF Measuring
  <2>4. QED
    BY <2>1, <2>2, <2>3, MeasuringFrame
<1>15. CASE Close
  <2>1. UNCHANGED <<alive, isEnabled, isConfigured, pc, inDtor>> /\ pc[Main] = "close"
    BY <1>15 DEF Close
  <2>2. QED
    BY <2>1 DEF Measuring, Stopping
<1>16. CASE Tick \/ UNCHANGED vars
  <2>1. UNCHANGED <<running, alive, fdList, isEnabled, isConfigured, pc, inDtor>>
    BY <1>16 DEF Tick, vars
  <2>2. QED
    BY <2>1 DEF Measuring, Stopping
<1>17. QED
  BY <1>4, <1>5, <1>6, <1>7, <1>8, <1>9, <1>10, <1>11, <1>12, <1>13, <1>14, <1>15,
     <1>16
  DEF Next, UserCalls, MainProceeds, Samples, Threads

(* As long as the program uses no groups and every event it asks for opens,
   every enabled block in scope measures whenever no thread is inside a call:
   each stop of the shared counters, by any of the threads and in whatever
   order they interleave, is followed by a start. *)
THEOREM MeasuresWhenQuiet ==
  ASSUME Grouped = {}
  PROVE  Spec /\ [][~OpenFail]_vars => []MeasuringWhenQuiet
<1>1. Init => Measuring
  BY DEF Init, Measuring, Stopping, Threads
<1>2. LiveInv /\ Measuring => MeasuringWhenQuiet
  <2> SUFFICES ASSUME LiveInv, Measuring, Quiet, NEW b \in alive, isEnabled[b]
               PROVE  GroupsOf(fdList[b]) \subseteq running
    BY DEF MeasuringWhenQuiet
  <2>1. ~Stopping
    BY DEF Quiet, Stopping
  <2>2. fdList[b] \subseteq running
    BY <2>1 DEF Measuring
  <2>3. /\ fdList[b] \subseteq Registered /\ \A f \in Registered : leader[f] = f
        /\ \A f \in OpenFds : leader[f] = f
    BY DEF LiveInv, Belongs, RegistryInv, OwnDescriptors, RegisteredAreOpenLeaders,
           TypeInv, TypeOK
  <2>4. QED
    BY <2>2, <2>3 DEF GroupsOf
<1>3. LiveInv /\ Measuring /\ [Next]_vars /\ [~OpenFail]_vars => Measuring'
  BY MeasuringStep
<1>4. QED
  BY <1>1, <1>2, <1>3, LiveInvariant, PTL DEF Spec
=============================================================================
