----------------------------- MODULE CApiProofs -----------------------------
(***************************************************************************)
(* What the C interface promises for any numbers of devices, starts and    *)
(* failures: the GPU libraries are up as often as the code believes, an    *)
(* index names its device, and scopes and profilers stay in step.          *)
(***************************************************************************)
EXTENDS CApi, TLAPS, FiniteSetTheorems, SequenceTheorems

-----------------------------------------------------------------------------
(* One vendor's part of Query. *)

Balanced(g) == g.refs = IF g.initialized THEN 1 ELSE 0

(* The list is right when it may be used, and an NVML that is down has none   *)
(* that an initialization would append to.                                    *)
Named(v, g) ==
  ~g.spoiled =>
    /\ g.initialized => g.handles = FirstDevices(v, Devices[v])
    /\ v = "nvidia" /\ ~g.initialized => g.handles = <<>>

Sound(v, g) == g \in Queries /\ Balanced(g) /\ Named(v, g)

LEMMA DevicesListed ==
  ASSUME NEW v \in Vendors, NEW n \in Nat
  PROVE  /\ FirstDevices(v, n) \in Seq(Nat)
         /\ Len(FirstDevices(v, n)) = n
         /\ \A i \in 1 .. n : FirstDevices(v, n)[i] = i
<1>1. FirstDevices(v, n) \in [1 .. n -> Nat]
  BY DEF FirstDevices
<1>2. QED
  BY <1>1 DEF FirstDevices

LEMMA DeviceCounts == \A v \in Vendors : Devices[v] \in Nat
BY DevicesAssumption DEF DevicesAssumption

LEMMA NoHandles == <<>> \in Seq(Nat)
OBVIOUS

LEMMA StoppedIsSound ==
  ASSUME NEW v \in Vendors, NEW g \in Queries, g.refs = 1
  PROVE  Sound(v, Stopped(g))
<1>1. g.refs - 1 \in Nat
  BY DEF Queries
<1>2. Stopped(g) \in Queries
  BY <1>1, NoHandles, Zenon DEF Stopped, Queries
<1>3. Stopped(g).refs = 0 /\ ~Stopped(g).initialized /\ Stopped(g).handles = <<>>
  BY DEF Stopped, Queries
<1>4. QED
  BY <1>2, <1>3 DEF Sound, Balanced, Named

(* A library that is down comes up, and may have to go down again. *)
LEMMA UpAndDown ==
  ASSUME NEW v \in Vendors, NEW g, Sound(v, g), ~g.initialized
  PROVE  /\ Up(g) \in Queries /\ Up(g).initialized /\ Up(g).refs = 1
         /\ Up(g).handles = g.handles /\ (Up(g).spoiled <=> g.spoiled)
         /\ GiveUp(Up(g)) \in Queries /\ ~GiveUp(Up(g)).initialized
         /\ GiveUp(Up(g)).refs = 0
         /\ GiveUp(Up(g)).handles = g.handles
         /\ (GiveUp(Up(g)).spoiled <=> g.spoiled)
<1>1. g \in Queries /\ g.refs = 0
  BY DEF Sound, Balanced
<1>2. g.refs + 1 \in Nat
  BY <1>1
<1>3. Up(g) \in Queries
  BY <1>1, <1>2, Zenon DEF Up, Queries
<1>4. Up(g).initialized /\ Up(g).refs = 1 /\ Up(g).handles = g.handles
  BY <1>1 DEF Up, Queries
<1>5. Up(g).spoiled <=> g.spoiled
  BY <1>1 DEF Up, Queries
<1> DEFINE up == Up(g)
<1> HIDE DEF up
<1>6. up \in Queries /\ up.refs = 1
  BY <1>3, <1>4 DEF up
<1>7. up.refs - 1 \in Nat
  BY <1>6
<1>8. GiveUp(up) \in Queries
  BY <1>6, <1>7, Zenon DEF GiveUp, Queries
<1>9. GiveUp(up).refs = 0 /\ ~GiveUp(up).initialized /\ GiveUp(up).handles = up.handles
  BY <1>6 DEF GiveUp, Queries
<1>10. GiveUp(up).spoiled <=> up.spoiled
  BY <1>6 DEF GiveUp, Queries
<1>11. QED
  BY <1>3, <1>4, <1>5, <1>8, <1>9, <1>10 DEF up

LEMMA ShutdownIsSound ==
  ASSUME NEW v \in Vendors, NEW g, Sound(v, g), NEW refuses \in BOOLEAN
  PROVE  Sound(v, Shutdown(g, refuses))
<1>1. CASE g.initialized /\ ~refuses
  BY <1>1, StoppedIsSound DEF Shutdown, Sound, Balanced
<1>2. CASE ~(g.initialized /\ ~refuses)
  BY <1>2 DEF Shutdown
<1>3. QED
  BY <1>1, <1>2

LEMMA NvmlInitIsSound ==
  ASSUME NEW g, Sound("nvidia", g), NEW calls \in 0 .. NvmlCalls
  PROVE  Sound("nvidia", NvmlInit(g, calls))
<1> DEFINE found == g.handles \o FirstDevices("nvidia", calls - 2)
<1>1. "nvidia" \in Vendors /\ Devices["nvidia"] \in Nat /\ NvmlCalls = Devices["nvidia"] + 2
  BY DeviceCounts DEF Vendors, NvmlCalls
<1>2. CASE g.initialized \/ calls = 0
  <2>1. g.initialized \in BOOLEAN /\ calls \in Nat
    BY <1>1 DEF Sound, Queries
  <2>2. NvmlInit(g, calls) = g
    <3>1. CASE g.initialized
      BY <2>1, <3>1 DEF NvmlInit
    <3>2. CASE ~g.initialized /\ calls = 0
      BY <1>1, <3>2 DEF NvmlInit
    <3>3. QED
      BY <1>2, <2>1, <3>1, <3>2
  <2>3. QED
    BY <2>2
<1>3. CASE ~g.initialized /\ calls = 1
  <2>1. NvmlInit(g, calls) = GiveUp(Up(g))
    BY <1>3, <1>1 DEF NvmlInit
  <2>2. QED
    BY <2>1, <1>1, <1>3, UpAndDown DEF Sound, Balanced, Named
<1>4. ASSUME ~g.initialized, calls >= 2
      PROVE  found \in Seq(Nat)
  <2>1. g.handles \in Seq(Nat) /\ calls - 2 \in Nat
    BY <1>4, <1>1 DEF Sound, Queries
  <2>2. FirstDevices("nvidia", calls - 2) \in Seq(Nat)
    BY <2>1, <1>1, DevicesListed
  <2>3. QED
    BY <2>1, <2>2, ConcatProperties
<1>5. CASE ~g.initialized /\ calls \in 2 .. NvmlCalls - 1
  <2>1. NvmlInit(g, calls) = [GiveUp(Up(g)) EXCEPT !.handles = found, !.spoiled = TRUE]
    BY <1>5, <1>1 DEF NvmlInit
  <2>2. found \in Seq(Nat)
    BY <1>4, <1>5, <1>1
  <2> HIDE DEF found
  <2> DEFINE down == GiveUp(Up(g))
  <2>3. down \in Queries /\ ~down.initialized /\ down.refs = 0
    BY <1>1, <1>5, UpAndDown
  <2> HIDE DEF down
  <2>4. [down EXCEPT !.handles = found, !.spoiled = TRUE] \in Queries
    BY <2>2, <2>3, Zenon DEF Queries
  <2>5. Sound("nvidia", [down EXCEPT !.handles = found, !.spoiled = TRUE])
    BY <2>3, <2>4 DEF Sound, Queries, Balanced, Named
  <2>6. QED
    BY <2>1, <2>5 DEF down
<1>6. CASE ~g.initialized /\ calls = NvmlCalls
  <2>1. NvmlInit(g, calls) = [Up(g) EXCEPT !.handles = found]
    BY <1>6, <1>1 DEF NvmlInit
  <2>2. found \in Seq(Nat)
    BY <1>4, <1>6, <1>1
  <2>3. ~g.spoiled => found = FirstDevices("nvidia", Devices["nvidia"])
    <3>1. calls - 2 = Devices["nvidia"]
      BY <1>6, <1>1
    <3>2. FirstDevices("nvidia", Devices["nvidia"]) \in Seq(Nat)
      BY <1>1, DevicesListed
    <3>3. ~g.spoiled => g.handles = <<>>
      BY <1>6 DEF Sound, Named
    <3>4. QED
      BY <3>1, <3>2, <3>3, ConcatEmptySeq
  <2> HIDE DEF found
  <2> DEFINE up == Up(g)
  <2>4. up \in Queries /\ up.initialized /\ up.refs = 1 /\ (up.spoiled <=> g.spoiled)
    BY <1>1, <1>6, UpAndDown
  <2> HIDE DEF up
  <2>5. [up EXCEPT !.handles = found] \in Queries
    BY <2>2, <2>4, Zenon DEF Queries
  <2>6. Sound("nvidia", [up EXCEPT !.handles = found])
    BY <2>3, <2>4, <2>5 DEF Sound, Queries, Balanced, Named
  <2>7. QED
    BY <2>1, <2>6 DEF up
<1>7. QED
  BY <1>1, <1>2, <1>3, <1>5, <1>6

LEMMA PopulatedList ==
  ASSUME NEW g \in Queries, NEW calls \in 0 .. AmdsmiCalls
  PROVE  /\ Populate(g, calls) \in Queries
         /\ Populate(g, calls).initialized = g.initialized
         /\ Populate(g, calls).refs = g.refs
         /\ ~Populate(g, calls).spoiled =>
              Populate(g, calls).handles = FirstDevices("amd", Devices["amd"])
<1> DEFINE all == FirstDevices("amd", Devices["amd"])
           total == IF calls >= 4 THEN Devices["amd"] ELSE 0
           handles == IF calls = 5 THEN all ELSE g.handles
<1>1. CASE g.populated
  BY <1>1 DEF Populate, Queries
<1>2. CASE ~g.populated
  <2>1. all \in Seq(Nat) /\ total \in Nat
    BY DeviceCounts, DevicesListed DEF Vendors
  <2>2. handles \in Seq(Nat) /\ (calls < 5) \in BOOLEAN
    BY <2>1 DEF Queries
  <2>3. ~(calls < 5) => handles = all
    BY DEF AmdsmiCalls
  <2>4. Populate(g, calls) =
          [g EXCEPT !.populated = TRUE, !.total = total, !.handles = handles,
                    !.spoiled = (calls < 5)]
    BY <1>2 DEF Populate
  <2> HIDE DEF all, total, handles
  <2>5. Populate(g, calls) \in Queries
    BY <2>1, <2>2, <2>4, Zenon DEF Queries
  <2>6. /\ Populate(g, calls).initialized = g.initialized
        /\ Populate(g, calls).refs = g.refs
        /\ Populate(g, calls).handles = handles
        /\ Populate(g, calls).spoiled <=> (calls < 5)
    BY <2>4 DEF Queries
  <2>7. QED
    BY <2>3, <2>5, <2>6 DEF all
<1>3. QED
  BY <1>1, <1>2

LEMMA AmdsmiInitIsSound ==
  ASSUME NEW g, Sound("amd", g), NEW calls \in 0 .. AmdsmiCalls
  PROVE  Sound("amd", AmdsmiInit(g, calls))
<1> DEFINE up == Populate(Up(g), calls)
<1>1. CASE g.initialized \/ calls = 0
  BY <1>1 DEF AmdsmiInit
<1>2. CASE ~g.initialized /\ calls # 0
  <2>1. FirstDevices("amd", Devices["amd"]) \in Seq(Nat) /\ Devices["amd"] \in Nat
    BY DeviceCounts, DevicesListed DEF Vendors
  <2>2. Up(g) \in Queries /\ Up(g).initialized /\ Up(g).refs = 1
    BY <1>2, UpAndDown DEF Vendors
  <2>3. /\ up \in Queries /\ up.initialized /\ up.refs = 1
        /\ ~up.spoiled => up.handles = FirstDevices("amd", Devices["amd"])
    BY <2>1, <2>2, PopulatedList
  <2> HIDE DEF up
  <2>5. AmdsmiInit(g, calls) = IF up.total = 0 THEN Stopped(up) ELSE up
    BY <1>2 DEF AmdsmiInit, up
  <2>6. "amd" \in Vendors /\ "amd" # "nvidia"
    BY DEF Vendors
  <2>7. CASE up.total = 0
    <3>1. AmdsmiInit(g, calls) = Stopped(up)
      BY <2>5, <2>7
    <3>2. Sound("amd", Stopped(up))
      BY <2>3, <2>6, StoppedIsSound
    <3>3. QED
      BY <3>1, <3>2
  <2>8. CASE up.total # 0
    <3>1. AmdsmiInit(g, calls) = up
      BY <2>5, <2>8
    <3>2. Sound("amd", up)
      BY <2>3, <2>6 DEF Sound, Balanced, Named
    <3>3. QED
      BY <3>1, <3>2
  <2>9. QED
    BY <2>7, <2>8
<1>3. QED
  BY <1>1, <1>2

(* Whichever call of the library fails. *)
LEMMA InitializeIsSound ==
  ASSUME NEW v \in Vendors, NEW g, Sound(v, g), NEW calls \in 0 .. Calls(v)
  PROVE  Sound(v, Initialize(v, g, calls))
BY NvmlInitIsSound, AmdsmiInitIsSound DEF Vendors, Calls, Initialize

LEMMA DiscoverIsSound ==
  ASSUME NEW v \in Vendors, NEW g, Sound(v, g), NEW calls \in 0 .. Calls(v)
  PROVE  Sound(v, Discover(v, g, calls))
BY InitializeIsSound, ShutdownIsSound DEF Discover

LEMMA CallsThatMaySucceed ==
  \A v \in Vendors : Successes(v) \subseteq 0 .. Calls(v) /\ Refusals(v) \subseteq BOOLEAN
<1>1. SUFFICES ASSUME NEW v \in Vendors
               PROVE  Successes(v) \subseteq 0 .. Calls(v) /\ Refusals(v) \subseteq BOOLEAN
  OBVIOUS
<1>2. Calls(v) \in Nat
  BY DeviceCounts DEF Calls, NvmlCalls, AmdsmiCalls, Vendors
<1>3. Calls(v) \in 0 .. Calls(v)
  BY <1>2
<1>4. Successes(v) \subseteq 0 .. Calls(v)
  BY <1>3 DEF Successes
<1>5. Refusals(v) \subseteq BOOLEAN
  BY DEF Refusals
<1>6. QED
  BY <1>4, <1>5

AllSound ==
  /\ gpu = [v \in Vendors |-> gpu[v]]
  /\ \A v \in Vendors : Sound(v, gpu[v])

LEMMA QueriesPreserved == AllSound /\ [Next]_vars => AllSound'
<1> SUFFICES ASSUME AllSound, [Next]_vars PROVE AllSound'
  OBVIOUS
<1>1. CASE UNCHANGED gpu
  BY <1>1 DEF AllSound
<1>2. CASE optkit_init
  <2>1. PICK nvml \in Successes("nvidia"), amdsmi \in Successes("amd") :
          gpu' = [v \in Vendors |->
                    Discover(v, gpu[v], IF v = "nvidia" THEN nvml ELSE amdsmi)]
    BY <1>2 DEF optkit_init
  <2>2. nvml \in 0 .. Calls("nvidia") /\ amdsmi \in 0 .. Calls("amd")
    BY CallsThatMaySucceed DEF Vendors
  <2>3. QED
    BY <2>1, <2>2, DiscoverIsSound DEF AllSound, Vendors
<1>3. CASE optkit_finalize
  <2>1. PICK nvml \in Refusals("nvidia"), amdsmi \in Refusals("amd") :
          gpu' = [v \in Vendors |->
                    Shutdown(gpu[v], IF v = "nvidia" THEN nvml ELSE amdsmi)]
    BY <1>3 DEF optkit_finalize
  <2>2. nvml \in BOOLEAN /\ amdsmi \in BOOLEAN
    BY CallsThatMaySucceed DEF Vendors
  <2>3. QED
    BY <2>1, <2>2, ShutdownIsSound DEF AllSound, Vendors
<1>4. ASSUME NEW v \in Vendors, QueryGpu(v)
      PROVE  AllSound'
  <2>1. PICK calls \in Successes(v) : gpu' = [gpu EXCEPT ![v] = Initialize(v, @, calls)]
    BY <1>4 DEF QueryGpu
  <2>2. calls \in 0 .. Calls(v)
    BY CallsThatMaySucceed
  <2>3. QED
    BY <2>1, <2>2, InitializeIsSound DEF AllSound
<1>5. ASSUME NEW v \in Vendors, optkit_query_gpu_shutdown(v)
      PROVE  AllSound'
  <2>1. PICK refuses \in Refusals(v) : gpu' = [gpu EXCEPT ![v] = Shutdown(@, refuses)]
    BY <1>5 DEF optkit_query_gpu_shutdown
  <2>2. refuses \in BOOLEAN
    BY CallsThatMaySucceed
  <2>3. QED
    BY <2>1, <2>2, ShutdownIsSound DEF AllSound
<1>6. QED
  BY <1>1, <1>2, <1>3, <1>4, <1>5 DEF Next, Start, Stop, vars

LEMMA QueriesInitially == Init => AllSound
BY NoHandles DEF Init, QueryInit, AllSound, Sound, Queries, Balanced, Named

LEMMA QueriesSound == Spec => []AllSound
BY QueriesInitially, QueriesPreserved, PTL DEF Spec

(* A library is up exactly once where the code takes it for initialized, and  *)
(* down where it does not, for any number of devices and any call that fails. *)
THEOREM LibrariesBalanced == Spec => []LibraryBalanced
<1>1. AllSound => LibraryBalanced
  BY DEF AllSound, Sound, Balanced, LibraryBalanced
<1>2. QED
  BY <1>1, QueriesSound, PTL

(* Index i is the library's device i, over any starts, failures and shutdowns *)
(* that leave the list unspoiled.                                             *)
THEOREM IndicesNameDevices == Spec => []IndexNamesDevice
<1>1. AllSound => IndexNamesDevice
  <2>1. SUFFICES ASSUME AllSound, NEW v \in Vendors,
                        gpu[v].initialized, ~gpu[v].spoiled
                 PROVE  /\ device_count(gpu[v]) = Devices[v]
                        /\ \A index \in 0 .. Devices[v] - 1 :
                             DeviceAt(gpu[v], index) = index + 1
    BY DEF IndexNamesDevice
  <2>2. gpu[v].handles = FirstDevices(v, Devices[v]) /\ Devices[v] \in Nat
    BY <2>1, DeviceCounts DEF AllSound, Sound, Named
  <2>3. /\ Len(gpu[v].handles) = Devices[v]
        /\ \A i \in 1 .. Devices[v] : gpu[v].handles[i] = i
    <3>1. /\ Len(FirstDevices(v, Devices[v])) = Devices[v]
          /\ \A i \in 1 .. Devices[v] : FirstDevices(v, Devices[v])[i] = i
      BY <2>1, <2>2, DevicesListed
    <3>2. QED
      BY <2>2, <3>1, Zenon
  <2>4. \A index \in 0 .. Devices[v] - 1 : gpu[v].handles[index + 1] = index + 1
    BY <2>2, <2>3
  <2>5. QED
    BY <2>1, <2>3, <2>4 DEF device_count, DeviceAt
<1>2. QED
  BY <1>1, QueriesSound, PTL

-----------------------------------------------------------------------------
(* What the functions construct and pop. *)

Parts == AllFunctions \ {"energy"}

LEMMA Listings ==
  /\ \A a : ToSet(<<a>>) = {a}
  /\ \A a, b : ToSet(<<a, b>>) = {a, b}
BY DEF ToSet

LEMMA PartKinds ==
  ASSUME NEW p \in Parts
  PROVE  /\ ToSet(Constructs(p)) \subseteq Kinds
         /\ ToSet(Constructs(p)) \subseteq PopsOf(p)
         /\ PopsOf(p) \subseteq ToSet(Constructs(p)) \union (CpuBackends \ {CpuBackend})
         /\ CpuBackends \intersect ToSet(Constructs(p)) \subseteq {CpuBackend}
<1>1. CpuBackend \in CpuBackends
  BY ApiAssumption DEF ApiAssumption
<1>2. CASE p = "energy_cpu"
  <2>1. ToSet(Constructs(p)) = {CpuBackend}
    BY <1>2, Listings DEF Constructs
  <2>2. QED
    BY <1>1, <1>2, <2>1 DEF PopsOf, Kinds
<1>3. CASE p # "energy_cpu"
  <2>1. PopsOf(p) = ToSet(Constructs(p))
    BY <1>3 DEF PopsOf
  <2>2. ToSet(Constructs(p)) \subseteq Kinds \ CpuBackends
    <3>1. CASE p = "energy_gpu"
      <4>1. Constructs(p) = <<"nvidia", "amd">>
        BY <3>1 DEF Constructs
      <4>2. ToSet(Constructs(p)) = {"nvidia", "amd"}
        BY <4>1, Listings
      <4>3. QED
        BY <4>2 DEF Kinds, CpuBackends
    <3>2. CASE p = "temperature"
      <4>1. Constructs(p) = <<"hwmon_temperature", "gpu_temperature">>
        BY <3>2 DEF Constructs
      <4>2. ToSet(Constructs(p)) = {"hwmon_temperature", "gpu_temperature"}
        BY <4>1, Listings
      <4>3. QED
        BY <4>2 DEF Kinds, CpuBackends
    <3>3. CASE p = "temperature_hwmon"
      <4>1. Constructs(p) = <<"hwmon_temperature">>
        BY <3>3 DEF Constructs
      <4>2. ToSet(Constructs(p)) = {"hwmon_temperature"}
        BY <4>1, Listings
      <4>3. QED
        BY <4>2 DEF Kinds, CpuBackends
    <3>4. CASE p = "temperature_gpu"
      <4>1. Constructs(p) = <<"gpu_temperature">>
        BY <3>4 DEF Constructs
      <4>2. ToSet(Constructs(p)) = {"gpu_temperature"}
        BY <4>1, Listings
      <4>3. QED
        BY <4>2 DEF Kinds, CpuBackends
    <3>5. CASE p \in {"perf", "callstack", "disk"}
      <4>1. Constructs(p) = <<p>>
        BY <3>5 DEF Constructs
      <4>2. ToSet(Constructs(p)) = {p}
        BY <4>1, Listings
      <4>3. QED
        BY <3>5, <4>2 DEF Kinds, CpuBackends
    <3>6. QED
      BY <1>3, <3>1, <3>2, <3>3, <3>4, <3>5 DEF Parts, AllFunctions
  <2>3. QED
    BY <2>1, <2>2
<1>4. QED
  BY <1>2, <1>3

LEMMA FunctionKinds ==
  ASSUME NEW fn \in Functions
  PROVE  /\ KindsOf(fn) \subseteq Kinds
         /\ KindsOf(fn) \subseteq Pops(fn)
         /\ Pops(fn) \subseteq KindsOf(fn) \union (CpuBackends \ {CpuBackend})
         /\ CpuBackends \intersect KindsOf(fn) \subseteq {CpuBackend}
         /\ \A thrown : Pushed(fn, thrown) \subseteq KindsOf(fn)
<1>1. ToSet(PartsOf(fn)) \subseteq Parts
  <2>1. fn \in AllFunctions
    BY ApiAssumption DEF ApiAssumption
  <2>2. CASE fn = "energy"
    <3>1. ToSet(PartsOf(fn)) = {"energy_cpu", "energy_gpu"}
      BY <2>2, Listings DEF PartsOf
    <3>2. QED
      BY <3>1 DEF Parts, AllFunctions
  <2>3. CASE fn # "energy"
    <3>1. ToSet(PartsOf(fn)) = {fn}
      BY <2>3, Listings DEF PartsOf
    <3>2. QED
      BY <2>1, <2>3, <3>1 DEF Parts
  <2>4. QED
    BY <2>2, <2>3
<1>2. \A p, thrown : PushedBy(p, thrown) \subseteq ToSet(Constructs(p))
  BY DEF PushedBy, ToSet
<1>3. QED
  BY <1>1, <1>2, PartKinds DEF KindsOf, Pops, Pushed

LEMMA KindsAreFinite == IsFiniteSet(Kinds)
<1>1. \A S, a, b, c : IsFiniteSet(S) => IsFiniteSet(S \union {a, b, c})
  <2>1. SUFFICES ASSUME NEW S, NEW a, NEW b, NEW c, IsFiniteSet(S)
                 PROVE  IsFiniteSet(S \union {a, b, c})
    OBVIOUS
  <2>2. IsFiniteSet(((S \union {a}) \union {b}) \union {c})
    BY <2>1, FS_AddElement
  <2>3. ((S \union {a}) \union {b}) \union {c} = S \union {a, b, c}
    OBVIOUS
  <2>4. QED
    BY <2>2, <2>3
<1>2. IsFiniteSet((((({} \union {"pdu", "rapl", "hwmon"})
                      \union {"perf", "callstack", "disk"})
                      \union {"nvidia", "amd", "hwmon_temperature"})
                      \union {"gpu_temperature", "gpu_temperature", "gpu_temperature"}))
  BY <1>1, FS_EmptySet
<1>3. Kinds = (((({} \union {"pdu", "rapl", "hwmon"})
                 \union {"perf", "callstack", "disk"})
                 \union {"nvidia", "amd", "hwmon_temperature"})
                 \union {"gpu_temperature", "gpu_temperature", "gpu_temperature"})
  BY DEF Kinds, CpuBackends
<1>4. QED
  BY <1>2, <1>3

-----------------------------------------------------------------------------
(* Stacks. *)

LEMMA FrontOf ==
  ASSUME NEW S, NEW s \in Seq(S), s # <<>>
  PROVE  /\ Len(s) \in Nat /\ Len(s) >= 1
         /\ Front(s) \in Seq(S) /\ Len(Front(s)) = Len(s) - 1
         /\ \A i \in 1 .. Len(s) - 1 : Front(s)[i] = s[i]
<1>1. Len(s) \in Nat /\ Len(s) >= 1
  BY EmptySeq, LenProperties
<1>2. \A i \in 1 .. Len(s) - 1 : s[i] \in S
  BY <1>1, ElementOfSeq
<1>3. 1 \in Int /\ Len(s) - 1 \in Nat
  BY <1>1
<1>4. Front(s) = [i \in 1 .. Len(s) - 1 |-> s[i]]
  BY <1>1, <1>3 DEF Front
<1>5. Front(s) \in [1 .. Len(s) - 1 -> S]
  BY <1>2, <1>4
<1>6. QED
  BY <1>1, <1>3, <1>4, <1>5

Rising(s, bound) ==
  /\ \A i \in 1 .. Len(s) : s[i] <= bound
  /\ \A i, j \in 1 .. Len(s) : i < j => s[i] < s[j]

LEMMA RisingFront ==
  ASSUME NEW s \in Seq(Nat), NEW bound \in Nat, Rising(s, bound), s # <<>>
  PROVE  /\ Rising(Front(s), bound)
         /\ \A n \in Nat : n \in ToSet(s) /\ (\E m \in ToSet(s) : n < m)
                             => n \in ToSet(Front(s))
<1>1. /\ Len(s) \in Nat /\ Len(s) >= 1
      /\ Front(s) \in Seq(Nat) /\ Len(Front(s)) = Len(s) - 1
      /\ \A i \in 1 .. Len(s) - 1 : Front(s)[i] = s[i]
  BY FrontOf
<1>2. Rising(Front(s), bound)
  <2>1. \A i \in 1 .. Len(Front(s)) : i \in 1 .. Len(s) /\ Front(s)[i] = s[i]
    BY <1>1
  <2>2. \A i \in 1 .. Len(Front(s)) : Front(s)[i] <= bound
    BY <2>1, Zenon DEF Rising
  <2>3. \A i, j \in 1 .. Len(Front(s)) : i < j => Front(s)[i] < Front(s)[j]
    BY <2>1, Zenon DEF Rising
  <2>4. QED
    BY <2>2, <2>3, Zenon DEF Rising
<1>3. DOMAIN s = 1 .. Len(s) /\ DOMAIN Front(s) = 1 .. Len(s) - 1
  BY <1>1, LenProperties
<1>4. ASSUME NEW i \in 1 .. Len(s), NEW j \in 1 .. Len(s), s[i] < s[j]
      PROVE  s[i] \in ToSet(Front(s))
  <2>1. \A h \in 1 .. Len(s) : s[h] \in Nat
    BY ElementOfSeq
  <2>2. i # Len(s)
    BY <1>1, <1>4, <2>1 DEF Rising
  <2>3. i \in 1 .. Len(s) - 1
    BY <1>1, <2>2
  <2>4. QED
    BY <1>1, <1>3, <2>3 DEF ToSet
<1>5. QED
  BY <1>2, <1>3, <1>4 DEF ToSet

LEMMA RisingAppend ==
  ASSUME NEW s \in Seq(Nat), NEW bound \in Nat, Rising(s, bound)
  PROVE  /\ Append(s, bound + 1) \in Seq(Nat)
         /\ Len(Append(s, bound + 1)) = Len(s) + 1
         /\ Rising(Append(s, bound + 1), bound + 1)
         /\ ToSet(Append(s, bound + 1)) = ToSet(s) \union {bound + 1}
<1> DEFINE t == Append(s, bound + 1)
<1>1. /\ t \in Seq(Nat) /\ Len(t) = Len(s) + 1 /\ Len(s) \in Nat
      /\ \A i \in 1 .. Len(s) : t[i] = s[i]
      /\ t[Len(s) + 1] = bound + 1
  BY AppendProperties, LenProperties
<1>2. DOMAIN s = 1 .. Len(s) /\ DOMAIN t = 1 .. Len(s) + 1
  BY <1>1, LenProperties
<1>3. \A i \in 1 .. Len(s) : s[i] \in Nat
  BY ElementOfSeq
<1> HIDE DEF t
<1>4. \A i \in 1 .. Len(t) : t[i] <= bound + 1
  BY <1>1, <1>3 DEF Rising
<1>5. \A i, j \in 1 .. Len(t) : i < j => t[i] < t[j]
  <2>1. SUFFICES ASSUME NEW i \in 1 .. Len(t), NEW j \in 1 .. Len(t), i < j
                 PROVE  t[i] < t[j]
    OBVIOUS
  <2>2. i \in 1 .. Len(s)
    BY <1>1, <2>1
  <2>3. CASE j \in 1 .. Len(s)
    BY <1>1, <2>1, <2>2, <2>3 DEF Rising
  <2>4. CASE j = Len(s) + 1
    <3>1. t[i] = s[i] /\ t[j] = bound + 1 /\ s[i] \in Nat /\ s[i] <= bound
      BY <1>1, <1>3, <2>2, <2>4 DEF Rising
    <3>2. QED
      BY <3>1
  <2>5. QED
    BY <1>1, <2>3, <2>4
<1>6. ToSet(t) = ToSet(s) \union {bound + 1}
  <2>1. DOMAIN t = DOMAIN s \union {Len(s) + 1}
    BY <1>1, <1>2
  <2>2. QED
    BY <1>1, <1>2, <2>1 DEF ToSet
<1>7. QED
  BY <1>1, <1>4, <1>5, <1>6 DEF Rising, t

-----------------------------------------------------------------------------
(* The invariant of scopes and stacks. *)

Scopes == [fn : Functions, start : Nat]

StackTypes ==
  /\ engine \in BOOLEAN /\ swallowed \in BOOLEAN
  /\ stacks \in [Kinds -> Seq(Nat)]
  /\ faults \in Nat /\ started \in Nat
  /\ scopes \in Seq(Scopes)
  /\ leftovers \in [Kinds -> Nat]

(* Later starts are further up, on the stacks and among the scopes. *)
InOrder ==
  /\ \A k \in Kinds : Rising(stacks[k], started)
  /\ \A i \in DOMAIN scopes : scopes[i].start <= started
  /\ \A i, j \in DOMAIN scopes : i < j => scopes[i].start < scopes[j].start

(* The stop of CPU energy pops stacks that no start fills. *)
OneBackend == \A k \in CpuBackends \ {CpuBackend} : stacks[k] = <<>>

(* The scopes that a profiler of kind k measures. *)
Measuring(k) == {i \in DOMAIN scopes : k \in KindsOf(scopes[i].fn)}

IInv == StackTypes /\ InOrder /\ OneBackend /\ StacksFollowScopes

LEMMA ScopesInitially == Init => IInv
<1> SUFFICES ASSUME Init PROVE IInv
  OBVIOUS
<1>1. <<>> \in Seq(Nat) /\ <<>> \in Seq(Scopes) /\ Len(<<>>) = 0 /\ DOMAIN <<>> = {}
  OBVIOUS
<1>2. StackTypes
  BY <1>1 DEF Init, StackTypes, None
<1>3. InOrder
  BY <1>1 DEF Init, InOrder, Rising
<1>4. OneBackend
  BY DEF Init, OneBackend, Kinds
<1>5. \A k \in Kinds : {i \in DOMAIN scopes : k \in KindsOf(scopes[i].fn)} = {}
  BY <1>1 DEF Init
<1>6. StacksFollowScopes
  BY <1>1, <1>5, FS_EmptySet
     DEF Init, None, StacksFollowScopes, ScopesAreMeasured, NothingElseRuns
<1>7. QED
  BY <1>2, <1>3, <1>4, <1>6 DEF IInv

LEMMA MeasuringIsFinite ==
  ASSUME StackTypes, NEW k \in Kinds
  PROVE  /\ DOMAIN scopes = 1 .. Len(scopes) /\ Len(scopes) \in Nat
         /\ IsFiniteSet(Measuring(k)) /\ Cardinality(Measuring(k)) \in Nat
<1>1. DOMAIN scopes = 1 .. Len(scopes) /\ Len(scopes) \in Nat
  BY LenProperties DEF StackTypes
<1>2. IsFiniteSet(1 .. Len(scopes))
  BY <1>1, FS_Interval
<1>3. Measuring(k) \subseteq 1 .. Len(scopes)
  BY <1>1 DEF Measuring
<1>4. IsFiniteSet(Measuring(k))
  BY <1>2, <1>3, FS_Subset
<1>5. QED
  BY <1>1, <1>4, FS_CardinalityType

(* What optkit_finalize leaves is what there was at first. *)
LEMMA FinalizeStep ==
  ASSUME IInv, optkit_finalize
  PROVE  IInv'
<1>1. /\ engine' = FALSE /\ faults' \in Nat /\ started' = started /\ started \in Nat
      /\ stacks' = [k \in Kinds |-> <<>>] /\ scopes' = <<>>
      /\ leftovers' = None /\ swallowed' = FALSE
  <2>1. /\ engine' = FALSE /\ started' = started
        /\ stacks' = [k \in Kinds |-> <<>>] /\ scopes' = <<>>
        /\ leftovers' = None /\ swallowed' = FALSE
    BY DEF optkit_finalize, ClearedStacks
  <2>2. PICK n \in Nat : faults' = faults + n
    BY DEF optkit_finalize, Fail, Fault
  <2>3. QED
    BY <2>1, <2>2 DEF IInv, StackTypes
<1>2. <<>> \in Seq(Nat) /\ <<>> \in Seq(Scopes) /\ Len(<<>>) = 0 /\ DOMAIN <<>> = {}
  OBVIOUS
<1>3. StackTypes'
  BY <1>1, <1>2 DEF StackTypes, None
<1>4. InOrder'
  BY <1>1, <1>2 DEF InOrder, Rising
<1>5. OneBackend'
  BY <1>1 DEF OneBackend, Kinds
<1>6. \A k \in Kinds : {i \in DOMAIN scopes' : k \in KindsOf(scopes'[i].fn)} = {}
  BY <1>1, <1>2
<1>7. StacksFollowScopes'
  BY <1>1, <1>2, <1>6, FS_EmptySet
     DEF None, StacksFollowScopes, ScopesAreMeasured, NothingElseRuns
<1>8. QED
  BY <1>3, <1>4, <1>5, <1>7 DEF IInv

LEMMA StopStep ==
  ASSUME IInv, Stop
  PROVE  IInv'
<1> DEFINE n == Len(scopes)
           fn == scopes[n].fn
           rest == Front(scopes)
<1>1. /\ scopes \in Seq(Scopes) /\ scopes # <<>> /\ scopes' = rest
      /\ stacks' = [k \in Kinds |-> IF k \in Pops(fn) /\ stacks[k] # <<>>
                                      THEN Front(stacks[k]) ELSE stacks[k]]
      /\ UNCHANGED <<engine, faults, started, leftovers, swallowed>>
  BY DEF Stop, IInv, StackTypes, Last
<1>2. /\ n \in Nat /\ n >= 1 /\ rest \in Seq(Scopes) /\ Len(rest) = n - 1
      /\ \A i \in 1 .. n - 1 : rest[i] = scopes[i]
  BY <1>1, FrontOf
<1>3. DOMAIN scopes = 1 .. n /\ DOMAIN rest = 1 .. n - 1
  BY <1>1, <1>2, LenProperties
<1>4. \A i \in 1 .. n : scopes[i] \in Scopes
  BY <1>1, ElementOfSeq
<1>5. fn \in Functions /\ scopes[n].start \in Nat
  BY <1>2, <1>4 DEF Scopes
<1>6. /\ KindsOf(fn) \subseteq Kinds /\ KindsOf(fn) \subseteq Pops(fn)
      /\ Pops(fn) \subseteq KindsOf(fn) \union (CpuBackends \ {CpuBackend})
  BY <1>5, FunctionKinds
<1> HIDE DEF n, fn, rest
<1>7. \A k \in Kinds : stacks[k] \in Seq(Nat) /\ Rising(stacks[k], started)
  BY DEF IInv, StackTypes, InOrder
<1>8. started \in Nat
  BY DEF IInv, StackTypes
<1>9. \A k \in Kinds : stacks'[k] \in Seq(Nat) /\ Rising(stacks'[k], started)
  <2>1. SUFFICES ASSUME NEW k \in Kinds
                 PROVE  stacks'[k] \in Seq(Nat) /\ Rising(stacks'[k], started)
    OBVIOUS
  <2>2. CASE stacks[k] # <<>> /\ stacks'[k] = Front(stacks[k])
    BY <1>7, <1>8, <2>2, FrontOf, RisingFront
  <2>3. CASE stacks'[k] = stacks[k]
    BY <1>7, <2>3
  <2>4. QED
    BY <1>1, <2>2, <2>3
<1>10. StackTypes'
  BY <1>1, <1>2, <1>9 DEF IInv, StackTypes
<1>11. InOrder'
  <2>1. \A i \in DOMAIN rest : i \in DOMAIN scopes /\ rest[i] = scopes[i]
    BY <1>2, <1>3
  <2>2. QED
    BY <1>1, <1>9, <2>1 DEF IInv, InOrder
<1>12. OneBackend'
  BY <1>1 DEF IInv, OneBackend, Kinds
<1>13. ASSUME ~swallowed
       PROVE  ScopesAreMeasured' /\ NothingElseRuns'
  <2>1. ScopesAreMeasured /\ NothingElseRuns
    BY <1>13 DEF IInv, StacksFollowScopes
  <2>2. ASSUME NEW k \in KindsOf(fn)
        PROVE  stacks[k] # <<>> /\ scopes[n].start \in ToSet(stacks[k])
               /\ stacks'[k] = Front(stacks[k])
    <3>1. scopes[n].start \in ToSet(stacks[k])
      BY <1>2, <1>3, <2>1, <2>2 DEF ScopesAreMeasured, fn
    <3>2. stacks[k] # <<>>
      BY <3>1 DEF ToSet
    <3>3. QED
      BY <1>1, <1>6, <3>1, <3>2
  <2>3. ASSUME NEW k \in Kinds \ KindsOf(fn)
        PROVE  stacks'[k] = stacks[k]
    BY <1>1, <1>6, <2>3 DEF IInv, OneBackend
  <2>4. ScopesAreMeasured'
    <3>1. SUFFICES ASSUME NEW i \in DOMAIN rest, NEW k \in KindsOf(rest[i].fn)
                   PROVE  rest[i].start \in ToSet(stacks'[k])
      BY <1>1 DEF ScopesAreMeasured
    <3>2. i \in 1 .. n - 1 /\ rest[i] = scopes[i] /\ i \in DOMAIN scopes /\ i < n
          /\ n \in DOMAIN scopes
      BY <1>2, <1>3, <3>1
    <3>3. scopes[i] \in Scopes /\ scopes[i].fn \in Functions /\ scopes[i].start \in Nat
      BY <1>3, <1>4, <3>2 DEF Scopes
    <3>4. k \in Kinds
      BY <3>1, <3>2, <3>3, FunctionKinds
    <3>5. scopes[i].start \in ToSet(stacks[k])
      BY <2>1, <3>1, <3>2 DEF ScopesAreMeasured
    <3>6. scopes[i].start < scopes[n].start
      BY <3>2 DEF IInv, InOrder
    <3>7. CASE k \in KindsOf(fn)
      BY <1>7, <1>8, <2>2, <3>2, <3>3, <3>4, <3>5, <3>6, <3>7, RisingFront
    <3>8. CASE k \notin KindsOf(fn)
      BY <2>3, <3>2, <3>4, <3>5, <3>8
    <3>9. QED
      BY <3>7, <3>8
  <2>5. NothingElseRuns'
    <3>1. SUFFICES ASSUME NEW k \in Kinds
                   PROVE  Len(stacks'[k]) = leftovers[k]
                            + Cardinality({i \in DOMAIN rest : k \in KindsOf(rest[i].fn)})
      BY <1>1 DEF NothingElseRuns
    <3>2. {i \in DOMAIN rest : k \in KindsOf(rest[i].fn)} = Measuring(k) \ {n}
      BY <1>2, <1>3 DEF Measuring
    <3>3. /\ IsFiniteSet(Measuring(k)) /\ Cardinality(Measuring(k)) \in Nat
          /\ Len(stacks[k]) = leftovers[k] + Cardinality(Measuring(k))
      BY <2>1, MeasuringIsFinite DEF IInv, NothingElseRuns, Measuring
    <3>4. leftovers[k] \in Nat
      BY DEF IInv, StackTypes
    <3>5. Cardinality(Measuring(k) \ {n}) =
            IF n \in Measuring(k) THEN Cardinality(Measuring(k)) - 1
                                  ELSE Cardinality(Measuring(k))
      BY <3>3, FS_RemoveElement
    <3>6. n \in Measuring(k) <=> k \in KindsOf(fn)
      BY <1>2, <1>3 DEF Measuring, fn
    <3>7. CASE k \in KindsOf(fn)
      <4>1. Len(stacks'[k]) = Len(stacks[k]) - 1
        BY <1>7, <2>2, <3>7, FrontOf
      <4>2. Cardinality(Measuring(k) \ {n}) = Cardinality(Measuring(k)) - 1
        BY <3>5, <3>6, <3>7
      <4>3. Len(stacks[k]) - 1 = leftovers[k] + (Cardinality(Measuring(k)) - 1)
        BY <3>3, <3>4
      <4>4. QED
        BY <3>2, <4>1, <4>2, <4>3
    <3>8. CASE k \notin KindsOf(fn)
      BY <2>3, <3>2, <3>3, <3>5, <3>6, <3>8
    <3>9. QED
      BY <3>7, <3>8
  <2>6. QED
    BY <2>4, <2>5
<1>14. StacksFollowScopes'
  BY <1>1, <1>13 DEF StacksFollowScopes
<1>15. QED
  BY <1>10, <1>11, <1>12, <1>14 DEF IInv

LEMMA StartStep ==
  ASSUME IInv, NEW fn \in Functions, Start(fn)
  PROVE  IInv'
<1> DEFINE n == Len(scopes)
           new == [fn |-> fn, start |-> started + 1]
<1>1. PICK thrown \in SUBSET (MayThrow \intersect KindsOf(fn)) :
        /\ Fail(Cardinality(thrown))
        /\ stacks' = [k \in Kinds |-> IF k \in Pushed(fn, thrown)
                                        THEN Append(stacks[k], started + 1)
                                        ELSE stacks[k]]
        /\ scopes' = IF ReturnsOk(fn, thrown) THEN Append(scopes, new) ELSE scopes
        /\ leftovers' = [k \in Kinds |-> leftovers[k]
                           + Fault(~ReturnsOk(fn, thrown) /\ k \in Pushed(fn, thrown))]
        /\ swallowed' = (swallowed \/ (ReturnsOk(fn, thrown)
                                        /\ Pushed(fn, thrown) # KindsOf(fn)))
  BY DEF Start
<1> DEFINE pushed == Pushed(fn, thrown)
           ok == ReturnsOk(fn, thrown)
<1>2. engine' = engine /\ started' = started + 1 /\ started \in Nat
  BY DEF Start, IInv, StackTypes
<1>3. KindsOf(fn) \subseteq Kinds /\ pushed \subseteq KindsOf(fn)
  BY FunctionKinds
<1>4. ok \in BOOLEAN
  BY DEF ReturnsOk
<1>5. faults' \in Nat
  <2>1. IsFiniteSet(thrown)
    BY <1>3, KindsAreFinite, FS_Subset
  <2>2. QED
    BY <1>1, <2>1, FS_CardinalityType DEF Fail, IInv, StackTypes
<1>6. \A k \in Kinds : stacks[k] \in Seq(Nat) /\ Rising(stacks[k], started)
  BY DEF IInv, StackTypes, InOrder
<1> HIDE DEF pushed, ok
<1>7. ASSUME NEW k \in pushed
      PROVE  /\ stacks'[k] \in Seq(Nat) /\ Len(stacks'[k]) = Len(stacks[k]) + 1
             /\ Rising(stacks'[k], started + 1)
             /\ ToSet(stacks'[k]) = ToSet(stacks[k]) \union {started + 1}
  <2>1. k \in Kinds /\ stacks'[k] = Append(stacks[k], started + 1)
    BY <1>1, <1>3 DEF pushed
  <2>2. QED
    BY <1>2, <1>6, <2>1, RisingAppend
<1>8. ASSUME NEW k \in Kinds \ pushed
      PROVE  stacks'[k] = stacks[k] /\ Rising(stacks'[k], started + 1)
  <2>1. stacks'[k] = stacks[k]
    BY <1>1 DEF pushed
  <2>2. \A i \in 1 .. Len(stacks[k]) : stacks[k][i] \in Nat
    BY <1>6, ElementOfSeq
  <2>3. QED
    BY <1>2, <1>6, <2>1, <2>2 DEF Rising
<1>9. /\ scopes \in Seq(Scopes) /\ n \in Nat /\ DOMAIN scopes = 1 .. n
      /\ new \in Scopes
      /\ \A i \in 1 .. n : scopes[i] \in Scopes
  <2>1. scopes \in Seq(Scopes)
    BY DEF IInv, StackTypes
  <2>2. new \in Scopes
    BY <1>2 DEF Scopes
  <2>3. QED
    BY <2>1, <2>2, LenProperties, ElementOfSeq
<1> HIDE DEF new
<1>13. stacks' \in [Kinds -> Seq(Nat)]
  <2>1. \A k \in Kinds : stacks'[k] \in Seq(Nat)
    BY <1>6, <1>7, <1>8
  <2>2. DOMAIN stacks' = Kinds /\ stacks' = [k \in Kinds |-> stacks'[k]]
    BY <1>1
  <2>3. QED
    BY <2>1, <2>2
<1>10. CASE ~ok
  <2>1. scopes' = scopes
    BY <1>1, <1>10 DEF ok
  <2>2. /\ leftovers' \in [Kinds -> Nat]
        /\ \A k \in Kinds : leftovers'[k] = leftovers[k] + (IF k \in pushed THEN 1 ELSE 0)
    BY <1>1, <1>10 DEF ok, pushed, Fault, IInv, StackTypes
  <2>3. swallowed' \in BOOLEAN /\ (~swallowed' => ~swallowed)
    BY <1>1, <1>4 DEF ok, IInv, StackTypes
  <2>4. StackTypes'
    BY <1>2, <1>5, <1>13, <2>1, <2>2, <2>3 DEF StackTypes, IInv
  <2>5. InOrder'
    <3>1. \A k \in Kinds : Rising(stacks'[k], started')
      BY <1>2, <1>7, <1>8
    <3>2. \A i \in DOMAIN scopes : scopes[i].start <= started'
      BY <1>2, <1>9 DEF IInv, InOrder, Scopes
    <3>3. QED
      BY <2>1, <3>1, <3>2 DEF IInv, InOrder
  <2>6. OneBackend'
    <3>1. \A k \in CpuBackends \ {CpuBackend} : k \in Kinds \ pushed
      BY <1>3, FunctionKinds DEF Kinds
    <3>2. QED
      BY <1>8, <3>1 DEF IInv, OneBackend
  <2>7. ASSUME ~swallowed'
        PROVE  ScopesAreMeasured' /\ NothingElseRuns'
    <3>1. ScopesAreMeasured /\ NothingElseRuns
      BY <2>3, <2>7 DEF IInv, StacksFollowScopes
    <3>2. ASSUME NEW i \in DOMAIN scopes, NEW k \in KindsOf(scopes[i].fn)
          PROVE  scopes[i].start \in ToSet(stacks'[k])
      <4>1. k \in Kinds
        BY <1>9, <3>2, FunctionKinds DEF Scopes
      <4>2. scopes[i].start \in ToSet(stacks[k])
        BY <3>1, <3>2 DEF ScopesAreMeasured
      <4>3. QED
        BY <1>7, <1>8, <4>1, <4>2
    <3>3. ASSUME NEW k \in Kinds
          PROVE  Len(stacks'[k]) = leftovers'[k] + Cardinality(Measuring(k))
      <4>1. /\ Cardinality(Measuring(k)) \in Nat /\ leftovers[k] \in Nat
            /\ Len(stacks[k]) = leftovers[k] + Cardinality(Measuring(k))
        BY <3>1, MeasuringIsFinite DEF IInv, StackTypes, NothingElseRuns, Measuring
      <4>2. CASE k \in pushed
        <5>1. Len(stacks'[k]) = Len(stacks[k]) + 1 /\ leftovers'[k] = leftovers[k] + 1
          BY <1>7, <2>2, <4>2
        <5>2. QED
          BY <4>1, <5>1
      <4>3. CASE k \notin pushed
        BY <1>8, <2>2, <4>1, <4>3
      <4>4. QED
        BY <4>2, <4>3
    <3>4. QED
      BY <2>1, <3>2, <3>3 DEF ScopesAreMeasured, NothingElseRuns, Measuring
  <2>8. QED
    BY <2>4, <2>5, <2>6, <2>7 DEF IInv, StacksFollowScopes
<1>11. CASE ok
  <2>1. /\ scopes' = Append(scopes, new)
        /\ scopes' \in Seq(Scopes) /\ DOMAIN scopes' = 1 .. n + 1
        /\ \A i \in 1 .. n : scopes'[i] = scopes[i]
        /\ scopes'[n + 1] = new
    <3>1. scopes' = Append(scopes, new)
      BY <1>1, <1>11 DEF ok, new
    <3>2. /\ scopes' \in Seq(Scopes) /\ Len(scopes') = n + 1
          /\ \A i \in 1 .. n : scopes'[i] = scopes[i]
          /\ scopes'[n + 1] = new
      BY <1>9, <3>1, AppendProperties
    <3>3. QED
      BY <3>1, <3>2, LenProperties
  <2>2. new.fn = fn /\ new.start = started + 1
    BY DEF new
  <2>3. leftovers' \in [Kinds -> Nat] /\ \A k \in Kinds : leftovers'[k] = leftovers[k]
    BY <1>1, <1>11 DEF ok, Fault, IInv, StackTypes
  <2>4. swallowed' \in BOOLEAN /\ (~swallowed' => ~swallowed /\ pushed = KindsOf(fn))
    BY <1>1, <1>4, <1>11 DEF ok, pushed, IInv, StackTypes
  <2>5. StackTypes'
    BY <1>2, <1>5, <1>13, <2>1, <2>3, <2>4 DEF StackTypes, IInv
  <2>6. InOrder'
    <3>1. \A k \in Kinds : Rising(stacks'[k], started')
      BY <1>2, <1>7, <1>8
    <3>2. \A i \in 1 .. n : scopes[i].start \in Nat /\ scopes[i].start <= started
      BY <1>9 DEF IInv, InOrder, Scopes
    <3>3. \A i \in 1 .. n + 1 : scopes'[i].start <= started'
      BY <1>2, <1>9, <2>1, <2>2, <3>2
    <3>4. ASSUME NEW i \in 1 .. n + 1, NEW j \in 1 .. n + 1, i < j
          PROVE  scopes'[i].start < scopes'[j].start
      <4>1. i \in 1 .. n
        BY <1>9, <3>4
      <4>2. CASE j \in 1 .. n
        BY <1>9, <2>1, <3>4, <4>1, <4>2 DEF IInv, InOrder
      <4>3. CASE j = n + 1
        BY <1>2, <2>1, <2>2, <3>2, <4>1, <4>3
      <4>4. QED
        BY <1>9, <4>2, <4>3
    <3>5. QED
      BY <2>1, <3>1, <3>3, <3>4 DEF InOrder
  <2>7. OneBackend'
    <3>1. \A k \in CpuBackends \ {CpuBackend} : k \in Kinds \ pushed
      BY <1>3, FunctionKinds DEF Kinds
    <3>2. QED
      BY <1>8, <3>1 DEF IInv, OneBackend
  <2>8. ASSUME ~swallowed'
        PROVE  ScopesAreMeasured' /\ NothingElseRuns'
    <3>1. ScopesAreMeasured /\ NothingElseRuns /\ pushed = KindsOf(fn)
      BY <2>4, <2>8 DEF IInv, StacksFollowScopes
    <3>2. ASSUME NEW i \in 1 .. n + 1, NEW k \in KindsOf(scopes'[i].fn)
          PROVE  scopes'[i].start \in ToSet(stacks'[k])
      <4>1. CASE i = n + 1
        <5>1. scopes'[i].start = started + 1 /\ k \in pushed
          BY <2>1, <2>2, <3>1, <3>2, <4>1
        <5>2. QED
          BY <1>7, <5>1
      <4>2. CASE i \in 1 .. n
        <5>1. k \in Kinds
          BY <1>9, <2>1, <3>2, <4>2, FunctionKinds DEF Scopes
        <5>2. scopes[i].start \in ToSet(stacks[k])
          BY <1>9, <2>1, <3>1, <3>2, <4>2 DEF ScopesAreMeasured
        <5>3. QED
          BY <1>7, <1>8, <2>1, <4>2, <5>1, <5>2
      <4>3. QED
        BY <1>9, <4>1, <4>2
    <3>3. ASSUME NEW k \in Kinds
          PROVE  Len(stacks'[k]) = leftovers'[k] +
                   Cardinality({i \in 1 .. n + 1 : k \in KindsOf(scopes'[i].fn)})
      <4>1. /\ Cardinality(Measuring(k)) \in Nat /\ leftovers[k] \in Nat
            /\ IsFiniteSet(Measuring(k))
            /\ Len(stacks[k]) = leftovers[k] + Cardinality(Measuring(k))
        BY <3>1, MeasuringIsFinite DEF IInv, StackTypes, NothingElseRuns, Measuring
      <4>2. CASE k \in KindsOf(fn)
        <5>1. {i \in 1 .. n + 1 : k \in KindsOf(scopes'[i].fn)} = Measuring(k) \union {n + 1}
          BY <1>9, <2>1, <2>2, <4>2 DEF Measuring
        <5>2. n + 1 \notin Measuring(k)
          BY <1>9 DEF Measuring
        <5>3. Cardinality(Measuring(k) \union {n + 1}) = Cardinality(Measuring(k)) + 1
          BY <4>1, <5>2, FS_AddElement
        <5>4. Len(stacks'[k]) = Len(stacks[k]) + 1
          BY <1>7, <3>1, <4>2
        <5>5. Len(stacks[k]) + 1 = leftovers[k] + (Cardinality(Measuring(k)) + 1)
          BY <4>1
        <5>6. QED
          BY <2>3, <5>1, <5>3, <5>4, <5>5
      <4>3. CASE k \notin KindsOf(fn)
        <5>1. {i \in 1 .. n + 1 : k \in KindsOf(scopes'[i].fn)} = Measuring(k)
          BY <1>9, <2>1, <2>2, <4>3 DEF Measuring
        <5>2. stacks'[k] = stacks[k]
          BY <1>8, <3>1, <4>3
        <5>3. QED
          BY <2>3, <4>1, <5>1, <5>2
      <4>4. QED
        BY <4>2, <4>3
    <3>4. QED
      BY <2>1, <3>2, <3>3 DEF ScopesAreMeasured, NothingElseRuns
  <2>9. QED
    BY <2>5, <2>6, <2>7, <2>8 DEF IInv, StacksFollowScopes
<1>12. QED
  BY <1>10, <1>11

(* Queries touch neither. *)
LEMMA OtherSteps ==
  ASSUME IInv, UNCHANGED <<stacks, started, history>>,
         engine' \in BOOLEAN, faults' \in Nat
  PROVE  IInv'
BY DEF history, IInv, StackTypes, InOrder, Rising, OneBackend, StacksFollowScopes,
       ScopesAreMeasured, NothingElseRuns

LEMMA ScopesPreserved == IInv /\ [Next]_vars => IInv'
<1> SUFFICES ASSUME IInv, [Next]_vars PROVE IInv'
  OBVIOUS
<1>1. ASSUME NEW n \in Nat, Fail(n)
      PROVE  faults' \in Nat
  BY <1>1 DEF Fail, IInv, StackTypes
<1>2. \A b, c : Fault(b) \in Nat /\ Fault(b) + Fault(c) \in Nat
  BY DEF Fault
<1>3. CASE UNCHANGED vars
  BY <1>3, OtherSteps DEF vars, IInv, StackTypes
<1>4. CASE optkit_init
  <2>1. UNCHANGED <<stacks, started, history>> /\ engine' \in BOOLEAN
    BY <1>4 DEF optkit_init
  <2>2. faults' \in Nat
    BY <1>1, <1>2, <1>4 DEF optkit_init
  <2>3. QED
    BY <2>1, <2>2, OtherSteps
<1>5. ASSUME NEW v \in Vendors, QueryGpu(v) \/ optkit_query_gpu_shutdown(v)
      PROVE  IInv'
  <2>1. UNCHANGED <<stacks, started, history>> /\ engine' \in BOOLEAN
    BY <1>5 DEF QueryGpu, optkit_query_gpu_shutdown, IInv, StackTypes
  <2>2. faults' \in Nat
    BY <1>1, <1>2, <1>5 DEF QueryGpu, optkit_query_gpu_shutdown
  <2>3. QED
    BY <2>1, <2>2, OtherSteps
<1>6. QED
  BY <1>3, <1>4, <1>5, StartStep, StopStep, FinalizeStep DEF Next

LEMMA ScopesSound == Spec => []IInv
BY ScopesInitially, ScopesPreserved, PTL DEF Spec

(* Every variable keeps its type in every run. *)
THEOREM TypeCorrect == Spec => []TypeOK
<1>1. AllSound /\ IInv => TypeOK
  BY DEF AllSound, Sound, QueryTypeOK, IInv, StackTypes, Scopes, TypeOK
<1>2. QED
  BY <1>1, QueriesSound, ScopesSound, PTL

(* For any nesting, any profiler that throws and any number of starts: an open *)
(* scope keeps its profilers, and no other profiler is left on a stack, unless *)
(* an energy start has hidden the failure of its CPU part.                     *)
THEOREM ScopesAndStacksAgree == Spec => []StacksFollowScopes
<1>1. IInv => StacksFollowScopes
  BY DEF IInv
<1>2. QED
  BY <1>1, ScopesSound, PTL

=============================================================================
