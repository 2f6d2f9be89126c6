------------------------------ MODULE GpuQuery ------------------------------
(***************************************************************************)
(* optkit::gpu::Query (src/core/gpu_query.cc): which GPU libraries are up, *)
(* and the list of device handles that turns a device index into a device. *)
(* Both are static and shared by everything in the process that asks about *)
(* GPUs; CApi gives the operators below their callers.                     *)
(*                                                                         *)
(* NVML and AMDSMI are modelled; they differ in how they enumerate.  An    *)
(* initialization is a row of library calls, and the number of them that   *)
(* succeed says how it ends.                                               *)
(***************************************************************************)
EXTENDS Integers, Sequences

CONSTANTS Devices  \* how many devices of each vendor the machine has

Vendors == {"nvidia", "amd"}

ASSUME DevicesAssumption == Devices \in [Vendors -> Nat]

VARIABLE
  gpu  \* of each vendor: its part of Query's static members

\* The devices in the library's order, and the first i of them.
FirstDevices(v, i) == [d \in 1 .. i |-> d]

Queries == [initialized : BOOLEAN,      \* Query::initialized[vendor]
            handles : Seq(Nat),         \* gpu_handles_nvml, gpu_handles_amdsmi
            populated : BOOLEAN,        \* is_amdsmi_initialized, a static
            total : Nat,                \* total_device_count, a static
            refs : Nat,                 \* the library: inits less shutdowns
            spoiled : BOOLEAN]          \* history: see IndexNamesDevice

QueryInit ==
  gpu = [v \in Vendors |-> [initialized |-> FALSE, handles |-> <<>>,
           populated |-> FALSE, total |-> 0, refs |-> 0, spoiled |-> FALSE]]

-----------------------------------------------------------------------------
(* The effects of Query's functions on one vendor's part g. *)

Up(g) == [g EXCEPT !.initialized = TRUE, !.refs = @ + 1]

GiveUp_StaysUp(g) == [g EXCEPT !.initialized = FALSE]
\* Initialization fails after the library is up.  The handles found stay.
GiveUp(g) == [g EXCEPT !.initialized = FALSE, !.refs = @ - 1]

Stopped_Listed(g) == [g EXCEPT !.initialized = FALSE, !.refs = @ - 1]
Stopped(g) == [g EXCEPT !.initialized = FALSE, !.refs = @ - 1,
                        !.handles = <<>>, !.spoiled = FALSE]

Shutdown_Unasked(g, refuses) == IF ~refuses THEN Stopped(g) ELSE g
\* shutdown_nvml, shutdown_amdsmi; the library may refuse.
Shutdown(g, refuses) == IF g.initialized /\ ~refuses THEN Stopped(g) ELSE g

\* nvmlInit, nvmlDeviceGetCount, then one nvmlDeviceGetHandleByIndex a device.
NvmlCalls == Devices["nvidia"] + 2

NvmlInit(g, calls) ==
  LET found == g.handles \o FirstDevices("nvidia", calls - 2) IN
  CASE g.initialized \/ calls = 0 -> g
    [] ~g.initialized /\ calls = 1 -> GiveUp(Up(g))
    [] ~g.initialized /\ calls \in 2 .. NvmlCalls - 1 ->
         [GiveUp(Up(g)) EXCEPT !.handles = found, !.spoiled = TRUE]
    [] ~g.initialized /\ calls = NvmlCalls -> [Up(g) EXCEPT !.handles = found]

\* amdsmi_init, the socket's handle (two calls), its number of processors, the
\* processors' handles.
AmdsmiCalls == 5

\* The handles are looked up once in the life of the process.
Populate(g, calls) ==
  IF g.populated THEN [g EXCEPT !.spoiled = TRUE]
  ELSE [g EXCEPT !.populated = TRUE,
          !.total   = IF calls >= 4 THEN Devices["amd"] ELSE 0,
          !.handles = IF calls = 5 THEN FirstDevices("amd", Devices["amd"]) ELSE @,
          !.spoiled = (calls < 5)]

AmdsmiInit(g, calls) ==
  IF g.initialized \/ calls = 0 THEN g
  ELSE LET up == Populate(Up(g), calls)
       IN IF up.total = 0 THEN Stopped(up) ELSE up

Calls(v) == IF v = "nvidia" THEN NvmlCalls ELSE AmdsmiCalls

\* How many of the library's calls may succeed; a library that is up is not
\* called.
Successes(v) == IF gpu[v].initialized THEN {Calls(v)} ELSE 0 .. Calls(v)
Refusals(v) == IF gpu[v].initialized THEN BOOLEAN ELSE {FALSE}

\* Query::init
Initialize(v, g, calls) ==
  IF v = "nvidia" THEN NvmlInit(g, calls) ELSE AmdsmiInit(g, calls)

device_count(g) == IF g.initialized THEN Len(g.handles) ELSE 0

\* OPTKIT's constructor: a library without devices is shut down again.
Discover(v, g, calls) ==
  LET tried == Initialize(v, g, calls) IN
  IF device_count(tried) = 0 THEN Shutdown(tried, FALSE) ELSE tried

\* The device that a query for an index reaches.
DeviceAt(g, index) == g.handles[index + 1]

-----------------------------------------------------------------------------
(* Properties. *)

QueryTypeOK == gpu \in [Vendors -> Queries]

\* NVML counts its users and stays up until each has left: what the code takes
\* for initialized is up exactly once, and what it does not is down, whichever
\* call of an initialization failed (gpu_query.cc, init and shutdown).
LibraryBalanced ==
  \A v \in Vendors : gpu[v].refs = IF gpu[v].initialized THEN 1 ELSE 0

\* Device index i is the library's device i, over any number of starts, failures
\* and shutdowns, except where the list is known to be wrong: after an NVML
\* enumeration that failed in the middle, which leaves its handles in front of
\* the next one's, and after AMDSMI has been started a second time, which does
\* not look its devices up again (IS_DEVICE_INDEX_VALID, get_device_power).
IndexNamesDevice ==
  \A v \in Vendors :
    gpu[v].initialized /\ ~gpu[v].spoiled =>
      /\ device_count(gpu[v]) = Devices[v]
      /\ \A index \in 0 .. Devices[v] - 1 : DeviceAt(gpu[v], index) = index + 1

=============================================================================
