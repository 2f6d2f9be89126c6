-------------------------------- MODULE CApi --------------------------------
(***************************************************************************)
(* The C interface (src/optkit_c.cc): one OPTKIT object, a stack of        *)
(* profilers of each kind, pairs of start and stop functions over them,    *)
(* and the queries that switch GPU libraries on and off.  One thread of    *)
(* the program calls it; each call is a step.                              *)
(*                                                                         *)
(* The program is a careful one: it nests its starts and stops, looks at   *)
(* the status a start returns, and stops what started and nothing else.    *)
(***************************************************************************)
EXTENDS GpuQuery, FiniteSets, SequencesExt

CONSTANTS
  Functions,   \* the pairs of start and stop functions the program uses
  CpuBackend,  \* what CPU energy is read from: should_use_pdu, OPTKIT_ENV_CPU_ARM
  MayThrow,    \* the profilers whose constructor may throw
  MaxStarts,   \* bound on starts
  MaxFaults    \* bound on failures of profilers and libraries

CpuBackends == {"pdu", "rapl", "hwmon"}
Kinds == CpuBackends \union
         {"perf", "callstack", "disk", "nvidia", "amd",
          "hwmon_temperature", "gpu_temperature"}
AllFunctions == {"perf", "callstack", "disk", "energy", "energy_cpu", "energy_gpu",
                 "temperature", "temperature_hwmon", "temperature_gpu"}

ASSUME ApiAssumption ==
  /\ Functions \subseteq AllFunctions
  /\ CpuBackend \in CpuBackends
  /\ MayThrow \subseteq Kinds
  /\ MaxStarts \in Nat /\ MaxFaults \in Nat

VARIABLES
  engine,     \* does g_optkit hold an OPTKIT object?
  stacks,     \* ProfilerManager<T>::get_stack(): the start each profiler is of
  faults,     \* failures so far
  started,    \* starts so far
  \* history: not in the program
  scopes,     \* the program's open scopes, the innermost last
  leftovers,  \* profilers of each kind that starts which failed left behind
  swallowed   \* has a start returned OK although a part of it failed?

history == <<scopes, leftovers, swallowed>>
vars == <<engine, gpu, stacks, faults, started, history>>

None == [k \in Kinds |-> 0]

Init ==
  /\ engine = FALSE
  /\ QueryInit
  /\ stacks = [k \in Kinds |-> <<>>]
  /\ faults = 0 /\ started = 0
  /\ scopes = <<>> /\ leftovers = None /\ swallowed = FALSE

Fault(happens) == IF happens THEN 1 ELSE 0
Fail(n) == /\ faults + n <= MaxFaults
           /\ faults' = faults + n

-----------------------------------------------------------------------------
(* What the functions start and stop. *)

\* optkit_energy_start calls two other start functions.
PartsOf(fn) == IF fn = "energy" THEN <<"energy_cpu", "energy_gpu">> ELSE <<fn>>

\* The profilers a function constructs and pushes, in this order.
Constructs(fn) ==
  CASE fn = "energy_cpu"        -> <<CpuBackend>>
    [] fn = "energy_gpu"        -> <<"nvidia", "amd">>
    [] fn = "temperature"       -> <<"hwmon_temperature", "gpu_temperature">>
    [] fn = "temperature_hwmon" -> <<"hwmon_temperature">>
    [] fn = "temperature_gpu"   -> <<"gpu_temperature">>
    [] OTHER                    -> <<fn>>

KindsOf(fn) == UNION {ToSet(Constructs(p)) : p \in ToSet(PartsOf(fn))}

\* The first constructor that throws ends the function; what it has pushed
\* before stays on its stack.
PushedBy(p, thrown) ==
  LET c == Constructs(p)
  IN {c[i] : i \in {j \in DOMAIN c : \A h \in 1 .. j : c[h] \notin thrown}}
Pushed(fn, thrown) == UNION {PushedBy(p, thrown) : p \in ToSet(PartsOf(fn))}

\* The status of the last part is the status of the whole.
ReturnsOk(fn, thrown) ==
  ToSet(Constructs(Last(PartsOf(fn)))) \intersect thrown = {}

PopsOf(p) == IF p = "energy_cpu" THEN CpuBackends ELSE ToSet(Constructs(p))
Pops_CpuOnly(fn) == PopsOf(PartsOf(fn)[1])
Pops_BothSensors(fn) ==
  IF fn = "temperature_hwmon" THEN PopsOf("temperature")
  ELSE UNION {PopsOf(p) : p \in ToSet(PartsOf(fn))}
\* The stacks a stop function pops.
Pops(fn) == UNION {PopsOf(p) : p \in ToSet(PartsOf(fn))}

-----------------------------------------------------------------------------
(* The calls. *)

\* Without an engine a start returns NOT_INITIALIZED and changes nothing.
Start(fn) ==
  /\ engine /\ started < MaxStarts
  /\ \E thrown \in SUBSET (MayThrow \intersect KindsOf(fn)) :
       LET pushed == Pushed(fn, thrown)
           ok == ReturnsOk(fn, thrown)
       IN /\ Fail(Cardinality(thrown))
          /\ stacks' = [k \in Kinds |-> IF k \in pushed
                                          THEN Append(stacks[k], started + 1)
                                          ELSE stacks[k]]
          /\ scopes' = IF ok THEN Append(scopes, [fn |-> fn, start |-> started + 1])
                             ELSE scopes
          /\ leftovers' = [k \in Kinds |-> leftovers[k] + Fault(~ok /\ k \in pushed)]
          /\ swallowed' = (swallowed \/ (ok /\ pushed # KindsOf(fn)))
  /\ started' = started + 1
  /\ UNCHANGED <<engine, gpu>>

\* ProfilerManager::pop on each of the function's stacks.
Stop ==
  /\ scopes # <<>>
  /\ LET fn == Last(scopes).fn IN
     stacks' = [k \in Kinds |-> IF k \in Pops(fn) /\ stacks[k] # <<>>
                                  THEN Front(stacks[k]) ELSE stacks[k]]
  /\ scopes' = Front(scopes)
  /\ UNCHANGED <<engine, gpu, faults, started, leftovers, swallowed>>

\* OPTKIT's constructor tries every vendor.
optkit_init ==
  /\ ~engine
  /\ engine' = TRUE
  /\ \E nvml \in Successes("nvidia"), amdsmi \in Successes("amd") :
       /\ gpu' = [v \in Vendors |->
                    Discover(v, gpu[v], IF v = "nvidia" THEN nvml ELSE amdsmi)]
       /\ Fail(Fault(nvml < NvmlCalls) + Fault(amdsmi < AmdsmiCalls))
  /\ UNCHANGED <<stacks, started, history>>

ClearedStacks_AllButGpu == [k \in Kinds |-> IF k = "gpu_temperature" THEN stacks[k] ELSE <<>>]
ClearedStacks == [k \in Kinds |-> <<>>]

\* The OPTKIT object goes, and the libraries with it, before the profilers that
\* are still on a stack.
optkit_finalize ==
  /\ engine
  /\ engine' = FALSE
  /\ \E nvml \in Refusals("nvidia"), amdsmi \in Refusals("amd") :
       /\ gpu' = [v \in Vendors |->
                    Shutdown(gpu[v], IF v = "nvidia" THEN nvml ELSE amdsmi)]
       /\ Fail(Fault(nvml) + Fault(amdsmi))
  /\ stacks' = ClearedStacks
  /\ scopes' = <<>> /\ leftovers' = None /\ swallowed' = FALSE
  /\ UNCHANGED started

\* optkit_query_gpu_init, and every other query: ensure_gpu_query_initialized.
QueryGpu(v) ==
  /\ \E calls \in Successes(v) :
       /\ gpu' = [gpu EXCEPT ![v] = Initialize(v, @, calls)]
       /\ Fail(Fault(calls < Calls(v)))
  /\ UNCHANGED <<engine, stacks, started, history>>

optkit_query_gpu_shutdown(v) ==
  /\ \E refuses \in Refusals(v) :
       /\ gpu' = [gpu EXCEPT ![v] = Shutdown(@, refuses)]
       /\ Fail(Fault(refuses))
  /\ UNCHANGED <<engine, stacks, started, history>>

Next ==
  \/ \E fn \in Functions : Start(fn)
  \/ Stop
  \/ optkit_init \/ optkit_finalize
  \/ \E v \in Vendors : QueryGpu(v) \/ optkit_query_gpu_shutdown(v)

Spec == Init /\ [][Next]_vars

-----------------------------------------------------------------------------
(* Properties. *)

TypeOK ==
  /\ engine \in BOOLEAN /\ swallowed \in BOOLEAN
  /\ QueryTypeOK
  /\ stacks \in [Kinds -> Seq(Nat)]
  /\ faults \in Nat /\ started \in Nat
  /\ scopes \in Seq([fn : Functions, start : Nat])
  /\ leftovers \in [Kinds -> Nat]

\* A scope that is open is being measured: whatever starts and stops inside it,
\* failed ones included, none of its profilers is popped before its own stop.
ScopesAreMeasured ==
  \A i \in DOMAIN scopes : \A k \in KindsOf(scopes[i].fn) :
    scopes[i].start \in ToSet(stacks[k])

\* Nothing else is on the stacks but what starts that failed had pushed before:
\* no stop takes too few, and nothing survives optkit_finalize.
NothingElseRuns ==
  \A k \in Kinds :
    Len(stacks[k]) = leftovers[k]
      + Cardinality({i \in DOMAIN scopes : k \in KindsOf(scopes[i].fn)})

\* Both hold unless an energy start has hidden that its CPU part failed, whose
\* stop then pops the CPU profiler of an outer scope (optkit_energy_start,
\* optkit_energy_stop).
StacksFollowScopes == ~swallowed => ScopesAreMeasured /\ NothingElseRuns

=============================================================================
