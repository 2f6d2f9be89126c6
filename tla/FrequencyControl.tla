-------------------------- MODULE FrequencyControl --------------------------
(***************************************************************************)
(* Programs that change the CPU's frequency limits through OPTKIT and give *)
(* them back: the Frequency class (src/core/frequency/cpu/frequency.cc),   *)
(* the constructor and destructor of OPTKIT (src/optkit.cc), the loop and  *)
(* signal handler of optkit-daemon (tools/optkit-daemon/main.cc), and what *)
(* optkit-setenv and the frequency sweep of optkit-cli stat do to the CPU. *)
(* Several programs share one machine.                                     *)
(*                                                                         *)
(* A program's calls wait in calls[p]; the one under way is a sequence of  *)
(* writes, each to one sysfs file or MSR, and between any two writes       *)
(* another program, a signal or the unplugging of a CPU can come.          *)
(***************************************************************************)
EXTENDS Integers, Sequences, SequencesExt, FiniteSets

CONSTANTS
  Daemons, Tools,  \* the programs: optkit-daemon, and others with OPTKIT_INIT
  Restores,        \* those with OPTKIT_CONFIG::restore_cpu_frequency
  Package,         \* each socket's CPUs, in order
  HwMin, HwMax,    \* cpuinfo_min_freq and cpuinfo_max_freq
  UncoreMin, UncoreMax, \* what MSR 0x620 holds when the machine starts
  Predictions,     \* the frequencies a daemon's model predicts
  Requests,        \* those a tool asks for
  Available,       \* scaling_available_frequencies, in its order: a sweep's frequencies
  Offlines,        \* the lists of CPUs that a configuration of optkit-setenv takes offline
  Limits,          \* --freq-limit of a sweep, 0 for none
  Threshold,       \* FREQ_CHANGE_THRESHOLD_KHZ
  MayUnplug,       \* CPUs that may go offline
  MaxPredictions,  \* bound: turns of a daemon's loop
  MaxUses,         \* bound: calls of a tool
  MaxSignals       \* SIGINT and SIGTERM: at most 2, each is blocked in its handler

Programs == Daemons \union Tools
Sockets  == DOMAIN Package
CpusOf(s) == {Package[s][i] : i \in DOMAIN Package[s]}
Cpus     == UNION {CpusOf(s) : s \in Sockets}
SocketOf(c) == CHOOSE s \in Sockets : c \in CpusOf(s)
NumSockets == Cardinality(Sockets)
NumCpus    == Cardinality(Cpus)

\* Sockets are numbered by their first CPU, and each one's CPUs are listed in
\* ascending order.  CPU 0 never goes offline.
ASSUME FrequencyAssumption ==
  /\ Daemons \intersect Tools = {}
  /\ Daemons \subseteq Restores /\ Restores \subseteq Programs
  /\ NumSockets \in Nat \ {0} /\ Sockets = 0 .. NumSockets - 1
  /\ NumCpus \in Nat \ {0} /\ Cpus = 0 .. NumCpus - 1
  /\ Sockets \subseteq Cpus /\ Package[0][1] = 0
  /\ \A s \in Sockets : Package[s] \in Seq(Nat) \ {<<>>}
  /\ \A s \in Sockets : \A i, j \in DOMAIN Package[s] : i < j => Package[s][i] < Package[s][j]
  /\ \A s, t \in Sockets : s # t => CpusOf(s) \intersect CpusOf(t) = {}
  /\ HwMin \in Nat \ {0} /\ HwMax \in Nat /\ HwMin <= HwMax
  /\ UncoreMin \in Nat \ {0} /\ UncoreMax \in Nat /\ UncoreMin <= UncoreMax
  /\ Predictions \union Requests \subseteq Nat \ {0} /\ Threshold \in Nat
  /\ Available \in Seq(Nat \ {0}) /\ Limits \subseteq Nat
  /\ Offlines \subseteq Seq(Cpus \ {0}) /\ MayUnplug \subseteq Cpus \ {0}
  /\ MaxPredictions \in Nat /\ MaxUses \in Nat /\ MaxSignals \in 0..2

Nothing == [min |-> 0, max |-> 0]       \* a register that cannot be read
NoInfo  == [min |-> -1, max |-> -1]     \* cpuinfo files that cannot be read
Unread  == [min |-> -2, max |-> -2]     \* a static not initialised yet
Hw      == [min |-> HwMin, max |-> HwMax]
Uncore  == [min |-> UncoreMin, max |-> UncoreMax]
Forms   == {"socket", "cpu", "range"}   \* the three set_core_frequency

VARIABLES
  limits,    \* scaling_min_freq and scaling_max_freq of each CPU
  uncore,    \* MSR_UNCORE_RATIO_LIMIT of each socket
  online,    \* the CPUs that have sysfs and MSR files
  phase,     \* of each program: "off", "running", "exiting", "gone", or "failed" by an exception
  seen,      \* its package_info: it lists the CPUs with a smaller number than this
  calls,     \* its calls of Frequency still to begin
  writes,    \* the writes left of the call under way
  range,     \* its static min_freq, max_freq, one pair for each form
  cache,     \* the static cache of get_uncore_min_max
  last_core, last_uncore,  \* last_applied_core_khz, last_applied_uncore_khz
  steps,     \* predictions and uses, counted for their bounds
  signals,   \* of SIGINT and SIGTERM, those that came
  clean      \* history: every program's first look found the machine's own uncore limits

hardware == <<limits, uncore, online>>
program  == <<phase, seen, calls, writes, range, cache, last_core, last_uncore>>
bounds   == <<steps, signals>>
vars     == <<hardware, program, bounds, clean>>

ForEachSocket(f) == [i \in 1..NumSockets |-> f[i - 1]]

\* Those of the CPUs, in ascending order, that the program's package_info lists;
\* a socket without any is not in it, and package_info.at throws.
Seen(p, cpus) == SubSeq(cpus, 1, Cardinality({i \in DOMAIN cpus : cpus[i] < seen[p]}))
Missing(p, s) == Package[s][1] >= seen[p]

-----------------------------------------------------------------------------
(* The calls.                                                              *)

\* A call of set_core_frequency carries the CPUs it goes through and the one
\* that its form asks for the hardware's limits.
SetCore(f, form, s, cpus, first) ==
  [op |-> "set_core", form |-> form, freq |-> f, socket |-> s, cpus |-> cpus, first |-> first]
CountTo(s, c) == Cardinality({i \in DOMAIN Package[s] : Package[s][i] <= c})
CpusBetween(s, lo, hi) == SubSeq(Package[s], CountTo(s, lo - 1) + 1, CountTo(s, hi))
SetSocket(f, s)      == SetCore(f, "socket", s, Package[s], Package[s][1])
SetCpu(f, c, s)      == SetCore(f, "cpu", s, CpusBetween(s, c, c), c)
SetRange(f, lo, hi, s) == SetCore(f, "range", s, CpusBetween(s, lo, hi), lo)
SetUncore(f, s)  == [op |-> "set_uncore", freq |-> f, socket |-> s]
TryUncore(f)     == [op |-> "try_uncore", freq |-> f]
ResetCore(s)     == [op |-> "reset_core", socket |-> s]
ResetUncore(s)   == [op |-> "reset_uncore", socket |-> s]
ReadMinMax(s)    == [op |-> "get_uncore_min_max", socket |-> s]

\* OPTKIT_SET_CPU_FREQ(core_freq, uncore_freq, socket): the macro hands the
\* core's frequency to the uncore and the uncore's to the core.
SetBoth(core, un, s) == <<SetUncore(core, s), SetSocket(un, s)>>

\* ~OPTKIT, and the daemon's signal handler
ResetSocket(s) == <<ResetCore(s), ResetUncore(s)>>
RestoreAll_First == ResetSocket(0)
RestoreAll == FlattenSeq(ForEachSocket([s \in Sockets |-> ResetSocket(s)]))

\* CPU::apply of optkit-setenv: the frequencies that are not 0 on every socket,
\* then all CPUs online, and then those of the configuration offline.
Hotplug(cpus, file) == [op |-> "hotplug", cpus |-> cpus, file |-> file]
AllButFirst == [i \in 1..NumCpus - 1 |-> i]
apply(f, g, offline) ==
  (IF f > 0 THEN ForEachSocket([s \in Sockets |-> SetSocket(f, s)]) ELSE <<>>)
  \o (IF g > 0 THEN <<TryUncore(g)>> ELSE <<>>)
  \o <<Hotplug(AllButFirst, "online"), Hotplug(offline, "offline")>>

\* BenchType::FREQ_SCALING of optkit-cli stat: every pair of frequencies in
\* turn, then every core is reset, and the uncore if it cannot be set.
Descending(r) == [i \in 1..r.max - r.min + 1 |-> r.max + 1 - i]
Window(values, first, limit) ==
  SubSeq(values, first + 1,
         IF limit = 0 \/ first + limit > Len(values) THEN Len(values) ELSE first + limit)
SweepSocket(f, g, s) == <<SetSocket(f, s)>> \o (IF g > 0 THEN <<SetUncore(g, s)>> ELSE <<>>)
AfterSweep(uncores, s) == <<ResetCore(s)>> \o (IF uncores = <<0>> THEN <<ResetUncore(s)>> ELSE <<>>)
Sweep(cores, uncores) ==
  LET Pair(i, j) == FlattenSeq(ForEachSocket([s \in Sockets |-> SweepSocket(cores[i], uncores[j], s)]))
  IN  FlattenSeq([i \in DOMAIN cores |-> FlattenSeq([j \in DOMAIN uncores |-> Pair(i, j)])])
      \o FlattenSeq(ForEachSocket([s \in Sockets |-> AfterSweep(uncores, s)]))

-----------------------------------------------------------------------------
(* What a call writes.  A strict call stops at the first write that fails: *)
(* write_file without a verbosity argument throws.                         *)

Core(c, limit, v, strict) ==
  [file |-> limit, cpu |-> c, value |-> v, strict |-> strict, undo |-> FALSE]
Msr(s, v, undo) ==
  [file |-> "msr", cpu |-> s, value |-> v, strict |-> undo, undo |-> undo]
Switch(c, file) == [file |-> file, cpu |-> c, strict |-> FALSE]

\* The loop over a socket's CPUs writes each one's max, and then its min.
TraverseCores(cpus, r, strict) ==
  [i \in 1..2 * Len(cpus) |->
     IF i % 2 = 1 THEN Core(cpus[(i + 1) \div 2], "max", r.max, strict)
                  ELSE Core(cpus[(i + 1) \div 2], "min", r.min, strict)]

Clamp_Below(f, r) == IF f < r.min THEN r.min ELSE f
Clamp(f, r) == IF f < r.min THEN r.min ELSE IF f > r.max THEN r.max ELSE f

\* get_cpuinfo_min_freq and get_cpuinfo_max_freq: -1 when they cannot be read
CpuInfo(c) == IF c \in online THEN Hw ELSE NoInfo
ReadRange(p, call) ==
  IF range[p][call.form] # Unread THEN range[p][call.form] ELSE CpuInfo(call.first)

ReadUncore(s) == IF Package[s][1] \in online THEN uncore[s] ELSE Nothing
CachedUncore_Fresh(p, s) == ReadUncore(s)
CachedUncore(p, s) == IF cache[p][s] # Unread THEN cache[p][s] ELSE ReadUncore(s)

\* set_core_frequency, its three forms
BeginSetCore(p, call) ==
  LET r == ReadRange(p, call)
      f == Clamp(call.freq, r)
  IN  /\ range' = [range EXCEPT ![p][call.form] = r]
      /\ writes' = [writes EXCEPT ![p] =
           TraverseCores(Seen(p, call.cpus), [min |-> f, max |-> f], call.form # "socket")]
      /\ UNCHANGED <<cache, clean>>

\* reset_core_frequency
BeginResetCore(p, call) ==
  /\ writes' = [writes EXCEPT ![p] = TraverseCores(Seen(p, Package[call.socket]), Hw, TRUE)]
  /\ UNCHANGED <<range, cache, clean>>

\* set_uncore_frequency: no limit is looked at, and the register is addressed
\* by the number of the socket.
BeginSetUncore(p, call) ==
  /\ writes' = [writes EXCEPT ![p] =
       <<Msr(call.socket, [min |-> call.freq, max |-> call.freq], FALSE)>>]
  /\ UNCHANGED <<range, cache, clean>>

\* set_uncore_freq of optkit-setenv: every socket, up to one that fails
BeginTryUncore(p, call) ==
  /\ writes' = [writes EXCEPT ![p] =
       ForEachSocket([s \in Sockets |-> Msr(s, [min |-> call.freq, max |-> call.freq], TRUE)])]
  /\ UNCHANGED <<range, cache, clean>>

\* reset_uncore_frequency, or get_uncore_min_max alone
BeginUncoreDefaults(p, call) ==
  LET default == CachedUncore(p, call.socket)
  IN  /\ cache' = [cache EXCEPT ![p][call.socket] = default]
      /\ clean' = (clean /\ (cache[p][call.socket] = Unread => default = Uncore))
      /\ writes' = [writes EXCEPT ![p] =
           IF call.op = "reset_uncore" THEN <<Msr(call.socket, default, FALSE)>> ELSE <<>>]
      /\ UNCHANGED range

BeginHotplug(p, call) ==
  /\ writes' = [writes EXCEPT ![p] = [i \in DOMAIN call.cpus |-> Switch(call.cpus[i], call.file)]]
  /\ UNCHANGED <<range, cache, clean>>

Alive(p) == phase[p] \in {"running", "exiting"}

\* package_info.at(socket), which the set_core_frequency of a socket and
\* get_uncore_min_max come to when their statics are empty
Throws(p, call) ==
  \/ /\ call.op = "set_core" /\ call.form = "socket"
     /\ range[p]["socket"] = Unread /\ Missing(p, call.socket)
  \/ /\ call.op \in {"reset_uncore", "get_uncore_min_max"}
     /\ cache[p][call.socket] = Unread /\ Missing(p, call.socket)

Begin(p) ==
  /\ Alive(p) /\ writes[p] = <<>> /\ calls[p] # <<>>
  /\ ~Throws(p, Head(calls[p]))
  /\ LET call == Head(calls[p])
     IN  \/ call.op = "set_core" /\ BeginSetCore(p, call)
         \/ call.op = "reset_core" /\ BeginResetCore(p, call)
         \/ call.op = "set_uncore" /\ BeginSetUncore(p, call)
         \/ call.op = "try_uncore" /\ BeginTryUncore(p, call)
         \/ call.op \in {"reset_uncore", "get_uncore_min_max"} /\ BeginUncoreDefaults(p, call)
         \/ call.op = "hotplug" /\ BeginHotplug(p, call)
  /\ calls' = [calls EXCEPT ![p] = Tail(@)]
  /\ UNCHANGED <<hardware, phase, seen, last_core, last_uncore, bounds>>

\* An out_of_range, which no caller catches: the program ends, and ~OPTKIT does
\* not run.
Fail(p) ==
  /\ Alive(p) /\ writes[p] = <<>> /\ calls[p] # <<>>
  /\ Throws(p, Head(calls[p]))
  /\ phase' = [phase EXCEPT ![p] = "failed"]
  /\ calls' = [calls EXCEPT ![p] = <<>>]
  /\ UNCHANGED <<hardware, seen, writes, range, cache, last_core, last_uncore, bounds, clean>>

\* Linux keeps each limit as a request of its own, refuses a negative one, and
\* holds one that is outside what the CPU can do to what it can.  The requests
\* stay while a CPU is offline.
Held(v, limit) == IF v < 0 THEN limit ELSE Clamp(v, Hw)
Put(w) ==
  \/ /\ w.file = "msr"
     /\ uncore' = [uncore EXCEPT ![SocketOf(w.cpu)] = w.value]
     /\ UNCHANGED <<limits, online>>
  \/ /\ w.file = "min"
     /\ limits' = [limits EXCEPT ![w.cpu].min = Held(w.value, @)]
     /\ UNCHANGED <<uncore, online>>
  \/ /\ w.file = "max"
     /\ limits' = [limits EXCEPT ![w.cpu].max = Held(w.value, @)]
     /\ UNCHANGED <<uncore, online>>
  \/ /\ w.file = "offline"
     /\ online' = online \ {w.cpu}
     /\ UNCHANGED <<limits, uncore>>
  \/ /\ w.file = "online"
     /\ online' = online \union {w.cpu}
     /\ UNCHANGED <<limits, uncore>>

\* set_uncore_freq of optkit-setenv: the sockets before the one that failed are
\* reset, those after it left alone.
RollBack(p, s) == [i \in 1..s |-> ResetUncore(i - 1)] \o calls[p]

WriteFails(p, w) ==
  /\ w.cpu \notin online /\ w.file \in {"min", "max", "msr"}
  /\ writes' = [writes EXCEPT ![p] = IF w.strict THEN <<>> ELSE Tail(@)]
  /\ calls' = IF w.undo THEN [calls EXCEPT ![p] = RollBack(p, w.cpu)] ELSE calls
  /\ UNCHANGED hardware

Write(p) ==
  /\ Alive(p) /\ writes[p] # <<>>
  /\ LET w == Head(writes[p])
     IN  \/ /\ w.cpu \in online \/ w.file \in {"online", "offline"}
            /\ Put(w)
            /\ writes' = [writes EXCEPT ![p] = Tail(@)]
            /\ UNCHANGED calls
         \/ WriteFails(p, w)
  /\ UNCHANGED <<phase, seen, range, cache, last_core, last_uncore, bounds, clean>>

-----------------------------------------------------------------------------
(* The life of a program.                                                  *)

Idle(p) == phase[p] = "running" /\ calls[p] = <<>> /\ writes[p] = <<>>

\* detect_cpu_packages, before main: CPUs are listed up to the first that is
\* offline, whatever its socket, and the list is never made again.
detect_cpu_packages(n) == 0..n - 1 \subseteq online /\ n \notin online

\* OPTKIT::OPTKIT caches the uncore limits that it will put back.
Construct(p) ==
  /\ phase[p] = "off"
  /\ phase' = [phase EXCEPT ![p] = "running"]
  /\ \E n \in 1..NumCpus : detect_cpu_packages(n) /\ seen' = [seen EXCEPT ![p] = n]
  /\ calls' = [calls EXCEPT ![p] =
       IF p \in Restores THEN ForEachSocket([s \in Sockets |-> ReadMinMax(s)]) ELSE <<>>]
  /\ UNCHANGED <<hardware, writes, range, cache, last_core, last_uncore, bounds, clean>>

\* The end of main: ~OPTKIT restores.  In the daemon this is an exception, of
\* the model or of the profiler.
Leave(p) ==
  /\ Idle(p)
  /\ phase' = [phase EXCEPT ![p] = "exiting"]
  /\ calls' = [calls EXCEPT ![p] = IF p \in Restores THEN RestoreAll ELSE <<>>]
  /\ UNCHANGED <<hardware, seen, writes, range, cache, last_core, last_uncore, bounds, clean>>

Gone(p) ==
  /\ phase[p] = "exiting" /\ calls[p] = <<>> /\ writes[p] = <<>>
  /\ phase' = [phase EXCEPT ![p] = "gone"]
  /\ UNCHANGED <<hardware, calls, writes, seen, range, cache, last_core, last_uncore, bounds, clean>>

signal_handler_Resumes(d) ==
  /\ d \in Daemons /\ Alive(d)
  /\ signals[d] < MaxSignals /\ signals' = [signals EXCEPT ![d] = @ + 1]
  /\ calls' = [calls EXCEPT ![d] = RestoreAll]
  /\ writes' = [writes EXCEPT ![d] = <<>>]
  /\ UNCHANGED <<hardware, phase, seen, range, cache, last_core, last_uncore, steps, clean>>

\* SIGINT or SIGTERM, each blocked in its own handler: what the daemon was
\* doing is never taken up again.
signal_handler(d) ==
  /\ d \in Daemons /\ Alive(d)
  /\ signals[d] < MaxSignals /\ signals' = [signals EXCEPT ![d] = @ + 1]
  /\ phase' = [phase EXCEPT ![d] = "exiting"]
  /\ calls' = [calls EXCEPT ![d] = RestoreAll]
  /\ writes' = [writes EXCEPT ![d] = <<>>]
  /\ UNCHANGED <<hardware, seen, range, cache, last_core, last_uncore, steps, clean>>

\* One turn of the daemon's loop.  The model gives no output, or the core's
\* frequency, or both frequencies; 0 stands for one that is not a positive
\* finite number.
Outputs == {<<>>} \union {<<c>> : c \in Predictions \union {0}}
             \union ((Predictions \union {0}) \X (Predictions \union {0}))
Distance(a, b) == IF a < b THEN b - a ELSE a - b
Wanted(target, last) == target > 0 /\ (last < 0 \/ Distance(target, last) >= Threshold)
Applied_Always(target, last) == IF target > 0 THEN target ELSE last
Applied(target, last) == IF Wanted(target, last) THEN target ELSE last

Predict(d) ==
  /\ d \in Daemons /\ Idle(d)
  /\ steps[d] < MaxPredictions
  /\ \E out \in Outputs :
       LET core   == Len(out) >= 1 /\ Wanted(out[1], last_core[d])
           un     == Len(out) >= 2 /\ Wanted(out[2], last_uncore[d])
       IN  /\ calls' = [calls EXCEPT ![d] =
             (IF core THEN ForEachSocket([s \in Sockets |-> SetSocket(out[1], s)]) ELSE <<>>)
             \o (IF un THEN ForEachSocket([s \in Sockets |-> SetUncore(out[2], s)]) ELSE <<>>)]
           /\ last_core'   = [last_core EXCEPT ![d] = IF Len(out) >= 1 THEN Applied(out[1], @) ELSE @]
           /\ last_uncore' = [last_uncore EXCEPT ![d] = IF Len(out) >= 2 THEN Applied(out[2], @) ELSE @]
  /\ steps' = [steps EXCEPT ![d] = @ + 1]
  /\ UNCHANGED <<hardware, phase, writes, seen, range, cache, signals, clean>>

\* Any other program calls what it likes.
Plain(t) ==
  \E s \in Sockets, f \in Requests, c \in Cpus :
    \E call \in {SetSocket(f, s), SetCpu(f, c, s), SetRange(f, c, NumCpus - 1, s),
                 SetUncore(f, s), ResetCore(s), ResetUncore(s)} :
      calls' = [calls EXCEPT ![t] = <<call>>]
Both(t) ==
  \E s \in Sockets, f, g \in Requests :
    calls' = [calls EXCEPT ![t] = SetBoth(f, g, s)]

\* optkit-setenv applies a configuration that is_valid accepts.
Setenv(t) ==
  \E f, g \in Requests \union {0}, offline \in Offlines :
    /\ t \in Restores
    /\ f > 0 => f \in CpuInfo(0).min .. CpuInfo(0).max
    /\ g > 0 => g \in cache[t][0].min .. cache[t][0].max
    /\ calls' = [calls EXCEPT ![t] = apply(f, g, offline)]

FreqScaling(t) ==
  LET uncores == IF cache[t][0] = Nothing THEN <<0>> ELSE Descending(cache[t][0])
  IN  /\ t \in Restores
      /\ \E first \in 0 .. Len(Available) - 1, limit \in Limits :
           /\ uncores # <<0>> => first < Len(uncores)
           /\ calls' = [calls EXCEPT ![t] =
                Sweep(Window(Available, first, limit),
                      IF uncores = <<0>> THEN uncores ELSE Window(uncores, first, limit))]

Use(t) ==
  /\ t \in Tools /\ Idle(t)
  /\ steps[t] < MaxUses
  /\ Plain(t) \/ Both(t) \/ Setenv(t) \/ FreqScaling(t)
  /\ steps' = [steps EXCEPT ![t] = @ + 1]
  /\ UNCHANGED <<hardware, phase, writes, seen, range, cache, last_core, last_uncore, signals, clean>>

Unplug(c) ==
  /\ c \in MayUnplug \intersect online
  /\ online' = online \ {c}
  /\ UNCHANGED <<limits, uncore, program, bounds, clean>>

Init ==
  /\ limits = [c \in Cpus |-> Hw]
  /\ uncore = [s \in Sockets |-> Uncore]
  /\ online = Cpus
  /\ phase  = [p \in Programs |-> "off"]
  /\ seen   = [p \in Programs |-> 0]
  /\ calls  = [p \in Programs |-> <<>>]
  /\ writes = [p \in Programs |-> <<>>]
  /\ range  = [p \in Programs |-> [f \in Forms |-> Unread]]
  /\ cache  = [p \in Programs |-> [s \in Sockets |-> Unread]]
  /\ last_core = [d \in Daemons |-> -1] /\ last_uncore = [d \in Daemons |-> -1]
  /\ steps = [p \in Programs |-> 0]
  /\ signals = [d \in Daemons |-> 0]
  /\ clean = TRUE

Step(p) == Begin(p) \/ Fail(p) \/ Write(p) \/ Gone(p)
Next ==
  \/ \E p \in Programs : Construct(p) \/ Leave(p) \/ Begin(p) \/ Fail(p) \/ Write(p) \/ Gone(p)
  \/ \E d \in Daemons : Predict(d) \/ signal_handler(d)
  \/ \E t \in Tools : Use(t)
  \/ \E c \in MayUnplug : Unplug(c)

Spec == Init /\ [][Next]_vars
\* A program that is in a call goes on with it.
FairSpec == Spec /\ \A p \in Programs : WF_vars(Step(p))

-----------------------------------------------------------------------------
(* Properties.                                                             *)

Limit == [min : Int, max : Int]
Ratio == [min : Nat, max : Nat]
Call ==
  [op : {"set_core"}, form : Forms, freq : Int, socket : Sockets, cpus : Seq(Cpus), first : Cpus]
  \union [op : {"set_uncore"}, freq : Nat, socket : Sockets]
  \union [op : {"try_uncore"}, freq : Nat]
  \union [op : {"reset_core", "reset_uncore", "get_uncore_min_max"}, socket : Sockets]
  \union [op : {"hotplug"}, cpus : Seq(Cpus \ {0}), file : {"online", "offline"}]
FileWrite ==
  [file : {"min", "max"}, cpu : Cpus, value : Int, strict : BOOLEAN, undo : {FALSE}]
  \union [file : {"msr"}, cpu : Sockets, value : Ratio, strict : BOOLEAN, undo : BOOLEAN]
  \union [file : {"online", "offline"}, cpu : Cpus \ {0}, strict : {FALSE}]

TypeOK ==
  /\ limits \in [Cpus -> [min : HwMin..HwMax, max : HwMin..HwMax]]
  /\ uncore \in [Sockets -> Ratio] /\ online \subseteq Cpus
  /\ phase \in [Programs -> {"off", "running", "exiting", "gone", "failed"}]
  /\ seen \in [Programs -> 0..NumCpus]
  /\ calls \in [Programs -> Seq(Call)] /\ writes \in [Programs -> Seq(FileWrite)]
  /\ range \in [Programs -> [Forms -> Limit]]
  /\ cache \in [Programs -> [Sockets -> Ratio \union {Unread}]]
  /\ last_core \in [Daemons -> Predictions \union {-1}]
  /\ last_uncore \in [Daemons -> Predictions \union {-1}]
  /\ steps \in [Programs -> Nat]
  /\ signals \in [Daemons -> 0..MaxSignals]
  /\ clean \in BOOLEAN

AllGone ==
  Programs \subseteq Restores /\ \A p \in Programs : phase[p] \in {"off", "gone", "failed"}

\* When the last program has ended, by its own end, by an exception or by a
\* signal in the middle of any call, a core has its hardware limits back if
\* every program that got through its constructor listed it, and if neither it
\* nor one of its socket's CPUs before it is offline, unplugged or switched off
\* by optkit-setenv: the failed write there ends reset_core_frequency.  A core
\* that one of them did not list may stay pinned: it brings the core back
\* online after the others' resets have failed, and does not reset it.
CoresRestored ==
  AllGone => \A s \in Sockets : \A i \in DOMAIN Package[s] :
    /\ \A j \in 1..i : Package[s][j] \in online
    /\ \A p \in Programs : phase[p] = "gone" => Package[s][i] < seen[p]
    => limits[Package[s][i]] = Hw

\* The uncore limits come back too, provided that every program saw the
\* machine's own limits when it first looked, as its OPTKIT was constructed:
\* those of every register that can be reached, through the CPU that has the
\* number of a socket, as reset_uncore_frequency does.
UncoreRestored ==
  AllGone /\ clean => \A s \in Sockets : s \in online => uncore[SocketOf(s)] = Uncore

\* A daemon alone on the machine that waits for its next turn has every core
\* that it listed at its start and that is online pinned to the frequency it
\* remembers as applied, within the hardware's limits, and every uncore it can
\* reach at what it remembers: the differences that Predict ignores are
\* differences to what is really set.
LastAppliedInForce ==
  \A d \in Daemons :
    Idle(d) /\ (\A p \in Programs \ {d} : phase[p] = "off") =>
      /\ last_core[d] > 0 => \A c \in online : c < seen[d] =>
           limits[c] = [min |-> Clamp(last_core[d], Hw), max |-> Clamp(last_core[d], Hw)]
      /\ last_uncore[d] > 0 => \A s \in Sockets : s \in online =>
           uncore[SocketOf(s)] = [min |-> last_uncore[d], max |-> last_uncore[d]]

\* A signal ends the daemon, also one that comes while it is resetting, or
\* while its constructor is still looking at sockets that may not be there.
SignalEnds == \A d \in Daemons : signals[d] > 0 ~> phase[d] \in {"gone", "failed"}
=============================================================================
