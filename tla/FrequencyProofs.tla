--------------------------- MODULE FrequencyProofs ---------------------------
(***************************************************************************)
(* Whatever the number of sockets, CPUs and programs, however their writes *)
(* interleave and wherever signals and unplugged CPUs fall: the limits of  *)
(* the CPUs that the programs listed at their start come back, and a       *)
(* daemon alone knows what is in force on those that it listed.            *)
(***************************************************************************)
EXTENDS FrequencyControl, SequenceFacts, FiniteSetTheorems

-----------------------------------------------------------------------------
(* The machine.                                                            *)

LEMMA Machine ==
  /\ 0 \in Sockets /\ NumSockets \in Nat /\ \A i \in 1..NumSockets : i - 1 \in Sockets
  /\ \A s \in Sockets : s \in Nat /\ s \in Cpus /\ s + 1 \in 1..NumSockets
  /\ \A s \in Sockets :
       /\ Package[s] \in Seq(Cpus) /\ Len(Package[s]) \in Nat \ {0}
       /\ DOMAIN Package[s] = 1..Len(Package[s]) /\ Package[s][1] \in Cpus
       /\ \A i \in DOMAIN Package[s] : Package[s][i] \in Cpus
<1>1. /\ NumSockets \in Nat \ {0} /\ Sockets = 0 .. NumSockets - 1 /\ Sockets \subseteq Cpus
      /\ \A s \in Sockets : Package[s] \in Seq(Nat) /\ Package[s] # <<>>
  BY FrequencyAssumption DEF FrequencyAssumption
<1>2. 0 \in Sockets /\ NumSockets \in Nat /\ \A i \in 1..NumSockets : i - 1 \in Sockets
  BY <1>1
<1>3. \A s \in Sockets : s \in Nat /\ s \in Cpus /\ s + 1 \in 1..NumSockets
  BY <1>1
<1>4. ASSUME NEW s \in Sockets
      PROVE  /\ Package[s] \in Seq(Cpus) /\ Len(Package[s]) \in Nat \ {0}
             /\ DOMAIN Package[s] = 1..Len(Package[s]) /\ Package[s][1] \in Cpus
             /\ \A i \in DOMAIN Package[s] : Package[s][i] \in Cpus
  <2>1. Package[s] \in Seq(Nat) /\ Package[s] # <<>>
    BY <1>1
  <2>2. Len(Package[s]) \in Nat \ {0} /\ DOMAIN Package[s] = 1..Len(Package[s])
    BY <2>1
  <2>3. ASSUME NEW i \in DOMAIN Package[s] PROVE Package[s][i] \in Cpus
    <3>1. Package[s][i] \in CpusOf(s)
      BY DEF CpusOf
    <3>2. QED
      BY <3>1 DEF Cpus
  <2>4. Package[s] \in Seq(Cpus)
    BY <2>1, <2>2, <2>3
  <2>5. QED
    BY <2>2, <2>3, <2>4
<1>5. QED
  BY <1>2, <1>3, <1>4

LEMMA SocketOfACpu ==
  /\ \A c \in Cpus : SocketOf(c) \in Sockets /\ c \in CpusOf(SocketOf(c))
  /\ \A s \in Sockets : \A i \in DOMAIN Package[s] : SocketOf(Package[s][i]) = s
<1>1. ASSUME NEW c \in Cpus PROVE SocketOf(c) \in Sockets /\ c \in CpusOf(SocketOf(c))
  <2>1. \E s \in Sockets : c \in CpusOf(s)
    BY DEF Cpus
  <2>2. QED
    BY <2>1 DEF SocketOf
<1>2. ASSUME NEW s \in Sockets, NEW i \in DOMAIN Package[s]
      PROVE  SocketOf(Package[s][i]) = s
  <2>1. Package[s][i] \in CpusOf(s) /\ Package[s][i] \in Cpus
    BY DEF Cpus, CpusOf
  <2>2. \A t \in Sockets : t # s => CpusOf(s) \intersect CpusOf(t) = {}
    BY FrequencyAssumption DEF FrequencyAssumption
  <2>3. QED
    BY <2>1, <2>2, <1>1
<1>3. QED
  BY <1>1, <1>2

LEMMA ForEachSocketIs ==
  ASSUME NEW S, NEW f \in [Sockets -> S]
  PROVE  /\ ForEachSocket(f) \in Seq(S)
         /\ DOMAIN ForEachSocket(f) = 1..NumSockets
         /\ Len(ForEachSocket(f)) = NumSockets
         /\ \A i \in 1..NumSockets : ForEachSocket(f)[i] = f[i - 1]
         /\ \A s \in Sockets : s + 1 \in DOMAIN ForEachSocket(f) /\ ForEachSocket(f)[s + 1] = f[s]
<1>1. ForEachSocket(f) \in [1..NumSockets -> S]
  BY Machine DEF ForEachSocket
<1>2. ForEachSocket(f) \in Seq(S) /\ Len(ForEachSocket(f)) = NumSockets
  BY <1>1, Machine
<1>3. \A i \in 1..NumSockets : ForEachSocket(f)[i] = f[i - 1]
  BY DEF ForEachSocket
<1>4. ASSUME NEW s \in Sockets
      PROVE  s + 1 \in 1..NumSockets /\ ForEachSocket(f)[s + 1] = f[s]
  BY <1>3, Machine
<1>5. QED
  BY <1>1, <1>2, <1>3, <1>4

LEMMA CpusBetweenAreCpus ==
  ASSUME NEW s \in Sockets, NEW lo \in Int, NEW hi \in Int
  PROVE  CpusBetween(s, lo, hi) \in Seq(Cpus)
<1>1. ASSUME NEW c \in Int PROVE CountTo(s, c) \in 0..Len(Package[s])
  <2> DEFINE T == {i \in DOMAIN Package[s] : Package[s][i] <= c}
  <2>1. /\ IsFiniteSet(1..Len(Package[s]))
        /\ Cardinality(1..Len(Package[s])) = Len(Package[s])
    <3> DEFINE n == Len(Package[s])
    <3>1. n \in Nat
      BY Machine
    <3> HIDE DEF n
    <3>2. IsFiniteSet(1..n) /\ Cardinality(1..n) = n
      BY <3>1, FS_Interval
    <3>3. QED
      BY <3>2 DEF n
  <2>2. T \in SUBSET (1..Len(Package[s]))
    BY Machine
  <2>3. IsFiniteSet(T) /\ Cardinality(T) <= Len(Package[s])
    BY <2>1, <2>2, FS_Subset
  <2>4. Cardinality(T) \in Nat
    BY <2>3, FS_CardinalityType
  <2>5. QED
    BY <2>3, <2>4, Machine DEF CountTo
<1>2. CountTo(s, lo - 1) \in 0..Len(Package[s]) /\ CountTo(s, hi) \in 0..Len(Package[s])
  BY <1>1
<1> DEFINE m == CountTo(s, lo - 1) + 1
           n == CountTo(s, hi)
<1>3. m \in Int /\ n \in Int /\ m >= 1 /\ n <= Len(Package[s])
  BY <1>2, Machine
<1>4. \A i \in m..n : Package[s][i] \in Cpus
  BY <1>3, Machine
<1>5. SubSeq(Package[s], m, n) \in Seq(Cpus)
  BY <1>3, <1>4, SubSeqProperties
<1>6. QED
  BY <1>5 DEF CpusBetween

(* The first CPUs of an ascending list are counted: a set of indices that    *)
(* holds every index below one of its own is an interval.                    *)
LEMMA Initial ==
  ASSUME NEW n \in Nat, NEW T \in SUBSET (1..n),
         \A i \in T : \A j \in 1..n : j < i => j \in T
  PROVE  Cardinality(T) \in 0..n /\ T = 1..Cardinality(T)
<1> DEFINE Rest == {i \in 1..n + 1 : i \notin T}
<1>1. Rest \in SUBSET Nat /\ n + 1 \in Rest
  OBVIOUS
<1> HIDE DEF Rest
<1>2. PICK m \in Rest : \A i \in Rest : m <= i
  BY <1>1, LeastElement
<1>3. m \in 1..n + 1 /\ m \notin T /\ \A i \in 1..n + 1 : i < m => i \in T
  BY <1>1, <1>2 DEF Rest
<1>4. T = 1..m - 1
  <2>1. ASSUME NEW i \in T PROVE i \in 1..m - 1
    <3>1. i \in 1..n /\ i # m
      BY <1>3
    <3>2. ~(m < i)
      BY <1>3, <3>1
    <3>3. QED
      BY <1>3, <3>1, <3>2
  <2>2. ASSUME NEW i \in 1..m - 1 PROVE i \in T
    BY <1>3
  <2>3. QED
    BY <2>1, <2>2
<1>5. Cardinality(1..m - 1) = m - 1
  <2> DEFINE k == m - 1
  <2>1. k \in 0..n
    BY <1>3
  <2> HIDE DEF k
  <2>2. Cardinality(1..k) = k
    BY <2>1, FS_Interval
  <2>3. QED
    BY <2>2 DEF k
<1>6. QED
  BY <1>3, <1>4, <1>5

(* What a program lists of a part of the CPUs is a beginning of it. *)
LEMMA SeenIsPart ==
  ASSUME NEW p \in Programs, NEW cpus \in Seq(Cpus)
  PROVE  Seen(p, cpus) \in Seq(Cpus)
<1> DEFINE T == {i \in DOMAIN cpus : cpus[i] < seen[p]}
           n == Len(cpus)
           k == Cardinality(T)
<1>1. n \in Nat /\ DOMAIN cpus = 1..n
  OBVIOUS
<1>2. T \in SUBSET (1..n)
  BY <1>1
<1> HIDE DEF n, T
<1>3. IsFiniteSet(1..n) /\ Cardinality(1..n) = n
  BY <1>1, FS_Interval
<1>4. IsFiniteSet(T) /\ k <= n /\ k \in Nat
  BY <1>2, <1>3, FS_Subset, FS_CardinalityType
<1> HIDE DEF k
<1>5. \A i \in 1..k : cpus[i] \in Cpus
  BY <1>1, <1>4
<1>6. SubSeq(cpus, 1, k) \in Seq(Cpus)
  BY <1>4, <1>5, SubSeqProperties DEF n
<1>7. QED
  BY <1>6 DEF Seen, k, T

(* Of a socket, it is that of the CPUs below seen[p]. *)
LEMMA SeenOfASocket ==
  ASSUME TypeOK, NEW p \in Programs, NEW s \in Sockets
  PROVE  LET l == Seen(p, Package[s])
         IN  /\ l \in Seq(Cpus) /\ DOMAIN l \subseteq DOMAIN Package[s]
             /\ \A i \in DOMAIN l : l[i] = Package[s][i]
             /\ \A i \in DOMAIN Package[s] : Package[s][i] < seen[p] => i \in DOMAIN l
<1> DEFINE T == {i \in DOMAIN Package[s] : Package[s][i] < seen[p]}
           n == Len(Package[s])
           k == Cardinality(T)
           l == SubSeq(Package[s], 1, k)
<1>1. /\ n \in Nat /\ DOMAIN Package[s] = 1..n /\ seen[p] \in Nat
      /\ Package[s] \in Seq(Cpus)
      /\ \A i \in 1..n : Package[s][i] \in Nat
      /\ \A i, j \in 1..n : i < j => Package[s][i] < Package[s][j]
  <2>1. n \in Nat /\ DOMAIN Package[s] = 1..n /\ Package[s] \in Seq(Cpus)
    BY Machine
  <2>2. seen[p] \in Nat
    BY FrequencyAssumption DEF FrequencyAssumption, TypeOK
  <2>3. /\ \A i \in 1..n : Package[s][i] \in Nat
        /\ \A i, j \in 1..n : i < j => Package[s][i] < Package[s][j]
    <3>1. Package[s] \in Seq(Nat)
      BY FrequencyAssumption DEF FrequencyAssumption
    <3>2. \A i, j \in DOMAIN Package[s] : i < j => Package[s][i] < Package[s][j]
      BY FrequencyAssumption DEF FrequencyAssumption
    <3>3. \A i \in DOMAIN Package[s] : Package[s][i] \in Nat
      BY <3>1
    <3> HIDE DEF n
    <3>4. QED
      BY <2>1, <3>2, <3>3
  <2>4. QED
    BY <2>1, <2>2, <2>3
<1>2. T \in SUBSET (1..n) /\ \A i \in T : \A j \in 1..n : j < i => j \in T
  BY <1>1
<1>3. \A i \in 1..n : i \in T <=> Package[s][i] < seen[p]
  BY <1>1
<1> HIDE DEF n, T
<1>4. k \in 0..n /\ T = 1..k
  BY <1>1, <1>2, Initial
<1> HIDE DEF k
<1>5. DOMAIN l = 1..k /\ \A i \in 1..k : l[i] = Package[s][i]
  BY <1>1, <1>4, SubSeqProperties DEF n
<1>6. l = Seen(p, Package[s])
  BY DEF Seen, k, T
<1>7. l \in Seq(Cpus)
  BY <1>1, <1>6, SeenIsPart
<1> HIDE DEF l
<1>8. QED
  BY <1>1, <1>3, <1>4, <1>5, <1>6, <1>7

-----------------------------------------------------------------------------
(* The calls.                                                              *)

LEMMA CallsAreCalls ==
  /\ \A f \in Int, s \in Sockets : SetSocket(f, s) \in Call
  /\ \A f \in Nat, s \in Sockets : SetUncore(f, s) \in Call
  /\ \A f \in Nat : TryUncore(f) \in Call
  /\ \A s \in Sockets : ResetCore(s) \in Call /\ ResetUncore(s) \in Call /\ ReadMinMax(s) \in Call
  /\ \A f \in Int, s \in Sockets, c \in Cpus :
       SetCpu(f, c, s) \in Call /\ SetRange(f, c, NumCpus - 1, s) \in Call
  /\ \A cpus \in Seq(Cpus \ {0}) :
       Hotplug(cpus, "online") \in Call /\ Hotplug(cpus, "offline") \in Call
<1>1. ASSUME NEW f \in Int, NEW s \in Sockets PROVE SetSocket(f, s) \in Call
  BY Machine DEF SetSocket, SetCore, Call, Forms
<1>2. ASSUME NEW f \in Nat
      PROVE  TryUncore(f) \in Call /\ \A s \in Sockets : SetUncore(f, s) \in Call
  BY DEF TryUncore, SetUncore, Call
<1>3. ASSUME NEW s \in Sockets
      PROVE  ResetCore(s) \in Call /\ ResetUncore(s) \in Call /\ ReadMinMax(s) \in Call
  BY DEF ResetCore, ResetUncore, ReadMinMax, Call
<1>4. ASSUME NEW f \in Int, NEW s \in Sockets, NEW c \in Cpus
      PROVE  SetCpu(f, c, s) \in Call /\ SetRange(f, c, NumCpus - 1, s) \in Call
  <2>1. c \in Int /\ NumCpus - 1 \in Int
    BY FrequencyAssumption DEF FrequencyAssumption
  <2>2. CpusBetween(s, c, c) \in Seq(Cpus) /\ CpusBetween(s, c, NumCpus - 1) \in Seq(Cpus)
    BY <2>1, CpusBetweenAreCpus
  <2>3. QED
    BY <2>2 DEF SetCpu, SetRange, SetCore, Call, Forms
<1>5. ASSUME NEW cpus \in Seq(Cpus \ {0})
      PROVE  Hotplug(cpus, "online") \in Call /\ Hotplug(cpus, "offline") \in Call
  BY DEF Hotplug, Call
<1>6. QED
  BY <1>1, <1>2, <1>3, <1>4, <1>5

LEMMA RestoreAllIs ==
  /\ RestoreAll \in Seq(Call)
  /\ \A k \in DOMAIN RestoreAll : RestoreAll[k].op \in {"reset_core", "reset_uncore"}
  /\ \A s \in Sockets :
       /\ \E k \in DOMAIN RestoreAll : RestoreAll[k] = ResetCore(s)
       /\ \E k \in DOMAIN RestoreAll : RestoreAll[k] = ResetUncore(s)
<1> DEFINE Resets == {ResetCore(s) : s \in Sockets} \union {ResetUncore(s) : s \in Sockets}
           f == [s \in Sockets |-> ResetSocket(s)]
           ss == ForEachSocket(f)
<1>1. \A s \in Sockets : ResetSocket(s) \in Seq(Resets)
  BY DEF ResetSocket
<1>2. f \in [Sockets -> Seq(Resets)]
  BY <1>1
<1> HIDE DEF Resets
<1>3. /\ ss \in Seq(Seq(Resets))
      /\ \A s \in Sockets : s + 1 \in DOMAIN ss /\ ss[s + 1] = ResetSocket(s)
  <2>1. \A s \in Sockets : f[s] = ResetSocket(s)
    OBVIOUS
  <2> HIDE DEF f
  <2>2. QED
    BY <1>2, <2>1, ForEachSocketIs
<1>4. RestoreAll = FlattenSeq(ss)
  BY DEF RestoreAll
<1> HIDE DEF ss, f
<1>5. /\ RestoreAll \in Seq(Resets)
      /\ \A i \in DOMAIN ss : \A j \in DOMAIN ss[i] :
           \E k \in DOMAIN RestoreAll : RestoreAll[k] = ss[i][j]
  BY <1>3, <1>4, FlattenSeqElements
<1>6. Resets \subseteq Call /\ \A r \in Resets : r.op \in {"reset_core", "reset_uncore"}
  <2>1. \A s \in Sockets :
          /\ ResetCore(s) \in Call /\ ResetUncore(s) \in Call
          /\ ResetCore(s).op = "reset_core" /\ ResetUncore(s).op = "reset_uncore"
    BY CallsAreCalls DEF ResetCore, ResetUncore
  <2>2. QED
    BY <2>1 DEF Resets
<1>7. RestoreAll \in Seq(Call)
  BY <1>5, <1>6, SeqMonotonic
<1>8. \A k \in DOMAIN RestoreAll : RestoreAll[k].op \in {"reset_core", "reset_uncore"}
  BY <1>5, <1>6
<1>9. ASSUME NEW s \in Sockets
      PROVE  /\ \E k \in DOMAIN RestoreAll : RestoreAll[k] = ResetCore(s)
             /\ \E k \in DOMAIN RestoreAll : RestoreAll[k] = ResetUncore(s)
  <2>1. /\ DOMAIN ResetSocket(s) = 1..2
        /\ ResetSocket(s)[1] = ResetCore(s) /\ ResetSocket(s)[2] = ResetUncore(s)
    BY DEF ResetSocket
  <2>2. /\ s + 1 \in DOMAIN ss /\ 1 \in DOMAIN ss[s + 1] /\ 2 \in DOMAIN ss[s + 1]
        /\ ss[s + 1][1] = ResetCore(s) /\ ss[s + 1][2] = ResetUncore(s)
    BY <1>3, <2>1
  <2>3. QED
    BY <2>2, <1>5
<1>10. QED
  BY <1>7, <1>8, <1>9

LEMMA ApplyIsCalls ==
  ASSUME NEW f \in Int, NEW g \in Nat, NEW offline \in Seq(Cpus \ {0})
  PROVE  apply(f, g, offline) \in Seq(Call)
<1> DEFINE core   == [s \in Sockets |-> SetSocket(f, s)]
           first  == IF f > 0 THEN ForEachSocket(core) ELSE <<>>
           second == IF g > 0 THEN <<TryUncore(g)>> ELSE <<>>
           third  == <<Hotplug(AllButFirst, "online"), Hotplug(offline, "offline")>>
<1>1. first \in Seq(Call)
  <2>1. core \in [Sockets -> Call]
    BY CallsAreCalls
  <2> HIDE DEF core
  <2>2. ForEachSocket(core) \in Seq(Call)
    BY <2>1, ForEachSocketIs
  <2>3. QED
    BY <2>2
<1>2. second \in Seq(Call)
  <2>1. TryUncore(g) \in Call
    BY CallsAreCalls
  <2>2. QED
    BY <2>1
<1>3. third \in Seq(Call)
  <2>1. NumCpus \in Nat \ {0} /\ Cpus = 0 .. NumCpus - 1
    BY FrequencyAssumption DEF FrequencyAssumption
  <2>2. \A i \in 1..NumCpus - 1 : i \in Cpus \ {0}
    BY <2>1
  <2>3. AllButFirst \in Seq(Cpus \ {0})
    BY <2>1, <2>2 DEF AllButFirst
  <2>4. Hotplug(AllButFirst, "online") \in Call /\ Hotplug(offline, "offline") \in Call
    BY <2>3, CallsAreCalls
  <2>5. QED
    BY <2>4
<1>4. apply(f, g, offline) = first \o second \o third
  BY DEF apply
<1> HIDE DEF first, second, third
<1>5. QED
  BY <1>1, <1>2, <1>3, <1>4

LEMMA FlattenTwice ==
  ASSUME NEW S, NEW n \in Nat, NEW f \in [1..n -> Seq(S)]
  PROVE  FlattenSeq(f) \in Seq(S)
<1>1. f \in Seq(Seq(S))
  OBVIOUS
<1>2. QED
  BY <1>1, FlattenSeqElements

LEMMA ForEachFlattened ==
  ASSUME NEW S, NEW f \in [Sockets -> Seq(S)]
  PROVE  FlattenSeq(ForEachSocket(f)) \in Seq(S)
<1>1. ForEachSocket(f) \in Seq(Seq(S))
  BY ForEachSocketIs
<1>2. QED
  BY <1>1, FlattenSeqElements

LEMMA SweepIsCalls ==
  ASSUME NEW cores \in Seq(Int), NEW uncores \in Seq(Int)
  PROVE  Sweep(cores, uncores) \in Seq(Call)
<1> DEFINE OnSockets(i, j) == [s \in Sockets |-> SweepSocket(cores[i], uncores[j], s)]
           Pair(i, j) == FlattenSeq(ForEachSocket(OnSockets(i, j)))
           Row(i) == [j \in DOMAIN uncores |-> Pair(i, j)]
           Rows == [i \in DOMAIN cores |-> FlattenSeq(Row(i))]
           after == [s \in Sockets |-> AfterSweep(uncores, s)]
<1>1. /\ Len(cores) \in Nat /\ DOMAIN cores = 1..Len(cores)
      /\ Len(uncores) \in Nat /\ DOMAIN uncores = 1..Len(uncores)
  OBVIOUS
<1>2. ASSUME NEW f \in Int, NEW g \in Int, NEW s \in Sockets
      PROVE  SweepSocket(f, g, s) \in Seq(Call)
  <2>1. SetSocket(f, s) \in Call /\ (g > 0 => SetUncore(g, s) \in Call)
    BY CallsAreCalls
  <2>2. /\ <<SetSocket(f, s)>> \in Seq(Call) /\ <<>> \in Seq(Call)
        /\ g > 0 => <<SetUncore(g, s)>> \in Seq(Call)
    BY <2>1
  <2>3. QED
    BY <2>2 DEF SweepSocket
<1>3. ASSUME NEW s \in Sockets PROVE AfterSweep(uncores, s) \in Seq(Call)
  <2>1. ResetCore(s) \in Call /\ ResetUncore(s) \in Call
    BY CallsAreCalls
  <2>2. <<ResetCore(s)>> \in Seq(Call) /\ <<ResetUncore(s)>> \in Seq(Call) /\ <<>> \in Seq(Call)
    BY <2>1
  <2>3. QED
    BY <2>2 DEF AfterSweep
<1>4. ASSUME NEW i \in DOMAIN cores, NEW j \in DOMAIN uncores
      PROVE  Pair(i, j) \in Seq(Call)
  <2>1. OnSockets(i, j) \in [Sockets -> Seq(Call)]
    BY <1>2
  <2> HIDE DEF OnSockets
  <2>2. QED
    BY <2>1, ForEachFlattened
<1> HIDE DEF Pair
<1>5. ASSUME NEW i \in DOMAIN cores PROVE FlattenSeq(Row(i)) \in Seq(Call)
  <2>1. Row(i) \in [1..Len(uncores) -> Seq(Call)]
    BY <1>1, <1>4
  <2> HIDE DEF Row
  <2>2. QED
    BY <2>1, <1>1, FlattenTwice
<1> HIDE DEF Row
<1>6. FlattenSeq(Rows) \in Seq(Call)
  <2>1. Rows \in [1..Len(cores) -> Seq(Call)]
    BY <1>1, <1>5
  <2> HIDE DEF Rows
  <2>2. QED
    BY <2>1, <1>1, FlattenTwice
<1>7. FlattenSeq(ForEachSocket(after)) \in Seq(Call)
  <2>1. after \in [Sockets -> Seq(Call)]
    BY <1>3
  <2> HIDE DEF after
  <2>2. QED
    BY <2>1, ForEachFlattened
<1>8. Sweep(cores, uncores) = FlattenSeq(Rows) \o FlattenSeq(ForEachSocket(after))
  BY DEF Sweep, Rows, Row, Pair
<1> HIDE DEF Rows, after
<1>9. QED
  BY <1>6, <1>7, <1>8

LEMMA WindowIsPart ==
  ASSUME NEW values \in Seq(Int), NEW first \in Nat, NEW limit \in Nat
  PROVE  Window(values, first, limit) \in Seq(Int)
<1> DEFINE n == IF limit = 0 \/ first + limit > Len(values) THEN Len(values) ELSE first + limit
<1>1. n \in Int /\ n <= Len(values) /\ first + 1 \in Int
  OBVIOUS
<1>2. \A i \in first + 1 .. n : values[i] \in Int
  BY <1>1
<1> HIDE DEF n
<1>3. SubSeq(values, first + 1, n) \in Seq(Int)
  BY <1>1, <1>2, SubSeqProperties
<1>4. QED
  BY <1>3 DEF Window, n

-----------------------------------------------------------------------------
(* The writes.                                                             *)

Value(r, f) == IF f = "min" THEN r.min ELSE r.max

\* One write of max and one of min for each CPU, in the order of the list.
Traverses(t, cpus, r, strict) ==
  /\ t \in Seq(FileWrite) /\ DOMAIN t = 1..2 * Len(cpus)
  /\ \A k \in DOMAIN t :
       /\ (k + 1) \div 2 \in DOMAIN cpus /\ t[k].cpu = cpus[(k + 1) \div 2]
       /\ t[k].file \in {"min", "max"} /\ t[k].value = Value(r, t[k].file)
       /\ t[k].strict = strict /\ t[k].undo = FALSE
  /\ \A i \in DOMAIN cpus :
       /\ 2 * i - 1 \in DOMAIN t /\ 2 * i \in DOMAIN t
       /\ t[2 * i - 1].file = "max" /\ t[2 * i - 1].cpu = cpus[i]
       /\ t[2 * i].file = "min" /\ t[2 * i].cpu = cpus[i]

LEMMA TraverseCoresIs ==
  ASSUME NEW cpus \in Seq(Cpus), NEW r \in Limit, NEW strict \in BOOLEAN
  PROVE  Traverses(TraverseCores(cpus, r, strict), cpus, r, strict)
<1> DEFINE t == TraverseCores(cpus, r, strict)
           At(k) == IF k % 2 = 1 THEN Core(cpus[(k + 1) \div 2], "max", r.max, strict)
                                 ELSE Core(cpus[(k + 1) \div 2], "min", r.min, strict)
<1>1. Len(cpus) \in Nat /\ DOMAIN cpus = 1..Len(cpus) /\ r.min \in Int /\ r.max \in Int
  BY DEF Limit
<1>2. DOMAIN t = 1..2 * Len(cpus) /\ \A k \in DOMAIN t : t[k] = At(k)
  BY DEF TraverseCores
<1>3. \A c \in Cpus, v \in Int : Core(c, "min", v, strict) \in FileWrite /\ Core(c, "max", v, strict) \in FileWrite
  BY DEF Core, FileWrite
<1>4. \A k \in 1..2 * Len(cpus) :
        /\ (k + 1) \div 2 \in 1..Len(cpus)
        /\ \A i \in 1..Len(cpus) : k = 2 * i - 1 => k % 2 = 1 /\ (k + 1) \div 2 = i
        /\ \A i \in 1..Len(cpus) : k = 2 * i => k % 2 = 0 /\ (k + 1) \div 2 = i
  BY <1>1
<1>5. ASSUME NEW k \in DOMAIN t
      PROVE  /\ (k + 1) \div 2 \in DOMAIN cpus /\ t[k].cpu = cpus[(k + 1) \div 2]
             /\ t[k].file \in {"min", "max"} /\ t[k].value = Value(r, t[k].file)
             /\ t[k].strict = strict /\ t[k].undo = FALSE /\ t[k] \in FileWrite
  <2>1. t[k] = At(k) /\ (k + 1) \div 2 \in DOMAIN cpus /\ cpus[(k + 1) \div 2] \in Cpus
    BY <1>1, <1>2, <1>4
  <2> HIDE DEF t
  <2>2. CASE k % 2 = 1
    <3>1. t[k] = Core(cpus[(k + 1) \div 2], "max", r.max, strict)
      BY <2>1, <2>2
    <3>2. t[k] \in FileWrite
      BY <3>1, <2>1, <1>1, <1>3
    <3>3. QED
      BY <3>1, <3>2, <2>1 DEF Core, Value
  <2>3. CASE k % 2 # 1
    <3>1. t[k] = Core(cpus[(k + 1) \div 2], "min", r.min, strict)
      BY <2>1, <2>3
    <3>2. t[k] \in FileWrite
      BY <3>1, <2>1, <1>1, <1>3
    <3>3. QED
      BY <3>1, <3>2, <2>1 DEF Core, Value
  <2>4. QED
    BY <2>2, <2>3
<1>6. t \in Seq(FileWrite)
  <2>1. t \in [1..2 * Len(cpus) -> FileWrite]
    BY <1>2, <1>5 DEF TraverseCores
  <2>2. QED
    BY <2>1, <1>1
<1>7. ASSUME NEW i \in DOMAIN cpus
      PROVE  /\ 2 * i - 1 \in DOMAIN t /\ 2 * i \in DOMAIN t
             /\ t[2 * i - 1].file = "max" /\ t[2 * i - 1].cpu = cpus[i]
             /\ t[2 * i].file = "min" /\ t[2 * i].cpu = cpus[i]
  <2>1. 2 * i - 1 \in DOMAIN t /\ 2 * i \in DOMAIN t
    BY <1>1, <1>2
  <2> HIDE DEF t
  <2>2. t[2 * i - 1] = At(2 * i - 1) /\ t[2 * i] = At(2 * i)
    BY <2>1, <1>2
  <2>3. /\ (2 * i - 1) % 2 = 1 /\ ((2 * i - 1) + 1) \div 2 = i
        /\ (2 * i) % 2 = 0 /\ (2 * i + 1) \div 2 = i
    BY <2>1, <1>1, <1>2, <1>4
  <2>4. t[2 * i - 1] = Core(cpus[i], "max", r.max, strict) /\ t[2 * i] = Core(cpus[i], "min", r.min, strict)
    BY <2>2, <2>3
  <2>5. QED
    BY <2>1, <2>4 DEF Core
<1>8. QED
  BY <1>2, <1>5, <1>6, <1>7 DEF Traverses

LEMMA HardwareLimits ==
  /\ HwMin \in Nat \ {0} /\ HwMax \in Nat /\ HwMin <= HwMax
  /\ Hw \in [min : HwMin..HwMax, max : HwMin..HwMax] /\ Hw \in Limit
  /\ Hw.min = HwMin /\ Hw.max = HwMax /\ Hw # Unread
  /\ Uncore \in Ratio /\ Nothing \in Ratio /\ Unread \notin Ratio
  /\ Unread \in Limit /\ NoInfo \in Limit
  /\ \A v \in Int : Clamp(v, Hw) \in HwMin..HwMax
  /\ \A v \in HwMin..HwMax : Clamp(v, Hw) = v
<1> USE FrequencyAssumption DEF FrequencyAssumption
<1>1. HwMin \in Nat \ {0} /\ HwMax \in Nat /\ HwMin <= HwMax /\ UncoreMin \in Nat \ {0} /\ UncoreMax \in Nat
  OBVIOUS
<1>2. QED
  BY <1>1 DEF Hw, Uncore, Nothing, Unread, NoInfo, Limit, Ratio, Clamp

(* What reset_core_frequency writes. *)
LEMMA ResetWrites ==
  \A p \in Programs, s \in Sockets :
    Traverses(TraverseCores(Seen(p, Package[s]), Hw, TRUE), Seen(p, Package[s]), Hw, TRUE)
<1>1. Hw \in Limit /\ \A p \in Programs, s \in Sockets : Seen(p, Package[s]) \in Seq(Cpus)
  BY Machine, HardwareLimits, SeenIsPart
<1>2. QED
  BY <1>1, TraverseCoresIs

LEMMA CallKinds ==
  ASSUME NEW call \in Call
  PROVE  /\ call.op \in {"set_core", "set_uncore", "try_uncore", "reset_core", "reset_uncore",
                         "get_uncore_min_max", "hotplug"}
         /\ call.op = "set_core" =>
              /\ call.form \in Forms /\ call.freq \in Int /\ call.socket \in Sockets
              /\ call.cpus \in Seq(Cpus) /\ call.first \in Cpus
         /\ call.op = "set_uncore" => call.freq \in Nat /\ call.socket \in Sockets
         /\ call.op = "try_uncore" => call.freq \in Nat
         /\ call.op \in {"reset_core", "reset_uncore", "get_uncore_min_max"} => call.socket \in Sockets
         /\ call.op = "hotplug" => call.cpus \in Seq(Cpus \ {0}) /\ call.file \in {"online", "offline"}
BY DEF Call

LEMMA WriteKinds ==
  ASSUME NEW w \in FileWrite
  PROVE  /\ w.file \in {"min", "max", "msr", "online", "offline"} /\ w.cpu \in Cpus
         /\ w.strict \in BOOLEAN
         /\ w.file \in {"min", "max"} => w.value \in Int /\ w.undo = FALSE
         /\ w.file = "msr" => w.value \in Ratio /\ w.undo \in BOOLEAN /\ w.cpu \in Sockets
BY Machine DEF FileWrite

LEMMA ReadsAreLimits ==
  ASSUME TypeOK, NEW p \in Programs
  PROVE  /\ \A call \in Call : call.op = "set_core" => ReadRange(p, call) \in Limit
         /\ \A s \in Sockets : CachedUncore(p, s) \in Ratio
<1>1. \A call \in Call : call.op = "set_core" => ReadRange(p, call) \in Limit
  BY CallKinds, HardwareLimits DEF ReadRange, CpuInfo, TypeOK
<1>2. \A s \in Sockets : CachedUncore(p, s) \in Ratio
  BY HardwareLimits DEF CachedUncore, ReadUncore, TypeOK
<1>3. QED
  BY <1>1, <1>2

LEMMA MsrIsWrite ==
  \A s \in Sockets, v \in Ratio, undo \in BOOLEAN : Msr(s, v, undo) \in FileWrite
BY DEF Msr, FileWrite

(* What a call writes, and what it leaves in the statics. *)
LEMMA TypeBegin ==
  ASSUME TypeOK, NEW p \in Programs, Begin(p)
  PROVE  TypeOK'
<1> DEFINE call == Head(calls[p])
<1>1. /\ calls[p] \in Seq(Call) /\ calls[p] # <<>> /\ call \in Call /\ Tail(calls[p]) \in Seq(Call)
      /\ calls' = [calls EXCEPT ![p] = Tail(@)]
      /\ UNCHANGED <<hardware, phase, seen, last_core, last_uncore, bounds>>
  BY DEF Begin, TypeOK
<1>2. calls' \in [Programs -> Seq(Call)]
  BY <1>1 DEF TypeOK
<1>3. SUFFICES /\ writes' \in [Programs -> Seq(FileWrite)]
               /\ range' \in [Programs -> [Forms -> Limit]]
               /\ cache' \in [Programs -> [Sockets -> Ratio \union {Unread}]]
               /\ clean' \in BOOLEAN
  BY <1>1, <1>2, Zenon DEF TypeOK, hardware, bounds
<1> HIDE DEF call
<1>4. CASE call.op = "set_core" /\ BeginSetCore(p, call)
  <2> DEFINE r == ReadRange(p, call)
             f == Clamp(call.freq, r)
             t == TraverseCores(Seen(p, call.cpus), [min |-> f, max |-> f], call.form # "socket")
  <2>1. r \in Limit /\ call.form \in Forms /\ call.freq \in Int /\ Seen(p, call.cpus) \in Seq(Cpus)
    BY <1>1, <1>4, CallKinds, ReadsAreLimits, SeenIsPart
  <2>2. f \in Int
    BY <2>1 DEF Clamp, Limit
  <2>3. [min |-> f, max |-> f] \in Limit
    BY <2>2 DEF Limit
  <2>4. t \in Seq(FileWrite)
    <3> HIDE DEF f
    <3>1. (call.form # "socket") \in BOOLEAN
      OBVIOUS
    <3>2. QED
      BY <2>1, <2>3, <3>1, TraverseCoresIs DEF Traverses
  <2>5. /\ range' = [range EXCEPT ![p][call.form] = r]
        /\ writes' = [writes EXCEPT ![p] = t]
        /\ UNCHANGED <<cache, clean>>
    BY <1>4 DEF BeginSetCore
  <2> HIDE DEF r, t
  <2>6. QED
    BY <2>1, <2>4, <2>5 DEF TypeOK
<1>5. CASE call.op = "reset_core" /\ BeginResetCore(p, call)
  <2>1. TraverseCores(Seen(p, Package[call.socket]), Hw, TRUE) \in Seq(FileWrite)
    BY <1>1, <1>5, CallKinds, ResetWrites DEF Traverses
  <2>2. QED
    BY <1>5, <2>1 DEF BeginResetCore, TypeOK
<1>6. CASE call.op = "set_uncore" /\ BeginSetUncore(p, call)
  <2> DEFINE w == Msr(call.socket, [min |-> call.freq, max |-> call.freq], FALSE)
  <2>1. [min |-> call.freq, max |-> call.freq] \in Ratio /\ call.socket \in Sockets
    BY <1>1, <1>6, CallKinds DEF Ratio
  <2>2. w \in FileWrite
    BY <2>1, MsrIsWrite
  <2>3. writes' = [writes EXCEPT ![p] = <<w>>] /\ UNCHANGED <<range, cache, clean>>
    BY <1>6 DEF BeginSetUncore
  <2> HIDE DEF w
  <2>4. QED
    BY <2>2, <2>3 DEF TypeOK
<1>7. CASE call.op = "try_uncore" /\ BeginTryUncore(p, call)
  <2> DEFINE v == [min |-> call.freq, max |-> call.freq]
             each == [s \in Sockets |-> Msr(s, v, TRUE)]
  <2>1. v \in Ratio
    BY <1>1, <1>7, CallKinds DEF Ratio
  <2> HIDE DEF v
  <2>2. each \in [Sockets -> FileWrite]
    BY <2>1, MsrIsWrite
  <2>3. writes' = [writes EXCEPT ![p] = ForEachSocket(each)] /\ UNCHANGED <<range, cache, clean>>
    BY <1>7 DEF BeginTryUncore, v
  <2> HIDE DEF each
  <2>4. ForEachSocket(each) \in Seq(FileWrite)
    BY <2>2, ForEachSocketIs
  <2>5. QED
    BY <2>3, <2>4 DEF TypeOK
<1>8. CASE call.op \in {"reset_uncore", "get_uncore_min_max"} /\ BeginUncoreDefaults(p, call)
  <2> DEFINE default == CachedUncore(p, call.socket)
             w == Msr(call.socket, default, FALSE)
             ws == IF call.op = "reset_uncore" THEN <<w>> ELSE <<>>
  <2>1. call.socket \in Sockets /\ default \in Ratio
    BY <1>1, <1>8, CallKinds, ReadsAreLimits
  <2>2. w \in FileWrite
    BY <2>1, MsrIsWrite
  <2>3. /\ cache' = [cache EXCEPT ![p][call.socket] = default]
        /\ clean' = (clean /\ (cache[p][call.socket] = Unread => default = Uncore))
        /\ writes' = [writes EXCEPT ![p] = ws]
        /\ UNCHANGED range
    BY <1>8 DEF BeginUncoreDefaults
  <2> HIDE DEF default, w
  <2>4. ws \in Seq(FileWrite)
    BY <2>2
  <2> HIDE DEF ws
  <2>5. QED
    BY <2>1, <2>3, <2>4 DEF TypeOK
<1>9. CASE call.op = "hotplug" /\ BeginHotplug(p, call)
  <2> DEFINE ws == [i \in DOMAIN call.cpus |-> Switch(call.cpus[i], call.file)]
  <2>1. call.cpus \in Seq(Cpus \ {0}) /\ call.file \in {"online", "offline"}
    BY <1>1, <1>9, CallKinds
  <2>2. \A c \in Cpus \ {0} : Switch(c, call.file) \in FileWrite
    BY <2>1 DEF Switch, FileWrite
  <2>3. ws \in Seq(FileWrite)
    <3>1. Len(call.cpus) \in Nat /\ DOMAIN call.cpus = 1..Len(call.cpus)
      BY <2>1
    <3>2. ws \in [1..Len(call.cpus) -> FileWrite]
      BY <2>1, <2>2, <3>1
    <3>3. QED
      BY <3>1, <3>2
  <2>4. writes' = [writes EXCEPT ![p] = ws] /\ UNCHANGED <<range, cache, clean>>
    BY <1>9 DEF BeginHotplug
  <2> HIDE DEF ws
  <2>5. QED
    BY <2>3, <2>4 DEF TypeOK
<1>10. QED
  BY <1>4, <1>5, <1>6, <1>7, <1>8, <1>9 DEF Begin, call

LEMMA RollBackIsCalls ==
  ASSUME TypeOK, NEW p \in Programs, NEW s \in Sockets
  PROVE  RollBack(p, s) \in Seq(Call)
<1> DEFINE resets == [i \in 1..s |-> ResetUncore(i - 1)]
<1>1. s \in Nat /\ \A i \in 1..s : i - 1 \in Sockets
  BY FrequencyAssumption DEF FrequencyAssumption
<1>2. \A i \in 1..s : ResetUncore(i - 1) \in Call
  BY <1>1, CallsAreCalls
<1>3. resets \in Seq(Call)
  BY <1>1, <1>2
<1> HIDE DEF resets
<1>4. QED
  BY <1>3 DEF RollBack, TypeOK, resets

LEMMA TypePut ==
  ASSUME TypeOK, NEW w \in FileWrite, Put(w)
  PROVE  /\ limits' \in [Cpus -> [min : HwMin..HwMax, max : HwMin..HwMax]]
         /\ uncore' \in [Sockets -> Ratio] /\ online' \subseteq Cpus
<1>1. w.cpu \in Cpus /\ limits \in [Cpus -> [min : HwMin..HwMax, max : HwMin..HwMax]]
      /\ uncore \in [Sockets -> Ratio] /\ online \subseteq Cpus
  BY WriteKinds DEF TypeOK
<1>2. CASE w.file = "msr" /\ uncore' = [uncore EXCEPT ![SocketOf(w.cpu)] = w.value]
           /\ UNCHANGED <<limits, online>>
  BY <1>1, <1>2, WriteKinds, SocketOfACpu
<1>3. ASSUME w.file \in {"min", "max"}
      PROVE  \A v \in HwMin..HwMax : Held(w.value, v) \in HwMin..HwMax
  BY <1>3, WriteKinds, HardwareLimits DEF Held
<1>4. CASE w.file = "min" /\ limits' = [limits EXCEPT ![w.cpu].min = Held(w.value, @)]
           /\ UNCHANGED <<uncore, online>>
  <2>1. Held(w.value, limits[w.cpu].min) \in HwMin..HwMax
    BY <1>1, <1>3, <1>4
  <2>2. QED
    BY <1>1, <1>4, <2>1
<1>5. CASE w.file = "max" /\ limits' = [limits EXCEPT ![w.cpu].max = Held(w.value, @)]
           /\ UNCHANGED <<uncore, online>>
  <2>1. Held(w.value, limits[w.cpu].max) \in HwMin..HwMax
    BY <1>1, <1>3, <1>5
  <2>2. QED
    BY <1>1, <1>5, <2>1
<1>6. CASE w.file \in {"online", "offline"}
  BY <1>1, <1>6 DEF Put
<1>7. QED
  BY <1>2, <1>4, <1>5, <1>6 DEF Put

LEMMA TypeWrite ==
  ASSUME TypeOK, NEW p \in Programs, Write(p)
  PROVE  TypeOK'
<1> DEFINE w == Head(writes[p])
<1>1. /\ writes[p] \in Seq(FileWrite) /\ writes[p] # <<>>
      /\ w \in FileWrite /\ Tail(writes[p]) \in Seq(FileWrite)
  BY DEF Write, TypeOK
<1>2. UNCHANGED <<phase, seen, range, cache, last_core, last_uncore, bounds, clean>>
  BY DEF Write
<1>3. SUFFICES /\ limits' \in [Cpus -> [min : HwMin..HwMax, max : HwMin..HwMax]]
               /\ uncore' \in [Sockets -> Ratio] /\ online' \subseteq Cpus
               /\ writes' \in [Programs -> Seq(FileWrite)]
               /\ calls' \in [Programs -> Seq(Call)]
  BY <1>2, Zenon DEF TypeOK, bounds
<1>4. CASE Put(w) /\ writes' = [writes EXCEPT ![p] = Tail(@)] /\ UNCHANGED calls
  <2>1. writes' \in [Programs -> Seq(FileWrite)]
    BY <1>1, <1>4 DEF TypeOK
  <2> HIDE DEF w
  <2>2. QED
    BY <1>1, <1>4, <2>1, TypePut DEF TypeOK
<1>5. CASE WriteFails(p, w)
  <2>1. writes' \in [Programs -> Seq(FileWrite)]
    BY <1>1, <1>5 DEF TypeOK, WriteFails
  <2>2. calls' \in [Programs -> Seq(Call)]
    <3> HIDE DEF w
    <3>1. w.undo => w.cpu \in Sockets
      BY <1>1, <1>5, WriteKinds DEF WriteFails
    <3>2. w.undo => RollBack(p, w.cpu) \in Seq(Call)
      BY <3>1, RollBackIsCalls
    <3>3. QED
      BY <1>5, <3>2 DEF WriteFails, TypeOK
  <2>3. QED
    BY <1>5, <2>1, <2>2 DEF WriteFails, TypeOK, hardware
<1>6. QED
  BY <1>4, <1>5 DEF Write

-----------------------------------------------------------------------------
(* The life of a program.                                                  *)

LEMMA ForEachCall ==
  ASSUME NEW f \in Int
  PROVE  /\ ForEachSocket([s \in Sockets |-> SetSocket(f, s)]) \in Seq(Call)
         /\ f \in Nat => ForEachSocket([s \in Sockets |-> SetUncore(f, s)]) \in Seq(Call)
         /\ ForEachSocket([s \in Sockets |-> ReadMinMax(s)]) \in Seq(Call)
<1> DEFINE a == [s \in Sockets |-> SetSocket(f, s)]
           b == [s \in Sockets |-> SetUncore(f, s)]
           c == [s \in Sockets |-> ReadMinMax(s)]
<1>1. a \in [Sockets -> Call] /\ (f \in Nat => b \in [Sockets -> Call]) /\ c \in [Sockets -> Call]
  BY CallsAreCalls
<1> HIDE DEF a, b, c
<1>2. /\ ForEachSocket(a) \in Seq(Call) /\ ForEachSocket(c) \in Seq(Call)
      /\ f \in Nat => ForEachSocket(b) \in Seq(Call)
  BY <1>1, ForEachSocketIs
<1>3. QED
  BY <1>2 DEF a, b, c

LEMMA CallsBecome ==
  ASSUME TypeOK, NEW p \in Programs, NEW q \in Seq(Call), calls' = [calls EXCEPT ![p] = q]
  PROVE  calls' \in [Programs -> Seq(Call)]
BY DEF TypeOK

LEMMA TypeConstruct ==
  ASSUME TypeOK, NEW p \in Programs, Construct(p)
  PROVE  TypeOK'
<1>1. calls' \in [Programs -> Seq(Call)]
  <2> DEFINE q == IF p \in Restores THEN ForEachSocket([s \in Sockets |-> ReadMinMax(s)]) ELSE <<>>
  <2>1. 0 \in Int
    OBVIOUS
  <2>2. ForEachSocket([s \in Sockets |-> ReadMinMax(s)]) \in Seq(Call) /\ <<>> \in Seq(Call)
    <3>1. ForEachSocket([s \in Sockets |-> ReadMinMax(s)]) \in Seq(Call)
      BY <2>1, ForEachCall, Zenon
    <3>2. QED
      BY <3>1
  <2>3. q \in Seq(Call)
    BY <2>2, Zenon
  <2>4. calls' = [calls EXCEPT ![p] = q]
    BY DEF Construct
  <2> HIDE DEF q
  <2>5. QED
    BY <2>3, <2>4, CallsBecome
<1>2. phase' \in [Programs -> {"off", "running", "exiting", "gone", "failed"}]
  BY DEF Construct, TypeOK
<1>3. seen' \in [Programs -> 0..NumCpus]
  <2>1. PICK n \in 1..NumCpus : seen' = [seen EXCEPT ![p] = n]
    BY DEF Construct
  <2>2. n \in 0..NumCpus
    BY FrequencyAssumption DEF FrequencyAssumption
  <2>3. QED
    BY <2>1, <2>2 DEF TypeOK
<1>4. QED
  BY <1>1, <1>2, <1>3, Zenon DEF Construct, TypeOK, hardware, bounds

LEMMA TypeEnd ==
  ASSUME TypeOK, NEW p \in Programs, Leave(p) \/ Gone(p) \/ Fail(p)
  PROVE  TypeOK'
<1>1. calls' \in [Programs -> Seq(Call)]
  <2>1. CASE Leave(p)
    <3> DEFINE q == IF p \in Restores THEN RestoreAll ELSE <<>>
    <3>1. q \in Seq(Call)
      BY RestoreAllIs
    <3>2. calls' = [calls EXCEPT ![p] = q]
      BY <2>1 DEF Leave
    <3> HIDE DEF q
    <3>3. QED
      BY <3>1, <3>2, CallsBecome
  <2>2. CASE Gone(p)
    BY <2>2 DEF Gone, TypeOK
  <2>3. CASE Fail(p)
    BY <2>3 DEF Fail, TypeOK
  <2>4. QED
    BY <2>1, <2>2, <2>3
<1>2. phase' \in [Programs -> {"off", "running", "exiting", "gone", "failed"}]
  BY DEF Leave, Gone, Fail, TypeOK
<1>3. QED
  BY <1>1, <1>2, Zenon DEF Leave, Gone, Fail, TypeOK, hardware, bounds

LEMMA TypeSignal ==
  ASSUME TypeOK, NEW d \in Daemons, signal_handler(d)
  PROVE  TypeOK'
<1>1. /\ d \in Programs /\ MaxSignals \in Nat
  BY FrequencyAssumption DEF FrequencyAssumption, Programs
<1>2. /\ calls' \in [Programs -> Seq(Call)] /\ writes' \in [Programs -> Seq(FileWrite)]
  <2>1. RestoreAll \in Seq(Call) /\ calls' = [calls EXCEPT ![d] = RestoreAll]
    BY RestoreAllIs DEF signal_handler
  <2>2. calls' \in [Programs -> Seq(Call)]
    BY <1>1, <2>1, CallsBecome
  <2>3. writes' \in [Programs -> Seq(FileWrite)]
    <3>1. <<>> \in Seq(FileWrite) /\ writes' = [writes EXCEPT ![d] = <<>>]
      BY DEF signal_handler
    <3>2. QED
      BY <3>1 DEF TypeOK
  <2>4. QED
    BY <2>2, <2>3
<1>3. phase' \in [Programs -> {"off", "running", "exiting", "gone", "failed"}]
  BY DEF signal_handler, TypeOK
<1>4. signals' \in [Daemons -> 0..MaxSignals]
  BY <1>1 DEF signal_handler, TypeOK
<1>5. QED
  BY <1>2, <1>3, <1>4, Zenon DEF signal_handler, TypeOK, hardware

LEMMA OutputsAre ==
  ASSUME NEW out \in Outputs
  PROVE  /\ Len(out) \in 0..2
         /\ Len(out) >= 1 => out[1] \in Predictions \union {0}
         /\ Len(out) >= 2 => out[2] \in Predictions \union {0}
BY DEF Outputs

LEMMA TypePredict ==
  ASSUME TypeOK, NEW d \in Daemons, Predict(d)
  PROVE  TypeOK'
<1>1. d \in Programs /\ Predictions \subseteq Nat \ {0}
  BY FrequencyAssumption DEF FrequencyAssumption, Programs
<1>2. PICK out \in Outputs :
        LET core   == Len(out) >= 1 /\ Wanted(out[1], last_core[d])
            un     == Len(out) >= 2 /\ Wanted(out[2], last_uncore[d])
        IN  /\ calls' = [calls EXCEPT ![d] =
              (IF core THEN ForEachSocket([s \in Sockets |-> SetSocket(out[1], s)]) ELSE <<>>)
              \o (IF un THEN ForEachSocket([s \in Sockets |-> SetUncore(out[2], s)]) ELSE <<>>)]
            /\ last_core'   = [last_core EXCEPT ![d] = IF Len(out) >= 1 THEN Applied(out[1], @) ELSE @]
            /\ last_uncore' = [last_uncore EXCEPT ![d] = IF Len(out) >= 2 THEN Applied(out[2], @) ELSE @]
  BY Zenon DEF Predict
<1>3. /\ Len(out) >= 1 => out[1] \in Predictions \union {0} /\ out[1] \in Int
      /\ Len(out) >= 2 => out[2] \in Predictions \union {0} /\ out[2] \in Nat
  <2>1. \A x \in Predictions \union {0} : x \in Nat
    BY <1>1
  <2>2. QED
    BY <2>1, OutputsAre
<1>4. calls' \in [Programs -> Seq(Call)]
  <2> DEFINE a == IF Len(out) >= 1 /\ Wanted(out[1], last_core[d])
                  THEN ForEachSocket([s \in Sockets |-> SetSocket(out[1], s)]) ELSE <<>>
             b == IF Len(out) >= 2 /\ Wanted(out[2], last_uncore[d])
                  THEN ForEachSocket([s \in Sockets |-> SetUncore(out[2], s)]) ELSE <<>>
  <2>1. a \in Seq(Call)
    <3>1. CASE Len(out) >= 1 /\ Wanted(out[1], last_core[d])
      <4>1. ForEachSocket([s \in Sockets |-> SetSocket(out[1], s)]) \in Seq(Call)
        BY <1>3, <3>1, ForEachCall
      <4>2. QED
        BY <3>1, <4>1, Zenon
    <3>2. QED
      BY <3>1
  <2>2. b \in Seq(Call)
    <3>1. CASE Len(out) >= 2 /\ Wanted(out[2], last_uncore[d])
      <4>1. out[2] \in Nat /\ out[2] \in Int
        BY <1>3, <3>1
      <4>2. ForEachSocket([s \in Sockets |-> SetUncore(out[2], s)]) \in Seq(Call)
        BY <4>1, ForEachCall, Zenon
      <4>3. QED
        BY <3>1, <4>2, Zenon
    <3>2. QED
      BY <3>1
  <2>3. calls' = [calls EXCEPT ![d] = a \o b]
    BY <1>2
  <2> HIDE DEF a, b
  <2>4. QED
    BY <1>1, <2>1, <2>2, <2>3 DEF TypeOK
<1>5. /\ last_core' \in [Daemons -> Predictions \union {-1}]
      /\ last_uncore' \in [Daemons -> Predictions \union {-1}]
  BY <1>1, <1>2, <1>3 DEF TypeOK, Applied, Wanted
<1>6. steps' \in [Programs -> Nat]
  BY <1>1 DEF Predict, TypeOK
<1>7. QED
  BY <1>4, <1>5, <1>6, Zenon DEF Predict, TypeOK, hardware

LEMMA OneCall == \A call \in Call : <<call>> \in Seq(Call)
OBVIOUS

LEMMA UsesAreCalls ==
  ASSUME TypeOK, NEW t \in Programs, Plain(t) \/ Both(t) \/ Setenv(t) \/ FreqScaling(t)
  PROVE  \E q \in Seq(Call) : calls' = [calls EXCEPT ![t] = q]
<1>1. Requests \subseteq Nat
  BY FrequencyAssumption DEF FrequencyAssumption
<1>2. CASE Plain(t)
  <2>1. PICK s \in Sockets, f \in Requests, c \in Cpus :
          \E call \in {SetSocket(f, s), SetCpu(f, c, s), SetRange(f, c, NumCpus - 1, s),
                       SetUncore(f, s), ResetCore(s), ResetUncore(s)} :
            calls' = [calls EXCEPT ![t] = <<call>>]
    BY <1>2, Zenon DEF Plain
  <2>2. PICK call \in {SetSocket(f, s), SetCpu(f, c, s), SetRange(f, c, NumCpus - 1, s),
                       SetUncore(f, s), ResetCore(s), ResetUncore(s)} :
            calls' = [calls EXCEPT ![t] = <<call>>]
    BY <2>1
  <2>3. call \in Call
    BY <1>1, CallsAreCalls
  <2>4. QED
    BY <2>2, <2>3, OneCall
<1>3. CASE Both(t)
  <2>1. PICK s \in Sockets, f \in Requests, g \in Requests :
          calls' = [calls EXCEPT ![t] = SetBoth(f, g, s)]
    BY <1>3, Zenon DEF Both
  <2>2. SetUncore(f, s) \in Call /\ SetSocket(g, s) \in Call
    BY <1>1, CallsAreCalls
  <2>3. SetBoth(f, g, s) \in Seq(Call)
    BY <2>2 DEF SetBoth
  <2>4. QED
    BY <2>1, <2>3
<1>4. CASE Setenv(t)
  <2>1. PICK f \in Requests \union {0}, g \in Requests \union {0}, offline \in Offlines :
          calls' = [calls EXCEPT ![t] = apply(f, g, offline)]
    BY <1>4, Zenon DEF Setenv
  <2>2. f \in Int /\ g \in Nat /\ offline \in Seq(Cpus \ {0})
    BY <1>1, FrequencyAssumption DEF FrequencyAssumption
  <2>3. QED
    BY <2>1, <2>2, ApplyIsCalls
<1>5. CASE FreqScaling(t)
  <2> DEFINE uncores == IF cache[t][0] = Nothing THEN <<0>> ELSE Descending(cache[t][0])
             Cores(first, limit)   == Window(Available, first, limit)
             Uncores(first, limit) == IF uncores = <<0>> THEN uncores ELSE Window(uncores, first, limit)
  <2>1. PICK first \in 0 .. Len(Available) - 1, limit \in Limits :
          calls' = [calls EXCEPT ![t] = Sweep(Cores(first, limit), Uncores(first, limit))]
    BY <1>5, Zenon DEF FreqScaling
  <2>2. Available \in Seq(Nat \ {0}) /\ limit \in Nat
    BY FrequencyAssumption DEF FrequencyAssumption
  <2>3. Available \in Seq(Int) /\ first \in Nat
    BY <2>2
  <2>4. uncores \in Seq(Int)
    <3>1. cache[t][0] \in Limit
      <4>1. cache[t][0] \in Ratio \union {Unread}
        BY Machine DEF TypeOK
      <4>2. Ratio \subseteq Limit
        BY DEF Ratio, Limit
      <4>3. QED
        BY <4>1, <4>2, HardwareLimits
    <3>2. \A r \in Limit : Descending(r) \in Seq(Int)
      <4>1. SUFFICES ASSUME NEW r \in Limit PROVE Descending(r) \in Seq(Int)
        OBVIOUS
      <4>2. r.max \in Int /\ r.min \in Int
        BY DEF Limit
      <4> DEFINE n == IF r.max - r.min + 1 > 0 THEN r.max - r.min + 1 ELSE 0
      <4>3. n \in Nat /\ 1..r.max - r.min + 1 = 1..n
        BY <4>2
      <4> HIDE DEF n
      <4>4. Descending(r) \in [1..n -> Int]
        BY <4>2, <4>3 DEF Descending
      <4>5. QED
        BY <4>3, <4>4
    <3>3. QED
      BY <3>1, <3>2
  <2> HIDE DEF uncores
  <2>5. Cores(first, limit) \in Seq(Int) /\ Uncores(first, limit) \in Seq(Int)
    BY <2>2, <2>3, <2>4, WindowIsPart
  <2> HIDE DEF Cores, Uncores
  <2>6. QED
    BY <2>1, <2>5, SweepIsCalls
<1>6. QED
  BY <1>2, <1>3, <1>4, <1>5

LEMMA TypeUse ==
  ASSUME TypeOK, NEW t \in Tools, Use(t)
  PROVE  TypeOK'
<1>1. t \in Programs
  BY DEF Programs
<1>2. PICK q \in Seq(Call) : calls' = [calls EXCEPT ![t] = q]
  BY <1>1, UsesAreCalls DEF Use
<1>3. calls' \in [Programs -> Seq(Call)]
  BY <1>1, <1>2 DEF TypeOK
<1>4. steps' \in [Programs -> Nat]
  BY <1>1 DEF Use, TypeOK
<1>5. QED
  BY <1>3, <1>4, Zenon DEF Use, TypeOK, hardware

LEMMA TypeInit == ASSUME Init PROVE TypeOK
<1>1. limits \in [Cpus -> [min : HwMin..HwMax, max : HwMin..HwMax]] /\ uncore \in [Sockets -> Ratio]
  BY HardwareLimits DEF Init
<1>2. /\ range \in [Programs -> [Forms -> Limit]]
      /\ cache \in [Programs -> [Sockets -> Ratio \union {Unread}]]
  BY HardwareLimits DEF Init
<1>3. MaxSignals \in Nat /\ NumCpus \in Nat
  BY FrequencyAssumption DEF FrequencyAssumption
<1>4. QED
  BY <1>1, <1>2, <1>3 DEF Init, TypeOK

LEMMA TypeStep == ASSUME TypeOK, [Next]_vars PROVE TypeOK'
<1>1. CASE UNCHANGED vars
  BY <1>1, Zenon DEF vars, hardware, program, bounds, TypeOK
<1>2. ASSUME NEW c \in MayUnplug, Unplug(c) PROVE TypeOK'
  <2>1. online' \subseteq Cpus
    BY <1>2 DEF Unplug, TypeOK
  <2>2. QED
    BY <1>2, <2>1, Zenon DEF Unplug, TypeOK, program, bounds
<1>3. QED
  BY <1>1, <1>2, TypeBegin, TypeWrite, TypeConstruct, TypeEnd, TypeSignal, TypePredict, TypeUse DEF Next

(* Every variable keeps its type and every limit of a core stays within what
   the hardware can do, for any number of sockets, CPUs and programs, whatever
   they call. *)
THEOREM TypeCorrect == Spec => []TypeOK
<1>1. Init => TypeOK
  BY TypeInit
<1>2. TypeOK /\ [Next]_vars => TypeOK'
  BY TypeStep
<1>3. QED
  BY <1>1, <1>2, PTL DEF Spec

-----------------------------------------------------------------------------
(* What every program does on its way out, whatever else happens.          *)

\* A program that is not running has nothing left to do but to restore.
LeavingBy(p) ==
  /\ phase[p] \in {"off", "gone", "failed"} => calls[p] = <<>> /\ writes[p] = <<>>
  /\ phase[p] = "exiting" =>
       /\ \A k \in DOMAIN calls[p] : calls[p][k].op \in {"reset_core", "reset_uncore"}
       /\ \A k \in DOMAIN writes[p] :
            /\ writes[p][k].file \in {"min", "max", "msr"} /\ ~writes[p][k].undo
            /\ writes[p][k].file \in {"min", "max"} =>
                 writes[p][k].value = Value(Hw, writes[p][k].file)
Leaving == \A p \in Programs : LeavingBy(p)

LEMMA TailIs ==
  ASSUME NEW S, NEW q \in Seq(S), q # <<>>
  PROVE  /\ 1 \in DOMAIN q /\ Head(q) = q[1] /\ Head(q) \in S
         /\ Tail(q) \in Seq(S)
         /\ \A k \in DOMAIN Tail(q) : k + 1 \in DOMAIN q /\ Tail(q)[k] = q[k + 1]
         /\ \A k \in DOMAIN q : k = 1 \/ (k - 1 \in DOMAIN Tail(q) /\ Tail(q)[k - 1] = q[k])
<1>1. Len(q) \in Nat /\ Len(q) > 0 /\ DOMAIN q = 1..Len(q)
  OBVIOUS
<1>2. /\ Head(q) = q[1] /\ Tail(q) \in Seq(S) /\ Len(Tail(q)) = Len(q) - 1
      /\ \A k \in 1 .. Len(Tail(q)) : Tail(q)[k] = q[k + 1]
  BY HeadTailProperties
<1>3. DOMAIN Tail(q) = 1 .. Len(q) - 1
  BY <1>1, <1>2
<1>4. QED
  BY <1>1, <1>2, <1>3

(* What a program's own step does to the others: nothing. *)
Kept(q) ==
  /\ phase'[q] = phase[q] /\ seen'[q] = seen[q] /\ calls'[q] = calls[q]
  /\ writes'[q] = writes[q] /\ cache'[q] = cache[q]

LEMMA OneProgram ==
  ASSUME TypeOK, NEW p \in Programs,
         Begin(p) \/ Fail(p) \/ Write(p) \/ Construct(p) \/ Leave(p) \/ Gone(p)
           \/ (p \in Daemons /\ (Predict(p) \/ signal_handler(p))) \/ (p \in Tools /\ Use(p))
  PROVE  \A q \in Programs \ {p} : Kept(q)
<1>1. CASE Begin(p)
  <2>1. /\ calls' = [calls EXCEPT ![p] = Tail(@)] /\ phase' = phase /\ seen' = seen
        /\ \E ws : writes' = [writes EXCEPT ![p] = ws]
    BY <1>1, Zenon DEF Begin, BeginSetCore, BeginResetCore, BeginSetUncore, BeginTryUncore,
                       BeginUncoreDefaults, BeginHotplug
  <2>2. cache' = cache \/ \E s, v : cache' = [cache EXCEPT ![p][s] = v]
    BY <1>1, Zenon DEF Begin, BeginSetCore, BeginResetCore, BeginSetUncore, BeginTryUncore,
                       BeginUncoreDefaults, BeginHotplug
  <2>3. \A q \in Programs \ {p} : cache'[q] = cache[q]
    BY <2>2 DEF TypeOK
  <2>4. QED
    BY <2>1, <2>3 DEF TypeOK, Kept
<1>2. CASE Write(p)
  <2>1. /\ phase' = phase /\ seen' = seen /\ cache' = cache
        /\ \E ws : writes' = [writes EXCEPT ![p] = ws]
        /\ calls' = calls \/ \E cs : calls' = [calls EXCEPT ![p] = cs]
    BY <1>2, Zenon DEF Write, WriteFails
  <2>2. QED
    BY <2>1 DEF TypeOK, Kept
<1>3. CASE Construct(p) \/ Leave(p) \/ Gone(p) \/ Fail(p)
  BY <1>3 DEF Construct, Leave, Gone, Fail, TypeOK, Kept
<1>4. CASE p \in Daemons /\ signal_handler(p)
  BY <1>4 DEF signal_handler, TypeOK, Kept
<1>5. CASE p \in Daemons /\ Predict(p)
  <2>1. /\ phase' = phase /\ seen' = seen /\ writes' = writes /\ cache' = cache
        /\ \E cs : calls' = [calls EXCEPT ![p] = cs]
    BY <1>5, Zenon DEF Predict
  <2>2. QED
    BY <2>1 DEF TypeOK, Kept
<1>6. CASE p \in Tools /\ Use(p)
  <2>1. /\ phase' = phase /\ seen' = seen /\ writes' = writes /\ cache' = cache
        /\ \E cs \in Seq(Call) : calls' = [calls EXCEPT ![p] = cs]
    BY <1>6, UsesAreCalls DEF Use
  <2>2. QED
    BY <2>1 DEF TypeOK, Kept
<1>7. QED
  BY <1>1, <1>2, <1>3, <1>4, <1>5, <1>6

LEMMA LeavingFrame ==
  ASSUME Leaving, NEW p \in Programs, LeavingBy(p)',
         \A q \in Programs \ {p} : Kept(q)
  PROVE  Leaving'
<1>1. ASSUME NEW q \in Programs, q # p PROVE LeavingBy(q)'
  <2>1. LeavingBy(q) /\ phase'[q] = phase[q] /\ calls'[q] = calls[q] /\ writes'[q] = writes[q]
    BY <1>1 DEF Leaving, Kept
  <2>2. QED
    BY <2>1 DEF LeavingBy
<1>2. QED
  BY <1>1 DEF Leaving

LEMMA LeavingBegin ==
  ASSUME TypeOK, Leaving, NEW p \in Programs, Begin(p)
  PROVE  LeavingBy(p)'
<1> DEFINE call == Head(calls[p])
           s == call.socket
<1>1. /\ calls[p] \in Seq(Call) /\ calls[p] # <<>> /\ call \in Call
      /\ calls'[p] = Tail(calls[p]) /\ phase'[p] = phase[p] /\ phase[p] \in {"running", "exiting"}
  BY DEF Begin, TypeOK, Alive
<1>2. CASE phase[p] = "running"
  BY <1>1, <1>2 DEF LeavingBy
<1>3. CASE phase[p] = "exiting"
  <2>1. \A k \in DOMAIN calls[p] : calls[p][k].op \in {"reset_core", "reset_uncore"}
    BY <1>3 DEF Leaving, LeavingBy
  <2>2. /\ \A k \in DOMAIN calls'[p] : calls'[p][k].op \in {"reset_core", "reset_uncore"}
        /\ call.op \in {"reset_core", "reset_uncore"}
    BY <1>1, <2>1, TailIs
  <2>3. s \in Sockets
    BY <1>1, <2>2, CallKinds
  <2>4. CASE call.op = "reset_core"
    <3> DEFINE t == TraverseCores(Seen(p, Package[s]), Hw, TRUE)
    <3>1. writes'[p] = t
      BY <2>4 DEF Begin, BeginResetCore, TypeOK
    <3>2. \A k \in DOMAIN t : /\ t[k].file \in {"min", "max"} /\ t[k].value = Value(Hw, t[k].file)
                              /\ t[k].undo = FALSE
      <4>1. Traverses(t, Seen(p, Package[s]), Hw, TRUE)
        BY <2>3, ResetWrites
      <4> HIDE DEF t
      <4>2. QED
        BY <4>1 DEF Traverses
    <3> HIDE DEF t
    <3>3. QED
      BY <3>1, <3>2, <2>2, <1>1, <1>3 DEF LeavingBy
  <2>5. CASE call.op = "reset_uncore"
    <3> DEFINE w == Msr(s, CachedUncore(p, s), FALSE)
    <3>1. writes'[p] = <<w>>
      BY <2>5 DEF Begin, BeginUncoreDefaults, TypeOK
    <3>2. w.file = "msr" /\ w.undo = FALSE
      BY DEF Msr
    <3> HIDE DEF w
    <3>3. QED
      BY <3>1, <3>2, <2>2, <1>1, <1>3 DEF LeavingBy
  <2>6. QED
    BY <2>2, <2>4, <2>5
<1>4. QED
  BY <1>1, <1>2, <1>3

LEMMA LeavingWrite ==
  ASSUME TypeOK, Leaving, NEW p \in Programs, Write(p)
  PROVE  LeavingBy(p)'
<1> DEFINE w == Head(writes[p])
<1>1. /\ writes[p] \in Seq(FileWrite) /\ writes[p] # <<>> /\ w \in FileWrite
      /\ phase'[p] = phase[p] /\ phase[p] \in {"running", "exiting"}
  BY DEF Write, TypeOK, Alive
<1>2. CASE phase[p] = "running"
  BY <1>1, <1>2 DEF LeavingBy
<1>3. CASE phase[p] = "exiting"
  <2>1. LeavingBy(p)
    BY DEF Leaving
  <2>2. ~w.undo
    BY <1>1, <1>3, <2>1, TailIs DEF LeavingBy
  <2>3. calls'[p] = calls[p]
    BY <2>2 DEF Write, WriteFails
  <2>4. writes'[p] = Tail(writes[p]) \/ writes'[p] = <<>>
    BY DEF Write, WriteFails, TypeOK
  <2>5. \A k \in DOMAIN writes'[p] : \E j \in DOMAIN writes[p] : writes'[p][k] = writes[p][j]
    <3>1. \A k \in DOMAIN Tail(writes[p]) :
            k + 1 \in DOMAIN writes[p] /\ Tail(writes[p])[k] = writes[p][k + 1]
      BY <1>1, TailIs
    <3>2. CASE writes'[p] = Tail(writes[p])
      <4>1. ASSUME NEW k \in DOMAIN Tail(writes[p])
            PROVE  \E j \in DOMAIN writes[p] : Tail(writes[p])[k] = writes[p][j]
        BY <3>1
      <4>2. QED
        BY <4>1, <3>2
    <3>3. CASE writes'[p] = <<>>
      BY <3>3
    <3>4. QED
      BY <2>4, <3>2, <3>3
  <2>6. QED
    BY <1>1, <1>3, <2>1, <2>3, <2>5 DEF LeavingBy
<1>4. QED
  BY <1>1, <1>2, <1>3

LEMMA LeavingStep == ASSUME TypeOK, Leaving, [Next]_vars PROVE Leaving'
<1>1. CASE UNCHANGED vars
  BY <1>1 DEF vars, program, Leaving, LeavingBy
<1>2. CASE \E c \in MayUnplug : Unplug(c)
  BY <1>2 DEF Unplug, program, Leaving, LeavingBy
<1>3. ASSUME NEW p \in Programs, Begin(p) PROVE Leaving'
  BY <1>3, LeavingBegin, OneProgram, LeavingFrame
<1>4. ASSUME NEW p \in Programs, Write(p) PROVE Leaving'
  BY <1>4, LeavingWrite, OneProgram, LeavingFrame
<1>5. ASSUME NEW p \in Programs, Construct(p) \/ Gone(p) \/ Fail(p) PROVE Leaving'
  <2>1. LeavingBy(p)'
    BY <1>5 DEF Construct, Gone, Fail, LeavingBy, TypeOK
  <2>2. QED
    BY <1>5, <2>1, OneProgram, LeavingFrame
<1>6. ASSUME NEW p \in Programs, Leave(p) PROVE Leaving'
  <2>1. writes'[p] = <<>> /\ phase'[p] = "exiting" /\ (calls'[p] = RestoreAll \/ calls'[p] = <<>>)
    BY <1>6 DEF Leave, Idle, TypeOK
  <2>2. LeavingBy(p)'
    BY <2>1, RestoreAllIs DEF LeavingBy
  <2>3. QED
    BY <1>6, <2>2, OneProgram, LeavingFrame
<1>7. ASSUME NEW d \in Daemons, signal_handler(d) PROVE Leaving'
  <2>1. d \in Programs
    BY DEF Programs
  <2>2. writes'[d] = <<>> /\ phase'[d] = "exiting" /\ calls'[d] = RestoreAll
    BY <1>7, <2>1 DEF signal_handler, TypeOK
  <2>3. LeavingBy(d)'
    BY <2>2, RestoreAllIs DEF LeavingBy
  <2>4. QED
    BY <1>7, <2>1, <2>3, OneProgram, LeavingFrame
<1>8. ASSUME NEW p \in Programs, (p \in Daemons /\ Predict(p)) \/ (p \in Tools /\ Use(p)) PROVE Leaving'
  <2>1. phase'[p] = "running"
    BY <1>8 DEF Predict, Use, Idle
  <2>2. LeavingBy(p)'
    BY <2>1 DEF LeavingBy
  <2>3. QED
    BY <1>8, <2>2, OneProgram, LeavingFrame
<1>9. QED
  BY <1>1, <1>2, <1>3, <1>4, <1>5, <1>6, <1>7, <1>8 DEF Next, Programs

-----------------------------------------------------------------------------
(* The constructor: until it has found every socket of the machine, a program *)
(* that restores has nothing to do but to look; one that has found them all  *)
(* never fails.                                                              *)

Constructed(p) == \A s \in Sockets : cache[p][s] # Unread
BuildingBy(p) ==
  /\ phase[p] = "off" => \A s \in Sockets : cache[p][s] = Unread
  /\ \A s \in Sockets : cache[p][s] # Unread => ~Missing(p, s)
  /\ p \in Restores /\ phase[p] = "running" /\ ~Constructed(p) =>
       /\ writes[p] = <<>>
       /\ \A s \in Sockets : cache[p][s] = Unread =>
            \E k \in DOMAIN calls[p] : calls[p][k] = ReadMinMax(s)
       /\ \A k \in DOMAIN calls[p] : calls[p][k].op = "get_uncore_min_max"
Building == \A p \in Programs : BuildingBy(p)

LEMMA BuildingFrame ==
  ASSUME Building, NEW p \in Programs, BuildingBy(p)', \A q \in Programs \ {p} : Kept(q)
  PROVE  Building'
<1>1. ASSUME NEW q \in Programs, q # p PROVE BuildingBy(q)'
  <2>1. BuildingBy(q) /\ Kept(q)
    BY <1>1 DEF Building
  <2>2. QED
    BY <2>1 DEF BuildingBy, Constructed, Missing, Kept
<1>2. QED
  BY <1>1 DEF Building

(* A look at a socket fills the cache and never empties it. *)
LEMMA Looks ==
  ASSUME TypeOK, NEW p \in Programs, Begin(p)
  PROVE  /\ seen'[p] = seen[p]
         /\ \A s \in Sockets : cache[p][s] # Unread => cache'[p][s] # Unread
         /\ \A s \in Sockets : cache'[p][s] # Unread =>
              cache[p][s] # Unread \/ ~Missing(p, s)
         /\ \A s \in Sockets : Head(calls[p]) = ReadMinMax(s) => cache'[p][s] # Unread
<1> DEFINE call == Head(calls[p])
           s == call.socket
<1>1. /\ call \in Call /\ seen' = seen /\ ~Throws(p, call)
      /\ cache \in [Programs -> [Sockets -> Ratio \union {Unread}]]
  BY DEF Begin, TypeOK
<1>2. CASE call.op \in {"reset_uncore", "get_uncore_min_max"} /\ BeginUncoreDefaults(p, call)
  <2> DEFINE default == CachedUncore(p, s)
  <2>1. s \in Sockets /\ default # Unread
    BY <1>1, <1>2, CallKinds, ReadsAreLimits, HardwareLimits
  <2>2. cache' = [cache EXCEPT ![p][s] = default]
    BY <1>2 DEF BeginUncoreDefaults
  <2>3. cache[p][s] # Unread \/ ~Missing(p, s)
    BY <1>1, <1>2 DEF Throws
  <2>4. \A t \in Sockets : call = ReadMinMax(t) => s = t
    BY DEF ReadMinMax
  <2> HIDE DEF default, s, call
  <2>5. QED
    BY <1>1, <2>1, <2>2, <2>3, <2>4 DEF call
<1>3. CASE cache' = cache /\ call.op # "get_uncore_min_max"
  BY <1>1, <1>3 DEF ReadMinMax
<1>4. QED
  BY <1>2, <1>3
  DEF Begin, BeginSetCore, BeginResetCore, BeginSetUncore, BeginTryUncore, BeginHotplug

LEMMA BuildingBegin ==
  ASSUME TypeOK, Building, NEW p \in Programs, Begin(p)
  PROVE  BuildingBy(p)'
<1>1. /\ calls[p] \in Seq(Call) /\ calls[p] # <<>> /\ Head(calls[p]) \in Call
      /\ calls'[p] = Tail(calls[p]) /\ phase'[p] = phase[p] /\ phase[p] # "off"
  BY DEF Begin, TypeOK, Alive
<1>2. \A s \in Sockets : cache'[p][s] # Unread => ~Missing(p, s)'
  BY Looks DEF Building, BuildingBy, Missing
<1>3. ASSUME p \in Restores, phase[p] = "running", ~Constructed(p)'
      PROVE  /\ writes'[p] = <<>>
             /\ \A s \in Sockets : cache'[p][s] = Unread =>
                  \E k \in DOMAIN calls'[p] : calls'[p][k] = ReadMinMax(s)
             /\ \A k \in DOMAIN calls'[p] : calls'[p][k].op = "get_uncore_min_max"
  <2>1. ~Constructed(p)
    BY <1>3, Looks DEF Constructed
  <2>2. /\ \A s \in Sockets : cache[p][s] = Unread =>
             \E k \in DOMAIN calls[p] : calls[p][k] = ReadMinMax(s)
        /\ \A k \in DOMAIN calls[p] : calls[p][k].op = "get_uncore_min_max"
    BY <1>3, <2>1 DEF Building, BuildingBy
  <2>3. Head(calls[p]) = calls[p][1] /\ Head(calls[p]).op = "get_uncore_min_max"
    BY <1>1, <2>2, TailIs
  <2>4. writes'[p] = <<>>
    BY <2>3 DEF Begin, BeginUncoreDefaults, TypeOK
  <2>5. ASSUME NEW s \in Sockets, cache'[p][s] = Unread
        PROVE  \E k \in DOMAIN calls'[p] : calls'[p][k] = ReadMinMax(s)
    <3>1. PICK k \in DOMAIN calls[p] : calls[p][k] = ReadMinMax(s)
      BY <2>2, <2>5, Looks
    <3>2. k # 1
      BY <2>3, <2>5, <3>1, Looks
    <3>3. k - 1 \in DOMAIN Tail(calls[p]) /\ Tail(calls[p])[k - 1] = ReadMinMax(s)
      BY <1>1, <3>1, <3>2, TailIs
    <3>4. QED
      BY <1>1, <3>3
  <2>6. \A k \in DOMAIN calls'[p] : calls'[p][k].op = "get_uncore_min_max"
    BY <1>1, <2>2, TailIs
  <2>7. QED
    BY <2>4, <2>5, <2>6
<1>4. QED
  BY <1>1, <1>2, <1>3 DEF BuildingBy

LEMMA BuildingConstruct ==
  ASSUME TypeOK, Leaving, Building, NEW p \in Programs, Construct(p)
  PROVE  BuildingBy(p)'
<1> DEFINE f == [s \in Sockets |-> ReadMinMax(s)]
<1>1. /\ phase[p] = "off" /\ phase'[p] = "running" /\ cache' = cache /\ writes' = writes
      /\ p \in Restores => calls'[p] = ForEachSocket(f)
  BY DEF Construct, TypeOK
<1>2. writes[p] = <<>> /\ \A s \in Sockets : cache[p][s] = Unread
  BY <1>1 DEF Leaving, LeavingBy, Building, BuildingBy
<1>3. f \in [Sockets -> Call] /\ \A s \in Sockets : f[s] = ReadMinMax(s) /\ f[s].op = "get_uncore_min_max"
  BY CallsAreCalls DEF ReadMinMax
<1> HIDE DEF f
<1>4. \A s \in Sockets : \E k \in DOMAIN ForEachSocket(f) : ForEachSocket(f)[k] = ReadMinMax(s)
  <2>1. \A s \in Sockets : s + 1 \in DOMAIN ForEachSocket(f) /\ ForEachSocket(f)[s + 1] = f[s]
    BY <1>3, ForEachSocketIs
  <2>2. QED
    BY <1>3, <2>1
<1>5. \A k \in DOMAIN ForEachSocket(f) : ForEachSocket(f)[k].op = "get_uncore_min_max"
  <2>1. /\ DOMAIN ForEachSocket(f) = 1..NumSockets
        /\ \A i \in 1..NumSockets : ForEachSocket(f)[i] = f[i - 1]
    BY <1>3, ForEachSocketIs
  <2>2. QED
    BY <1>3, <2>1, Machine
<1>6. QED
  BY <1>1, <1>2, <1>4, <1>5 DEF BuildingBy

LEMMA BuildingInit == ASSUME Init PROVE Building
BY DEF Init, Building, BuildingBy

LEMMA BuildingStep == ASSUME TypeOK, Leaving, Building, [Next]_vars PROVE Building'
<1>1. CASE UNCHANGED vars
  BY <1>1 DEF vars, program, Building, BuildingBy, Constructed, Missing
<1>2. CASE \E c \in MayUnplug : Unplug(c)
  BY <1>2 DEF Unplug, program, Building, BuildingBy, Constructed, Missing
<1>3. ASSUME NEW p \in Programs, Begin(p) PROVE Building'
  BY <1>3, BuildingBegin, OneProgram, BuildingFrame
<1>4. ASSUME NEW p \in Programs, Construct(p) PROVE Building'
  BY <1>4, BuildingConstruct, OneProgram, BuildingFrame
<1>5. ASSUME NEW p \in Programs, Write(p) PROVE Building'
  <2>1. /\ phase' = phase /\ cache' = cache /\ seen' = seen /\ writes[p] # <<>>
        /\ phase[p] # "off"
    BY <1>5 DEF Write, Alive
  <2>2. BuildingBy(p)'
    BY <2>1 DEF Building, BuildingBy, Constructed, Missing
  <2>3. QED
    BY <1>5, <2>2, OneProgram, BuildingFrame
<1>6. ASSUME NEW p \in Programs,
             Leave(p) \/ Gone(p) \/ Fail(p) \/ (p \in Daemons /\ signal_handler(p))
      PROVE  Building'
  <2>1. phase'[p] \notin {"off", "running"} /\ cache' = cache /\ seen' = seen
    BY <1>6 DEF Leave, Gone, Fail, signal_handler, TypeOK
  <2>2. BuildingBy(p)'
    BY <2>1 DEF Building, BuildingBy, Constructed, Missing
  <2>3. QED
    BY <1>6, <2>2, OneProgram, BuildingFrame
<1>7. ASSUME NEW p \in Programs, (p \in Daemons /\ Predict(p)) \/ (p \in Tools /\ Use(p))
      PROVE  Building'
  <2>1. /\ phase[p] = "running" /\ calls[p] = <<>>
        /\ phase' = phase /\ cache' = cache /\ seen' = seen
    BY <1>7 DEF Predict, Use, Idle
  <2>2. p \in Restores => Constructed(p)
    BY <2>1 DEF Building, BuildingBy, Constructed
  <2>3. BuildingBy(p)'
    BY <2>1, <2>2 DEF Building, BuildingBy, Constructed, Missing
  <2>4. QED
    BY <1>7, <2>3, OneProgram, BuildingFrame
<1>8. QED
  BY <1>1, <1>2, <1>3, <1>4, <1>5, <1>6, <1>7 DEF Next, Programs

(* A program that waits is constructed, one that fails is not. *)
LEMMA IdleIsConstructed ==
  ASSUME Building, NEW p \in Programs, p \in Restores, Idle(p)
  PROVE  Constructed(p)
BY DEF Idle, Building, BuildingBy, Constructed

LEMMA FailedIsNotConstructed ==
  ASSUME TypeOK, Building, NEW p \in Programs, Fail(p)
  PROVE  ~Constructed(p)
<1> DEFINE call == Head(calls[p])
<1>1. call \in Call /\ Throws(p, call)
  BY DEF Fail, TypeOK
<1> HIDE DEF call
<1>2. PICK s \in Sockets : s = call.socket
  BY <1>1, CallKinds DEF Throws
<1>3. cache[p][s] = Unread
  BY <1>1, <1>2 DEF Throws, Building, BuildingBy
<1>4. QED
  BY <1>3 DEF Constructed

-----------------------------------------------------------------------------
(* The cores: a limit that is not the hardware's and can be reached belongs *)
(* to a program that runs, or is still to be reset by one that exits.       *)

ToReset(p, s, i, f) ==
  \/ \E k \in DOMAIN calls[p] : calls[p][k] = ResetCore(s)
  \/ \E k \in DOMAIN writes[p] :
       /\ writes[p][k].file = f /\ writes[p][k].cpu = Package[s][i]
       /\ \A j \in 1..k : \E m \in 1..i : writes[p][j].cpu = Package[s][m]
Answers(p, s, i, f) ==
  /\ Constructed(p)
  /\ phase[p] = "running" \/ (phase[p] = "exiting" /\ ToReset(p, s, i, f))
InReach(s, i) == \A j \in 1..i : Package[s][j] \in online
\* No program that can change the limits of a core, or could, does not list it.
KnownTo(p, c) == phase[p] \in {"off", "failed"} \/ ~Constructed(p) \/ c < seen[p]
Known(c) == \A p \in Programs : KnownTo(p, c)
CoreCovered(s, i, f) ==
  InReach(s, i) /\ Known(Package[s][i]) =>
    \/ Value(limits[Package[s][i]], f) = Value(Hw, f)
    \/ \E p \in Programs : Answers(p, s, i, f)
CoresCovered ==
  \A s \in Sockets : \A i \in DOMAIN Package[s], f \in {"min", "max"} : CoreCovered(s, i, f)

(* A core that every program knows now was known to each before. *)
LEMMA KnownBefore ==
  ASSUME TypeOK, Building, [Next]_vars
  PROVE  \A c : Known(c)' => Known(c)
<1>1. CASE UNCHANGED vars \/ \E c \in MayUnplug : Unplug(c)
  BY <1>1 DEF Unplug, vars, program, Known, KnownTo, Constructed
<1>2. ASSUME NEW p \in Programs, \A q \in Programs \ {p} : Kept(q),
             \A c : KnownTo(p, c)' => KnownTo(p, c)
      PROVE  \A c : Known(c)' => Known(c)
  BY <1>2 DEF Known, KnownTo, Constructed, Kept
<1>3. ASSUME NEW p \in Programs, Begin(p) PROVE \A c : KnownTo(p, c)' => KnownTo(p, c)
  <2>1. phase' = phase
    BY <1>3 DEF Begin
  <2>2. QED
    BY <1>3, <2>1, Looks DEF KnownTo, Constructed
<1>4. ASSUME NEW p \in Programs, Fail(p) PROVE \A c : KnownTo(p, c)' => KnownTo(p, c)
  BY <1>4, FailedIsNotConstructed DEF KnownTo
<1>5. ASSUME NEW p \in Programs, Construct(p) PROVE \A c : KnownTo(p, c)' => KnownTo(p, c)
  BY <1>5 DEF Construct, KnownTo
<1>6. ASSUME NEW p \in Programs,
             Write(p) \/ Leave(p) \/ Gone(p)
               \/ (p \in Daemons /\ (Predict(p) \/ signal_handler(p))) \/ (p \in Tools /\ Use(p))
      PROVE  \A c : KnownTo(p, c)' => KnownTo(p, c)
  <2>1. cache' = cache /\ seen' = seen /\ phase'[p] \notin {"off", "failed"}
    BY <1>6 DEF Write, Leave, Gone, Predict, Use, signal_handler, Idle, Alive, TypeOK
  <2>2. QED
    BY <2>1 DEF KnownTo, Constructed
<1>7. QED
  BY <1>1, <1>2, <1>3, <1>4, <1>5, <1>6, OneProgram DEF Next, Programs

LEMMA OthersAnswer ==
  ASSUME NEW p, NEW s, NEW i, NEW f,
         \A q \in Programs \ {p} : Kept(q)
  PROVE  \A q \in Programs \ {p} : Answers(q, s, i, f) => Answers(q, s, i, f)'
BY DEF Answers, ToReset, Kept, Constructed

LEMMA RunningAnswers ==
  ASSUME NEW p \in Programs, phase'[p] = "running", Constructed(p)'
  PROVE  CoresCovered'
BY DEF CoresCovered, CoreCovered, Answers

LEMMA ResetAllAnswers ==
  ASSUME NEW p \in Programs, phase'[p] = "exiting", calls'[p] = RestoreAll, Constructed(p)'
  PROVE  CoresCovered'
<1>1. \A s \in Sockets : \E k \in DOMAIN calls'[p] : calls'[p][k] = ResetCore(s)
  BY RestoreAllIs
<1>2. \A s \in Sockets : \A i \in DOMAIN Package[s], f \in {"min", "max"} : Answers(p, s, i, f)'
  BY <1>1 DEF Answers, ToReset
<1>3. QED
  BY <1>2 DEF CoresCovered, CoreCovered

LEMMA BeginAnswers ==
  ASSUME TypeOK, NEW p \in Programs, Begin(p),
         NEW s \in Sockets, NEW i \in DOMAIN Package[s], NEW f \in {"min", "max"},
         Answers(p, s, i, f), Package[s][i] < seen[p]
  PROVE  Answers(p, s, i, f)'
<1>1. /\ calls[p] \in Seq(Call) /\ calls[p] # <<>> /\ writes[p] = <<>>
      /\ calls'[p] = Tail(calls[p]) /\ phase'[p] = phase[p] /\ Constructed(p)'
  BY Looks DEF Begin, TypeOK, Answers, Constructed
<1>2. CASE phase[p] = "running"
  BY <1>1, <1>2 DEF Answers
<1>3. CASE phase[p] = "exiting"
  <2>1. PICK k \in DOMAIN calls[p] : calls[p][k] = ResetCore(s)
    BY <1>1, <1>3 DEF Answers, ToReset
  <2>2. CASE k = 1
    <3> DEFINE l == Seen(p, Package[s])
               t == TraverseCores(l, Hw, TRUE)
    <3>1. Head(calls[p]) = ResetCore(s)
      BY <1>1, <2>1, <2>2
    <3>2. writes'[p] = t
      <4>1. Head(calls[p]).op = "reset_core" /\ Head(calls[p]).socket = s
        BY <3>1 DEF ResetCore
      <4>2. BeginResetCore(p, Head(calls[p]))
        BY <4>1 DEF Begin
      <4>3. QED
        BY <4>1, <4>2 DEF BeginResetCore, TypeOK
    <3>3. Traverses(t, l, Hw, TRUE)
      BY ResetWrites
    <3> HIDE DEF t
    <3>4. /\ i \in Nat /\ DOMAIN l = 1..Len(l) /\ i \in DOMAIN l /\ Len(l) \in Nat
          /\ \A m \in DOMAIN l : l[m] = Package[s][m]
      <4>1. /\ l \in Seq(Cpus) /\ DOMAIN l \subseteq DOMAIN Package[s]
            /\ \A m \in DOMAIN l : l[m] = Package[s][m]
            /\ \A m \in DOMAIN Package[s] : Package[s][m] < seen[p] => m \in DOMAIN l
        BY SeenOfASocket
      <4> HIDE DEF l
      <4>2. i \in DOMAIN l
        BY <4>1
      <4>3. Len(l) \in Nat /\ DOMAIN l = 1..Len(l)
        BY <4>1
      <4>4. i \in Nat
        BY <4>2, <4>3
      <4>5. QED
        BY <4>1, <4>2, <4>3, <4>4
    <3> HIDE DEF l
    <3>5. PICK n \in {2 * i - 1, 2 * i} :
            n \in DOMAIN t /\ t[n].file = f /\ t[n].cpu = Package[s][i]
      <4>1. i \in DOMAIN l /\ l[i] = Package[s][i]
        BY <3>4
      <4>2. /\ 2 * i - 1 \in DOMAIN t /\ 2 * i \in DOMAIN t
            /\ t[2 * i - 1].file = "max" /\ t[2 * i - 1].cpu = l[i]
            /\ t[2 * i].file = "min" /\ t[2 * i].cpu = l[i]
        BY <3>3, <4>1 DEF Traverses
      <4>3. QED
        BY <4>1, <4>2, Zenon
    <3>6. \A j \in 1..n : \E m \in 1..i : t[j].cpu = Package[s][m]
      <4>1. SUFFICES ASSUME NEW j \in 1..n PROVE \E m \in 1..i : t[j].cpu = Package[s][m]
        OBVIOUS
      <4>2. j \in DOMAIN t
        BY <3>3, <3>4, <3>5 DEF Traverses
      <4>3. (j + 1) \div 2 \in 1..i
        BY <3>4, <3>5
      <4>4. t[j].cpu = Package[s][(j + 1) \div 2]
        <5>1. (j + 1) \div 2 \in DOMAIN l /\ t[j].cpu = l[(j + 1) \div 2]
          BY <3>3, <4>2 DEF Traverses
        <5>2. QED
          BY <3>4, <5>1
      <4>5. QED
        BY <4>3, <4>4
    <3>7. QED
      BY <1>1, <1>3, <3>2, <3>5, <3>6 DEF Answers, ToReset
  <2>3. CASE k # 1
    <3>1. k - 1 \in DOMAIN Tail(calls[p]) /\ Tail(calls[p])[k - 1] = ResetCore(s)
      BY <1>1, <2>1, <2>3, TailIs
    <3>2. QED
      BY <1>1, <1>3, <3>1 DEF Answers, ToReset
  <2>4. QED
    BY <2>2, <2>3
<1>4. QED
  BY <1>2, <1>3 DEF Answers

(* A write of the hardware's own value. *)
LEMMA PutHw ==
  ASSUME TypeOK, NEW w \in FileWrite, Put(w), w.file \in {"min", "max", "msr"},
         w.file \in {"min", "max"} => w.value = Value(Hw, w.file)
  PROVE  /\ w.file \in {"min", "max"} => Value(limits'[w.cpu], w.file) = Value(Hw, w.file)
         /\ \A c \in Cpus, f \in {"min", "max"} :
              Value(limits[c], f) = Value(Hw, f) => Value(limits'[c], f) = Value(Hw, f)
<1>1. w.cpu \in Cpus /\ limits \in [Cpus -> [min : HwMin..HwMax, max : HwMin..HwMax]]
  BY WriteKinds DEF TypeOK
<1>2. /\ \A v : Held(Hw.min, v) = Hw.min
      /\ \A v : Held(Hw.max, v) = Hw.max
  BY HardwareLimits DEF Held
<1>3. CASE w.file = "msr"
  BY <1>3 DEF Put
<1>4. CASE w.file = "min"
  <2>1. limits' = [limits EXCEPT ![w.cpu].min = Hw.min]
    BY <1>2, <1>4 DEF Put, Value
  <2>2. QED
    BY <1>1, <1>4, <2>1 DEF Value
<1>5. CASE w.file = "max"
  <2>1. limits' = [limits EXCEPT ![w.cpu].max = Hw.max]
    BY <1>2, <1>5 DEF Put, Value
  <2>2. QED
    BY <1>1, <1>5, <2>1 DEF Value
<1>6. QED
  BY <1>3, <1>4, <1>5

LEMMA WriteCovers ==
  ASSUME TypeOK, Leaving, NEW p \in Programs, Write(p), phase[p] = "exiting",
         NEW s \in Sockets, NEW i \in DOMAIN Package[s], NEW f \in {"min", "max"},
         CoreCovered(s, i, f)
  PROVE  CoreCovered(s, i, f)'
<1> DEFINE w == Head(writes[p])
           c == Package[s][i]
<1>1. /\ writes[p] \in Seq(FileWrite) /\ writes[p] # <<>> /\ w \in FileWrite
      /\ phase'[p] = "exiting" /\ c \in Cpus
  BY Machine DEF Write, TypeOK
<1>2. /\ w.file \in {"min", "max", "msr"} /\ ~w.undo /\ w = writes[p][1]
      /\ w.file \in {"min", "max"} => w.value = Value(Hw, w.file)
  BY <1>1, TailIs DEF Leaving, LeavingBy
<1>3. /\ calls' = calls /\ online' = online
      /\ Known(c)' => Known(c)
      /\ Constructed(p) => Constructed(p)'
  <2>1. calls' = calls /\ online' = online
    BY <1>2 DEF Write, WriteFails, Put, hardware
  <2>2. phase' = phase /\ seen' = seen /\ cache' = cache
    BY DEF Write
  <2>3. QED
    BY <2>1, <2>2 DEF Known, KnownTo, Constructed
<1>4. \A g \in {"min", "max"} :
        Value(limits[c], g) = Value(Hw, g) => Value(limits'[c], g) = Value(Hw, g)
  <2>1. CASE Put(w)
    <3> HIDE DEF w, c
    <3>1. QED
      BY <1>1, <1>2, <2>1, PutHw
  <2>2. CASE limits' = limits
    BY <2>2
  <2>3. QED
    BY <2>1, <2>2 DEF Write, WriteFails, hardware
<1>5. SUFFICES ASSUME InReach(s, i), Known(c),
                      ~(Value(limits'[c], f) = Value(Hw, f))
               PROVE  \E q \in Programs : Answers(q, s, i, f)'
  BY <1>3 DEF CoreCovered, InReach
<1>6. PICK q \in Programs : Answers(q, s, i, f)
  BY <1>4, <1>5 DEF CoreCovered
<1>7. CASE q # p
  BY <1>6, <1>7, OneProgram, OthersAnswer
<1>8. CASE q = p /\ \E k \in DOMAIN calls[p] : calls[p][k] = ResetCore(s)
  BY <1>1, <1>3, <1>6, <1>8 DEF Answers, ToReset
<1>9. ASSUME q = p,
             NEW k \in DOMAIN writes[p],
             writes[p][k].file = f /\ writes[p][k].cpu = c,
             \A j \in 1..k : \E m \in 1..i : writes[p][j].cpu = Package[s][m]
      PROVE  Answers(p, s, i, f)'
  <2>1. DOMAIN writes[p] = 1..Len(writes[p]) /\ k \in Nat /\ k >= 1
    BY <1>1
  <2>2. w.cpu \in online
    BY <1>2, <1>5, <1>9, <2>1 DEF InReach
  <2>3. Put(w) /\ writes'[p] = Tail(writes[p])
    BY <2>2 DEF Write, WriteFails, TypeOK
  <2>4. k # 1
    <3>1. CASE k = 1
      <4>1. w.file = f /\ w.cpu = c
        BY <1>2, <1>9, <3>1
      <4>2. Value(limits'[w.cpu], w.file) = Value(Hw, w.file)
        <5> HIDE DEF w
        <5>1. QED
          BY <1>1, <1>2, <2>3, <4>1, PutHw
      <4>3. QED
        BY <4>1, <4>2, <1>5
    <3>2. QED
      BY <3>1
  <2>5. /\ k - 1 \in DOMAIN Tail(writes[p]) /\ Tail(writes[p])[k - 1] = writes[p][k]
        /\ \A j \in DOMAIN Tail(writes[p]) : Tail(writes[p])[j] = writes[p][j + 1]
        /\ DOMAIN Tail(writes[p]) = 1..Len(Tail(writes[p]))
    BY <1>1, <2>4, TailIs
  <2>6. \A j \in 1..(k - 1) : \E m \in 1..i : Tail(writes[p])[j].cpu = Package[s][m]
    <3>1. SUFFICES ASSUME NEW j \in 1..(k - 1)
                   PROVE  \E m \in 1..i : Tail(writes[p])[j].cpu = Package[s][m]
      OBVIOUS
    <3>2. j \in DOMAIN Tail(writes[p]) /\ j + 1 \in 1..k
      BY <2>1, <2>5
    <3>3. Tail(writes[p])[j] = writes[p][j + 1]
      BY <2>5, <3>2
    <3>4. QED
      BY <1>9, <3>2, <3>3
  <2>7. Constructed(p)'
    BY <1>3, <1>6, <1>9 DEF Answers
  <2>8. ToReset(p, s, i, f)'
    <3> DEFINE n == k - 1
    <3>1. /\ n \in DOMAIN writes'[p] /\ writes'[p][n].file = f /\ writes'[p][n].cpu = Package[s][i]
          /\ \A j \in 1..n : \E m \in 1..i : writes'[p][j].cpu = Package[s][m]
      BY <1>9, <2>3, <2>5, <2>6
    <3> HIDE DEF n
    <3>2. QED
      BY <3>1, Zenon DEF ToReset
  <2>9. QED
    BY <1>1, <2>7, <2>8 DEF Answers
<1>10. QED
  BY <1>6, <1>7, <1>8, <1>9 DEF Answers, ToReset

LEMMA CoresStep ==
  ASSUME Programs \subseteq Restores, TypeOK, Leaving, Building, CoresCovered, [Next]_vars
  PROVE  CoresCovered'
<1>1. CASE UNCHANGED vars
  BY <1>1 DEF vars, hardware, program, CoresCovered, CoreCovered, InReach, Answers, ToReset,
              Known, KnownTo, Constructed
<1>2. CASE \E c \in MayUnplug : Unplug(c)
  BY <1>2 DEF Unplug, program, CoresCovered, CoreCovered, InReach, Answers, ToReset,
              Known, KnownTo, Constructed
<1>3. ASSUME limits' = limits, online' = online,
             \A s \in Sockets : \A i \in DOMAIN Package[s], f \in {"min", "max"} :
               \A q \in Programs : Answers(q, s, i, f) /\ Known(Package[s][i]) => Answers(q, s, i, f)'
      PROVE  CoresCovered'
  BY <1>3, KnownBefore DEF CoresCovered, CoreCovered, InReach
<1>4. ASSUME NEW p \in Programs, Begin(p) PROVE CoresCovered'
  <2>1. limits' = limits /\ online' = online
    BY <1>4 DEF Begin, hardware
  <2>2. ASSUME NEW s \in Sockets, NEW i \in DOMAIN Package[s], NEW f \in {"min", "max"},
               Known(Package[s][i])
        PROVE  \A q \in Programs : Answers(q, s, i, f) => Answers(q, s, i, f)'
    <3>1. \A q \in Programs \ {p} : Answers(q, s, i, f) => Answers(q, s, i, f)'
      BY <1>4, OneProgram, OthersAnswer
    <3>2. Answers(p, s, i, f) => Package[s][i] < seen[p]
      BY <2>2 DEF Known, KnownTo, Answers
    <3>3. Answers(p, s, i, f) => Answers(p, s, i, f)'
      BY <1>4, <3>2, BeginAnswers
    <3>4. QED
      BY <3>1, <3>3
  <2>3. QED
    BY <1>3, <2>1, <2>2
<1>5. ASSUME NEW p \in Programs, Write(p) PROVE CoresCovered'
  <2>1. CASE phase[p] = "exiting"
    BY <1>5, <2>1, WriteCovers DEF CoresCovered
  <2>2. CASE phase[p] = "running"
    <3>1. phase'[p] = "running" /\ cache' = cache
      BY <1>5, <2>2 DEF Write
    <3>2. Constructed(p)
      BY <1>5, <2>2 DEF Building, BuildingBy, Write
    <3>3. QED
      BY <3>1, <3>2, RunningAnswers DEF Constructed
  <2>3. QED
    BY <1>5, <2>1, <2>2 DEF Write, Alive
<1>6. ASSUME NEW p \in Programs, (p \in Daemons /\ Predict(p)) \/ (p \in Tools /\ Use(p))
      PROVE  CoresCovered'
  <2>1. phase'[p] = "running" /\ cache' = cache /\ Idle(p)
    BY <1>6 DEF Predict, Use, Idle, TypeOK
  <2>2. Constructed(p)'
    BY <2>1, IdleIsConstructed DEF Constructed
  <2>3. QED
    BY <2>1, <2>2, RunningAnswers
<1>7. ASSUME NEW p \in Programs, Leave(p) \/ (p \in Daemons /\ signal_handler(p)), Constructed(p)
      PROVE  CoresCovered'
  <2>1. phase'[p] = "exiting" /\ calls'[p] = RestoreAll /\ cache' = cache
    BY <1>7 DEF Leave, signal_handler, TypeOK
  <2>2. QED
    BY <1>7, <2>1, ResetAllAnswers DEF Constructed
<1>8. ASSUME NEW p \in Programs,
             Construct(p) \/ Fail(p) \/ Gone(p) \/ (p \in Daemons /\ signal_handler(p)),
             \A s \in Sockets : \A i \in DOMAIN Package[s], f \in {"min", "max"} :
               ~Answers(p, s, i, f)
      PROVE  CoresCovered'
  <2>1. limits' = limits /\ online' = online
    BY <1>8 DEF Construct, Fail, Gone, signal_handler, hardware
  <2>2. ASSUME NEW s \in Sockets, NEW i \in DOMAIN Package[s], NEW f \in {"min", "max"}
        PROVE  \A q \in Programs : Answers(q, s, i, f) => Answers(q, s, i, f)'
    <3>1. \A q \in Programs \ {p} : Answers(q, s, i, f) => Answers(q, s, i, f)'
      BY <1>8, OneProgram, OthersAnswer
    <3>2. QED
      BY <1>8, <3>1
  <2>3. QED
    BY <1>3, <2>1, <2>2
<1>9. ASSUME NEW p \in Programs, Construct(p) \/ Fail(p) \/ Gone(p) PROVE CoresCovered'
  <2>1. Fail(p) => ~Constructed(p)
    BY FailedIsNotConstructed
  <2>2. \A s \in Sockets : \A i \in DOMAIN Package[s], f \in {"min", "max"} :
          ~Answers(p, s, i, f)
    BY <1>9, <2>1 DEF Construct, Gone, Answers, ToReset
  <2>3. QED
    BY <1>8, <1>9, <2>2
<1>10. ASSUME NEW p \in Programs, Leave(p) PROVE CoresCovered'
  <2>1. Constructed(p)
    BY <1>10, IdleIsConstructed DEF Leave
  <2>2. QED
    BY <1>7, <1>10, <2>1
<1>11. ASSUME NEW p \in Programs, p \in Daemons /\ signal_handler(p) PROVE CoresCovered'
  <2>1. CASE Constructed(p)
    BY <1>7, <1>11, <2>1
  <2>2. CASE ~Constructed(p)
    <3>1. \A s \in Sockets : \A i \in DOMAIN Package[s], f \in {"min", "max"} :
            ~Answers(p, s, i, f)
      BY <2>2 DEF Answers
    <3>2. QED
      BY <1>8, <1>11, <3>1
  <2>3. QED
    BY <2>1, <2>2
<1>12. QED
  BY <1>1, <1>2, <1>4, <1>5, <1>6, <1>9, <1>10, <1>11 DEF Next, Programs

LEMMA CoresRestoredFrom ==
  ASSUME TypeOK, Programs \subseteq Restores => CoresCovered
  PROVE  CoresRestored
<1>1. SUFFICES ASSUME AllGone, NEW s \in Sockets, NEW i \in DOMAIN Package[s],
                      \A j \in 1..i : Package[s][j] \in online,
                      \A p \in Programs : phase[p] = "gone" => Package[s][i] < seen[p]
               PROVE  limits[Package[s][i]] = Hw
  BY DEF CoresRestored
<1>2. Known(Package[s][i])
  BY <1>1 DEF Known, KnownTo, AllGone
<1>3. \A f \in {"min", "max"} : Value(limits[Package[s][i]], f) = Value(Hw, f)
  BY <1>1, <1>2 DEF AllGone, CoresCovered, CoreCovered, InReach, Answers
<1>4. limits[Package[s][i]] \in [min : HwMin..HwMax, max : HwMin..HwMax]
  BY <1>1, Machine DEF TypeOK
<1>5. QED
  BY <1>3, <1>4 DEF Value, Hw

(* When the last program has ended, however that came about, every core within
   reach that each program which got through its constructor listed at its start
   has its hardware limits back. *)
THEOREM CoresComeBack == Spec => []CoresRestored
<1> DEFINE Inv == TypeOK /\ Leaving /\ Building /\ (Programs \subseteq Restores => CoresCovered)
<1>1. Init => Inv
  <2>1. SUFFICES ASSUME Init PROVE Inv
    OBVIOUS
  <2>2. Leaving
    BY <2>1 DEF Init, Leaving, LeavingBy
  <2>3. CoresCovered
    BY <2>1, Machine DEF Init, CoresCovered, CoreCovered
  <2>4. Building
    BY <2>1, BuildingInit
  <2>5. QED
    BY <2>1, <2>2, <2>3, <2>4, TypeInit
<1>2. Inv /\ [Next]_vars => Inv'
  BY TypeStep, LeavingStep, BuildingStep, CoresStep
<1>3. Inv => CoresRestored
  BY CoresRestoredFrom
<1>4. QED
  BY <1>1, <1>2, <1>3, PTL DEF Spec

-----------------------------------------------------------------------------
(* The uncore: as long as every program's first look found the machine's   *)
(* own limits, no program holds any others to put back.                    *)

CleanCaches ==
  clean => \A p \in Programs, s \in Sockets : cache[p][s] \in {Unread, Uncore}
CleanWrites ==
  clean => \A p \in Programs : phase[p] = "exiting" =>
    \A k \in DOMAIN writes[p] : writes[p][k].file = "msr" => writes[p][k].value = Uncore

ToResetUncore(p, s) ==
  \/ \E k \in DOMAIN calls[p] : calls[p][k] = ResetUncore(s)
  \/ writes[p] # <<>> /\ Head(writes[p]).file = "msr" /\ Head(writes[p]).cpu = s
UncoreAnswers(p, s) ==
  /\ Constructed(p)
  /\ phase[p] = "running" \/ (phase[p] = "exiting" /\ ToResetUncore(p, s))
UncoreCovered(s) ==
  clean /\ s \in online =>
    uncore[SocketOf(s)] = Uncore \/ \E p \in Programs : UncoreAnswers(p, s)
UncoresCovered == \A s \in Sockets : UncoreCovered(s)

LEMMA OthersAnswerUncore ==
  ASSUME NEW p, NEW s,
         \A q \in Programs \ {p} : Kept(q)
  PROVE  \A q \in Programs \ {p} : UncoreAnswers(q, s) => UncoreAnswers(q, s)'
BY DEF UncoreAnswers, ToResetUncore, Kept, Constructed

LEMMA RunningAnswersUncore ==
  ASSUME NEW p \in Programs, phase'[p] = "running", Constructed(p)'
  PROVE  UncoresCovered'
BY DEF UncoresCovered, UncoreCovered, UncoreAnswers

LEMMA ResetAllAnswersUncore ==
  ASSUME NEW p \in Programs, phase'[p] = "exiting", calls'[p] = RestoreAll, Constructed(p)'
  PROVE  UncoresCovered'
<1>1. \A s \in Sockets : \E k \in DOMAIN calls'[p] : calls'[p][k] = ResetUncore(s)
  BY RestoreAllIs
<1>2. \A s \in Sockets : UncoreAnswers(p, s)'
  BY <1>1 DEF UncoreAnswers, ToResetUncore
<1>3. QED
  BY <1>2 DEF UncoresCovered, UncoreCovered

LEMMA CleanCachesStep ==
  ASSUME TypeOK, CleanCaches, [Next]_vars
  PROVE  CleanCaches'
<1>1. CASE clean' = clean /\ cache' = cache
  BY <1>1 DEF CleanCaches
<1>2. ASSUME NEW p \in Programs, Begin(p) PROVE CleanCaches'
  <2> DEFINE call == Head(calls[p])
             s == call.socket
  <2>1. CASE BeginUncoreDefaults(p, call) /\ call.op \in {"reset_uncore", "get_uncore_min_max"}
    <3>1. s \in Sockets
      BY <1>2, <2>1, CallKinds DEF Begin, TypeOK
    <3> DEFINE default == CachedUncore(p, s)
    <3>2. /\ cache' = [cache EXCEPT ![p][s] = default]
          /\ clean' = (clean /\ (cache[p][s] = Unread => default = Uncore))
      BY <2>1 DEF BeginUncoreDefaults
    <3>3. ASSUME clean' PROVE default = Uncore
      <4>1. CASE cache[p][s] = Unread
        BY <3>2, <3>3, <4>1
      <4>2. CASE cache[p][s] # Unread
        BY <3>1, <3>2, <3>3, <4>2 DEF CleanCaches, CachedUncore
      <4>3. QED
        BY <4>1, <4>2
    <3> HIDE DEF default, s
    <3>4. cache \in [Programs -> [Sockets -> Ratio \union {Unread}]]
      BY DEF TypeOK
    <3>5. QED
      BY <3>1, <3>2, <3>3, <3>4 DEF CleanCaches
  <2>2. CASE clean' = clean /\ cache' = cache
    BY <2>2 DEF CleanCaches
  <2>3. QED
    BY <1>2, <2>1, <2>2
    DEF Begin, BeginSetCore, BeginResetCore, BeginSetUncore, BeginTryUncore, BeginHotplug
<1>3. ASSUME ~ \E p \in Programs : Begin(p) PROVE clean' = clean /\ cache' = cache
  BY <1>3 DEF Next, Construct, Leave, Fail, Write, Gone, Predict, signal_handler, Use, Unplug, vars, program
<1>4. QED
  BY <1>1, <1>2, <1>3

LEMMA CleanWritesStep ==
  ASSUME TypeOK, Leaving, CleanCaches, CleanWrites, [Next]_vars
  PROVE  CleanWrites'
<1> SUFFICES ASSUME clean', NEW p \in Programs, phase'[p] = "exiting",
                    NEW k \in DOMAIN writes'[p], writes'[p][k].file = "msr"
             PROVE  writes'[p][k].value = Uncore
  BY DEF CleanWrites
<1>1. CASE phase'[p] = phase[p] /\ writes'[p] = writes[p] /\ clean' = clean
  BY <1>1 DEF CleanWrites
<1>2. CASE Begin(p)
  <2> DEFINE call == Head(calls[p])
  <2>1. phase[p] = "exiting" /\ calls[p] \in Seq(Call) /\ calls[p] # <<>> /\ call \in Call
    BY <1>2 DEF Begin, TypeOK
  <2>2. call.op \in {"reset_core", "reset_uncore"}
    BY <2>1, TailIs DEF Leaving, LeavingBy
  <2>3. call.socket \in Sockets
    BY <2>1, <2>2, CallKinds
  <2>4. CASE call.op = "reset_core"
    <3>1. writes'[p] = TraverseCores(Seen(p, Package[call.socket]), Hw, TRUE)
      BY <1>2, <2>4 DEF Begin, BeginResetCore, TypeOK
    <3>2. Traverses(writes'[p], Seen(p, Package[call.socket]), Hw, TRUE)
      BY <2>3, <3>1, ResetWrites
    <3>3. QED
      BY <3>2 DEF Traverses
  <2>5. CASE call.op = "reset_uncore"
    <3> DEFINE default == CachedUncore(p, call.socket)
    <3>1. /\ writes'[p] = <<Msr(call.socket, default, FALSE)>>
          /\ clean' = (clean /\ (cache[p][call.socket] = Unread => default = Uncore))
      BY <1>2, <2>5 DEF Begin, BeginUncoreDefaults, TypeOK
    <3>2. default = Uncore
      BY <2>3, <3>1 DEF CleanCaches, CachedUncore
    <3>3. writes'[p][k] = Msr(call.socket, default, FALSE)
      <4> DEFINE w == Msr(call.socket, default, FALSE)
      <4>1. writes'[p] = <<w>>
        BY <3>1
      <4> HIDE DEF w
      <4>2. k = 1
        BY <4>1
      <4>3. QED
        BY <4>1, <4>2 DEF w
    <3>4. QED
      BY <3>2, <3>3 DEF Msr
  <2>6. QED
    BY <2>2, <2>4, <2>5
<1>3. CASE Write(p)
  <2>1. phase[p] = "exiting" /\ clean' = clean /\ writes[p] \in Seq(FileWrite) /\ writes[p] # <<>>
    BY <1>3 DEF Write, TypeOK
  <2>2. writes'[p] = Tail(writes[p]) \/ writes'[p] = <<>>
    BY <1>3 DEF Write, WriteFails, TypeOK
  <2>3. writes'[p] = Tail(writes[p])
    BY <2>2
  <2>4. k + 1 \in DOMAIN writes[p] /\ writes'[p][k] = writes[p][k + 1]
    BY <2>1, <2>3, TailIs
  <2>5. QED
    BY <2>1, <2>4 DEF CleanWrites
<1>4. CASE writes'[p] = <<>>
  BY <1>4
<1>5. ASSUME NEW q \in Programs, q # p,
             Begin(q) \/ Fail(q) \/ Write(q) \/ Construct(q) \/ Leave(q) \/ Gone(q)
               \/ (q \in Daemons /\ (Predict(q) \/ signal_handler(q))) \/ (q \in Tools /\ Use(q))
      PROVE  writes'[p][k].value = Uncore
  <2>1. phase'[p] = phase[p] /\ writes'[p] = writes[p]
    BY <1>5, OneProgram DEF Kept
  <2>2. clean
    BY <1>5 DEF Begin, BeginSetCore, BeginResetCore, BeginSetUncore, BeginTryUncore,
               BeginUncoreDefaults, BeginHotplug, Fail, Write, Construct, Leave, Gone, Predict,
               signal_handler, Use
  <2>3. QED
    BY <2>1, <2>2 DEF CleanWrites
<1>6. CASE Construct(p) \/ Fail(p) \/ Gone(p) \/ (p \in Daemons /\ Predict(p)) \/ (p \in Tools /\ Use(p))
  BY <1>6 DEF Construct, Fail, Gone, Predict, Use, Idle, TypeOK
<1>7. CASE Leave(p) \/ (p \in Daemons /\ signal_handler(p))
  <2>1. writes'[p] = <<>>
    BY <1>7 DEF Leave, Idle, signal_handler, TypeOK
  <2>2. QED
    BY <2>1
<1>8. CASE UNCHANGED vars \/ \E c \in MayUnplug : Unplug(c)
  BY <1>1, <1>8 DEF vars, program, Unplug
<1>9. QED
  BY <1>2, <1>3, <1>5, <1>6, <1>7, <1>8 DEF Next, Programs

LEMMA BeginAnswersUncore ==
  ASSUME TypeOK, NEW p \in Programs, Begin(p), NEW s \in Sockets, UncoreAnswers(p, s)
  PROVE  UncoreAnswers(p, s)'
<1>1. /\ calls[p] \in Seq(Call) /\ calls[p] # <<>> /\ writes[p] = <<>>
      /\ calls'[p] = Tail(calls[p]) /\ phase'[p] = phase[p] /\ Constructed(p)'
  BY Looks DEF Begin, TypeOK, UncoreAnswers, Constructed
<1>2. CASE phase[p] = "running"
  BY <1>1, <1>2 DEF UncoreAnswers
<1>3. CASE phase[p] = "exiting"
  <2>1. PICK k \in DOMAIN calls[p] : calls[p][k] = ResetUncore(s)
    BY <1>1, <1>3 DEF UncoreAnswers, ToResetUncore
  <2>2. CASE k = 1
    <3>1. Head(calls[p]).op = "reset_uncore" /\ Head(calls[p]).socket = s
      BY <1>1, <2>1, <2>2 DEF ResetUncore
    <3>2. BeginUncoreDefaults(p, Head(calls[p]))
      BY <3>1 DEF Begin
    <3> DEFINE w == Msr(s, CachedUncore(p, s), FALSE)
    <3>3. writes'[p] = <<w>>
      BY <3>1, <3>2 DEF BeginUncoreDefaults, TypeOK
    <3>4. w.file = "msr" /\ w.cpu = s
      BY DEF Msr
    <3> HIDE DEF w
    <3>5. QED
      BY <1>1, <1>3, <3>3, <3>4 DEF UncoreAnswers, ToResetUncore
  <2>3. CASE k # 1
    <3>1. k - 1 \in DOMAIN Tail(calls[p]) /\ Tail(calls[p])[k - 1] = ResetUncore(s)
      BY <1>1, <2>1, <2>3, TailIs
    <3>2. QED
      BY <1>1, <1>3, <3>1 DEF UncoreAnswers, ToResetUncore
  <2>4. QED
    BY <2>2, <2>3
<1>4. QED
  BY <1>2, <1>3 DEF UncoreAnswers

LEMMA WriteCoversUncore ==
  ASSUME TypeOK, Leaving, CleanWrites, NEW p \in Programs, Write(p), phase[p] = "exiting",
         NEW s \in Sockets, UncoreCovered(s)
  PROVE  UncoreCovered(s)'
<1> DEFINE w == Head(writes[p])
<1>1. /\ writes[p] \in Seq(FileWrite) /\ writes[p] # <<>> /\ w \in FileWrite
      /\ phase'[p] = "exiting" /\ clean' = clean
  BY DEF Write, TypeOK
<1>2. w.file \in {"min", "max", "msr"} /\ ~w.undo /\ w = writes[p][1] /\ 1 \in DOMAIN writes[p]
  BY <1>1, TailIs DEF Leaving, LeavingBy
<1>3. /\ calls' = calls /\ online' = online
      /\ Constructed(p) => Constructed(p)'
  <2>1. calls' = calls /\ online' = online
    BY <1>2 DEF Write, WriteFails, Put, hardware
  <2>2. cache' = cache
    BY DEF Write
  <2>3. QED
    BY <2>1, <2>2 DEF Constructed
<1>4. SUFFICES ASSUME clean, s \in online, uncore'[SocketOf(s)] # Uncore
               PROVE  \E q \in Programs : UncoreAnswers(q, s)'
  BY <1>1, <1>3 DEF UncoreCovered
<1>5. w.file = "msr" => w.value = Uncore
  BY <1>2, <1>4 DEF CleanWrites
<1>6. SocketOf(s) \in Sockets /\ uncore \in [Sockets -> Ratio]
  BY Machine, SocketOfACpu DEF TypeOK
<1>7. uncore[SocketOf(s)] # Uncore
  <2>1. uncore' = uncore \/ uncore' = [uncore EXCEPT ![SocketOf(w.cpu)] = Uncore]
    BY <1>5, Zenon DEF Write, WriteFails, Put, hardware
  <2> HIDE DEF w
  <2>2. QED
    BY <1>4, <1>6, <2>1
<1>8. PICK q \in Programs : UncoreAnswers(q, s)
  BY <1>4, <1>7 DEF UncoreCovered
<1>9. CASE q # p
  BY <1>8, <1>9, OneProgram, OthersAnswerUncore
<1>10. CASE q = p /\ \E k \in DOMAIN calls[p] : calls[p][k] = ResetUncore(s)
  BY <1>1, <1>3, <1>8, <1>10 DEF UncoreAnswers, ToResetUncore
<1>11. CASE w.file = "msr" /\ w.cpu = s
  <2>1. Put(w)
    BY <1>4, <1>11 DEF Write, WriteFails
  <2>2. uncore' = [uncore EXCEPT ![SocketOf(s)] = Uncore]
    BY <1>5, <1>11, <2>1 DEF Put
  <2>3. QED
    BY <1>4, <1>6, <2>2
<1>12. QED
  BY <1>8, <1>9, <1>10, <1>11 DEF UncoreAnswers, ToResetUncore

LEMMA UncoresStep ==
  ASSUME Programs \subseteq Restores, TypeOK, Leaving, Building, CleanWrites, UncoresCovered,
         [Next]_vars
  PROVE  UncoresCovered'
<1>1. CASE UNCHANGED vars
  BY <1>1 DEF vars, hardware, program, UncoresCovered, UncoreCovered, UncoreAnswers, ToResetUncore,
              Constructed
<1>2. CASE \E c \in MayUnplug : Unplug(c)
  BY <1>2 DEF Unplug, program, UncoresCovered, UncoreCovered, UncoreAnswers, ToResetUncore,
              Constructed
<1>3. ASSUME NEW p \in Programs, Begin(p) PROVE UncoresCovered'
  <2>1. uncore' = uncore /\ online' = online
    BY <1>3 DEF Begin, hardware
  <2>2. clean' => clean
    BY <1>3 DEF Begin, BeginSetCore, BeginResetCore, BeginSetUncore, BeginTryUncore,
               BeginUncoreDefaults, BeginHotplug
  <2>3. ASSUME NEW s \in Sockets
        PROVE  \A q \in Programs : UncoreAnswers(q, s) => UncoreAnswers(q, s)'
    <3>1. \A q \in Programs \ {p} : UncoreAnswers(q, s) => UncoreAnswers(q, s)'
      BY <1>3, OneProgram, OthersAnswerUncore
    <3>2. UncoreAnswers(p, s) => UncoreAnswers(p, s)'
      BY <1>3, BeginAnswersUncore
    <3>3. QED
      BY <3>1, <3>2
  <2>4. QED
    BY <2>1, <2>2, <2>3 DEF UncoresCovered, UncoreCovered
<1>4. ASSUME NEW p \in Programs, Write(p) PROVE UncoresCovered'
  <2>1. CASE phase[p] = "exiting"
    BY <1>4, <2>1, WriteCoversUncore DEF UncoresCovered
  <2>2. CASE phase[p] = "running"
    <3>1. phase'[p] = "running" /\ cache' = cache
      BY <1>4, <2>2 DEF Write
    <3>2. Constructed(p)
      BY <1>4, <2>2 DEF Building, BuildingBy, Write
    <3>3. QED
      BY <3>1, <3>2, RunningAnswersUncore DEF Constructed
  <2>3. QED
    BY <1>4, <2>1, <2>2 DEF Write, Alive
<1>5. ASSUME NEW p \in Programs, (p \in Daemons /\ Predict(p)) \/ (p \in Tools /\ Use(p))
      PROVE  UncoresCovered'
  <2>1. phase'[p] = "running" /\ cache' = cache /\ Idle(p)
    BY <1>5 DEF Predict, Use, Idle, TypeOK
  <2>2. Constructed(p)'
    BY <2>1, IdleIsConstructed DEF Constructed
  <2>3. QED
    BY <2>1, <2>2, RunningAnswersUncore
<1>6. ASSUME NEW p \in Programs, Leave(p) \/ (p \in Daemons /\ signal_handler(p)), Constructed(p)
      PROVE  UncoresCovered'
  <2>1. phase'[p] = "exiting" /\ calls'[p] = RestoreAll /\ cache' = cache
    BY <1>6 DEF Leave, signal_handler, TypeOK
  <2>2. QED
    BY <1>6, <2>1, ResetAllAnswersUncore DEF Constructed
<1>7. ASSUME NEW p \in Programs,
             Construct(p) \/ Fail(p) \/ Gone(p) \/ (p \in Daemons /\ signal_handler(p)),
             \A s \in Sockets : ~UncoreAnswers(p, s)
      PROVE  UncoresCovered'
  <2>1. uncore' = uncore /\ online' = online /\ clean' = clean
    BY <1>7 DEF Construct, Fail, Gone, signal_handler, hardware
  <2>2. ASSUME NEW s \in Sockets
        PROVE  \A q \in Programs : UncoreAnswers(q, s) => UncoreAnswers(q, s)'
    <3>1. \A q \in Programs \ {p} : UncoreAnswers(q, s) => UncoreAnswers(q, s)'
      BY <1>7, OneProgram, OthersAnswerUncore
    <3>2. QED
      BY <1>7, <3>1
  <2>3. QED
    BY <2>1, <2>2 DEF UncoresCovered, UncoreCovered
<1>8. ASSUME NEW p \in Programs, Construct(p) \/ Fail(p) \/ Gone(p) PROVE UncoresCovered'
  <2>1. Fail(p) => ~Constructed(p)
    BY FailedIsNotConstructed
  <2>2. \A s \in Sockets : ~UncoreAnswers(p, s)
    BY <1>8, <2>1 DEF Construct, Gone, UncoreAnswers, ToResetUncore
  <2>3. QED
    BY <1>7, <1>8, <2>2
<1>9. ASSUME NEW p \in Programs, Leave(p) PROVE UncoresCovered'
  <2>1. Constructed(p)
    BY <1>9, IdleIsConstructed DEF Leave
  <2>2. QED
    BY <1>6, <1>9, <2>1
<1>10. ASSUME NEW p \in Programs, p \in Daemons /\ signal_handler(p) PROVE UncoresCovered'
  <2>1. CASE Constructed(p)
    BY <1>6, <1>10, <2>1
  <2>2. CASE ~Constructed(p)
    <3>1. \A s \in Sockets : ~UncoreAnswers(p, s)
      BY <2>2 DEF UncoreAnswers
    <3>2. QED
      BY <1>7, <1>10, <3>1
  <2>3. QED
    BY <2>1, <2>2
<1>11. QED
  BY <1>1, <1>2, <1>3, <1>4, <1>5, <1>8, <1>9, <1>10 DEF Next, Programs

LEMMA UncoreRestoredFrom ==
  ASSUME Programs \subseteq Restores => UncoresCovered
  PROVE  UncoreRestored
BY DEF UncoreRestored, AllGone, UncoresCovered, UncoreCovered, UncoreAnswers

(* So has every uncore register within reach, provided that no program took
   another's limits for the machine's own. *)
THEOREM UncoresComeBack == Spec => []UncoreRestored
<1> DEFINE Inv == /\ TypeOK /\ Leaving /\ Building /\ CleanCaches /\ CleanWrites
                  /\ Programs \subseteq Restores => UncoresCovered
<1>1. Init => Inv
  <2>1. SUFFICES ASSUME Init PROVE Inv
    OBVIOUS
  <2>2. Leaving /\ CleanWrites
    BY <2>1 DEF Init, Leaving, LeavingBy, CleanWrites
  <2>3. CleanCaches
    BY <2>1 DEF Init, CleanCaches
  <2>4. UncoresCovered
    BY <2>1, Machine, SocketOfACpu DEF Init, UncoresCovered, UncoreCovered
  <2>5. Building
    BY <2>1, BuildingInit
  <2>6. QED
    BY <2>1, <2>2, <2>3, <2>4, <2>5, TypeInit
<1>2. Inv /\ [Next]_vars => Inv'
  BY TypeStep, LeavingStep, BuildingStep, CleanCachesStep, CleanWritesStep, UncoresStep
<1>3. Inv => UncoreRestored
  BY UncoreRestoredFrom
<1>4. QED
  BY <1>1, <1>2, <1>3, PTL DEF Spec

-----------------------------------------------------------------------------
(* A daemon alone: what it does not have in force yet, it is about to write. *)

Same(f) == [min |-> f, max |-> f]
Alone(d) == \A p \in Programs \ {d} : phase[p] = "off"

\* Its first set_core_frequency is that of socket 0, whose first CPU is always
\* online: it never takes an offline CPU's missing limits for the hardware's.
RangeKnown(d) ==
  /\ 0 \in online /\ range[d]["socket"] \in {Unread, Hw}
  /\ range[d]["socket"] = Unread =>
       \/ \A k \in DOMAIN calls[d] : calls[d][k].op # "set_core"
       \/ calls[d] # <<>> /\ Head(calls[d]).op = "set_core" /\ Head(calls[d]).socket = 0
Calling(d) ==
  \A k \in DOMAIN calls[d] :
    \/ calls[d][k].op = "get_uncore_min_max"
    \/ \E s \in Sockets : calls[d][k] = SetSocket(last_core[d], s)
    \/ \E s \in Sockets : calls[d][k] = SetUncore(last_uncore[d], s)
Writing(d) ==
  \A k \in DOMAIN writes[d] :
    /\ ~writes[d][k].strict /\ ~writes[d][k].undo
    /\ \/ writes[d][k].file = "msr" /\ writes[d][k].value = Same(last_uncore[d])
       \/ writes[d][k].file \in {"min", "max"} /\ writes[d][k].value = Clamp(last_core[d], Hw)
CoreApplied(d, c, f) ==
  \/ Value(limits[c], f) = Clamp(last_core[d], Hw)
  \/ \E k \in DOMAIN calls[d] : calls[d][k].op = "set_core" /\ calls[d][k].socket = SocketOf(c)
  \/ \E k \in DOMAIN writes[d] : writes[d][k].file = f /\ writes[d][k].cpu = c
UncoreApplied(d, s) ==
  \/ uncore[SocketOf(s)] = Same(last_uncore[d])
  \/ \E k \in DOMAIN calls[d] : calls[d][k].op = "set_uncore" /\ calls[d][k].socket = s
  \/ \E k \in DOMAIN writes[d] : writes[d][k].file = "msr" /\ writes[d][k].cpu = s
CoresApplied(d) ==
  last_core[d] > 0 =>
    \A c \in online, f \in {"min", "max"} : c < seen[d] => CoreApplied(d, c, f)
UncoresApplied(d) ==
  last_uncore[d] > 0 => \A s \in Sockets : s \in online => UncoreApplied(d, s)
Fresh(d) ==
  phase[d] = "off" =>
    last_core[d] = -1 /\ last_uncore[d] = -1 /\ calls[d] = <<>> /\ writes[d] = <<>>

InControl(d) ==
  /\ Fresh(d) /\ RangeKnown(d) /\ Calling(d) /\ Writing(d)
  /\ CoresApplied(d) /\ UncoresApplied(d)
DaemonsInControl ==
  \A d \in Daemons : Alone(d) /\ phase[d] \in {"off", "running"} => InControl(d)

LEMMA ControlConstruct ==
  ASSUME TypeOK, NEW d \in Daemons, InControl(d), Construct(d)
  PROVE  InControl(d)'
<1>1. d \in Programs /\ d \in Restores
  BY FrequencyAssumption DEF FrequencyAssumption, Programs
<1> DEFINE f == [s \in Sockets |-> ReadMinMax(s)]
<1>2. /\ phase[d] = "off" /\ phase'[d] = "running" /\ writes'[d] = writes[d]
      /\ calls'[d] = ForEachSocket(f)
      /\ UNCHANGED <<limits, uncore, online, range, last_core, last_uncore>>
  BY <1>1 DEF Construct, TypeOK, hardware
<1>3. \A k \in DOMAIN calls'[d] : calls'[d][k].op = "get_uncore_min_max"
  <2>1. f \in [Sockets -> Call] /\ \A s \in Sockets : f[s].op = "get_uncore_min_max"
    BY CallsAreCalls DEF ReadMinMax
  <2> HIDE DEF f
  <2>2. \A i \in 1..NumSockets : ForEachSocket(f)[i].op = "get_uncore_min_max"
    <3>1. \A i \in 1..NumSockets : ForEachSocket(f)[i] = f[i - 1]
      BY <2>1, ForEachSocketIs
    <3>2. \A i \in 1..NumSockets : i - 1 \in Sockets
      BY Machine
    <3>3. QED
      BY <2>1, <3>1, <3>2
  <2>3. DOMAIN ForEachSocket(f) = 1..NumSockets
    BY <2>1, ForEachSocketIs
  <2>4. QED
    BY <1>2, <2>2, <2>3
<1> HIDE DEF f
<1>4. last_core[d] = -1 /\ last_uncore[d] = -1 /\ writes[d] = <<>>
  BY <1>2 DEF InControl, Fresh
<1>5. RangeKnown(d)'
  BY <1>2, <1>3 DEF InControl, RangeKnown
<1>6. Calling(d)' /\ Writing(d)' /\ Fresh(d)'
  BY <1>2, <1>3, <1>4 DEF Calling, Writing, Fresh
<1>7. CoresApplied(d)' /\ UncoresApplied(d)'
  BY <1>2, <1>4 DEF CoresApplied, UncoresApplied
<1>8. QED
  BY <1>5, <1>6, <1>7 DEF InControl

LEMMA ControlUnplug ==
  ASSUME TypeOK, NEW d \in Daemons, InControl(d), NEW c \in MayUnplug, Unplug(c)
  PROVE  InControl(d)'
<1>1. c # 0
  BY FrequencyAssumption DEF FrequencyAssumption
<1>2. /\ UNCHANGED <<limits, uncore, phase, seen, calls, writes, range, last_core, last_uncore>>
      /\ online' = online \ {c}
  BY DEF Unplug, program
<1>3. RangeKnown(d)' /\ Fresh(d)'
  BY <1>1, <1>2 DEF InControl, RangeKnown, Fresh
<1>4. Calling(d)' /\ Writing(d)'
  BY <1>2 DEF InControl, Calling, Writing
<1>5. CoresApplied(d)' /\ UncoresApplied(d)'
  BY <1>2 DEF InControl, CoresApplied, UncoresApplied, CoreApplied, UncoreApplied
<1>6. QED
  BY <1>3, <1>4, <1>5 DEF InControl

LEMMA ControlWrite ==
  ASSUME TypeOK, NEW d \in Daemons, InControl(d), phase[d] = "running", Write(d)
  PROVE  InControl(d)'
<1> DEFINE w == Head(writes[d])
<1>1. /\ d \in Programs /\ writes[d] \in Seq(FileWrite) /\ writes[d] # <<>> /\ w \in FileWrite
      /\ UNCHANGED <<phase, seen, range, last_core, last_uncore>>
  BY DEF Write, TypeOK, Programs
<1>2. /\ ~w.strict /\ ~w.undo
      /\ \/ w.file = "msr" /\ w.value = Same(last_uncore[d])
         \/ w.file \in {"min", "max"} /\ w.value = Clamp(last_core[d], Hw)
      /\ w = writes[d][1]
  BY <1>1, TailIs DEF InControl, Writing
<1>3. calls' = calls /\ online' = online /\ writes'[d] = Tail(writes[d])
  BY <1>1, <1>2 DEF Write, WriteFails, Put, hardware, TypeOK
<1>4. \A k \in DOMAIN Tail(writes[d]) :
        k + 1 \in DOMAIN writes[d] /\ Tail(writes[d])[k] = writes[d][k + 1]
  BY <1>1, TailIs
<1>5. RangeKnown(d)' /\ Calling(d)' /\ Fresh(d)'
  <2>1. RangeKnown(d)' /\ Calling(d)'
    BY <1>1, <1>3 DEF InControl, RangeKnown, Calling
  <2>2. phase'[d] # "off"
    BY <1>1
  <2>3. QED
    BY <2>1, <2>2 DEF Fresh
<1>6. Writing(d)'
  BY <1>1, <1>3, <1>4 DEF InControl, Writing
<1>7. Clamp(last_core[d], Hw) \in HwMin..HwMax /\ \A v : Held(Clamp(last_core[d], Hw), v) = Clamp(last_core[d], Hw)
  <2>1. last_core[d] \in Int
    BY FrequencyAssumption DEF FrequencyAssumption, TypeOK
  <2>2. Clamp(last_core[d], Hw) \in HwMin..HwMax
    BY <2>1, HardwareLimits
  <2> DEFINE x == Clamp(last_core[d], Hw)
  <2> HIDE DEF x
  <2>3. x \in HwMin..HwMax => \A v : Held(x, v) = x
    BY HardwareLimits DEF Held
  <2>4. QED
    BY <2>2, <2>3 DEF x
<1> HIDE DEF w
<1>8. ASSUME NEW c \in online, NEW f \in {"min", "max"}, CoreApplied(d, c, f)
      PROVE  CoreApplied(d, c, f)'
  <2>1. /\ c \in Cpus /\ w.cpu \in Cpus
        /\ limits \in [Cpus -> [min : HwMin..HwMax, max : HwMin..HwMax]]
    BY <1>1, <1>8, WriteKinds DEF TypeOK
  <2>2. CASE Value(limits[c], f) = Clamp(last_core[d], Hw)
    <3>1. CASE limits' = limits
      BY <1>1, <2>2, <3>1 DEF CoreApplied
    <3>2. CASE w.file = "min" /\ limits' = [limits EXCEPT ![w.cpu].min = Clamp(last_core[d], Hw)]
      BY <1>1, <2>1, <2>2, <3>2 DEF CoreApplied, Value
    <3>3. CASE w.file = "max" /\ limits' = [limits EXCEPT ![w.cpu].max = Clamp(last_core[d], Hw)]
      BY <1>1, <2>1, <2>2, <3>3 DEF CoreApplied, Value
    <3>4. QED
      BY <1>2, <1>7, <3>1, <3>2, <3>3 DEF Write, WriteFails, Put, hardware, w
  <2>3. CASE \E k \in DOMAIN calls[d] : calls[d][k].op = "set_core" /\ calls[d][k].socket = SocketOf(c)
    BY <1>3, <2>3 DEF CoreApplied
  <2>4. ASSUME NEW k \in DOMAIN writes[d], writes[d][k].file = f /\ writes[d][k].cpu = c
        PROVE  CoreApplied(d, c, f)'
    <3>1. CASE k = 1
      <4>1. w.file = f /\ w.cpu = c
        BY <1>2, <2>4, <3>1
      <4>2. Put(w)
        BY <1>8, <4>1 DEF Write, WriteFails, w
      <4>3. Value(limits'[c], f) = Clamp(last_core[d], Hw)
        <5>1. CASE f = "min"
          <6>1. limits' = [limits EXCEPT ![c].min = Clamp(last_core[d], Hw)]
            BY <1>2, <1>7, <4>1, <4>2, <5>1 DEF Put
          <6>2. QED
            BY <2>1, <5>1, <6>1 DEF Value
        <5>2. CASE f = "max"
          <6>1. limits' = [limits EXCEPT ![c].max = Clamp(last_core[d], Hw)]
            BY <1>2, <1>7, <4>1, <4>2, <5>2 DEF Put
          <6>2. QED
            BY <2>1, <5>2, <6>1 DEF Value
        <5>3. QED
          BY <5>1, <5>2
      <4>4. QED
        BY <1>1, <4>3 DEF CoreApplied
    <3>2. CASE k # 1
      <4>1. k - 1 \in DOMAIN Tail(writes[d]) /\ Tail(writes[d])[k - 1] = writes[d][k]
        BY <1>1, <2>4, <3>2, TailIs
      <4>2. QED
        BY <1>3, <2>4, <4>1 DEF CoreApplied
    <3>3. QED
      BY <3>1, <3>2
  <2>5. QED
    BY <1>8, <2>2, <2>3, <2>4 DEF CoreApplied
<1>9. ASSUME NEW s \in Sockets, s \in online, UncoreApplied(d, s)
      PROVE  UncoreApplied(d, s)'
  <2>1. SocketOf(s) \in Sockets /\ uncore \in [Sockets -> Ratio]
    BY Machine, SocketOfACpu DEF TypeOK
  <2>2. CASE uncore[SocketOf(s)] = Same(last_uncore[d])
    <3>1. uncore' = uncore \/ uncore' = [uncore EXCEPT ![SocketOf(w.cpu)] = Same(last_uncore[d])]
      BY <1>2 DEF Write, WriteFails, Put, hardware, w
    <3>2. uncore'[SocketOf(s)] = Same(last_uncore[d])
      BY <2>1, <2>2, <3>1
    <3>3. QED
      BY <1>1, <3>2 DEF UncoreApplied
  <2>3. CASE \E k \in DOMAIN calls[d] : calls[d][k].op = "set_uncore" /\ calls[d][k].socket = s
    BY <1>3, <2>3 DEF UncoreApplied
  <2>4. ASSUME NEW k \in DOMAIN writes[d], writes[d][k].file = "msr" /\ writes[d][k].cpu = s
        PROVE  UncoreApplied(d, s)'
    <3>1. CASE k = 1
      <4>1. w.file = "msr" /\ w.cpu = s
        BY <1>2, <2>4, <3>1
      <4>2. Put(w)
        BY <1>9, <4>1 DEF Write, WriteFails, w
      <4>3. uncore' = [uncore EXCEPT ![SocketOf(s)] = Same(last_uncore[d])]
        BY <1>2, <4>1, <4>2 DEF Put
      <4>4. QED
        BY <1>1, <2>1, <4>3 DEF UncoreApplied
    <3>2. CASE k # 1
      <4>1. k - 1 \in DOMAIN Tail(writes[d]) /\ Tail(writes[d])[k - 1] = writes[d][k]
        BY <1>1, <2>4, <3>2, TailIs
      <4>2. QED
        BY <1>3, <2>4, <4>1 DEF UncoreApplied
    <3>3. QED
      BY <3>1, <3>2
  <2>5. QED
    BY <1>9, <2>2, <2>3, <2>4 DEF UncoreApplied
<1>10. CoresApplied(d)' /\ UncoresApplied(d)'
  <2>1. CoresApplied(d)'
    BY <1>1, <1>3, <1>8 DEF InControl, CoresApplied
  <2>2. UncoresApplied(d)'
    BY <1>1, <1>3, <1>9 DEF InControl, UncoresApplied
  <2>3. QED
    BY <2>1, <2>2
<1>11. QED
  BY <1>5, <1>6, <1>10 DEF InControl

LEMMA ControlBegin ==
  ASSUME TypeOK, NEW d \in Daemons, InControl(d), Begin(d)
  PROVE  InControl(d)'
<1> DEFINE h == Head(calls[d])
<1>1. /\ d \in Programs /\ calls[d] \in Seq(Call) /\ calls[d] # <<>> /\ writes[d] = <<>>
      /\ calls'[d] = Tail(calls[d]) /\ phase'[d] # "off"
      /\ UNCHANGED <<limits, uncore, online, seen, last_core, last_uncore>>
  BY DEF Begin, Alive, TypeOK, Programs, hardware
<1>2. /\ h = calls[d][1] /\ 1 \in DOMAIN calls[d] /\ h \in Call
      /\ \A k \in DOMAIN calls'[d] : k + 1 \in DOMAIN calls[d] /\ calls'[d][k] = calls[d][k + 1]
      /\ \A k \in DOMAIN calls[d] : k = 1 \/ (k - 1 \in DOMAIN calls'[d] /\ calls'[d][k - 1] = calls[d][k])
  BY <1>1, TailIs
<1>3. Calling(d)' /\ Fresh(d)'
  <2>1. Calling(d)'
    BY <1>1, <1>2 DEF InControl, Calling
  <2>2. QED
    BY <1>1, <2>1 DEF Fresh
<1>4. 0 \in online' /\ range[d]["socket"] \in {Unread, Hw} /\ range \in [Programs -> [Forms -> Limit]]
  BY <1>1 DEF InControl, RangeKnown, TypeOK
<1> DEFINE Left(call) == \E j \in DOMAIN calls'[d] : calls'[d][j] = call
<1>5. \A k \in DOMAIN calls[d] : calls[d][k] # h => Left(calls[d][k])
  <2> HIDE DEF h
  <2>1. QED
    BY <1>2
<1>6. DOMAIN writes[d] = {}
  BY <1>1
<1>7. ASSUME h.op # "set_core", range' = range PROVE RangeKnown(d)'
  <2>1. ASSUME range[d]["socket"] = Unread PROVE \A k \in DOMAIN calls[d] : calls[d][k].op # "set_core"
    BY <1>7, <2>1 DEF InControl, RangeKnown
  <2>2. ASSUME range[d]["socket"] = Unread PROVE \A k \in DOMAIN calls'[d] : calls'[d][k].op # "set_core"
    BY <1>2, <2>1, <2>2
  <2>3. QED
    BY <1>4, <1>7, <2>2 DEF RangeKnown
<1>8. ASSUME h.op # "set_core" PROVE CoresApplied(d)'
  <2>1. ASSUME NEW c, NEW f, CoreApplied(d, c, f) PROVE CoreApplied(d, c, f)'
    <3>1. CASE Value(limits[c], f) = Clamp(last_core[d], Hw)
      BY <1>1, <3>1 DEF CoreApplied
    <3>2. ASSUME NEW k \in DOMAIN calls[d],
                 calls[d][k].op = "set_core" /\ calls[d][k].socket = SocketOf(c)
          PROVE  CoreApplied(d, c, f)'
      <4>1. Left(calls[d][k])
        BY <1>8, <1>5, <3>2
      <4>2. QED
        BY <3>2, <4>1 DEF CoreApplied
    <3>3. QED
      BY <1>6, <2>1, <3>1, <3>2 DEF CoreApplied
  <2>2. QED
    BY <1>1, <2>1 DEF InControl, CoresApplied
<1>9. ASSUME h.op # "set_uncore" PROVE UncoresApplied(d)'
  <2>1. ASSUME NEW s, UncoreApplied(d, s) PROVE UncoreApplied(d, s)'
    <3>1. CASE uncore[SocketOf(s)] = Same(last_uncore[d])
      BY <1>1, <3>1 DEF UncoreApplied
    <3>2. ASSUME NEW k \in DOMAIN calls[d], calls[d][k].op = "set_uncore" /\ calls[d][k].socket = s
          PROVE  UncoreApplied(d, s)'
      <4>1. Left(calls[d][k])
        BY <1>9, <1>5, <3>2
      <4>2. QED
        BY <3>2, <4>1 DEF UncoreApplied
    <3>3. QED
      BY <1>6, <2>1, <3>1, <3>2 DEF UncoreApplied
  <2>2. QED
    BY <1>1, <2>1 DEF InControl, UncoresApplied
<1>10. \/ h.op = "get_uncore_min_max"
       \/ \E s \in Sockets : h = SetSocket(last_core[d], s)
       \/ \E s \in Sockets : h = SetUncore(last_uncore[d], s)
  BY <1>2 DEF InControl, Calling
<1>11. CASE h.op = "get_uncore_min_max"
  <2>1. BeginUncoreDefaults(d, h)
    BY <1>11 DEF Begin
  <2>2. range' = range /\ writes'[d] = <<>>
    BY <1>1, <1>11, <2>1 DEF BeginUncoreDefaults, TypeOK
  <2>3. Writing(d)'
    BY <2>2 DEF Writing
  <2>4. QED
    BY <1>3, <1>7, <1>8, <1>9, <1>11, <2>2, <2>3 DEF InControl
<1>12. ASSUME NEW s \in Sockets, h = SetUncore(last_uncore[d], s) PROVE InControl(d)'
  <2>1. h.op = "set_uncore" /\ h.freq = last_uncore[d] /\ h.socket = s
    BY <1>12 DEF SetUncore
  <2>2. BeginSetUncore(d, h)
    BY <2>1 DEF Begin
  <2> DEFINE w == Msr(s, Same(last_uncore[d]), FALSE)
  <2>3. range' = range /\ writes'[d] = <<w>>
    BY <1>1, <2>1, <2>2 DEF BeginSetUncore, TypeOK, Same
  <2>4. w.file = "msr" /\ w.cpu = s /\ w.value = Same(last_uncore[d]) /\ ~w.strict /\ ~w.undo
    BY DEF Msr
  <2> HIDE DEF w, h
  <2>5. DOMAIN writes'[d] = {1} /\ writes'[d][1] = w
    BY <2>3
  <2>6. Writing(d)'
    BY <1>1, <2>4, <2>5 DEF Writing
  <2>7. UncoresApplied(d)'
    <3>1. ASSUME NEW t, UncoreApplied(d, t) PROVE UncoreApplied(d, t)'
      <4>1. CASE uncore[SocketOf(t)] = Same(last_uncore[d])
        BY <1>1, <4>1 DEF UncoreApplied
      <4>2. CASE t = s
        BY <2>4, <2>5, <4>2 DEF UncoreApplied
      <4>3. ASSUME NEW k \in DOMAIN calls[d], t # s,
                   calls[d][k].op = "set_uncore" /\ calls[d][k].socket = t
            PROVE  UncoreApplied(d, t)'
        <5>1. Left(calls[d][k])
          BY <1>5, <2>1, <4>3
        <5>2. QED
          BY <4>3, <5>1 DEF UncoreApplied
      <4>4. QED
        BY <1>6, <3>1, <4>1, <4>2, <4>3 DEF UncoreApplied
    <3>2. QED
      BY <1>1, <3>1 DEF InControl, UncoresApplied
  <2>8. QED
    BY <1>3, <1>7, <1>8, <2>1, <2>3, <2>6, <2>7 DEF InControl
<1>13. ASSUME NEW s \in Sockets, h = SetSocket(last_core[d], s) PROVE InControl(d)'
  <2>1. /\ h.op = "set_core" /\ h.form = "socket" /\ h.freq = last_core[d] /\ h.socket = s
        /\ h.cpus = Package[s] /\ h.first = Package[s][1]
    BY <1>13 DEF SetSocket, SetCore
  <2>2. BeginSetCore(d, h)
    BY <2>1 DEF Begin
  <2>3. ReadRange(d, h) = Hw
    <3>1. CASE range[d]["socket"] = Unread
      <4>1. s = 0
        BY <1>2, <2>1, <3>1 DEF InControl, RangeKnown
      <4>2. h.first \in online
        BY <1>4, <1>1, <2>1, <4>1, FrequencyAssumption DEF FrequencyAssumption
      <4>3. QED
        BY <2>1, <3>1, <4>2 DEF ReadRange, CpuInfo
    <3>2. CASE range[d]["socket"] = Hw
      BY <2>1, <3>2, HardwareLimits DEF ReadRange
    <3>3. QED
      BY <1>4, <3>1, <3>2
  <2> DEFINE v == Clamp(last_core[d], Hw)
             l == Seen(d, Package[s])
  <2>4. v \in Int /\ Same(v) \in Limit /\ Same(v).min = v /\ Same(v).max = v
    <3>1. last_core[d] \in Int
      BY FrequencyAssumption DEF FrequencyAssumption, TypeOK
    <3>2. v \in HwMin..HwMax /\ HwMin \in Nat /\ HwMax \in Nat
      BY <3>1, HardwareLimits
    <3> HIDE DEF v
    <3>3. QED
      BY <3>2 DEF Same, Limit
  <2>5. /\ range'[d]["socket"] = Hw
        /\ writes'[d] = TraverseCores(l, Same(v), FALSE)
    <3>1. /\ range' = [range EXCEPT ![d]["socket"] = Hw]
          /\ writes' = [writes EXCEPT ![d] = TraverseCores(l, Same(v), FALSE)]
      BY <2>1, <2>2, <2>3 DEF BeginSetCore, Same
    <3>2. QED
      BY <1>1, <1>4, <3>1 DEF TypeOK, Forms
  <2> HIDE DEF v, h, l
  <2>6. Traverses(writes'[d], l, Same(v), FALSE)
    BY <1>1, <2>4, <2>5, SeenOfASocket, TraverseCoresIs DEF l
  <2>7. RangeKnown(d)'
    BY <1>4, <2>5, HardwareLimits DEF RangeKnown
  <2>8. Writing(d)'
    <3>1. \A k \in DOMAIN writes'[d] :
            /\ writes'[d][k].file \in {"min", "max"} /\ writes'[d][k].value = v
            /\ ~writes'[d][k].strict /\ ~writes'[d][k].undo
      BY <2>4, <2>6 DEF Traverses, Value
    <3>2. QED
      BY <1>1, <3>1 DEF Writing, v
  <2>9. CoresApplied(d)'
    <3>1. ASSUME NEW c \in Cpus, NEW f \in {"min", "max"}, c < seen[d], CoreApplied(d, c, f)
          PROVE  CoreApplied(d, c, f)'
      <4>1. CASE SocketOf(c) = s
        <5>1. PICK i \in DOMAIN Package[s] : Package[s][i] = c
          BY <4>1, SocketOfACpu DEF CpusOf
        <5>2. i \in DOMAIN l /\ l[i] = c
          BY <1>1, <3>1, <5>1, SeenOfASocket DEF l
        <5>3. /\ 2 * i - 1 \in DOMAIN writes'[d] /\ 2 * i \in DOMAIN writes'[d]
              /\ writes'[d][2 * i - 1].file = "max" /\ writes'[d][2 * i - 1].cpu = c
              /\ writes'[d][2 * i].file = "min" /\ writes'[d][2 * i].cpu = c
          BY <2>6, <5>2 DEF Traverses
        <5>4. QED
          BY <5>3, Zenon DEF CoreApplied
      <4>2. CASE Value(limits[c], f) = Clamp(last_core[d], Hw)
        BY <1>1, <4>2 DEF CoreApplied
      <4>3. ASSUME NEW k \in DOMAIN calls[d], SocketOf(c) # s,
                   calls[d][k].op = "set_core" /\ calls[d][k].socket = SocketOf(c)
            PROVE  CoreApplied(d, c, f)'
        <5>1. Left(calls[d][k])
          BY <1>5, <2>1, <4>3
        <5>2. QED
          BY <4>3, <5>1 DEF CoreApplied
      <4>4. QED
        BY <1>6, <3>1, <4>1, <4>2, <4>3 DEF CoreApplied
    <3>2. online \subseteq Cpus
      BY DEF TypeOK
    <3>3. QED
      BY <1>1, <3>1, <3>2 DEF InControl, CoresApplied
  <2>10. QED
    BY <1>3, <1>9, <2>1, <2>7, <2>8, <2>9 DEF InControl, h
<1>14. QED
  BY <1>10, <1>11, <1>12, <1>13

(* A turn of the loop asks the same of every socket, socket 0 first. *)
Asks(q, f) ==
  /\ q \in Seq(Call) /\ q # <<>> /\ q[1] = f[0]
  /\ \A k \in DOMAIN q : \E s \in Sockets : q[k] = f[s]
  /\ \A s \in Sockets : \E k \in DOMAIN q : q[k] = f[s]

LEMMA ForEachAsks ==
  ASSUME NEW f \in [Sockets -> Call]
  PROVE  Asks(ForEachSocket(f), f)
<1>1. /\ ForEachSocket(f) \in Seq(Call) /\ DOMAIN ForEachSocket(f) = 1..NumSockets
      /\ \A i \in 1..NumSockets : ForEachSocket(f)[i] = f[i - 1]
      /\ \A s \in Sockets : s + 1 \in DOMAIN ForEachSocket(f) /\ ForEachSocket(f)[s + 1] = f[s]
  BY ForEachSocketIs
<1>2. 0 \in Sockets /\ \A i \in 1..NumSockets : i - 1 \in Sockets
  BY Machine
<1>3. 1 \in DOMAIN ForEachSocket(f) /\ ForEachSocket(f)[1] = f[0]
  <2>1. 0 + 1 \in DOMAIN ForEachSocket(f) /\ ForEachSocket(f)[0 + 1] = f[0]
    BY <1>1, <1>2
  <2>2. QED
    BY <2>1
<1> DEFINE q == ForEachSocket(f)
<1>4. /\ q \in Seq(Call) /\ DOMAIN q = 1..NumSockets /\ q[1] = f[0] /\ 1 \in DOMAIN q
      /\ \A i \in 1..NumSockets : q[i] = f[i - 1] /\ i - 1 \in Sockets
      /\ \A s \in Sockets : s + 1 \in DOMAIN q /\ q[s + 1] = f[s]
  BY <1>1, <1>2, <1>3
<1> HIDE DEF q
<1>5. Asks(q, f)
  <2>1. q # <<>>
    BY <1>4
  <2>2. \A k \in DOMAIN q : \E s \in Sockets : q[k] = f[s]
    BY <1>4
  <2>3. \A s \in Sockets : \E k \in DOMAIN q : q[k] = f[s]
    BY <1>4
  <2>4. QED
    BY <1>4, <2>1, <2>2, <2>3 DEF Asks
<1>6. QED
  BY <1>5 DEF q

LEMMA PartsOf ==
  ASSUME NEW a \in Seq(Call), NEW b \in Seq(Call)
  PROVE  /\ a \o b \in Seq(Call)
         /\ a # <<>> => 1 \in DOMAIN (a \o b) /\ (a \o b)[1] = a[1]
         /\ \A k \in DOMAIN (a \o b) : \/ k \in DOMAIN a /\ (a \o b)[k] = a[k]
                                       \/ k - Len(a) \in DOMAIN b /\ (a \o b)[k] = b[k - Len(a)]
         /\ \A k \in DOMAIN a : k \in DOMAIN (a \o b) /\ (a \o b)[k] = a[k]
         /\ \A k \in DOMAIN b : k + Len(a) \in DOMAIN (a \o b) /\ (a \o b)[k + Len(a)] = b[k]
<1>1. Len(a) \in Nat /\ Len(b) \in Nat /\ DOMAIN a = 1..Len(a) /\ DOMAIN b = 1..Len(b)
  OBVIOUS
<1>2. /\ a \o b \in Seq(Call) /\ Len(a \o b) = Len(a) + Len(b)
      /\ \A i \in 1 .. Len(a) + Len(b) :
           (a \o b)[i] = IF i <= Len(a) THEN a[i] ELSE b[i - Len(a)]
  BY ConcatProperties
<1>3. DOMAIN (a \o b) = 1 .. Len(a) + Len(b)
  BY <1>2
<1>4. a # <<>> => Len(a) > 0
  BY <1>1
<1> DEFINE c == a \o b
<1> HIDE DEF c
<1>5. /\ a # <<>> => 1 \in DOMAIN c /\ c[1] = a[1]
      /\ \A k \in DOMAIN c : \/ k \in DOMAIN a /\ c[k] = a[k]
                             \/ k - Len(a) \in DOMAIN b /\ c[k] = b[k - Len(a)]
      /\ \A k \in DOMAIN a : k \in DOMAIN c /\ c[k] = a[k]
      /\ \A k \in DOMAIN b : k + Len(a) \in DOMAIN c /\ c[k + Len(a)] = b[k]
  <2>1. /\ DOMAIN c = 1 .. Len(a) + Len(b)
        /\ \A i \in 1 .. Len(a) + Len(b) : c[i] = IF i <= Len(a) THEN a[i] ELSE b[i - Len(a)]
    BY <1>2, <1>3 DEF c
  <2>2. QED
    BY <1>1, <1>4, <2>1
<1>6. QED
  BY <1>2, <1>5 DEF c

\* What the model asks of the cores, or of the uncores, after this turn.
AskedCores(d, a, core) ==
  \/ core /\ last_core'[d] \in Predictions /\ Asks(a, [s \in Sockets |-> SetSocket(last_core'[d], s)])
  \/ ~core /\ last_core'[d] = last_core[d] /\ a = <<>>
AskedUncores(d, b, un) ==
  \/ un /\ last_uncore'[d] \in Predictions /\ Asks(b, [s \in Sockets |-> SetUncore(last_uncore'[d], s)])
  \/ ~un /\ last_uncore'[d] = last_uncore[d] /\ b = <<>>

LEMMA PredictAsks ==
  ASSUME TypeOK, NEW d \in Daemons, Predict(d)
  PROVE  \E a, b \in Seq(Call), core, un \in BOOLEAN :
           calls'[d] = a \o b /\ AskedCores(d, a, core) /\ AskedUncores(d, b, un)
<1>1. d \in Programs /\ Predictions \subseteq Nat \ {0}
  BY FrequencyAssumption DEF FrequencyAssumption, Programs
<1>2. PICK out \in Outputs :
        LET core   == Len(out) >= 1 /\ Wanted(out[1], last_core[d])
            un     == Len(out) >= 2 /\ Wanted(out[2], last_uncore[d])
        IN  /\ calls' = [calls EXCEPT ![d] =
              (IF core THEN ForEachSocket([s \in Sockets |-> SetSocket(out[1], s)]) ELSE <<>>)
              \o (IF un THEN ForEachSocket([s \in Sockets |-> SetUncore(out[2], s)]) ELSE <<>>)]
            /\ last_core'   = [last_core EXCEPT ![d] = IF Len(out) >= 1 THEN Applied(out[1], @) ELSE @]
            /\ last_uncore' = [last_uncore EXCEPT ![d] = IF Len(out) >= 2 THEN Applied(out[2], @) ELSE @]
  BY Zenon DEF Predict
<1> DEFINE core == Len(out) >= 1 /\ Wanted(out[1], last_core[d])
           un   == Len(out) >= 2 /\ Wanted(out[2], last_uncore[d])
           a == IF core THEN ForEachSocket([s \in Sockets |-> SetSocket(out[1], s)]) ELSE <<>>
           b == IF un THEN ForEachSocket([s \in Sockets |-> SetUncore(out[2], s)]) ELSE <<>>
<1>3. /\ core => out[1] \in Predictions /\ out[1] \in Int
      /\ un => out[2] \in Predictions /\ out[2] \in Nat
  <2>1. \A x \in Predictions \union {0} : x > 0 => x \in Predictions /\ x \in Int /\ x \in Nat
    BY <1>1
  <2>2. core => out[1] \in Predictions \union {0} /\ out[1] > 0
    BY OutputsAre DEF Wanted
  <2>3. un => out[2] \in Predictions \union {0} /\ out[2] > 0
    BY OutputsAre DEF Wanted
  <2>4. QED
    BY <2>1, <2>2, <2>3
<1>4. /\ last_core'[d] = IF core THEN out[1] ELSE last_core[d]
      /\ last_uncore'[d] = IF un THEN out[2] ELSE last_uncore[d]
  BY <1>2 DEF TypeOK, Applied
<1>5. calls'[d] = a \o b
  <2>1. calls' = [calls EXCEPT ![d] = a \o b]
    BY <1>2
  <2> HIDE DEF a, b
  <2>2. QED
    BY <1>1, <2>1 DEF TypeOK
<1>6. AskedCores(d, a, core) /\ a \in Seq(Call)
  <2>1. CASE core
    <3> DEFINE f == [s \in Sockets |-> SetSocket(out[1], s)]
    <3>1. f \in [Sockets -> Call]
      BY <1>3, <2>1, CallsAreCalls
    <3>2. Asks(ForEachSocket(f), f)
      <4> HIDE DEF f
      <4>1. QED
        BY <3>1, ForEachAsks
    <3>3. a = ForEachSocket(f) /\ last_core'[d] = out[1] /\ out[1] \in Predictions
      BY <1>3, <1>4, <2>1, Zenon
    <3>4. f = [s \in Sockets |-> SetSocket(last_core'[d], s)]
      BY <3>3
    <3> HIDE DEF f, a, core
    <3>5. Asks(a, [s \in Sockets |-> SetSocket(last_core'[d], s)]) /\ a \in Seq(Call)
      BY <3>2, <3>3, <3>4 DEF Asks
    <3>6. QED
      BY <2>1, <3>3, <3>5, Zenon DEF AskedCores
  <2>2. CASE ~core
    <3>1. a = <<>> /\ last_core'[d] = last_core[d]
      BY <1>4, <2>2, Zenon
    <3> HIDE DEF core, a
    <3>2. QED
      BY <2>2, <3>1 DEF AskedCores
  <2>3. QED
    BY <2>1, <2>2
<1>7. AskedUncores(d, b, un) /\ b \in Seq(Call)
  <2>1. CASE un
    <3> DEFINE f == [s \in Sockets |-> SetUncore(out[2], s)]
    <3>1. f \in [Sockets -> Call]
      BY <1>3, <2>1, CallsAreCalls
    <3>2. Asks(ForEachSocket(f), f)
      <4> HIDE DEF f
      <4>1. QED
        BY <3>1, ForEachAsks
    <3>3. b = ForEachSocket(f) /\ last_uncore'[d] = out[2] /\ out[2] \in Predictions
      BY <1>3, <1>4, <2>1, Zenon
    <3>4. f = [s \in Sockets |-> SetUncore(last_uncore'[d], s)]
      BY <3>3
    <3> HIDE DEF f, b, un
    <3>5. Asks(b, [s \in Sockets |-> SetUncore(last_uncore'[d], s)]) /\ b \in Seq(Call)
      BY <3>2, <3>3, <3>4 DEF Asks
    <3>6. QED
      BY <2>1, <3>3, <3>5, Zenon DEF AskedUncores
  <2>2. CASE ~un
    <3>1. b = <<>> /\ last_uncore'[d] = last_uncore[d]
      BY <1>4, <2>2, Zenon
    <3> HIDE DEF un, b
    <3>2. QED
      BY <2>2, <3>1 DEF AskedUncores
  <2>3. QED
    BY <2>1, <2>2
<1>8. core \in BOOLEAN /\ un \in BOOLEAN
  BY DEF Wanted
<1> HIDE DEF a, b, core, un
<1>9. QED
  BY <1>5, <1>6, <1>7, <1>8, Zenon

LEMMA ControlPredict ==
  ASSUME TypeOK, NEW d \in Daemons, InControl(d), Predict(d)
  PROVE  InControl(d)'
<1>1. /\ d \in Programs /\ calls[d] = <<>> /\ writes[d] = <<>> /\ phase'[d] # "off"
      /\ UNCHANGED <<limits, uncore, online, seen, writes, range>>
  BY DEF Predict, Idle, Programs, hardware
<1>2. PICK a \in Seq(Call), b \in Seq(Call), core \in BOOLEAN, un \in BOOLEAN :
        calls'[d] = a \o b /\ AskedCores(d, a, core) /\ AskedUncores(d, b, un)
  BY PredictAsks
<1> DEFINE f == [s \in Sockets |-> SetSocket(last_core'[d], s)]
           g == [s \in Sockets |-> SetUncore(last_uncore'[d], s)]
<1>3. \A s \in Sockets :
        /\ f[s].op = "set_core" /\ f[s].socket = s /\ f[s] = SetSocket(last_core'[d], s)
        /\ g[s].op = "set_uncore" /\ g[s].socket = s /\ g[s] = SetUncore(last_uncore'[d], s)
  BY DEF SetSocket, SetCore, SetUncore
<1>4. /\ core => Asks(a, f)
      /\ ~core => last_core'[d] = last_core[d] /\ a = <<>>
      /\ un => Asks(b, g)
      /\ ~un => last_uncore'[d] = last_uncore[d] /\ b = <<>>
  BY <1>2 DEF AskedCores, AskedUncores
<1> HIDE DEF f, g
<1> DEFINE q == calls'[d]
<1>5. /\ a # <<>> => 1 \in DOMAIN q /\ q[1] = a[1] /\ q # <<>>
      /\ q \in Seq(Call)
      /\ \A k \in DOMAIN q : \/ k \in DOMAIN a /\ q[k] = a[k]
                             \/ k - Len(a) \in DOMAIN b /\ q[k] = b[k - Len(a)]
      /\ \A k \in DOMAIN a : k \in DOMAIN q /\ q[k] = a[k]
      /\ \A k \in DOMAIN b : k + Len(a) \in DOMAIN q /\ q[k + Len(a)] = b[k]
  BY <1>2, PartsOf
<1> HIDE DEF q
<1>6. /\ \A k \in DOMAIN a : \E s \in Sockets : core /\ a[k] = f[s]
      /\ \A k \in DOMAIN b : \E s \in Sockets : un /\ b[k] = g[s]
  <2>1. \A k \in DOMAIN a : \E s \in Sockets : core /\ a[k] = f[s]
    <3>1. CASE core
      BY <1>4, <3>1 DEF Asks
    <3>2. CASE ~core
      BY <1>4, <3>2
    <3>3. QED
      BY <3>1, <3>2
  <2>2. \A k \in DOMAIN b : \E s \in Sockets : un /\ b[k] = g[s]
    <3>1. CASE un
      BY <1>4, <3>1 DEF Asks
    <3>2. CASE ~un
      BY <1>4, <3>2
    <3>3. QED
      BY <3>1, <3>2
  <2>3. QED
    BY <2>1, <2>2
<1>7. Calling(d)'
  <2>1. ASSUME NEW k \in DOMAIN q
        PROVE  (\E s \in Sockets : q[k] = f[s]) \/ (\E s \in Sockets : q[k] = g[s])
    <3>1. \/ k \in DOMAIN a /\ q[k] = a[k]
          \/ k - Len(a) \in DOMAIN b /\ q[k] = b[k - Len(a)]
      BY <1>5
    <3>2. QED
      BY <1>6, <3>1
  <2>2. QED
    BY <1>3, <2>1 DEF Calling, q
<1>8. Writing(d)' /\ Fresh(d)'
  BY <1>1 DEF Writing, Fresh
<1>9. RangeKnown(d)'
  <2>1. CASE core
    <3>1. q # <<>> /\ q[1] = f[0] /\ 0 \in Sockets
      BY <1>4, <1>5, <2>1, Machine DEF Asks
    <3>2. q # <<>> /\ Head(q).op = "set_core" /\ Head(q).socket = 0
      BY <1>3, <1>5, <3>1
    <3>3. QED
      BY <1>1, <3>2 DEF InControl, RangeKnown, q
  <2>2. CASE ~core
    <3>1. ASSUME NEW k \in DOMAIN q PROVE q[k].op # "set_core"
      <4>1. \/ k \in DOMAIN a /\ q[k] = a[k]
            \/ k - Len(a) \in DOMAIN b /\ q[k] = b[k - Len(a)]
        BY <1>5
      <4>2. PICK s \in Sockets : q[k] = g[s]
        BY <1>6, <2>2, <4>1
      <4>3. QED
        BY <1>3, <4>2
    <3>2. QED
      BY <1>1, <3>1 DEF InControl, RangeKnown, q
  <2>3. QED
    BY <2>1, <2>2
<1>10. CoresApplied(d)'
  <2>1. CASE core
    <3>1. ASSUME NEW c \in Cpus
          PROVE  \E k \in DOMAIN q : q[k].op = "set_core" /\ q[k].socket = SocketOf(c)
      <4>1. SocketOf(c) \in Sockets
        BY SocketOfACpu
      <4>2. PICK k \in DOMAIN a : a[k] = f[SocketOf(c)]
        BY <1>4, <2>1, <4>1 DEF Asks
      <4>3. k \in DOMAIN q /\ q[k] = f[SocketOf(c)]
        BY <1>5, <4>2
      <4>4. QED
        BY <1>3, <4>1, <4>3
    <3>2. QED
      BY <1>1, <3>1 DEF TypeOK, CoresApplied, CoreApplied, q
  <2>2. CASE ~core
    <3>1. last_core'[d] = last_core[d]
      BY <1>4, <2>2
    <3>2. QED
      BY <1>1, <3>1 DEF InControl, CoresApplied, CoreApplied
  <2>3. QED
    BY <2>1, <2>2
<1>11. UncoresApplied(d)'
  <2>1. CASE un
    <3>1. ASSUME NEW s \in Sockets
          PROVE  \E k \in DOMAIN q : q[k].op = "set_uncore" /\ q[k].socket = s
      <4>1. PICK k \in DOMAIN b : b[k] = g[s]
        BY <1>4, <2>1 DEF Asks
      <4>2. k + Len(a) \in DOMAIN q /\ q[k + Len(a)] = g[s]
        BY <1>5, <4>1
      <4>3. QED
        BY <1>3, <4>2
    <3>2. QED
      BY <3>1 DEF UncoresApplied, UncoreApplied, q
  <2>2. CASE ~un
    <3>1. last_uncore'[d] = last_uncore[d]
      BY <1>4, <2>2
    <3>2. QED
      BY <1>1, <3>1 DEF InControl, UncoresApplied, UncoreApplied
  <2>3. QED
    BY <2>1, <2>2
<1>12. QED
  BY <1>7, <1>8, <1>9, <1>10, <1>11 DEF InControl

(* As long as the other programs are off, a daemon that has not ended was alone
   before, and nobody but the daemon itself and the one who unplugs takes a step. *)
LEMMA AloneStep ==
  ASSUME TypeOK, [Next]_vars, NEW d \in Daemons, Alone(d)', phase'[d] \in {"off", "running"}
  PROVE  /\ Alone(d) /\ phase[d] \in {"off", "running"}
         /\ \/ UNCHANGED vars
            \/ \E c \in MayUnplug : Unplug(c)
            \/ Construct(d) \/ Predict(d)
            \/ phase[d] = "running" /\ (Begin(d) \/ Write(d))
<1>1. d \in Programs
  BY DEF Programs
<1>2. CASE UNCHANGED vars
  BY <1>2 DEF vars, program, Alone
<1>3. CASE \E c \in MayUnplug : Unplug(c)
  BY <1>3 DEF Unplug, program, Alone
<1>4. ASSUME NEW p \in Programs, p # d,
             Begin(p) \/ Fail(p) \/ Write(p) \/ Construct(p) \/ Leave(p) \/ Gone(p)
               \/ (p \in Daemons /\ (Predict(p) \/ signal_handler(p))) \/ (p \in Tools /\ Use(p))
      PROVE  FALSE
  <2>1. phase'[p] = "off"
    BY <1>4 DEF Alone
  <2>2. phase'[p] # "off"
    BY <1>4 DEF Begin, Fail, Write, Alive, Construct, Leave, Gone, Predict, Use, Idle, signal_handler, TypeOK
  <2>3. QED
    BY <2>1, <2>2
<1>5. ASSUME Begin(d) \/ Write(d) \/ Construct(d) \/ Predict(d)
      PROVE  /\ Alone(d) /\ phase[d] \in {"off", "running"}
             /\ Begin(d) \/ Write(d) => phase[d] = "running"
  <2>1. Alone(d)
    BY <1>1, <1>5, OneProgram DEF Alone, Kept
  <2>2. phase[d] \in {"off", "running"} /\ (Begin(d) \/ Write(d) => phase[d] = "running")
    BY <1>1, <1>5 DEF Begin, Write, Construct, Predict, Idle, Alive, TypeOK
  <2>3. QED
    BY <2>1, <2>2
<1>6. ~Leave(d) /\ ~Gone(d) /\ ~Fail(d) /\ ~signal_handler(d) /\ ~(d \in Tools /\ Use(d))
  <2>1. d \notin Tools
    BY FrequencyAssumption DEF FrequencyAssumption
  <2>2. QED
    BY <1>1, <2>1 DEF Leave, Gone, Fail, signal_handler, TypeOK
<1>7. QED
  BY <1>2, <1>3, <1>4, <1>5, <1>6 DEF Next, Programs

LEMMA ControlStep == ASSUME TypeOK, DaemonsInControl, [Next]_vars PROVE DaemonsInControl'
<1> SUFFICES ASSUME NEW d \in Daemons, Alone(d)', phase'[d] \in {"off", "running"}
             PROVE  InControl(d)'
  BY DEF DaemonsInControl
<1>1. InControl(d)
  BY AloneStep DEF DaemonsInControl
<1>2. CASE UNCHANGED vars
  BY <1>1, <1>2
  DEF vars, hardware, program, InControl, Fresh, RangeKnown, Calling, Writing,
      CoresApplied, UncoresApplied, CoreApplied, UncoreApplied
<1>3. QED
  BY <1>1, <1>2, AloneStep, ControlConstruct, ControlUnplug, ControlWrite, ControlBegin, ControlPredict

LEMMA InForceFrom == ASSUME TypeOK, DaemonsInControl PROVE LastAppliedInForce
<1> SUFFICES ASSUME NEW d \in Daemons, Idle(d), \A p \in Programs \ {d} : phase[p] = "off"
             PROVE  /\ last_core[d] > 0 => \A c \in online : c < seen[d] =>
                         limits[c] = [min |-> Clamp(last_core[d], Hw), max |-> Clamp(last_core[d], Hw)]
                    /\ last_uncore[d] > 0 => \A s \in Sockets : s \in online =>
                         uncore[SocketOf(s)] = [min |-> last_uncore[d], max |-> last_uncore[d]]
  BY DEF LastAppliedInForce
<1>1. InControl(d) /\ calls[d] = <<>> /\ writes[d] = <<>>
  BY DEF DaemonsInControl, Alone, Idle
<1> DEFINE v == Clamp(last_core[d], Hw)
<1>2. ASSUME last_core[d] > 0, NEW c \in online, c < seen[d] PROVE limits[c] = [min |-> v, max |-> v]
  <2>1. \A f \in {"min", "max"} : Value(limits[c], f) = v
    BY <1>1, <1>2 DEF InControl, CoresApplied, CoreApplied
  <2>2. limits[c] \in [min : HwMin..HwMax, max : HwMin..HwMax]
    BY DEF TypeOK
  <2> HIDE DEF v
  <2>3. QED
    BY <2>1, <2>2 DEF Value
<1>3. ASSUME last_uncore[d] > 0, NEW s \in Sockets, s \in online
      PROVE  uncore[SocketOf(s)] = [min |-> last_uncore[d], max |-> last_uncore[d]]
  BY <1>1, <1>3 DEF InControl, UncoresApplied, UncoreApplied, Same
<1>4. QED
  BY <1>2, <1>3

(* A daemon that is alone on the machine and waits has what it remembers in
   force, on the CPUs it listed at its start: every turn of its loop compares a prediction with what is really set. *)
THEOREM RemembersWhatIsSet == Spec => []LastAppliedInForce
<1> DEFINE Inv == TypeOK /\ DaemonsInControl
<1>1. Init => Inv
  <2>1. SUFFICES ASSUME Init PROVE Inv
    OBVIOUS
  <2>2. ASSUME NEW d \in Daemons PROVE InControl(d)
    <3>1. d \in Programs /\ 0 \in online /\ \A f \in Forms : range[d][f] = Unread
      BY <2>1, Machine DEF Init, Programs
    <3>2. /\ last_core[d] = -1 /\ last_uncore[d] = -1 /\ calls[d] = <<>> /\ writes[d] = <<>>
      BY <2>1, <3>1 DEF Init
    <3>3. RangeKnown(d)
      BY <3>1, <3>2 DEF RangeKnown, Forms
    <3>4. QED
      BY <3>2, <3>3 DEF InControl, Fresh, Calling, Writing, CoresApplied, UncoresApplied
  <2>3. QED
    BY <2>1, <2>2, TypeInit DEF DaemonsInControl
<1>2. Inv /\ [Next]_vars => Inv'
  BY TypeStep, ControlStep
<1>3. Inv => LastAppliedInForce
  BY InForceFrom
<1>4. QED
  BY <1>1, <1>2, <1>3, PTL DEF Spec
=============================================================================
