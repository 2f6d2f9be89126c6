---------------------------- MODULE SequenceFacts ----------------------------
(***************************************************************************)
(* What the community modules' operators on sequences return, for every    *)
(* sequence.  Each is a recursive function, so its properties are shown by *)
(* induction: a place where one fails would have a first such place.       *)
(***************************************************************************)
EXTENDS Integers, Sequences, SequencesExt, SequenceTheorems, WellFoundedInduction, TLAPS

(* A set of natural numbers with an element has a least one. *)
LEMMA LeastElement ==
  ASSUME NEW T \in SUBSET Nat, NEW k \in T
  PROVE  \E m \in T : \A n \in T : m <= n
<1> DEFINE R == OpToRel(<, Nat)
<1>1. IsWellFoundedOn(R, Nat)
  BY NatLessThanWellFounded
<1>2. \A x, y \in Nat : x < y => <<x, y>> \in R
  BY DEF OpToRel
<1> HIDE DEF R
<1>3. PICK m \in T : \A y \in T : ~(<<y, m>> \in R)
  BY <1>1, WFMin
<1>4. \A n \in T : ~(n < m)
  BY <1>2, <1>3
<1>5. QED
  BY <1>4

-----------------------------------------------------------------------------
(* FlattenSeq                                                              *)

Flattens(ss, n, f) ==
  f = [i \in 1..n |-> IF i = 1 THEN ss[i] ELSE f[i - 1] \o ss[i]]

LEMMA FlattenExists ==
  ASSUME NEW ss, NEW n \in Nat
  PROVE  \E f : Flattens(ss, n, f)
<1> DEFINE Bad == {m \in Nat : ~ \E f : Flattens(ss, m, f)}
<1>1. SUFFICES ASSUME n \in Bad PROVE FALSE
  OBVIOUS
<1>2. PICK m \in Bad : \A k \in Bad : m <= k
  BY <1>1, LeastElement
<1>3. CASE m = 0
  <2>1. Flattens(ss, 0, [i \in 1..0 |-> ss[i]])
    BY DEF Flattens
  <2>2. QED
    BY <1>2, <1>3, <2>1
<1>4. CASE m > 0
  <2>1. PICK f : Flattens(ss, m - 1, f)
    BY <1>2, <1>4
  <2> DEFINE g == [i \in 1..m |->
                     IF i = m THEN IF m = 1 THEN ss[1] ELSE f[m - 1] \o ss[m] ELSE f[i]]
  <2>2. \A i \in 1..m - 1 : f[i] = IF i = 1 THEN ss[i] ELSE f[i - 1] \o ss[i]
    BY <2>1 DEF Flattens
  <2>3. \A i \in 1..m : g[i] = IF i = 1 THEN ss[i] ELSE g[i - 1] \o ss[i]
    BY <1>4, <2>2
  <2>4. Flattens(ss, m, g)
    BY <2>3 DEF Flattens
  <2>5. QED
    BY <1>2, <2>4
<1>5. QED
  BY <1>2, <1>3, <1>4

(* What the first m sequences of ss make: whole is made of their elements. *)
Collects(ss, m, whole, S) ==
  /\ whole \in Seq(S)
  /\ \A k \in DOMAIN whole : \E i \in 1..m : \E j \in DOMAIN ss[i] : whole[k] = ss[i][j]
  /\ \A i \in 1..m : \A j \in DOMAIN ss[i] : \E k \in DOMAIN whole : whole[k] = ss[i][j]

LEMMA CollectsNext ==
  ASSUME NEW S, NEW ss, NEW m \in Nat, m > 1, NEW a,
         Collects(ss, m - 1, a, S), ss[m] \in Seq(S)
  PROVE  Collects(ss, m, a \o ss[m], S)
<1> DEFINE b == ss[m]
           c == a \o b
<1>1. a \in Seq(S) /\ b \in Seq(S)
  BY DEF Collects
<1>2. /\ c \in Seq(S) /\ Len(a) \in Nat /\ Len(b) \in Nat
      /\ DOMAIN a = 1..Len(a) /\ DOMAIN b = 1..Len(b) /\ DOMAIN c = 1..(Len(a) + Len(b))
      /\ \A k \in 1..(Len(a) + Len(b)) : c[k] = IF k <= Len(a) THEN a[k] ELSE b[k - Len(a)]
  <2> HIDE DEF b
  <2>1. QED
    BY <1>1, ConcatProperties
<1> HIDE DEF c
<1>3. ASSUME NEW k \in DOMAIN c
      PROVE  \E i \in 1..m : \E j \in DOMAIN ss[i] : c[k] = ss[i][j]
  <2>1. CASE k <= Len(a)
    <3>1. k \in DOMAIN a /\ c[k] = a[k]
      BY <1>2, <2>1
    <3>2. PICK i \in 1..m - 1 : \E j \in DOMAIN ss[i] : a[k] = ss[i][j]
      BY <3>1 DEF Collects
    <3>3. QED
      BY <3>1, <3>2
  <2>2. CASE k > Len(a)
    <3>1. k - Len(a) \in DOMAIN b /\ c[k] = b[k - Len(a)]
      <4> HIDE DEF b
      <4>1. QED
        BY <1>2, <2>2
    <3>2. QED
      BY <3>1
  <2>3. QED
    BY <2>1, <2>2, <1>2
<1>4. ASSUME NEW i \in 1..m, NEW j \in DOMAIN ss[i]
      PROVE  \E k \in DOMAIN c : c[k] = ss[i][j]
  <2>1. CASE i = m
    <3>1. j \in DOMAIN b
      BY <2>1
    <3>2. Len(a) + j \in DOMAIN c /\ c[Len(a) + j] = b[j]
      <4> HIDE DEF b
      <4>1. QED
        BY <1>2, <3>1
    <3>3. QED
      BY <3>2, <2>1
  <2>2. CASE i # m
    <3>1. i \in 1..m - 1
      BY <2>2
    <3>2. PICK k \in DOMAIN a : a[k] = ss[i][j]
      BY <3>1 DEF Collects
    <3>3. k \in DOMAIN c /\ c[k] = a[k]
      BY <1>2
    <3>4. QED
      BY <3>2, <3>3
  <2>3. QED
    BY <2>1, <2>2
<1>5. QED
  BY <1>2, <1>3, <1>4 DEF Collects, c

(* Every element of the sequences is in the whole, and nothing else. *)
LEMMA FlattenSeqElements ==
  ASSUME NEW S, NEW ss \in Seq(Seq(S))
  PROVE  /\ FlattenSeq(ss) \in Seq(S)
         /\ \A k \in DOMAIN FlattenSeq(ss) :
              \E i \in DOMAIN ss : \E j \in DOMAIN ss[i] : FlattenSeq(ss)[k] = ss[i][j]
         /\ \A i \in DOMAIN ss : \A j \in DOMAIN ss[i] :
              \E k \in DOMAIN FlattenSeq(ss) : FlattenSeq(ss)[k] = ss[i][j]
<1>1. CASE Len(ss) = 0
  <2>1. FlattenSeq(ss) = ss /\ ss = <<>>
    BY <1>1 DEF FlattenSeq
  <2>2. QED
    BY <2>1
<1>2. CASE Len(ss) # 0
  <2> DEFINE n == Len(ss)
             f == CHOOSE g : Flattens(ss, n, g)
  <2>1. n \in Nat /\ n >= 1 /\ DOMAIN ss = 1..n /\ \A i \in 1..n : ss[i] \in Seq(S)
    BY <1>2
  <2>2. Flattens(ss, n, f)
    BY <2>1, FlattenExists
  <2>3. FlattenSeq(ss) = f[n]
    BY <1>2 DEF FlattenSeq, Flattens
  <2> HIDE DEF f, n
  <2>4. \A i \in 1..n : f[i] = IF i = 1 THEN ss[i] ELSE f[i - 1] \o ss[i]
    BY <2>2 DEF Flattens
  <2> DEFINE Good(m) == Collects(ss, m, f[m], S)
             Bad == {m \in 1..n : ~Good(m)}
  <2>5. Good(1)
    BY <2>1, <2>4 DEF Collects
  <2>6. ASSUME NEW m \in 1..n, m > 1, Good(m - 1) PROVE Good(m)
    <3>1. m \in Nat /\ m - 1 \in 1..n /\ ss[m] \in Seq(S)
      BY <2>1, m > 1
    <3> HIDE DEF Good
    <3>2. f[m] = f[m - 1] \o ss[m]
      <4>1. f[m] = IF m = 1 THEN ss[m] ELSE f[m - 1] \o ss[m]
        BY <2>4
      <4>2. m # 1
        BY <3>1, <2>6
      <4>3. QED
        BY <4>1, <4>2
    <3>3. QED
      BY <3>1, <3>2, <2>6, CollectsNext DEF Good
  <2> HIDE DEF Good
  <2>7. ASSUME NEW x \in Bad PROVE FALSE
    <3>1. Bad \in SUBSET Nat
      BY <2>1
    <3>2. PICK m \in Bad : \A k \in Bad : m <= k
      BY <3>1, <2>7, LeastElement
    <3>3. m \in 1..n /\ m > 1 /\ m - 1 \in 1..n
      BY <3>2, <2>5, <2>1
    <3>4. Good(m - 1)
      BY <3>2, <3>3
    <3>5. QED
      BY <3>2, <3>3, <3>4, <2>6
  <2>8. Good(n)
    BY <2>1, <2>7
  <2>9. Collects(ss, n, FlattenSeq(ss), S)
    BY <2>8, <2>3 DEF Good
  <2>10. QED
    BY <2>9, <2>1 DEF Collects
<1>3. QED
  BY <1>1, <1>2
=============================================================================
