-------------------------- MODULE ResultFileProofs --------------------------
(***************************************************************************)
(* What the result file promises for any number of writers, processes,     *)
(* results and faults: a step takes nothing from it but the bracket at its *)
(* end; what is saved is there once and in its place; it is an array but   *)
(* for what faults have cost; and it implements a journal.                 *)
(***************************************************************************)
EXTENDS ResultFile, SequenceFacts, FiniteSetTheorems

(* Without overlap one writer at a time is inside. *)
Exclusive ==
  ~overlap => \A v, w \in Writers : Inside(v) /\ Inside(w) => v = w

(* What a writer saw of the file before it cuts. *)
SawABracket ==
  \A w \in Writers :
    pc[w] = "cut" =>
      /\ at[w] >= 1
      /\ ~overlap => at[w] = Len(file) /\ file[Len(file)] = Close

IInv == TypeOK /\ Exclusive /\ SawABracket

-----------------------------------------------------------------------------
(* The texts are sequences of tokens. *)

LEMMA ResultsAreTokens == ASSUME NEW rs \in Seq(Results) PROVE rs \in Seq(Tokens)
BY SeqMonotonic DEF Tokens

LEMMA MarksAreTokens ==
  /\ Open \in Tokens /\ Close \in Tokens /\ Comma \in Tokens
  /\ Nul \in Tokens /\ Torn \in Tokens
BY DEF Tokens, Marks

LEMMA PartsAreText == \A part \in PartsOfAResult : part \in Seq(Tokens)
<1>1. <<Torn>> \in Seq(Tokens) /\ <<Torn, Close>> \in Seq(Tokens)
  BY MarksAreTokens
<1>2. QED
  BY <1>1, Zenon DEF PartsOfAResult

LEMMA NewResults ==
  ASSUME NEW m \in Nat, NEW n \in Nat
  PROVE  [i \in 1 .. n |-> m + i] \in Seq(Results)
<1>1. [i \in 1 .. n |-> m + i] \in [1 .. n -> Results]
  BY DEF Results
<1>2. QED
  BY <1>1

LEMMA InnerIsText ==
  ASSUME NEW rs \in Seq(Results)
  PROVE  Inner(rs) \in Seq(Tokens)
<1>1. Len(rs) \in Nat
  BY LenProperties
<1>2. CASE Len(rs) = 0
  <2>1. Inner(rs) = <<>>
    BY <1>2 DEF Inner
  <2>2. QED
    BY <2>1
<1>3. CASE Len(rs) # 0
  <2>1. \A i \in 1 .. 2 * Len(rs) - 1 : Inner(rs)[i] \in Tokens
    <3>1. SUFFICES ASSUME NEW i \in 1 .. 2 * Len(rs) - 1, i % 2 = 1
                   PROVE  rs[(i + 1) \div 2] \in Tokens
      BY MarksAreTokens DEF Inner
    <3>2. (i + 1) \div 2 \in 1 .. Len(rs)
      BY <1>1, <3>1
    <3>3. rs[(i + 1) \div 2] \in Results
      BY <3>2, ElementOfSeq
    <3>4. QED
      BY <3>3 DEF Tokens
  <2>2. 2 * Len(rs) - 1 \in Nat
    BY <1>1, <1>3
  <2>3. Inner(rs) \in [1 .. 2 * Len(rs) - 1 -> Tokens]
    BY <2>1 DEF Inner
  <2>4. QED
    BY <2>2, <2>3
<1>4. QED
  BY <1>2, <1>3

LEMMA TextsAreText ==
  ASSUME NEW rs \in Seq(Results), NEW text \in Seq(Tokens)
  PROVE  /\ Array(rs) \in Seq(Tokens)
         /\ Separator(text) \o Inner(rs) \o <<Close>> \in Seq(Tokens)
<1>1. <<Open>> \in Seq(Tokens) /\ <<Close>> \in Seq(Tokens)
      /\ <<Comma>> \in Seq(Tokens) /\ <<Open, Close>> \in Seq(Tokens)
      /\ <<>> \in Seq(Tokens)
  BY MarksAreTokens
<1>2. Inner(rs) \in Seq(Tokens)
  BY InnerIsText
<1>3. Separator(text) \in Seq(Tokens)
  BY <1>1 DEF Separator
<1>4. <<Open>> \o Inner(rs) \in Seq(Tokens)
      /\ Separator(text) \o Inner(rs) \in Seq(Tokens)
  BY <1>1, <1>2, <1>3, ConcatProperties
<1>5. <<Open>> \o Inner(rs) \o <<Close>> \in Seq(Tokens)
      /\ Separator(text) \o Inner(rs) \o <<Close>> \in Seq(Tokens)
  BY <1>1, <1>4, ConcatProperties
<1>6. QED
  BY <1>1, <1>5 DEF Array

LEMMA CloseOfIsAPlace ==
  ASSUME NEW text \in Seq(Tokens)
  PROVE  /\ CloseOf(text) \in Nat
         /\ CloseOf(text) # 0 =>
              /\ CloseOf(text) = Len(text)
              /\ text[Len(text)] = Close
BY LenProperties DEF CloseOf, Last

LEMMA TruncatedIsText ==
  ASSUME NEW text \in Seq(Tokens), NEW size \in Nat
  PROVE  /\ Truncated(text, size) \in Seq(Tokens)
         /\ Len(Truncated(text, size)) = size
         /\ \A i \in 1 .. size : i <= Len(text) => Truncated(text, size)[i] = text[i]
<1>1. \A i \in 1 .. size : Truncated(text, size)[i] \in Tokens
  BY ElementOfSeq, LenProperties, MarksAreTokens DEF Truncated
<1>2. Truncated(text, size) \in [1 .. size -> Tokens]
  BY <1>1 DEF Truncated
<1>3. QED
  BY <1>2 DEF Truncated

(* Writing adds to the file and changes nothing in it. *)
LEMMA AppendingKeeps ==
  ASSUME NEW text \in Seq(Tokens), NEW more \in Seq(Tokens)
  PROVE  /\ text \o more \in Seq(Tokens)
         /\ \A i \in 1 .. Len(text) :
              i <= Len(text \o more) /\ (text \o more)[i] = text[i]
BY ConcatProperties, LenProperties

LEMMA ChunkIsText ==
  ASSUME NEW text \in Seq(Tokens), NEW k \in 1 .. Len(text)
  PROVE  /\ SubSeq(text, 1, k) \in Seq(Tokens)
         /\ SubSeq(text, k + 1, Len(text)) \in Seq(Tokens)
<1>1. Len(text) \in Nat /\ k \in Int /\ k + 1 \in Int /\ 1 \in Int
  BY LenProperties
<1>2. \A i \in 1 .. k : text[i] \in Tokens
  BY <1>1, ElementOfSeq
<1>3. \A i \in k + 1 .. Len(text) : text[i] \in Tokens
  BY <1>1, ElementOfSeq
<1>4. QED
  BY <1>1, <1>2, <1>3, SubSeqProperties

(* A write that ends early only adds to the file. *)
LEMMA TearingKeeps ==
  ASSUME file \in Seq(Tokens), NEW w, MayTear(w)
  PROVE  /\ file' \in Seq(Tokens)
         /\ \A i \in 1 .. Len(file) : i <= Len(file') /\ file'[i] = file[i]
         /\ file' = file \/ pc[w] = "write"
<1>1. CASE file' = file
  BY <1>1, LenProperties
<1>2. CASE pc[w] = "write" /\ \E part \in PartsOfAResult : file' = file \o part
  <2>1. PICK part \in PartsOfAResult : file' = file \o part
    BY <1>2
  <2>2. part \in Seq(Tokens)
    BY PartsAreText
  <2>3. QED
    BY <1>2, <2>1, <2>2, AppendingKeeps
<1>3. QED
  BY <1>1, <1>2 DEF MayTear

-----------------------------------------------------------------------------
LEMMA InitHolds == Init => IInv
<1> SUFFICES ASSUME Init PROVE IInv
  OBVIOUS
<1>1. saved \in Seq(Results) /\ made \in Nat /\ overlap = FALSE /\ faults = 0
  BY FileAssumption, LenProperties DEF FileAssumption, Init
<1>2. file \in Seq(Tokens)
  <2>1. <<>> \in Seq(Tokens)
    OBVIOUS
  <2>2. Array(saved) \in Seq(Tokens)
    BY <1>1, <2>1, TextsAreText
  <2>3. QED
    BY <2>1, <2>2 DEF Init
<1>3. /\ pc = [w \in Writers |-> "idle"] /\ at = [w \in Writers |-> 0]
      /\ rest = [w \in Writers |-> <<>>] /\ mine = [w \in Writers |-> <<>>]
  BY DEF Init
<1>4. TypeOK
  <2>1. <<>> \in Seq(Tokens) /\ <<>> \in Seq(Results)
    OBVIOUS
  <2>2. /\ pc \in [Writers -> {"idle", "look", "cut", "open", "write"}]
        /\ at \in [Writers -> Nat]
    BY <1>3
  <2>3. rest \in [Writers -> Seq(Tokens)] /\ mine \in [Writers -> Seq(Results)]
    BY <1>3, <2>1
  <2>4. QED
    BY <1>1, <1>2, <2>2, <2>3, Zenon DEF TypeOK
<1>5. Exclusive /\ SawABracket
  BY <1>3 DEF Exclusive, SawABracket, Inside
<1>6. QED
  BY <1>4, <1>5 DEF IInv

(* Every step keeps the three facts: one case per action. *)
LEMMA StepHolds == IInv /\ [Next]_vars => IInv'
<1> SUFFICES ASSUME IInv, [Next]_vars PROVE IInv'
  OBVIOUS
<1> USE DEF IInv, TypeOK, Exclusive, SawABracket, Inside, history, vars
<1>1. ASSUME NEW w \in Writers, Enter(w) PROVE IInv'
  <2>1. PICK n \in 1 .. MaxPerSave :
          /\ mine' = [mine EXCEPT ![w] = [i \in 1 .. n |-> made + i]]
          /\ made' = made + n
    BY <1>1 DEF Enter
  <2>2. n \in Nat
    BY FileAssumption DEF FileAssumption
  <2>3. [i \in 1 .. n |-> made + i] \in Seq(Results)
    BY <2>2, NewResults
  <2>4. pc' = [pc EXCEPT ![w] = "look"] /\ UNCHANGED <<file, at, rest, saved, faults>>
    BY <1>1 DEF Enter, Goto
  <2>5. overlap' <=> (overlap \/ \E v \in Writers :
                                    ProcessOf[v] # ProcessOf[w] /\ Inside(v))
    BY <1>1, Zenon DEF Enter
  <2>6. overlap' \in BOOLEAN
    BY <1>1, Zenon DEF Enter
  <2>7. mine' \in [Writers -> Seq(Results)] /\ made' \in Nat
    BY <2>1, <2>2, <2>3
  <2>8. TypeOK'
    BY <2>4, <2>6, <2>7
  <2>9. ~overlap' => \A v \in Writers : ~Inside(v)
    BY <1>1, <2>5 DEF Enter, MutexFree
  <2>10. Exclusive' /\ SawABracket'
    BY <2>4, <2>5, <2>9
  <2>11. QED
    BY <2>8, <2>10
<1>2. ASSUME NEW w \in Writers, Look(w) PROVE IInv'
  <2>1. UNCHANGED <<file, mine, saved, made, overlap>> /\ pc[w] = "look"
    BY <1>2 DEF Look
  <2>2. faults' \in Nat
    BY <1>2 DEF Look
  <2>3. CASE CloseOf(file) # 0 /\ Continue(w)
    <3>1. /\ at' = [at EXCEPT ![w] = CloseOf(file)]
          /\ pc' = [pc EXCEPT ![w] = "cut"]
          /\ rest' = [rest EXCEPT ![w] =
                        Separator(file) \o Inner(mine[w]) \o <<Close>>]
      BY <2>3 DEF Continue, Goto
    <3>2. Separator(file) \o Inner(mine[w]) \o <<Close>> \in Seq(Tokens)
      BY TextsAreText
    <3>3. CloseOf(file) \in Nat /\ CloseOf(file) >= 1
          /\ CloseOf(file) = Len(file) /\ file[Len(file)] = Close
      BY <2>3, CloseOfIsAPlace
    <3>4. TypeOK'
      BY <2>1, <2>2, <3>1, <3>2, <3>3
    <3>5. Exclusive' /\ SawABracket'
      BY <2>1, <3>1, <3>3
    <3>6. QED
      BY <3>4, <3>5
  <2>4. CASE StartArray(w)
    <3>1. /\ at' = [at EXCEPT ![w] = 0]
          /\ pc' = [pc EXCEPT ![w] = "open"]
          /\ rest' = [rest EXCEPT ![w] = Array(mine[w])]
      BY <2>4 DEF StartArray, Goto
    <3>2. Array(mine[w]) \in Seq(Tokens)
      BY TextsAreText
    <3>3. QED
      BY <2>1, <2>2, <3>1, <3>2
  <2>5. QED
    BY <1>2, <2>3, <2>4 DEF Look
<1>3. ASSUME NEW w \in Writers, Cut(w) PROVE IInv'
  <2>1. /\ pc[w] = "cut" /\ pc' = [pc EXCEPT ![w] = "open"]
        /\ UNCHANGED <<at, rest, history>>
        /\ file' = Truncated(file, at[w] - 1)
    BY <1>3 DEF Cut, Goto, KeptUpTo
  <2>2. file' \in Seq(Tokens)
    BY <2>1, TruncatedIsText
  <2>3. ~overlap => \A v \in Writers : pc'[v] # "cut"
    BY <2>1
  <2>4. QED
    BY <2>1, <2>2, <2>3
<1>4. ASSUME NEW w \in Writers, OpenFile(w) PROVE IInv'
  BY <1>4 DEF OpenFile, Goto
<1>5. ASSUME NEW w \in Writers, Leave(w), UNCHANGED overlap,
             pc[w] # "cut" \/ file' = file,
             ~overlap => file' = file \/ pc[w] = "write",
             file' \in Seq(Tokens), saved' \in Seq(Results),
             made' \in Nat, faults' \in Nat
      PROVE IInv'
  <2>1. /\ pc' = [pc EXCEPT ![w] = "idle"] /\ at' = [at EXCEPT ![w] = 0]
        /\ rest' = [rest EXCEPT ![w] = <<>>] /\ mine' = [mine EXCEPT ![w] = <<>>]
    BY <1>5 DEF Leave, Goto
  <2>2. TypeOK'
    BY <1>5, <2>1
  <2>3. Exclusive'
    BY <1>5, <2>1
  <2>4. SawABracket'
    BY <1>5, <2>1
  <2>5. QED
    BY <2>2, <2>3, <2>4
<1>6. ASSUME NEW w \in Writers, Flush(w) PROVE IInv'
  <2>1. PICK k \in 1 .. Len(rest[w]) :
          /\ file' = file \o SubSeq(rest[w], 1, k)
          /\ IF k = Len(rest[w])
             THEN Leave(w) /\ saved' = saved \o mine[w]
             ELSE /\ rest' = [rest EXCEPT ![w] = SubSeq(@, k + 1, Len(@))]
                  /\ UNCHANGED <<pc, at, mine, saved>>
    BY <1>6 DEF Flush
  <2>2. pc[w] = "write" /\ UNCHANGED <<made, overlap, faults>>
    BY <1>6 DEF Flush
  <2>3. /\ SubSeq(rest[w], 1, k) \in Seq(Tokens)
        /\ SubSeq(rest[w], k + 1, Len(rest[w])) \in Seq(Tokens)
    BY ChunkIsText
  <2>4. file' \in Seq(Tokens)
    BY <2>1, <2>3, AppendingKeeps
  <2>5. CASE k = Len(rest[w])
    <3>1. saved \o mine[w] \in Seq(Results)
      BY ConcatProperties
    <3>2. QED
      BY <1>5, <2>1, <2>2, <2>4, <2>5, <3>1
  <2>6. CASE k # Len(rest[w])
    <3>1. /\ rest' = [rest EXCEPT ![w] = SubSeq(rest[w], k + 1, Len(rest[w]))]
          /\ UNCHANGED <<pc, at, mine, saved, made, overlap, faults>>
      BY <2>1, <2>2, <2>6
    <3>2. TypeOK'
      BY <2>3, <2>4, <3>1
    <3>3. ~overlap => \A v \in Writers : pc[v] # "cut"
      BY <2>2
    <3>4. Exclusive' /\ SawABracket'
      BY <3>1, <3>3
    <3>5. QED
      BY <3>2, <3>4
  <2>7. QED
    BY <2>5, <2>6
<1>7. ASSUME NEW w \in Writers, Fail(w) PROVE IInv'
  <2>1. Leave(w) /\ UNCHANGED <<saved, made, overlap>> /\ faults' = faults + 1
    BY <1>7 DEF Fail
  <2>2. MayTear(w) /\ pc[w] \in {"cut", "open", "write"}
    BY <1>7 DEF Fail
  <2>3. file' \in Seq(Tokens) /\ (file' = file \/ pc[w] = "write")
    BY <2>2, TearingKeeps
  <2>4. /\ UNCHANGED overlap /\ saved' \in Seq(Results)
        /\ made' \in Nat /\ faults' \in Nat
    BY <2>1
  <2>5. QED
    BY <1>5, <2>1, <2>3, <2>4
<1>8. ASSUME NEW p \in Processes, Crash(p) PROVE IInv'
  <2>1. /\ pc' = [w \in Writers |-> IF ProcessOf[w] = p THEN "idle" ELSE pc[w]]
        /\ at' = [w \in Writers |-> IF ProcessOf[w] = p THEN 0 ELSE at[w]]
        /\ rest' = [w \in Writers |-> IF ProcessOf[w] = p THEN <<>> ELSE rest[w]]
        /\ mine' = [w \in Writers |-> IF ProcessOf[w] = p THEN <<>> ELSE mine[w]]
        /\ faults' = faults + 1 /\ UNCHANGED <<saved, made, overlap>>
    BY <1>8 DEF Crash
  <2>2. PICK v \in Writers : ProcessOf[v] = p /\ Inside(v) /\ MayTear(v)
    BY <1>8 DEF Crash
  <2>3. file' \in Seq(Tokens) /\ (file' = file \/ pc[v] = "write")
    BY <2>2, TearingKeeps
  <2>4. TypeOK'
    BY <2>1, <2>3
  <2>5. Exclusive'
    BY <2>1
  <2>6. ~overlap /\ file' # file => \A w \in Writers : pc[w] # "cut"
    BY <2>2, <2>3
  <2>7. SawABracket'
    BY <2>1, <2>6
  <2>8. QED
    BY <2>4, <2>5, <2>7
<1>9. CASE Done \/ UNCHANGED vars
  BY <1>9 DEF Done
<1>10. QED
  BY <1>1, <1>2, <1>3, <1>4, <1>6, <1>7, <1>8, <1>9
     DEF Next, append_json_array_file

LEMMA AlwaysIInv == Spec => []IInv
<1>1. QED
  BY InitHolds, StepHolds, PTL DEF Spec

(* Every variable keeps its type, for any number of writers and faults.    *)
THEOREM TypeCorrect == Spec => []TypeOK
<1>1. IInv => TypeOK
  BY DEF IInv
<1>2. QED
  BY <1>1, AlwaysIInv, PTL

(* What a step keeps of the file. *)
Kept ==
  ~overlap =>
    \A i \in 1 .. Len(file) :
      i < Len(file) \/ file[i] # Close => i <= Len(file') /\ file'[i] = file[i]

LEMMA StepKeeps == IInv /\ [Next]_vars => Kept
<1> SUFFICES ASSUME IInv, [Next]_vars PROVE Kept
  OBVIOUS
<1> USE DEF IInv, TypeOK, Kept, history, vars
<1>1. ASSUME NEW w \in Writers, Cut(w) PROVE Kept
  <2>1. pc[w] = "cut" /\ file' = Truncated(file, at[w] - 1)
    BY <1>1 DEF Cut, KeptUpTo
  <2>2. /\ Len(file') = at[w] - 1
        /\ \A i \in 1 .. at[w] - 1 : i <= Len(file) => file'[i] = file[i]
    <3>1. at[w] - 1 \in Nat
      BY <2>1 DEF SawABracket
    <3>2. QED
      BY <2>1, <3>1, TruncatedIsText
  <2>3. ~overlap => at[w] = Len(file) /\ file[Len(file)] = Close
    BY <2>1 DEF SawABracket
  <2>4. Len(file) \in Nat
    BY LenProperties
  <2>5. QED
    BY <2>2, <2>3, <2>4
<1>2. ASSUME NEW w \in Writers, Flush(w) PROVE Kept
  <2>1. PICK k \in 1 .. Len(rest[w]) : file' = file \o SubSeq(rest[w], 1, k)
    BY <1>2 DEF Flush
  <2>2. SubSeq(rest[w], 1, k) \in Seq(Tokens)
    BY ChunkIsText
  <2>3. QED
    BY <2>1, <2>2, AppendingKeeps
<1>3. ASSUME NEW w \in Writers, MayTear(w) PROVE Kept
  BY <1>3, TearingKeeps
<1>4. ASSUME file' = file PROVE Kept
  BY <1>4, LenProperties
<1>5. QED
  BY <1>1, <1>2, <1>3, <1>4
     DEF Next, append_json_array_file, Enter, Look, OpenFile, Fail, Crash, Done, vars

(* append_json_array_file takes nothing from the file but the bracket at   *)
(* its end and changes nothing in it, whatever fails and whenever it is    *)
(* killed, as long as one process at a time is inside.                     *)
THEOREM BracketOnly == Spec => OnlyTheBracketGoes
<1>1. IInv /\ [Next]_vars => [Kept]_vars
  BY StepKeeps
<1>2. Spec => [][Kept]_vars
  BY <1>1, AlwaysIInv, PTL DEF Spec
<1>3. QED
  BY <1>2 DEF Kept, OnlyTheBracketGoes

-----------------------------------------------------------------------------
(* No saved result is lost. *)

Has(text, x) == \E i \in 1 .. Len(text) : text[i] = x

(* What is saved is in the file; what is being saved is there or to come. *)
NothingForgotten ==
  ~overlap =>
    /\ \A i \in 1 .. Len(saved) : Has(file, saved[i])
    /\ \A w \in Writers : pc[w] \in {"cut", "open", "write"} =>
         \A i \in 1 .. Len(mine[w]) :
           Has(file, mine[w][i]) \/ Has(rest[w], mine[w][i])

LEMMA ConcatHas ==
  ASSUME NEW s \in Seq(Tokens), NEW t \in Seq(Tokens), NEW x
  PROVE  Has(s, x) \/ Has(t, x) => Has(s \o t, x)
<1>1. /\ Len(s) \in Nat /\ Len(t) \in Nat
      /\ Len(s \o t) = Len(s) + Len(t)
      /\ \A i \in 1 .. Len(s) + Len(t) : (s \o t)[i] =
            IF i <= Len(s) THEN s[i] ELSE t[i - Len(s)]
  BY ConcatProperties, LenProperties
<1>2. ASSUME Has(s, x) PROVE Has(s \o t, x)
  <2>1. PICK i \in 1 .. Len(s) : s[i] = x
    BY <1>2 DEF Has
  <2>2. i \in 1 .. Len(s \o t) /\ (s \o t)[i] = x
    BY <1>1, <2>1
  <2>3. QED
    BY <2>2 DEF Has
<1>3. ASSUME Has(t, x) PROVE Has(s \o t, x)
  <2>1. PICK i \in 1 .. Len(t) : t[i] = x
    BY <1>3 DEF Has
  <2>2. i + Len(s) \in 1 .. Len(s \o t) /\ (s \o t)[i + Len(s)] = x
    BY <1>1, <2>1
  <2>3. QED
    BY <2>2 DEF Has
<1>4. QED
  BY <1>2, <1>3

LEMMA TextsHaveTheResults ==
  ASSUME NEW rs \in Seq(Results), NEW text \in Seq(Tokens), NEW i \in 1 .. Len(rs)
  PROVE  /\ Has(Array(rs), rs[i])
         /\ Has(Separator(text) \o Inner(rs) \o <<Close>>, rs[i])
<1>1. Len(rs) \in Nat
  BY LenProperties
<1>2. Has(Inner(rs), rs[i])
  <2>1. 2 * i - 1 \in 1 .. 2 * Len(rs) - 1
    BY <1>1
  <2>2. (2 * i - 1) % 2 = 1 /\ ((2 * i - 1) + 1) \div 2 = i
    BY <1>1
  <2>3. Inner(rs)[2 * i - 1] = rs[i]
    BY <2>1, <2>2 DEF Inner
  <2>4. Len(Inner(rs)) = 2 * Len(rs) - 1
    BY <1>1, 2 * Len(rs) - 1 \in Nat DEF Inner
  <2>5. QED
    BY <2>1, <2>3, <2>4 DEF Has
<1>3. /\ <<Open>> \in Seq(Tokens) /\ <<Close>> \in Seq(Tokens)
      /\ Inner(rs) \in Seq(Tokens)
      /\ Separator(text) \in Seq(Tokens)
  <2>1. <<Comma>> \in Seq(Tokens) /\ <<>> \in Seq(Tokens)
        /\ <<Open>> \in Seq(Tokens) /\ <<Close>> \in Seq(Tokens)
    BY MarksAreTokens
  <2>2. QED
    BY <2>1, InnerIsText DEF Separator
<1>4. /\ <<Open>> \o Inner(rs) \in Seq(Tokens)
      /\ Separator(text) \o Inner(rs) \in Seq(Tokens)
  BY <1>3, ConcatProperties
<1>5. /\ Has(<<Open>> \o Inner(rs), rs[i])
      /\ Has(Separator(text) \o Inner(rs), rs[i])
  BY <1>2, <1>3, ConcatHas
<1>6. /\ Has((<<Open>> \o Inner(rs)) \o <<Close>>, rs[i])
      /\ Has((Separator(text) \o Inner(rs)) \o <<Close>>, rs[i])
  BY <1>3, <1>4, <1>5, ConcatHas
<1>7. rs # <<>>
  BY <1>1
<1>8. QED
  BY <1>6, <1>7 DEF Array

(* A chunk and what remains have all that the text has. *)
LEMMA ChunkHas ==
  ASSUME NEW text \in Seq(Tokens), NEW k \in 1 .. Len(text), NEW x, Has(text, x)
  PROVE  \/ Has(SubSeq(text, 1, k), x)
         \/ k # Len(text) /\ Has(SubSeq(text, k + 1, Len(text)), x)
<1>1. PICK i \in 1 .. Len(text) : text[i] = x
  BY DEF Has
<1>2. Len(text) \in Nat /\ k \in Int /\ k + 1 \in Int /\ 1 \in Int
  BY LenProperties
<1>3. \A j \in 1 .. Len(text) : text[j] \in Tokens
  BY ElementOfSeq
<1>4. CASE i <= k
  <2>1. \A j \in 1 .. k : text[j] \in Tokens
    BY <1>2, <1>3
  <2>2. /\ Len(SubSeq(text, 1, k)) = k
        /\ \A j \in 1 .. k : SubSeq(text, 1, k)[j] = text[j]
    BY <1>2, <2>1, SubSeqProperties
  <2>3. QED
    BY <1>1, <1>2, <1>4, <2>2 DEF Has
<1>5. CASE i > k
  <2>1. \A j \in k + 1 .. Len(text) : text[j] \in Tokens
    BY <1>2, <1>3
  <2>2. /\ Len(SubSeq(text, k + 1, Len(text))) = Len(text) - k
        /\ \A j \in 1 .. Len(text) - k :
             SubSeq(text, k + 1, Len(text))[j] = text[k + j]
    BY <1>2, <1>5, <2>1, SubSeqProperties
  <2>3. /\ i - k \in 1 .. Len(SubSeq(text, k + 1, Len(text)))
        /\ SubSeq(text, k + 1, Len(text))[i - k] = x
    BY <1>1, <1>2, <1>5, <2>2
  <2>4. k # Len(text)
    BY <1>1, <1>2, <1>5
  <2>5. QED
    BY <2>3, <2>4 DEF Has
<1>6. QED
  BY <1>2, <1>4, <1>5

(* A result in the file stays there: it is no bracket. *)
LEMMA ResultsStay ==
  ASSUME TypeOK, Kept, ~overlap, NEW x \in Results, Has(file, x),
         file' \in Seq(Tokens)
  PROVE  Has(file', x)
<1>1. PICK i \in 1 .. Len(file) : file[i] = x
  BY DEF Has
<1>2. x # Close
  BY FileAssumption DEF FileAssumption, Marks
<1>3. i <= Len(file') /\ file'[i] = x
  BY <1>1, <1>2 DEF Kept
<1>4. Len(file') \in Nat
  BY LenProperties
<1>5. i \in 1 .. Len(file')
  BY <1>1, <1>3, <1>4
<1>6. QED
  BY <1>3, <1>5 DEF Has

(* Saved results stay saved: one case per action. *)
LEMMA NothingForgottenStep ==
  IInv /\ NothingForgotten /\ [Next]_vars => NothingForgotten'
<1> SUFFICES ASSUME IInv, NothingForgotten, [Next]_vars, ~overlap'
             PROVE  NothingForgotten'
  BY DEF NothingForgotten
<1> USE DEF IInv, TypeOK, history, vars
<1>1. ~overlap
  BY DEF Next, append_json_array_file, Enter, Look, Cut, OpenFile, Flush, Fail,
         Crash, Done
<1>2. file' \in Seq(Tokens) /\ TypeOK'
  BY StepHolds
<1>3. ASSUME NEW x \in Results, Has(file, x) PROVE Has(file', x)
  BY <1>1, <1>2, <1>3, StepKeeps, ResultsStay
<1>4. \A i \in 1 .. Len(saved) : saved[i] \in Results
  BY ElementOfSeq
<1>5. \A w \in Writers : \A i \in 1 .. Len(mine[w]) : mine[w][i] \in Results
  BY ElementOfSeq
<1> DEFINE Coming(w) ==
      \A i \in 1 .. Len(mine[w]) : Has(file, mine[w][i]) \/ Has(rest[w], mine[w][i])
<1>6. /\ \A i \in 1 .. Len(saved) : Has(file, saved[i])
      /\ \A w \in Writers : pc[w] \in {"cut", "open", "write"} => Coming(w)
  BY <1>1 DEF NothingForgotten
<1>7. \A i \in 1 .. Len(saved) : Has(file', saved[i])
  BY <1>3, <1>4, <1>6
<1>8. ASSUME NEW w \in Writers, pc[w] \in {"cut", "open", "write"},
             mine'[w] = mine[w], rest'[w] = rest[w]
      PROVE  Coming(w)'
  BY <1>3, <1>5, <1>6, <1>8
<1> HIDE DEF Coming
<1>9. SUFFICES /\ \A i \in 1 .. Len(saved') : Has(file', saved'[i])
               /\ \A w \in Writers : pc'[w] \in {"cut", "open", "write"} => Coming(w)'
  BY DEF NothingForgotten, Coming
<1>10. ASSUME NEW w \in Writers, Look(w), UNCHANGED <<file, saved, mine>>
       PROVE  \A v \in Writers : pc'[v] \in {"cut", "open", "write"} => Coming(v)'
  <2>1. \/ rest' = [rest EXCEPT ![w] = Separator(file) \o Inner(mine[w]) \o <<Close>>]
        \/ rest' = [rest EXCEPT ![w] = Array(mine[w])]
    BY <1>10 DEF Look, Continue, StartArray
  <2>2. pc' \in {[pc EXCEPT ![w] = "cut"], [pc EXCEPT ![w] = "open"]}
    BY <1>10 DEF Look, Continue, StartArray, Goto
  <2>3. Coming(w)'
    <3>1. \/ rest'[w] = Separator(file) \o Inner(mine[w]) \o <<Close>>
          \/ rest'[w] = Array(mine[w])
      BY <2>1
    <3>2. mine[w] \in Seq(Results) /\ mine'[w] = mine[w]
      BY <1>10
    <3>3. \A i \in 1 .. Len(mine[w]) : Has(rest'[w], mine[w][i])
      BY <3>1, <3>2, TextsHaveTheResults
    <3>4. QED
      BY <3>2, <3>3 DEF Coming
  <2>4. ASSUME NEW v \in Writers, v # w, pc'[v] \in {"cut", "open", "write"}
        PROVE  Coming(v)'
    <3>1. pc[v] = pc'[v] /\ rest'[v] = rest[v] /\ mine'[v] = mine[v]
      BY <1>10, <2>1, <2>2, <2>4
    <3>2. QED
      BY <1>8, <2>4, <3>1
  <2>5. QED
    BY <2>3, <2>4
<1>11. ASSUME NEW w \in Writers, Leave(w)
       PROVE  \A v \in Writers : pc'[v] \in {"cut", "open", "write"} => Coming(v)'
  <2>1. /\ pc' = [pc EXCEPT ![w] = "idle"]
        /\ rest' = [rest EXCEPT ![w] = <<>>] /\ mine' = [mine EXCEPT ![w] = <<>>]
    BY <1>11 DEF Leave, Goto
  <2>2. QED
    BY <1>8, <2>1
<1>12. ASSUME NEW w \in Writers, Flush(w)
       PROVE  /\ \A i \in 1 .. Len(saved') : Has(file', saved'[i])
              /\ \A v \in Writers : pc'[v] \in {"cut", "open", "write"} => Coming(v)'
  <2>1. PICK k \in 1 .. Len(rest[w]) :
          /\ file' = file \o SubSeq(rest[w], 1, k)
          /\ IF k = Len(rest[w])
             THEN Leave(w) /\ saved' = saved \o mine[w]
             ELSE /\ rest' = [rest EXCEPT ![w] = SubSeq(@, k + 1, Len(@))]
                  /\ UNCHANGED <<pc, at, mine, saved>>
    BY <1>12 DEF Flush
  <2>2. pc[w] = "write"
    BY <1>12 DEF Flush
  <2>3. SubSeq(rest[w], 1, k) \in Seq(Tokens)
    BY ChunkIsText
  <2>4. \A i \in 1 .. Len(mine[w]) :
          \/ Has(file', mine[w][i])
          \/ /\ k # Len(rest[w])
             /\ Has(SubSeq(rest[w], k + 1, Len(rest[w])), mine[w][i])
    <3>1. SUFFICES ASSUME NEW i \in 1 .. Len(mine[w]), ~ Has(file', mine[w][i])
                   PROVE  /\ k # Len(rest[w])
                          /\ Has(SubSeq(rest[w], k + 1, Len(rest[w])), mine[w][i])
      OBVIOUS
    <3>2. Has(rest[w], mine[w][i])
      BY <1>3, <1>5, <1>6, <2>2, <3>1 DEF Coming
    <3>3. ~ Has(SubSeq(rest[w], 1, k), mine[w][i])
      BY <2>1, <2>3, <3>1, ConcatHas
    <3>4. QED
      BY <3>2, <3>3, ChunkHas
  <2>5. CASE k = Len(rest[w])
    <3>1. saved' = saved \o mine[w] /\ Leave(w)
      BY <2>1, <2>5
    <3>2. ASSUME NEW i \in 1 .. Len(saved') PROVE Has(file', saved'[i])
      <4>1. /\ Len(saved) \in Nat /\ Len(mine[w]) \in Nat
            /\ Len(saved') = Len(saved) + Len(mine[w])
            /\ saved'[i] = IF i <= Len(saved) THEN saved[i]
                                              ELSE mine[w][i - Len(saved)]
        BY <3>1, <3>2, ConcatProperties, LenProperties
      <4>2. CASE i <= Len(saved)
        BY <1>7, <4>1, <4>2
      <4>3. CASE i > Len(saved)
        <5>1. i - Len(saved) \in 1 .. Len(mine[w])
          BY <4>1, <4>3
        <5>2. QED
          BY <2>4, <2>5, <4>1, <4>3, <5>1
      <4>4. QED
        BY <4>1, <4>2, <4>3
    <3>3. QED
      BY <1>11, <3>1, <3>2
  <2>6. CASE k # Len(rest[w])
    <3>1. /\ rest' = [rest EXCEPT ![w] = SubSeq(rest[w], k + 1, Len(rest[w]))]
          /\ UNCHANGED <<pc, mine, saved>>
      BY <2>1, <2>6
    <3>2. Coming(w)'
      BY <2>4, <3>1 DEF Coming
    <3>3. ASSUME NEW v \in Writers, v # w, pc'[v] \in {"cut", "open", "write"}
          PROVE  Coming(v)'
      BY <1>8, <3>1, <3>3
    <3>4. QED
      BY <1>7, <3>1, <3>2, <3>3
  <2>7. QED
    BY <2>5, <2>6
<1>13. ASSUME NEW w \in Writers, Enter(w)
       PROVE  \A v \in Writers : pc'[v] \in {"cut", "open", "write"} => Coming(v)'
  <2>1. /\ pc' = [pc EXCEPT ![w] = "look"] /\ rest' = rest
        /\ \A v \in Writers : v # w => mine'[v] = mine[v]
    BY <1>13 DEF Enter, Goto
  <2>2. QED
    BY <1>8, <2>1
<1>14. ASSUME NEW w \in Writers, Cut(w) \/ OpenFile(w)
       PROVE  \A v \in Writers : pc'[v] \in {"cut", "open", "write"} => Coming(v)'
  <2>1. /\ pc[w] \in {"cut", "open"} /\ rest' = rest /\ mine' = mine
        /\ \A v \in Writers : v # w => pc'[v] = pc[v]
    BY <1>14 DEF Cut, OpenFile, Goto
  <2>2. QED
    BY <1>8, <2>1
<1>15. ASSUME NEW p \in Processes, Crash(p)
       PROVE  \A v \in Writers : pc'[v] \in {"cut", "open", "write"} => Coming(v)'
  BY <1>8, <1>15 DEF Crash
<1>16. ASSUME UNCHANGED <<pc, mine, rest>>
       PROVE  \A v \in Writers : pc'[v] \in {"cut", "open", "write"} => Coming(v)'
  BY <1>8, <1>16
<1>17. ASSUME ~ \E w \in Writers : Flush(w) PROVE saved' = saved
  BY <1>17 DEF Next, append_json_array_file, Enter, Look, Cut, OpenFile, Fail, Crash,
               Done
<1>18. ASSUME NEW w \in Writers, Look(w) PROVE UNCHANGED <<file, saved, mine>>
  BY <1>18 DEF Look
<1>19. ASSUME NEW w \in Writers, Fail(w) PROVE Leave(w)
  BY <1>19 DEF Fail
<1>20. QED
  BY <1>7, <1>10, <1>11, <1>12, <1>13, <1>14, <1>15, <1>16, <1>17, <1>18, <1>19
     DEF Next, append_json_array_file, Done

(* Every result whose save has returned is in the file, whatever calls     *)
(* failed since and whenever the process was killed, as long as one        *)
(* process at a time saves.                                                *)
SavedStays == ~overlap => \A i \in 1 .. Len(saved) : Has(file, saved[i])

THEOREM NoResultLost == Spec => []SavedStays
<1>1. Init => NothingForgotten
  <2> SUFFICES ASSUME Init PROVE NothingForgotten
    OBVIOUS
  <2>1. \A w \in Writers : pc[w] = "idle"
    BY DEF Init
  <2>2. saved \in Seq(Results) /\ <<>> \in Seq(Tokens)
    BY FileAssumption DEF FileAssumption, Init
  <2>3. ASSUME NEW i \in 1 .. Len(saved) PROVE Has(file, saved[i])
    <3>1. saved # <<>>
      BY <2>3
    <3>2. file = Array(saved)
      BY <3>1 DEF Init
    <3>3. QED
      BY <2>2, <3>2, TextsHaveTheResults
  <2>4. QED
    BY <2>1, <2>3 DEF NothingForgotten
<1>2. Spec => []NothingForgotten
  BY <1>1, AlwaysIInv, NothingForgottenStep, PTL DEF Spec
<1>3. NothingForgotten => SavedStays
  BY DEF NothingForgotten, SavedStays
<1>4. QED
  BY <1>2, <1>3, PTL

-----------------------------------------------------------------------------
(* The results are in the file in the order in which they were made.       *)

Numbers(text)  == {text[i] : i \in 1 .. Len(text)} \ Marks
UpTo(text, n)  == \A x \in Numbers(text) : x <= n
Precedes(s, t) == \A x \in Numbers(s), y \in Numbers(t) : x < y
Ascends(text)  ==
  \A i, j \in 1 .. Len(text) :
    i < j /\ text[i] \notin Marks /\ text[j] \notin Marks => text[i] < text[j]

(* What a writer is going to add to the file. *)
Text(w) == IF pc[w] = "look" THEN mine[w] ELSE rest[w]

Ordered ==
  ~overlap =>
    /\ Ascends(saved) /\ UpTo(saved, made)
    /\ Ascends(file) /\ UpTo(file, made)
    /\ \A w \in Writers : Inside(w) =>
         /\ Ascends(mine[w]) /\ UpTo(mine[w], made) /\ Precedes(saved, mine[w])
         /\ Ascends(Text(w)) /\ UpTo(Text(w), made) /\ Precedes(file, Text(w))

LEMMA NumbersAreNumbers ==
  ASSUME NEW text \in Seq(Tokens)
  PROVE  Numbers(text) \subseteq Nat
<1>1. \A i \in 1 .. Len(text) : text[i] \in Tokens
  BY ElementOfSeq
<1>2. QED
  BY <1>1 DEF Numbers, Tokens, Results

LEMMA ConcatNumbers ==
  ASSUME NEW s \in Seq(Tokens), NEW t \in Seq(Tokens)
  PROVE  Numbers(s \o t) = Numbers(s) \union Numbers(t)
<1>1. /\ Len(s) \in Nat /\ Len(t) \in Nat
      /\ Len(s \o t) = Len(s) + Len(t)
      /\ \A i \in 1 .. Len(s) + Len(t) : (s \o t)[i] =
            IF i <= Len(s) THEN s[i] ELSE t[i - Len(s)]
  BY ConcatProperties, LenProperties
<1>2. ASSUME NEW i \in 1 .. Len(s) + Len(t)
      PROVE  \/ \E j \in 1 .. Len(s) : (s \o t)[i] = s[j]
             \/ \E j \in 1 .. Len(t) : (s \o t)[i] = t[j]
  <2>1. CASE i <= Len(s)
    BY <1>1, <2>1
  <2>2. CASE i > Len(s)
    <3>1. i - Len(s) \in 1 .. Len(t) /\ (s \o t)[i] = t[i - Len(s)]
      BY <1>1, <2>2
    <3>2. QED
      BY <3>1
  <2>3. QED
    BY <1>1, <2>1, <2>2
<1>3. ASSUME NEW j \in 1 .. Len(s) PROVE \E i \in 1 .. Len(s \o t) : (s \o t)[i] = s[j]
  BY <1>1
<1>4. ASSUME NEW j \in 1 .. Len(t) PROVE \E i \in 1 .. Len(s \o t) : (s \o t)[i] = t[j]
  <2>1. j + Len(s) \in 1 .. Len(s \o t) /\ (s \o t)[j + Len(s)] = t[j]
    BY <1>1
  <2>2. QED
    BY <2>1
<1>5. {(s \o t)[i] : i \in 1 .. Len(s \o t)}
        = {s[i] : i \in 1 .. Len(s)} \union {t[i] : i \in 1 .. Len(t)}
  <2>1. ASSUME NEW x \in {(s \o t)[i] : i \in 1 .. Len(s \o t)}
        PROVE  x \in {s[i] : i \in 1 .. Len(s)} \union {t[i] : i \in 1 .. Len(t)}
    BY <1>1, <1>2
  <2>2. ASSUME NEW x \in {s[i] : i \in 1 .. Len(s)}
        PROVE  x \in {(s \o t)[i] : i \in 1 .. Len(s \o t)}
    BY <1>3, <2>2
  <2>3. ASSUME NEW x \in {t[i] : i \in 1 .. Len(t)}
        PROVE  x \in {(s \o t)[i] : i \in 1 .. Len(s \o t)}
    BY <1>4, <2>3
  <2>4. QED
    BY <2>1, <2>2, <2>3, Zenon
<1>6. QED
  BY <1>5 DEF Numbers

LEMMA ConcatAscends ==
  ASSUME NEW s \in Seq(Tokens), NEW t \in Seq(Tokens),
         Ascends(s), Ascends(t), Precedes(s, t)
  PROVE  Ascends(s \o t)
<1>1. /\ Len(s) \in Nat /\ Len(t) \in Nat
      /\ Len(s \o t) = Len(s) + Len(t)
      /\ \A i \in 1 .. Len(s) + Len(t) : (s \o t)[i] =
            IF i <= Len(s) THEN s[i] ELSE t[i - Len(s)]
  BY ConcatProperties, LenProperties
<1>2. SUFFICES ASSUME NEW i \in 1 .. Len(s) + Len(t), NEW j \in 1 .. Len(s) + Len(t),
                      i < j, (s \o t)[i] \notin Marks, (s \o t)[j] \notin Marks
               PROVE  (s \o t)[i] < (s \o t)[j]
  BY <1>1 DEF Ascends
<1>3. CASE j <= Len(s)
  <2>1. i \in 1 .. Len(s) /\ j \in 1 .. Len(s)
    BY <1>1, <1>2, <1>3
  <2>2. (s \o t)[i] = s[i] /\ (s \o t)[j] = s[j]
    BY <1>1, <2>1
  <2>3. QED
    BY <1>2, <2>1, <2>2 DEF Ascends
<1>4. CASE i > Len(s)
  <2>1. i - Len(s) \in 1 .. Len(t) /\ j - Len(s) \in 1 .. Len(t)
        /\ i - Len(s) < j - Len(s)
    BY <1>1, <1>2, <1>4
  <2>2. (s \o t)[i] = t[i - Len(s)] /\ (s \o t)[j] = t[j - Len(s)]
    BY <1>1, <1>2, <1>4
  <2>3. QED
    BY <1>2, <2>1, <2>2 DEF Ascends
<1>5. CASE i <= Len(s) /\ j > Len(s)
  <2>1. i \in 1 .. Len(s) /\ j - Len(s) \in 1 .. Len(t)
    BY <1>1, <1>5
  <2>2. (s \o t)[i] = s[i] /\ (s \o t)[j] = t[j - Len(s)]
    BY <1>1, <1>5
  <2>3. s[i] \in Numbers(s) /\ t[j - Len(s)] \in Numbers(t)
    BY <1>2, <2>1, <2>2 DEF Numbers
  <2>4. QED
    BY <2>2, <2>3 DEF Precedes
<1>6. QED
  BY <1>1, <1>3, <1>4, <1>5

(* The two parts of a text. *)
LEMMA ChunkOf ==
  ASSUME NEW text \in Seq(Tokens), NEW k \in 1 .. Len(text)
  PROVE  LET head == SubSeq(text, 1, k)
             tail == SubSeq(text, k + 1, Len(text))
         IN  /\ head \in Seq(Tokens) /\ Len(head) = k
             /\ \A i \in 1 .. k : head[i] = text[i]
             /\ tail \in Seq(Tokens) /\ Len(tail) = Len(text) - k
             /\ \A i \in 1 .. Len(text) - k : tail[i] = text[k + i]
<1>1. Len(text) \in Nat /\ k \in Int /\ k + 1 \in Int /\ 1 \in Int
  BY LenProperties
<1>2. \A i \in 1 .. k : text[i] \in Tokens
  BY <1>1, ElementOfSeq
<1>3. \A i \in k + 1 .. Len(text) : text[i] \in Tokens
  BY <1>1, ElementOfSeq
<1>4. /\ SubSeq(text, 1, k) \in Seq(Tokens) /\ Len(SubSeq(text, 1, k)) = k
      /\ \A i \in 1 .. k : SubSeq(text, 1, k)[i] = text[i]
  BY <1>1, <1>2, SubSeqProperties
<1>5. /\ SubSeq(text, k + 1, Len(text)) \in Seq(Tokens)
      /\ Len(SubSeq(text, k + 1, Len(text))) = Len(text) - k
      /\ \A i \in 1 .. Len(text) - k : SubSeq(text, k + 1, Len(text))[i] = text[k + i]
  BY <1>1, <1>3, SubSeqProperties
<1>6. QED
  BY <1>4, <1>5

LEMMA ChunkAscends ==
  ASSUME NEW text \in Seq(Tokens), NEW k \in 1 .. Len(text), Ascends(text)
  PROVE  LET head == SubSeq(text, 1, k)
             tail == SubSeq(text, k + 1, Len(text))
         IN  /\ Ascends(head) /\ Ascends(tail) /\ Precedes(head, tail)
             /\ Numbers(head) \subseteq Numbers(text)
             /\ Numbers(tail) \subseteq Numbers(text)
<1> DEFINE head == SubSeq(text, 1, k)
           tail == SubSeq(text, k + 1, Len(text))
<1>1. /\ Len(head) = k /\ \A i \in 1 .. k : head[i] = text[i]
      /\ Len(tail) = Len(text) - k
      /\ \A i \in 1 .. Len(text) - k : tail[i] = text[k + i]
  BY ChunkOf
<1>2. Len(text) \in Nat /\ k \in Nat /\ 1 <= k /\ k <= Len(text)
  BY LenProperties
<1> HIDE DEF head, tail
<1>3. \A i \in 1 .. k : i \in 1 .. Len(text)
  BY <1>2
<1>4. \A i \in 1 .. Len(text) - k : k + i \in 1 .. Len(text)
  BY <1>2
<1>5. Ascends(head)
  BY <1>1, <1>3 DEF Ascends
<1>6. Ascends(tail)
  <2>1. SUFFICES ASSUME NEW i \in 1 .. Len(text) - k, NEW j \in 1 .. Len(text) - k,
                        i < j, tail[i] \notin Marks, tail[j] \notin Marks
                 PROVE  tail[i] < tail[j]
    BY <1>1 DEF Ascends
  <2>2. k + i < k + j
    BY <1>2, <2>1
  <2>3. tail[i] = text[k + i] /\ tail[j] = text[k + j]
    BY <1>1
  <2>4. k + i \in 1 .. Len(text) /\ k + j \in 1 .. Len(text)
    BY <1>4
  <2>5. QED
    BY <2>1, <2>2, <2>3, <2>4 DEF Ascends
<1>7. Precedes(head, tail)
  <2>1. SUFFICES ASSUME NEW i \in 1 .. k, NEW j \in 1 .. Len(text) - k,
                        head[i] \notin Marks, tail[j] \notin Marks
                 PROVE  head[i] < tail[j]
    BY <1>1 DEF Precedes, Numbers
  <2>2. i < k + j /\ head[i] = text[i] /\ tail[j] = text[k + j]
    BY <1>1, <1>2, <2>1
  <2>3. QED
    BY <1>3, <1>4, <2>1, <2>2 DEF Ascends
<1>8. Numbers(head) \subseteq Numbers(text)
  BY <1>1, <1>3 DEF Numbers
<1>9. Numbers(tail) \subseteq Numbers(text)
  BY <1>1, <1>4 DEF Numbers
<1>10. QED
  BY <1>5, <1>6, <1>7, <1>8, <1>9 DEF head, tail

LEMMA NoNumbers ==
  ASSUME NEW text \in Seq(Tokens), Numbers(text) = {}
  PROVE  Ascends(text)
<1>1. \A i \in 1 .. Len(text) : text[i] \in Marks
  BY DEF Numbers
<1>2. QED
  BY <1>1 DEF Ascends

LEMMA MarksAreNoNumbers ==
  /\ \A x \in Marks : <<x>> \in Seq(Tokens) /\ Numbers(<<x>>) = {}
  /\ <<>> \in Seq(Tokens) /\ Numbers(<<>>) = {}
  /\ \A part \in PartsOfAResult : Numbers(part) = {}
<1>1. ASSUME NEW x \in Marks PROVE <<x>> \in Seq(Tokens) /\ Numbers(<<x>>) = {}
  <2>1. x \in Tokens
    BY DEF Tokens
  <2>2. Len(<<x>>) = 1 /\ <<x>>[1] = x
    OBVIOUS
  <2>3. QED
    BY <2>1, <2>2 DEF Numbers
<1>2. <<>> \in Seq(Tokens) /\ Numbers(<<>>) = {}
  BY DEF Numbers
<1>3. Numbers(<<Torn>>) = {}
  BY <1>1, Torn \in Marks DEF Marks
<1>4. Numbers(<<Torn, Close>>) = {}
  <2>1. Len(<<Torn, Close>>) = 2 /\ <<Torn, Close>>[1] = Torn /\ <<Torn, Close>>[2] = Close
    OBVIOUS
  <2>2. \A i \in 1 .. 2 : <<Torn, Close>>[i] \in Marks
    BY <2>1 DEF Marks
  <2>3. QED
    BY <2>1, <2>2 DEF Numbers
<1>5. \A part \in PartsOfAResult : Numbers(part) = {}
  BY <1>3, <1>4, Zenon DEF PartsOfAResult
<1>6. QED
  BY <1>1, <1>2, <1>5

LEMMA InnerAscends ==
  ASSUME NEW rs \in Seq(Results), Ascends(rs)
  PROVE  Ascends(Inner(rs)) /\ Numbers(Inner(rs)) \subseteq Numbers(rs)
<1>1. Len(rs) \in Nat /\ Comma \in Marks
  BY LenProperties DEF Marks
<1>2. CASE Len(rs) = 0
  <2>1. Inner(rs) = <<>>
    BY <1>2 DEF Inner
  <2>2. QED
    BY <2>1, MarksAreNoNumbers, NoNumbers
<1>3. CASE Len(rs) # 0
  <2> DEFINE place(i) == (i + 1) \div 2
  <2>1. Len(Inner(rs)) = 2 * Len(rs) - 1
    BY <1>1, <1>3, 2 * Len(rs) - 1 \in Nat DEF Inner
  <2>2. ASSUME NEW i \in 1 .. 2 * Len(rs) - 1, Inner(rs)[i] \notin Marks
        PROVE  /\ i % 2 = 1
               /\ place(i) \in 1 .. Len(rs)
               /\ Inner(rs)[i] = rs[place(i)]
    <3>1. i % 2 = 1
      BY <1>1, <2>2 DEF Inner
    <3>2. Inner(rs)[i] = rs[(i + 1) \div 2]
      BY <3>1 DEF Inner
    <3>3. (i + 1) \div 2 \in 1 .. Len(rs)
      BY <1>1, <3>1
    <3>4. QED
      BY <3>1, <3>2, <3>3
  <2>3. ASSUME NEW i \in Nat, NEW j \in Nat, i % 2 = 1, j % 2 = 1, i < j
        PROVE  place(i) < place(j)
    BY <2>3
  <2> HIDE DEF place
  <2>4. Ascends(Inner(rs))
    <3>1. SUFFICES ASSUME NEW i \in 1 .. 2 * Len(rs) - 1, NEW j \in 1 .. 2 * Len(rs) - 1,
                          i < j, Inner(rs)[i] \notin Marks, Inner(rs)[j] \notin Marks
                   PROVE  Inner(rs)[i] < Inner(rs)[j]
      BY <2>1 DEF Ascends
    <3>2. /\ place(i) \in 1 .. Len(rs) /\ Inner(rs)[i] = rs[place(i)] /\ i % 2 = 1
          /\ place(j) \in 1 .. Len(rs) /\ Inner(rs)[j] = rs[place(j)] /\ j % 2 = 1
      BY <2>2, <3>1
    <3>3. i \in Nat /\ j \in Nat
      OBVIOUS
    <3>4. place(i) < place(j)
      BY <2>3, <3>1, <3>2, <3>3
    <3>5. rs[place(i)] \notin Marks /\ rs[place(j)] \notin Marks
      BY <3>1, <3>2
    <3>6. rs[place(i)] < rs[place(j)]
      BY <3>2, <3>4, <3>5 DEF Ascends
    <3>7. QED
      BY <3>2, <3>6
  <2>5. Numbers(Inner(rs)) \subseteq Numbers(rs)
    <3>1. ASSUME NEW i \in 1 .. 2 * Len(rs) - 1, Inner(rs)[i] \notin Marks
          PROVE  Inner(rs)[i] \in Numbers(rs)
      BY <2>2, <3>1 DEF Numbers
    <3>2. QED
      BY <2>1, <3>1 DEF Numbers
  <2>6. QED
    BY <2>4, <2>5
<1>4. QED
  BY <1>2, <1>3

(* A mark before or after a text changes nothing of its order. *)
LEMMA Bracketed ==
  ASSUME NEW s \in Seq(Tokens), NEW t \in Seq(Tokens), Ascends(s), Ascends(t),
         Numbers(s) = {} \/ Numbers(t) = {}
  PROVE  /\ s \o t \in Seq(Tokens) /\ Ascends(s \o t)
         /\ Numbers(s \o t) = Numbers(s) \union Numbers(t)
<1>1. Precedes(s, t)
  BY DEF Precedes
<1>2. QED
  BY <1>1, ConcatAscends, ConcatNumbers, ConcatProperties

LEMMA TextsAscend ==
  ASSUME NEW rs \in Seq(Results), NEW text \in Seq(Tokens), Ascends(rs)
  PROVE  /\ Ascends(Array(rs)) /\ Numbers(Array(rs)) \subseteq Numbers(rs)
         /\ Ascends(Separator(text) \o Inner(rs) \o <<Close>>)
         /\ Numbers(Separator(text) \o Inner(rs) \o <<Close>>) \subseteq Numbers(rs)
<1>1. Open \in Marks /\ Close \in Marks /\ Comma \in Marks
  BY DEF Marks
<1>2. /\ <<Open>> \in Seq(Tokens) /\ Numbers(<<Open>>) = {} /\ Ascends(<<Open>>)
      /\ <<Close>> \in Seq(Tokens) /\ Numbers(<<Close>>) = {} /\ Ascends(<<Close>>)
      /\ <<Comma>> \in Seq(Tokens) /\ Numbers(<<Comma>>) = {} /\ Ascends(<<Comma>>)
      /\ <<>> \in Seq(Tokens) /\ Numbers(<<>>) = {} /\ Ascends(<<>>)
  BY <1>1, MarksAreNoNumbers, NoNumbers
<1>3. /\ Separator(text) \in Seq(Tokens) /\ Numbers(Separator(text)) = {}
      /\ Ascends(Separator(text))
  BY <1>2 DEF Separator
<1>4. /\ Inner(rs) \in Seq(Tokens) /\ Ascends(Inner(rs))
      /\ Numbers(Inner(rs)) \subseteq Numbers(rs)
  BY InnerIsText, InnerAscends
<1> DEFINE open  == <<Open>>
           close == <<Close>>
           head  == open \o Inner(rs)
           more  == Separator(text) \o Inner(rs)
<1>5. /\ open \in Seq(Tokens) /\ Numbers(open) = {} /\ Ascends(open)
      /\ close \in Seq(Tokens) /\ Numbers(close) = {} /\ Ascends(close)
  BY <1>2
<1> HIDE DEF open, close
<1>6. /\ head \in Seq(Tokens) /\ Ascends(head) /\ Numbers(head) \subseteq Numbers(rs)
      /\ more \in Seq(Tokens) /\ Ascends(more) /\ Numbers(more) \subseteq Numbers(rs)
  BY <1>3, <1>4, <1>5, Bracketed
<1> HIDE DEF head, more
<1>7. /\ Ascends(head \o close) /\ Numbers(head \o close) \subseteq Numbers(rs)
      /\ Ascends(more \o close) /\ Numbers(more \o close) \subseteq Numbers(rs)
  BY <1>5, <1>6, Bracketed
<1>9. Ascends(<<Open, Close>>) /\ Numbers(<<Open, Close>>) = {}
  <2>1. Len(<<Open, Close>>) = 2 /\ <<Open, Close>>[1] = Open /\ <<Open, Close>>[2] = Close
    OBVIOUS
  <2>2. Numbers(<<Open, Close>>) = {}
    BY <1>1, <2>1 DEF Numbers
  <2>3. <<Open, Close>> \in Seq(Tokens)
    BY <1>1 DEF Tokens
  <2>4. QED
    BY <2>2, <2>3, NoNumbers
<1>10. QED
  BY <1>7, <1>9 DEF head, more, open, close, Array

LEMMA TruncatedAscends ==
  ASSUME NEW text \in Seq(Tokens), NEW size \in Nat, size <= Len(text), Ascends(text)
  PROVE  /\ Ascends(Truncated(text, size))
         /\ Numbers(Truncated(text, size)) \subseteq Numbers(text)
<1>1. /\ Len(Truncated(text, size)) = size
      /\ \A i \in 1 .. size : Truncated(text, size)[i] = text[i]
  BY LenProperties, TruncatedIsText
<1>2. \A i \in 1 .. size : i \in 1 .. Len(text)
  BY LenProperties
<1>3. QED
  BY <1>1, <1>2 DEF Ascends, Numbers

LEMMA NewResultsAscend ==
  ASSUME NEW m \in Nat, NEW n \in Nat
  PROVE  LET new == [i \in 1 .. n |-> m + i]
         IN  Ascends(new) /\ \A x \in Numbers(new) : m < x /\ x <= m + n
<1> DEFINE new == [i \in 1 .. n |-> m + i]
<1>1. Len(new) = n /\ \A i \in 1 .. n : new[i] = m + i
  OBVIOUS
<1> HIDE DEF new
<1>2. Ascends(new)
  BY <1>1 DEF Ascends
<1>3. \A x \in Numbers(new) : m < x /\ x <= m + n
  BY <1>1 DEF Numbers
<1>4. QED
  BY <1>2, <1>3 DEF new

(* What Ordered says of the writer inside. *)
InOrder(w) ==
  /\ Ascends(mine[w]) /\ UpTo(mine[w], made) /\ Precedes(saved, mine[w])
  /\ Ascends(Text(w)) /\ UpTo(Text(w), made) /\ Precedes(file, Text(w))

LEMMA OrderedStep == IInv /\ Ordered /\ [Next]_vars => Ordered'
<1> SUFFICES ASSUME IInv, Ordered, [Next]_vars, ~overlap' PROVE Ordered'
  BY DEF Ordered
<1> USE DEF IInv, TypeOK, history, vars
<1>1. ~overlap
  BY DEF Next, append_json_array_file, Enter, Look, Cut, OpenFile, Flush, Fail,
         Crash, Done
<1>2. /\ Ascends(saved) /\ UpTo(saved, made) /\ Ascends(file) /\ UpTo(file, made)
      /\ \A w \in Writers : Inside(w) => InOrder(w)
  BY <1>1 DEF Ordered, InOrder
<1>3. (/\ Ascends(saved') /\ UpTo(saved', made')
       /\ Ascends(file') /\ UpTo(file', made')
       /\ \A w \in Writers : Inside(w)' => InOrder(w)') => Ordered'
  BY DEF Ordered, InOrder
<1>4. \A v, w \in Writers : Inside(v) /\ Inside(w) => v = w
  BY <1>1 DEF Exclusive
<1>5. TypeOK'
  BY StepHolds
<1>6. saved \in Seq(Tokens) /\ \A w \in Writers : mine[w] \in Seq(Tokens)
  BY ResultsAreTokens
<1>7. Numbers(saved) \subseteq Nat /\ Numbers(file) \subseteq Nat
  BY <1>6, NumbersAreNumbers
\* A write that ends early adds no number to the file.
<1>8. ASSUME NEW w, MayTear(w), UNCHANGED <<saved, made>>,
             \A v \in Writers : ~Inside(v)'
      PROVE  /\ Ascends(saved') /\ UpTo(saved', made')
             /\ Ascends(file') /\ UpTo(file', made')
             /\ \A v \in Writers : Inside(v)' => InOrder(v)'
  <2>1. CASE file' = file
    BY <1>2, <1>8, <2>1
  <2>2. CASE \E part \in PartsOfAResult : file' = file \o part
    <3>1. PICK part \in PartsOfAResult : file' = file \o part
      BY <2>2
    <3>2. part \in Seq(Tokens) /\ Numbers(part) = {} /\ Ascends(part)
      BY PartsAreText, MarksAreNoNumbers, NoNumbers
    <3>3. Ascends(file') /\ Numbers(file') = Numbers(file) \union {}
      BY <1>2, <3>1, <3>2, Bracketed
    <3>4. QED
      BY <1>2, <1>8, <3>3 DEF UpTo
  <2>3. QED
    BY <1>8, <2>1, <2>2 DEF MayTear
<1>9. ASSUME NEW w \in Writers, Enter(w) PROVE Ordered'
  <2>1. PICK n \in 1 .. MaxPerSave :
          /\ mine' = [mine EXCEPT ![w] = [i \in 1 .. n |-> made + i]]
          /\ made' = made + n
    BY <1>9 DEF Enter
  <2>2. n \in Nat
    BY FileAssumption DEF FileAssumption
  <2>3. /\ pc' = [pc EXCEPT ![w] = "look"] /\ file' = file /\ saved' = saved
        /\ overlap' <=> (overlap \/ \E v \in Writers :
                                      ProcessOf[v] # ProcessOf[w] /\ Inside(v))
    BY <1>9, Zenon DEF Enter, Goto
  <2>4. \A v \in Writers : ~Inside(v)
    BY <1>9, <2>3 DEF Enter, MutexFree
  <2>5. \A v \in Writers : Inside(v)' => v = w
    BY <2>3, <2>4 DEF Inside
  <2> DEFINE new == [i \in 1 .. n |-> made + i]
  <2>6. Ascends(new) /\ \A x \in Numbers(new) : made < x /\ x <= made + n
    BY <2>2, NewResultsAscend
  <2>7. mine'[w] = new /\ Text(w)' = new
    BY <2>1, <2>3 DEF Text
  <2> HIDE DEF new
  <2>8. \A x \in Numbers(saved) \union Numbers(file) : x \in Nat /\ x <= made
    BY <1>2, <1>7 DEF UpTo
  <2>9. /\ UpTo(saved', made') /\ UpTo(file', made')
    BY <2>1, <2>2, <2>3, <2>8 DEF UpTo
  <2>10. UpTo(new, made')
    BY <2>1, <2>6 DEF UpTo
  <2>11. \A x \in Numbers(new) : x \in Nat
    <3>1. new \in Seq(Tokens)
      BY <2>2, NewResults, ResultsAreTokens DEF new
    <3>2. QED
      BY <3>1, NumbersAreNumbers
  <2>12. Precedes(saved', new) /\ Precedes(file', new)
    BY <2>3, <2>6, <2>8, <2>11 DEF Precedes
  <2>13. InOrder(w)'
    BY <2>6, <2>7, <2>10, <2>12 DEF InOrder
  <2>14. QED
    BY <1>2, <1>3, <2>3, <2>5, <2>9, <2>13
<1>10. ASSUME NEW w \in Writers, Look(w) PROVE Ordered'
  <2>1. pc[w] = "look" /\ UNCHANGED <<file, mine, saved, made>>
    BY <1>10 DEF Look
  <2>2. /\ \/ rest' = [rest EXCEPT ![w] = Separator(file) \o Inner(mine[w]) \o <<Close>>]
           \/ rest' = [rest EXCEPT ![w] = Array(mine[w])]
        /\ pc' \in {[pc EXCEPT ![w] = "cut"], [pc EXCEPT ![w] = "open"]}
    BY <1>10 DEF Look, Continue, StartArray, Goto
  <2>3. Inside(w) /\ \A v \in Writers : Inside(v)' => v = w
    <3>1. Inside(w) /\ \A v \in Writers : v # w => ~Inside(v) /\ pc'[v] = pc[v]
      BY <1>4, <2>1, <2>2 DEF Inside
    <3>2. QED
      BY <3>1 DEF Inside
  <2>4. InOrder(w) /\ Text(w) = mine[w]
    BY <1>2, <2>1, <2>3 DEF Text
  <2>5. Text(w)' \in {Separator(file) \o Inner(mine[w]) \o <<Close>>, Array(mine[w])}
    BY <2>2 DEF Text
  <2>6. Ascends(Text(w)') /\ Numbers(Text(w)') \subseteq Numbers(mine[w])
    BY <2>4, <2>5, TextsAscend DEF InOrder
  <2>7. InOrder(w)'
    <3>1. UpTo(Text(w)', made) /\ Precedes(file, Text(w)')
      BY <2>4, <2>6 DEF InOrder, UpTo, Precedes
    <3>2. QED
      BY <2>1, <2>4, <2>6, <3>1 DEF InOrder
  <2>8. QED
    BY <1>2, <1>3, <2>1, <2>3, <2>7
<1>11. ASSUME NEW w \in Writers, Cut(w) PROVE Ordered'
  <2>1. /\ pc[w] = "cut" /\ pc' = [pc EXCEPT ![w] = "open"]
        /\ UNCHANGED <<at, rest, mine, saved, made>>
        /\ file' = Truncated(file, at[w] - 1)
    BY <1>11 DEF Cut, Goto, KeptUpTo
  <2>2. at[w] - 1 \in Nat /\ at[w] - 1 <= Len(file)
    <3>1. at[w] >= 1 /\ at[w] = Len(file) /\ at[w] \in Nat
      BY <1>1, <2>1 DEF SawABracket
    <3>2. QED
      BY <3>1
  <2>3. Ascends(file') /\ Numbers(file') \subseteq Numbers(file)
    BY <1>2, <2>1, <2>2, TruncatedAscends
  <2>4. UpTo(file', made')
    BY <1>2, <2>1, <2>3 DEF UpTo
  <2>5. \A v \in Writers : Inside(v)' => Inside(v) /\ Text(v)' = Text(v)
    BY <2>1 DEF Inside, Text
  <2>6. ASSUME NEW v \in Writers, Inside(v)' PROVE InOrder(v)'
    <3>1. InOrder(v) /\ Text(v)' = Text(v)
      BY <1>2, <2>5, <2>6
    <3>2. Precedes(file', Text(v))
      BY <2>3, <3>1 DEF InOrder, Precedes
    <3>3. QED
      BY <2>1, <3>1, <3>2 DEF InOrder
  <2>7. QED
    BY <1>2, <1>3, <2>1, <2>3, <2>4, <2>6
<1>12. ASSUME NEW w \in Writers, OpenFile(w) PROVE Ordered'
  <2>1. /\ pc[w] = "open" /\ pc' = [pc EXCEPT ![w] = "write"]
        /\ UNCHANGED <<file, rest, mine, saved, made>>
    BY <1>12 DEF OpenFile, Goto
  <2>2. \A v \in Writers : Inside(v)' => Inside(v) /\ Text(v)' = Text(v)
    BY <2>1 DEF Inside, Text
  <2>3. QED
    BY <1>2, <1>3, <2>1, <2>2 DEF InOrder
<1>13. ASSUME NEW w \in Writers, Flush(w) PROVE Ordered'
  <2>1. PICK k \in 1 .. Len(rest[w]) :
          /\ file' = file \o SubSeq(rest[w], 1, k)
          /\ IF k = Len(rest[w])
             THEN Leave(w) /\ saved' = saved \o mine[w]
             ELSE /\ rest' = [rest EXCEPT ![w] = SubSeq(@, k + 1, Len(@))]
                  /\ UNCHANGED <<pc, at, mine, saved>>
    BY <1>13 DEF Flush
  <2>2. pc[w] = "write" /\ made' = made
    BY <1>13 DEF Flush
  <2> DEFINE head == SubSeq(rest[w], 1, k)
             tail == SubSeq(rest[w], k + 1, Len(rest[w]))
  <2>3. InOrder(w) /\ Text(w) = rest[w] /\ Inside(w)
    BY <1>2, <2>2 DEF Text, Inside
  <2>4. /\ Ascends(head) /\ Ascends(tail) /\ Precedes(head, tail)
        /\ Numbers(head) \subseteq Numbers(rest[w])
        /\ Numbers(tail) \subseteq Numbers(rest[w])
    BY <2>3, ChunkAscends DEF InOrder
  <2>5. head \in Seq(Tokens) /\ tail \in Seq(Tokens)
    BY ChunkIsText
  <2> HIDE DEF head, tail
  <2>6. Precedes(file, head) /\ Precedes(file, tail) /\ UpTo(head, made) /\ UpTo(tail, made)
    BY <2>3, <2>4 DEF InOrder, Precedes, UpTo
  <2>7. file' = file \o head
    BY <2>1 DEF head
  <2>8. Ascends(file') /\ Numbers(file') = Numbers(file) \union Numbers(head)
    BY <1>2, <2>4, <2>5, <2>6, <2>7, ConcatAscends, ConcatNumbers
  <2>9. UpTo(file', made') /\ Precedes(file', tail)
    BY <1>2, <2>2, <2>4, <2>6, <2>8 DEF UpTo, Precedes
  <2>10. CASE k = Len(rest[w])
    <3>1. saved' = saved \o mine[w] /\ pc' = [pc EXCEPT ![w] = "idle"]
      BY <2>1, <2>10 DEF Leave, Goto
    <3>2. \A v \in Writers : ~Inside(v)'
      BY <1>4, <2>3, <3>1 DEF Inside
    <3>3. Ascends(saved') /\ Numbers(saved') = Numbers(saved) \union Numbers(mine[w])
      BY <1>2, <1>6, <2>3, <3>1, ConcatAscends, ConcatNumbers DEF InOrder
    <3>4. UpTo(saved', made')
      BY <1>2, <2>2, <2>3, <3>3 DEF UpTo, InOrder
    <3>5. QED
      BY <1>3, <2>8, <2>9, <3>2, <3>3, <3>4
  <2>11. CASE k # Len(rest[w])
    <3>1. /\ rest' = [rest EXCEPT ![w] = tail]
          /\ UNCHANGED <<pc, mine, saved>>
      BY <2>1, <2>11 DEF tail
    <3>2. Text(w)' = tail
      BY <2>2, <3>1 DEF Text
    <3>3. InOrder(w)'
      BY <2>2, <2>3, <2>4, <2>6, <2>9, <3>1, <3>2 DEF InOrder
    <3>4. \A v \in Writers : Inside(v)' => v = w
      BY <1>4, <2>3, <3>1 DEF Inside
    <3>5. QED
      BY <1>2, <1>3, <2>2, <2>8, <2>9, <3>1, <3>3, <3>4
  <2>12. QED
    BY <2>10, <2>11
<1>14. ASSUME NEW w \in Writers, Fail(w) PROVE Ordered'
  <2>1. MayTear(w) /\ UNCHANGED <<saved, made>> /\ pc[w] # "idle"
        /\ pc' = [pc EXCEPT ![w] = "idle"]
    BY <1>14 DEF Fail, Leave, Goto
  <2>2. \A v \in Writers : ~Inside(v)'
    BY <1>4, <2>1 DEF Inside
  <2>3. QED
    BY <1>3, <1>8, <2>1, <2>2
<1>15. ASSUME NEW p \in Processes, Crash(p) PROVE Ordered'
  <2>1. /\ UNCHANGED <<saved, made>>
        /\ pc' = [w \in Writers |-> IF ProcessOf[w] = p THEN "idle" ELSE pc[w]]
    BY <1>15 DEF Crash
  <2>2. PICK w \in Writers : ProcessOf[w] = p /\ Inside(w) /\ MayTear(w)
    BY <1>15 DEF Crash
  <2>3. \A v \in Writers : ~Inside(v)'
    BY <1>4, <2>1, <2>2 DEF Inside
  <2>4. QED
    BY <1>3, <1>8, <2>1, <2>2, <2>3
<1>16. CASE Done \/ UNCHANGED vars
  <2>1. UNCHANGED vars
    BY <1>16 DEF Done
  <2>2. QED
    BY <1>2, <1>3, <2>1 DEF InOrder, Inside, Text
<1>17. QED
  BY <1>9, <1>10, <1>11, <1>12, <1>13, <1>14, <1>15, <1>16
     DEF Next, append_json_array_file

(* The saves of earlier processes numbered their results in order. *)
LEMMA OrderedAtFirst == Init => Ordered
<1> SUFFICES ASSUME Init PROVE Ordered
  OBVIOUS
<1>1. /\ saved \in Seq(Results) /\ \A i \in 1 .. Len(saved) : saved[i] = i
      /\ made = Len(saved) /\ Len(saved) \in Nat
  BY FileAssumption, LenProperties DEF FileAssumption, Init
<1>2. Ascends(saved)
  BY <1>1 DEF Ascends
<1>3. UpTo(saved, made)
  BY <1>1 DEF UpTo, Numbers
<1>4. Ascends(file) /\ UpTo(file, made)
  <2>1. CASE file = Array(saved)
    <3>1. <<>> \in Seq(Tokens)
      OBVIOUS
    <3>2. Ascends(file) /\ Numbers(file) \subseteq Numbers(saved)
      BY <1>1, <1>2, <2>1, <3>1, TextsAscend
    <3>3. QED
      BY <1>3, <3>2 DEF UpTo
  <2>2. CASE file = <<>>
    BY <2>2, MarksAreNoNumbers, NoNumbers DEF UpTo
  <2>3. QED
    BY <2>1, <2>2 DEF Init
<1>5. \A w \in Writers : ~Inside(w)
  BY DEF Init, Inside
<1>6. QED
  BY <1>2, <1>3, <1>4, <1>5 DEF Ordered

(* Two numbers of a text that ascends stand in the order of their places. *)
LEMMA PlacesTellOrder ==
  ASSUME NEW text \in Seq(Tokens), Ascends(text),
         NEW i \in 1 .. Len(text), NEW j \in 1 .. Len(text),
         text[i] \in Results, text[j] \in Results
  PROVE  i < j <=> text[i] < text[j]
<1>1. text[i] \notin Marks /\ text[j] \notin Marks
  BY FileAssumption DEF FileAssumption
<1>2. text[i] \in Nat /\ text[j] \in Nat /\ i \in Nat /\ j \in Nat
  BY DEF Results
<1>3. i < j => text[i] < text[j]
  BY <1>1 DEF Ascends
<1>4. j < i => text[j] < text[i]
  BY <1>1 DEF Ascends
<1>5. i = j => text[i] = text[j]
  OBVIOUS
<1>6. QED
  BY <1>2, <1>3, <1>4, <1>5

LEMMA AlwaysOrdered == Spec => []Ordered
<1>1. QED
  BY OrderedAtFirst, OrderedStep, AlwaysIInv, PTL DEF Spec

(* Every result whose save has returned is in the file, once and in its    *)
(* place among the others, for any number of writers, failing calls and    *)
(* killed processes, as long as one process at a time saves.               *)
THEOREM ResultsInOrder == Spec => []SavedOnce
<1>1. IInv /\ SavedStays /\ Ordered => SavedOnce
  <2> SUFFICES ASSUME IInv, SavedStays, Ordered, ~overlap
               PROVE  /\ \A k \in 1 .. Len(saved) :
                           \E i \in 1 .. Len(file) : file[i] = saved[k]
                      /\ \A k, l \in 1 .. Len(saved) : \A i, j \in 1 .. Len(file) :
                           file[i] = saved[k] /\ file[j] = saved[l] => (i < j <=> k < l)
    BY DEF SavedOnce
  <2>1. \A k \in 1 .. Len(saved) : \E i \in 1 .. Len(file) : file[i] = saved[k]
    BY DEF SavedStays, Has
  <2>2. ASSUME NEW k \in 1 .. Len(saved), NEW l \in 1 .. Len(saved),
               NEW i \in 1 .. Len(file), NEW j \in 1 .. Len(file),
               file[i] = saved[k], file[j] = saved[l]
        PROVE  i < j <=> k < l
    <3>1. /\ file \in Seq(Tokens) /\ saved \in Seq(Results)
          /\ Ascends(file) /\ Ascends(saved)
      BY DEF IInv, TypeOK, Ordered
    <3>2. saved[k] \in Results /\ saved[l] \in Results
      BY <3>1, ElementOfSeq
    <3>3. saved \in Seq(Tokens)
      BY <3>1, ResultsAreTokens
    <3>4. i < j <=> file[i] < file[j]
      BY <2>2, <3>1, <3>2, PlacesTellOrder
    <3>5. k < l <=> saved[k] < saved[l]
      BY <3>1, <3>2, <3>3, PlacesTellOrder
    <3>6. QED
      BY <2>2, <3>4, <3>5
  <2>3. QED
    BY <2>1, <2>2
<1>2. QED
  BY <1>1, AlwaysIInv, NoResultLost, AlwaysOrdered, PTL

-----------------------------------------------------------------------------
(* How many brackets a text has.                                           *)

LEMMA OccursIsANumber ==
  ASSUME NEW text \in Seq(Tokens), NEW x
  PROVE  /\ IsFiniteSet({i \in 1 .. Len(text) : text[i] = x})
         /\ Occurs(text, x) \in Nat
<1>1. IsFiniteSet(1 .. Len(text))
  BY LenProperties, FS_Interval
<1>2. {i \in 1 .. Len(text) : text[i] = x} \in SUBSET (1 .. Len(text))
  OBVIOUS
<1>3. IsFiniteSet({i \in 1 .. Len(text) : text[i] = x})
  BY <1>1, <1>2, FS_Subset
<1>4. QED
  BY <1>3, FS_CardinalityType DEF Occurs

LEMMA OccursNot ==
  ASSUME NEW text \in Seq(Tokens), NEW x, \A i \in 1 .. Len(text) : text[i] # x
  PROVE  Occurs(text, x) = 0
<1>1. {i \in 1 .. Len(text) : text[i] = x} = {}
  OBVIOUS
<1>2. QED
  BY <1>1, FS_EmptySet DEF Occurs

LEMMA OccursOnce ==
  ASSUME NEW text \in Seq(Tokens), NEW x, NEW k \in 1 .. Len(text),
         \A i \in 1 .. Len(text) : text[i] = x <=> i = k
  PROVE  Occurs(text, x) = 1
<1>1. {i \in 1 .. Len(text) : text[i] = x} = {k}
  OBVIOUS
<1>2. QED
  BY <1>1, FS_Singleton DEF Occurs

LEMMA OccursInBoth ==
  ASSUME NEW s \in Seq(Tokens), NEW t \in Seq(Tokens), NEW x
  PROVE  Occurs(s \o t, x) = Occurs(s, x) + Occurs(t, x)
<1> DEFINE S == {i \in 1 .. Len(s) : s[i] = x}
           T == {i \in 1 .. Len(t) : t[i] = x}
           U == {i \in 1 .. Len(s \o t) : (s \o t)[i] = x}
           V == {i \in U : i > Len(s)}
           shift == [i \in T |-> i + Len(s)]
<1>1. /\ Len(s) \in Nat /\ Len(t) \in Nat
      /\ Len(s \o t) = Len(s) + Len(t)
      /\ \A i \in 1 .. Len(s) + Len(t) : (s \o t)[i] =
            IF i <= Len(s) THEN s[i] ELSE t[i - Len(s)]
  BY ConcatProperties, LenProperties
<1>2. ASSUME NEW i \in T PROVE i + Len(s) \in V
  <2>1. i + Len(s) \in 1 .. Len(s) + Len(t) /\ i + Len(s) > Len(s) /\ t[i] = x
        /\ (i + Len(s)) - Len(s) = i
    BY <1>1
  <2>2. (s \o t)[i + Len(s)] = x
    BY <1>1, <2>1
  <2>3. QED
    BY <1>1, <2>1, <2>2
<1>3. ASSUME NEW j \in V PROVE j - Len(s) \in T
  <2>1. j \in 1 .. Len(s) + Len(t) /\ j > Len(s) /\ (s \o t)[j] = x
    BY <1>1
  <2>2. j - Len(s) \in 1 .. Len(t) /\ t[j - Len(s)] = x
    BY <1>1, <2>1
  <2>3. QED
    BY <2>2
<1>4. U = S \union V /\ S \intersect V = {}
  <2>1. ASSUME NEW i \in 1 .. Len(s) PROVE (s \o t)[i] = s[i] /\ i \in 1 .. Len(s \o t)
    BY <1>1
  <2>2. ASSUME NEW i \in U PROVE i \in S \/ i \in V
    <3>1. i \in Nat /\ i >= 1
      BY <1>1
    <3>2. CASE i <= Len(s)
      <4>1. i \in 1 .. Len(s)
        BY <1>1, <3>1, <3>2
      <4>2. QED
        BY <2>1, <4>1
    <3>3. CASE i > Len(s)
      BY <3>3
    <3>4. QED
      BY <1>1, <3>1, <3>2, <3>3
  <2>3. ASSUME NEW i \in S PROVE i \in U
    BY <2>1
  <2>4. ASSUME NEW i \in S, i \in V PROVE FALSE
    BY <1>1, <2>4
  <2>5. QED
    BY <2>2, <2>3, <2>4
<1>5. IsFiniteSet(S) /\ IsFiniteSet(T) /\ IsFiniteSet(U) /\ Cardinality(T) \in Nat
  BY OccursIsANumber, ConcatProperties DEF Occurs
<1>6. shift \in Bijection(T, V)
  <2>1. shift \in [T -> V]
    BY <1>2
  <2>2. \A i, j \in T : i # j => shift[i] # shift[j]
    BY <1>1
  <2>3. \A j \in V : \E i \in T : shift[i] = j
    <3>1. SUFFICES ASSUME NEW j \in V PROVE \E i \in T : shift[i] = j
      OBVIOUS
    <3>2. j - Len(s) \in T
      BY <1>3
    <3>3. (j - Len(s)) + Len(s) = j
      BY <1>1
    <3>4. shift[j - Len(s)] = j
      BY <3>2, <3>3
    <3>5. QED
      BY <3>2, <3>4
  <2> HIDE DEF shift, T, V
  <2>4. QED
    BY <2>1, <2>2, <2>3 DEF Bijection, Injection, Surjection, IsInjective
<1> HIDE DEF shift, S, T, U, V
<1>7. IsFiniteSet(V) /\ Cardinality(V) = Cardinality(T)
  BY <1>5, <1>6, FS_Bijection DEF ExistsBijection
<1>8. Cardinality(U) = Cardinality(S) + Cardinality(T)
  <2>1. Cardinality(S \union V)
          = Cardinality(S) + Cardinality(V) - Cardinality(S \intersect V)
    BY <1>5, <1>7, FS_Union
  <2>2. Cardinality(S) \in Nat /\ Cardinality(S \intersect V) = 0
    BY <1>4, <1>5, FS_CardinalityType, FS_EmptySet
  <2>3. QED
    BY <1>4, <1>5, <1>7, <2>1, <2>2
<1>9. QED
  BY <1>8 DEF Occurs, S, T, U

(* A text without brackets, and one that ends an array. *)
Bare(text) == \A i \in 1 .. Len(text) : text[i] # Open /\ text[i] # Close
EndOfArray(text) ==
  /\ text # <<>>
  /\ \A i \in 1 .. Len(text) : (text[i] = Close <=> i = Len(text)) /\ (text[i] = Open => i = 1)

LEMMA BareHasNone ==
  ASSUME NEW text \in Seq(Tokens), Bare(text)
  PROVE  Occurs(text, Open) = 0 /\ Occurs(text, Close) = 0
BY OccursNot DEF Bare

LEMMA BareConcat ==
  ASSUME NEW s \in Seq(Tokens), NEW t \in Seq(Tokens), Bare(s), Bare(t)
  PROVE  s \o t \in Seq(Tokens) /\ Bare(s \o t)
<1>1. /\ Len(s) \in Nat /\ Len(t) \in Nat /\ s \o t \in Seq(Tokens)
      /\ Len(s \o t) = Len(s) + Len(t)
      /\ \A i \in 1 .. Len(s) + Len(t) : (s \o t)[i] =
            IF i <= Len(s) THEN s[i] ELSE t[i - Len(s)]
  BY ConcatProperties, LenProperties
<1>2. ASSUME NEW i \in 1 .. Len(s) + Len(t)
      PROVE  (s \o t)[i] # Open /\ (s \o t)[i] # Close
  <2>1. CASE i <= Len(s)
    <3>1. i \in 1 .. Len(s) /\ (s \o t)[i] = s[i]
      BY <1>1, <2>1
    <3>2. QED
      BY <3>1 DEF Bare
  <2>2. CASE i > Len(s)
    <3>1. i - Len(s) \in 1 .. Len(t) /\ (s \o t)[i] = t[i - Len(s)]
      BY <1>1, <2>2
    <3>2. QED
      BY <3>1 DEF Bare
  <2>3. QED
    BY <1>1, <2>1, <2>2
<1>3. QED
  BY <1>1, <1>2 DEF Bare

LEMMA InnerIsBare ==
  ASSUME NEW rs \in Seq(Results)
  PROVE  Bare(Inner(rs))
<1>1. /\ Len(rs) \in Nat
      /\ Comma # Open /\ Comma # Close
      /\ \A x \in Results : x # Open /\ x # Close
  BY LenProperties, FileAssumption DEF FileAssumption, Marks
<1>2. CASE Len(rs) = 0
  <2>1. Inner(rs) = <<>>
    BY <1>2 DEF Inner
  <2>2. QED
    BY <2>1 DEF Bare
<1>3. CASE Len(rs) # 0
  <2>1. Len(Inner(rs)) = 2 * Len(rs) - 1
    BY <1>1, <1>3, 2 * Len(rs) - 1 \in Nat DEF Inner
  <2>2. ASSUME NEW i \in 1 .. 2 * Len(rs) - 1
        PROVE  Inner(rs)[i] # Open /\ Inner(rs)[i] # Close
    <3>1. CASE i % 2 = 1
      <4>1. (i + 1) \div 2 \in 1 .. Len(rs)
        BY <1>1, <3>1
      <4>2. rs[(i + 1) \div 2] \in Results
        BY <4>1, ElementOfSeq
      <4>3. Inner(rs)[i] = rs[(i + 1) \div 2]
        BY <3>1 DEF Inner
      <4>4. QED
        BY <1>1, <4>2, <4>3
    <3>2. CASE i % 2 # 1
      BY <1>1, <3>2 DEF Inner
    <3>3. QED
      BY <3>1, <3>2
  <2>3. QED
    BY <2>1, <2>2 DEF Bare
<1>4. QED
  BY <1>2, <1>3

(* A closing bracket after a text without brackets. *)
LEMMA Closed ==
  ASSUME NEW text \in Seq(Tokens), Bare(text)
  PROVE  /\ text \o <<Close>> \in Seq(Tokens) /\ EndOfArray(text \o <<Close>>)
         /\ Occurs(text \o <<Close>>, Open) = 0 /\ Occurs(text \o <<Close>>, Close) = 1
<1> DEFINE close == <<Close>>
           whole == text \o close
<1>1. /\ close \in Seq(Tokens) /\ Len(close) = 1 /\ close[1] = Close
      /\ Open # Close /\ Len(text) \in Nat
  BY MarksAreTokens, LenProperties, FileAssumption DEF FileAssumption
<1> HIDE DEF close
<1>2. /\ whole \in Seq(Tokens) /\ Len(whole) = Len(text) + Len(close)
      /\ \A i \in 1 .. Len(text) + Len(close) : whole[i] =
           IF i <= Len(text) THEN text[i] ELSE close[i - Len(text)]
  BY <1>1, ConcatProperties
<1> HIDE DEF whole
<1>3. \A i \in 1 .. Len(text) : whole[i] = text[i] /\ i \in 1 .. Len(text) + 1
  BY <1>1, <1>2
<1>4. whole[Len(text) + 1] = Close
  <2>1. /\ Len(text) + 1 \in 1 .. Len(text) + 1 /\ ~(Len(text) + 1 <= Len(text))
        /\ (Len(text) + 1) - Len(text) = 1
    BY <1>1
  <2>2. QED
    BY <1>1, <1>2, <2>1
<1>5. \A i \in 1 .. Len(whole) : (whole[i] = Close <=> i = Len(whole)) /\ whole[i] # Open
  <2>1. SUFFICES ASSUME NEW i \in 1 .. Len(text) + 1
                 PROVE  (whole[i] = Close <=> i = Len(text) + 1) /\ whole[i] # Open
    BY <1>1, <1>2
  <2>2. CASE i \in 1 .. Len(text)
    BY <1>1, <1>3, <2>2 DEF Bare
  <2>3. CASE i = Len(text) + 1
    BY <1>1, <1>4, <2>3
  <2>4. QED
    BY <1>1, <2>2, <2>3
<1>6. EndOfArray(whole)
  <2>1. whole # <<>>
    BY <1>1, <1>2
  <2>2. QED
    BY <1>5, <2>1 DEF EndOfArray
<1>7. Occurs(whole, Open) = 0
  BY <1>2, <1>5, OccursNot
<1>8. Occurs(whole, Close) = 1
  <2>1. Len(whole) \in 1 .. Len(whole)
    BY <1>1, <1>2
  <2>2. QED
    BY <1>2, <1>5, <2>1, OccursOnce
<1>9. QED
  BY <1>2, <1>6, <1>7, <1>8 DEF whole, close

(* An opening one before the end of an array that has none. *)
LEMMA Opened ==
  ASSUME NEW text \in Seq(Tokens), EndOfArray(text), Occurs(text, Open) = 0,
         Occurs(text, Close) = 1, \A i \in 1 .. Len(text) : text[i] # Open
  PROVE  /\ <<Open>> \o text \in Seq(Tokens) /\ EndOfArray(<<Open>> \o text)
         /\ Occurs(<<Open>> \o text, Open) = 1 /\ Occurs(<<Open>> \o text, Close) = 1
<1> DEFINE open  == <<Open>>
           whole == open \o text
<1>1. /\ open \in Seq(Tokens) /\ Len(open) = 1 /\ open[1] = Open
      /\ Open # Close /\ Len(text) \in Nat
  BY MarksAreTokens, LenProperties, FileAssumption DEF FileAssumption
<1>2. Occurs(open, Open) = 1 /\ Occurs(open, Close) = 0
  <2> HIDE DEF open
  <2>1. \A i \in 1 .. Len(open) : i = 1 /\ open[i] = Open
    BY <1>1
  <2>2. 1 \in 1 .. Len(open)
    BY <1>1
  <2>3. \A i \in 1 .. Len(open) : (open[i] = Open <=> i = 1) /\ open[i] # Close
    BY <1>1, <2>1
  <2>4. Occurs(open, Open) = 1
    BY <1>1, <2>2, <2>3, OccursOnce
  <2>5. QED
    BY <1>1, <2>3, <2>4, OccursNot
<1> HIDE DEF open
<1>3. /\ whole \in Seq(Tokens) /\ Len(whole) = Len(open) + Len(text)
      /\ \A i \in 1 .. Len(open) + Len(text) : whole[i] =
           IF i <= Len(open) THEN open[i] ELSE text[i - Len(open)]
  BY <1>1, ConcatProperties
<1>4. Occurs(whole, Open) = 1 /\ Occurs(whole, Close) = 1
  BY <1>1, <1>2, OccursInBoth
<1> HIDE DEF whole
<1>5. Len(text) >= 1
  BY <1>1 DEF EndOfArray
<1>6. ASSUME NEW i \in 1 .. Len(whole)
      PROVE  (whole[i] = Close <=> i = Len(whole)) /\ (whole[i] = Open => i = 1)
  <2>1. CASE i = 1
    <3>1. whole[1] = Open
      BY <1>1, <1>3, <2>1
    <3>2. QED
      BY <1>1, <1>3, <1>5, <2>1, <3>1
  <2>2. CASE i # 1
    <3>1. i - 1 \in 1 .. Len(text) /\ whole[i] = text[i - 1]
      BY <1>1, <1>3, <2>2
    <3>2. (text[i - 1] = Close <=> i - 1 = Len(text)) /\ text[i - 1] # Open
      BY <3>1 DEF EndOfArray
    <3>3. QED
      BY <1>1, <1>3, <3>1, <3>2
  <2>3. QED
    BY <2>1, <2>2
<1>7. EndOfArray(whole)
  <2>1. whole # <<>>
    BY <1>1, <1>3
  <2>2. QED
    BY <1>6, <2>1 DEF EndOfArray
<1>8. QED
  BY <1>3, <1>4, <1>7 DEF whole, open

LEMMA PairOfMarks == <<Open>> \o <<Close>> = <<Open, Close>>
<1> DEFINE open == <<Open>>
           close == <<Close>>
           pair == open \o close
           both == <<Open, Close>>
<1>1. /\ open \in Seq(Tokens) /\ Len(open) = 1 /\ open[1] = Open
      /\ close \in Seq(Tokens) /\ Len(close) = 1 /\ close[1] = Close
      /\ both \in Seq(Tokens) /\ Len(both) = 2 /\ both[1] = Open /\ both[2] = Close
  BY MarksAreTokens
<1> HIDE DEF open, close, both
<1>2. /\ pair \in Seq(Tokens) /\ Len(pair) = Len(open) + Len(close)
      /\ \A i \in 1 .. Len(open) + Len(close) : pair[i] =
           IF i <= Len(open) THEN open[i] ELSE close[i - Len(open)]
  BY <1>1, ConcatProperties
<1> HIDE DEF pair
<1>3. \A i \in 1 .. 2 : pair[i] = both[i]
  BY <1>1, <1>2
<1>4. pair = both
  BY <1>1, <1>2, <1>3, SeqEqual
<1>5. QED
  BY <1>4 DEF pair, both, open, close

(* What a writer adds: a whole array, or the end of the one that is there. *)
LEMMA TextsEndArrays ==
  ASSUME NEW rs \in Seq(Results), NEW text \in Seq(Tokens)
  PROVE  /\ EndOfArray(Array(rs))
         /\ Occurs(Array(rs), Open) = 1 /\ Occurs(Array(rs), Close) = 1
         /\ EndOfArray(Separator(text) \o Inner(rs) \o <<Close>>)
         /\ Occurs(Separator(text) \o Inner(rs) \o <<Close>>, Open) = 0
         /\ Occurs(Separator(text) \o Inner(rs) \o <<Close>>, Close) = 1
<1>1. /\ <<>> \in Seq(Tokens) /\ Bare(<<>>)
      /\ Inner(rs) \in Seq(Tokens) /\ Bare(Inner(rs))
  BY InnerIsText, InnerIsBare DEF Bare
<1>2. Separator(text) \in Seq(Tokens) /\ Bare(Separator(text))
  <2>1. Len(<<Comma>>) = 1 /\ <<Comma>>[1] = Comma
    OBVIOUS
  <2>2. <<Comma>> \in Seq(Tokens) /\ Bare(<<Comma>>)
    BY <2>1, MarksAreTokens, FileAssumption DEF FileAssumption, Bare
  <2>3. QED
    BY <1>1, <2>2 DEF Separator
<1>3. Separator(text) \o Inner(rs) \in Seq(Tokens) /\ Bare(Separator(text) \o Inner(rs))
  BY <1>1, <1>2, BareConcat
<1> DEFINE ClosesAnArray(t) ==
      /\ t \in Seq(Tokens) /\ EndOfArray(t)
      /\ Occurs(t, Open) = 0 /\ Occurs(t, Close) = 1
<1>4. ClosesAnArray((Separator(text) \o Inner(rs)) \o <<Close>>)
  BY <1>3, Closed
<1>5. ASSUME NEW body \in Seq(Tokens), Bare(body)
      PROVE  /\ EndOfArray(<<Open>> \o (body \o <<Close>>))
             /\ Occurs(<<Open>> \o (body \o <<Close>>), Open) = 1
             /\ Occurs(<<Open>> \o (body \o <<Close>>), Close) = 1
  <2>1. ClosesAnArray(body \o <<Close>>)
    BY <1>5, Closed
  <2> DEFINE end == body \o <<Close>>
  <2> HIDE DEF end
  <2>2. ClosesAnArray(end)
    BY <2>1 DEF end
  <2>3. \A i \in 1 .. Len(end) : end[i] # Open
    <3>1. {i \in 1 .. Len(end) : end[i] = Open} = {}
      BY <2>2, OccursIsANumber, FS_EmptySet DEF Occurs
    <3>2. QED
      BY <3>1
  <2>4. /\ EndOfArray(<<Open>> \o end)
        /\ Occurs(<<Open>> \o end, Open) = 1 /\ Occurs(<<Open>> \o end, Close) = 1
    BY <2>2, <2>3, Opened
  <2>5. QED
    BY <2>4 DEF end
<1>6. CASE rs = <<>>
  <2>1. <<Open>> \o (<<>> \o <<Close>>) = <<Open, Close>>
    <3>1. <<Close>> \in Seq(Tokens)
      BY MarksAreTokens
    <3>2. <<>> \o <<Close>> = <<Close>>
      BY <3>1, ConcatEmptySeq
    <3>3. <<Open>> \o <<Close>> = <<Open, Close>>
      BY PairOfMarks
    <3>4. QED
      BY <3>2, <3>3
  <2>2. QED
    BY <1>1, <1>4, <1>5, <1>6, <2>1 DEF Array
<1>7. CASE rs # <<>>
  <2>1. (<<Open>> \o Inner(rs)) \o <<Close>> = <<Open>> \o (Inner(rs) \o <<Close>>)
    <3>1. <<Open>> \in Seq(Tokens) /\ <<Close>> \in Seq(Tokens)
      BY MarksAreTokens
    <3>2. QED
      BY <1>1, <3>1, ConcatAssociative
  <2>2. QED
    BY <1>1, <1>4, <1>5, <1>7, <2>1 DEF Array
<1>8. QED
  BY <1>6, <1>7

(* A text without its final bracket. *)
LEMMA Uncapped ==
  ASSUME NEW text \in Seq(Tokens)
  PROVE  /\ Len(text \o <<Close>>) = Len(text) + 1
         /\ (text \o <<Close>>)[Len(text) + 1] = Close
         /\ \A i \in 1 .. Len(text) : (text \o <<Close>>)[i] = text[i]
         /\ Truncated(text \o <<Close>>, Len(text)) = text
<1> DEFINE close == <<Close>>
           whole == text \o close
<1>1. /\ close \in Seq(Tokens) /\ Len(close) = 1 /\ close[1] = Close
      /\ Len(text) \in Nat
  BY MarksAreTokens, LenProperties
<1> HIDE DEF close
<1>2. /\ whole \in Seq(Tokens) /\ Len(whole) = Len(text) + Len(close)
      /\ \A i \in 1 .. Len(text) + Len(close) : whole[i] =
           IF i <= Len(text) THEN text[i] ELSE close[i - Len(text)]
  BY <1>1, ConcatProperties
<1> HIDE DEF whole
<1>3. \A i \in 1 .. Len(text) : whole[i] = text[i]
  BY <1>1, <1>2
<1>4. whole[Len(text) + 1] = Close
  <2>1. /\ Len(text) + 1 \in 1 .. Len(text) + Len(close) /\ ~(Len(text) + 1 <= Len(text))
        /\ (Len(text) + 1) - Len(text) = 1
    BY <1>1
  <2>2. QED
    BY <1>1, <1>2, <2>1
<1>5. Truncated(whole, Len(text)) = text
  <2>1. /\ Truncated(whole, Len(text)) \in Seq(Tokens)
        /\ Len(Truncated(whole, Len(text))) = Len(text)
        /\ \A i \in 1 .. Len(text) :
             i <= Len(whole) => Truncated(whole, Len(text))[i] = whole[i]
    BY <1>1, <1>2, TruncatedIsText
  <2>2. \A i \in 1 .. Len(text) : Truncated(whole, Len(text))[i] = text[i]
    BY <1>1, <1>2, <1>3, <2>1
  <2>3. QED
    BY <2>1, <2>2, SeqEqual
<1>6. QED
  BY <1>1, <1>2, <1>3, <1>4, <1>5 DEF whole, close

LEMMA Recapped ==
  ASSUME NEW text \in Seq(Tokens), Len(text) # 0, text[Len(text)] = Close
  PROVE  /\ Truncated(text, Len(text) - 1) \in Seq(Tokens)
         /\ text = Truncated(text, Len(text) - 1) \o <<Close>>
<1> DEFINE short == Truncated(text, Len(text) - 1)
<1>1. Len(text) \in Nat /\ Len(text) - 1 \in Nat
  BY LenProperties
<1>2. /\ short \in Seq(Tokens) /\ Len(short) = Len(text) - 1
      /\ \A i \in 1 .. Len(text) - 1 : i <= Len(text) => short[i] = text[i]
  BY <1>1, TruncatedIsText
<1> HIDE DEF short
<1>3. /\ Len(short \o <<Close>>) = Len(short) + 1
      /\ (short \o <<Close>>)[Len(short) + 1] = Close
      /\ \A i \in 1 .. Len(short) : (short \o <<Close>>)[i] = short[i]
  BY <1>2, Uncapped
<1>4. short \o <<Close>> \in Seq(Tokens)
  BY <1>2, MarksAreTokens, ConcatProperties, <<Close>> \in Seq(Tokens)
<1> DEFINE capped == short \o <<Close>>
<1> HIDE DEF capped
<1>5. /\ capped \in Seq(Tokens) /\ Len(capped) = Len(text)
      /\ \A i \in 1 .. Len(text) : text[i] = capped[i]
  <2>1. /\ capped \in Seq(Tokens) /\ Len(capped) = Len(text)
        /\ capped[Len(text)] = Close
        /\ \A i \in 1 .. Len(text) - 1 : capped[i] = short[i]
    BY <1>1, <1>2, <1>3, <1>4 DEF capped
  <2>2. QED
    BY <1>1, <1>2, <2>1
<1>6. text = capped
  BY <1>5, SeqEqual
<1>7. QED
  BY <1>2, <1>6 DEF capped, short

(* Two lists with a comma between them are the list of both. *)
LEMMA InnerGrows ==
  ASSUME NEW rs \in Seq(Results), NEW more \in Seq(Results), rs # <<>>, more # <<>>
  PROVE  (Inner(rs) \o <<Comma>>) \o Inner(more) = Inner(rs \o more)
<1> DEFINE n == Len(rs)
           m == Len(more)
           comma == <<Comma>>
           head  == Inner(rs) \o comma
           whole == head \o Inner(more)
           both  == rs \o more
<1>1. n \in Nat /\ m \in Nat /\ n >= 1 /\ m >= 1
  <2>1. n # 0 /\ m # 0
    OBVIOUS
  <2>2. QED
    BY <2>1, LenProperties
<1>2. /\ both \in Seq(Results) /\ Len(both) = n + m
      /\ \A i \in 1 .. n + m : both[i] = IF i <= n THEN rs[i] ELSE more[i - n]
  BY ConcatProperties
<1>3. comma \in Seq(Tokens) /\ Len(comma) = 1 /\ comma[1] = Comma
  BY MarksAreTokens
<1>4. Inner(rs) \in Seq(Tokens) /\ Inner(more) \in Seq(Tokens) /\ Inner(both) \in Seq(Tokens)
  BY <1>2, InnerIsText
<1>5. /\ Len(Inner(rs)) = 2 * n - 1 /\ Len(Inner(more)) = 2 * m - 1
      /\ Len(Inner(both)) = 2 * (n + m) - 1
  <2>1. 2 * n - 1 \in Nat /\ 2 * m - 1 \in Nat /\ 2 * (n + m) - 1 \in Nat
    BY <1>1
  <2> HIDE DEF n, m, both
  <2>2. QED
    BY <1>2, <2>1 DEF Inner, n, m
<1> HIDE DEF comma, both, n, m
<1>6. /\ head \in Seq(Tokens) /\ Len(head) = Len(Inner(rs)) + Len(comma)
      /\ \A i \in 1 .. Len(Inner(rs)) + Len(comma) : head[i] =
           IF i <= Len(Inner(rs)) THEN Inner(rs)[i] ELSE comma[i - Len(Inner(rs))]
  BY <1>3, <1>4, ConcatProperties
<1> HIDE DEF head
<1>7. /\ whole \in Seq(Tokens) /\ Len(whole) = Len(head) + Len(Inner(more))
      /\ \A i \in 1 .. Len(head) + Len(Inner(more)) : whole[i] =
           IF i <= Len(head) THEN head[i] ELSE Inner(more)[i - Len(head)]
  BY <1>4, <1>6, ConcatProperties
<1> HIDE DEF whole
<1>8. Len(head) = 2 * n /\ Len(whole) = 2 * (n + m) - 1
  BY <1>1, <1>3, <1>5, <1>6, <1>7
<1>9. ASSUME NEW i \in 1 .. 2 * (n + m) - 1
      PROVE  whole[i] = Inner(both)[i]
  <2>1. Inner(both)[i] = IF i % 2 = 1 THEN both[(i + 1) \div 2] ELSE Comma
    BY <1>1, <1>2 DEF Inner
  <2>2. CASE i <= 2 * n - 1
    <3>1. i \in 1 .. 2 * n - 1
      BY <1>1, <2>2
    <3>2. whole[i] = Inner(rs)[i]
      <4>1. whole[i] = head[i]
        BY <1>1, <1>7, <1>8, <2>2
      <4>2. head[i] = Inner(rs)[i]
        BY <1>1, <1>3, <1>5, <1>6, <3>1
      <4>3. QED
        BY <4>1, <4>2
    <3>3. Inner(rs)[i] = IF i % 2 = 1 THEN rs[(i + 1) \div 2] ELSE Comma
      BY <1>1, <3>1 DEF Inner, n
    <3>4. i % 2 = 1 => both[(i + 1) \div 2] = rs[(i + 1) \div 2]
      <4>1. (i + 1) \div 2 \in 1 .. n
        BY <1>1, <3>1
      <4>2. QED
        BY <1>1, <1>2, <4>1
    <3>5. QED
      BY <2>1, <3>2, <3>3, <3>4
  <2>3. CASE i = 2 * n
    <3>1. i % 2 # 1
      BY <1>1, <2>3
    <3>2. whole[i] = head[2 * n]
      BY <1>1, <1>7, <1>8, <2>3
    <3>3. head[2 * n] = comma[1]
      <4>1. /\ 2 * n \in 1 .. Len(Inner(rs)) + Len(comma)
            /\ ~(2 * n <= Len(Inner(rs))) /\ 2 * n - Len(Inner(rs)) = 1
        BY <1>1, <1>3, <1>5
      <4>2. QED
        BY <1>6, <4>1
    <3>4. QED
      BY <1>3, <2>1, <3>1, <3>2, <3>3
  <2>4. CASE i > 2 * n
    <3>1. i - 2 * n \in 1 .. 2 * m - 1
      BY <1>1, <2>4
    <3>2. whole[i] = Inner(more)[i - 2 * n]
      BY <1>1, <1>5, <1>7, <1>8, <2>4
    <3>3. Inner(more)[i - 2 * n] =
            IF (i - 2 * n) % 2 = 1 THEN more[((i - 2 * n) + 1) \div 2] ELSE Comma
      BY <1>1, <3>1 DEF Inner, m
    <3>4. (i - 2 * n) % 2 = i % 2 /\ ((i - 2 * n) + 1) \div 2 = (i + 1) \div 2 - n
      BY <1>1
    <3>5. both[(i + 1) \div 2] = more[(i + 1) \div 2 - n]
      <4>1. (i + 1) \div 2 \in 1 .. n + m /\ (i + 1) \div 2 > n
        BY <1>1, <2>4
      <4>2. QED
        BY <1>1, <1>2, <4>1
    <3>6. QED
      BY <2>1, <3>2, <3>3, <3>4, <3>5
  <2>5. QED
    BY <1>1, <2>2, <2>3, <2>4
<1>10. whole = Inner(both)
  BY <1>4, <1>5, <1>7, <1>8, <1>9, SeqEqual
<1>11. QED
  BY <1>10 DEF whole, head, comma, both

LEMMA OpenFirst ==
  ASSUME NEW rs \in Seq(Results)
  PROVE  Array(rs) = (<<Open>> \o Inner(rs)) \o <<Close>>
<1>1. CASE rs = <<>>
  <2>1. Len(rs) = 0
    BY <1>1
  <2>2. Inner(rs) = <<>>
    BY <2>1 DEF Inner
  <2>3. <<Open>> \o <<>> = <<Open>>
    BY MarksAreTokens, ConcatEmptySeq, <<Open>> \in Seq(Tokens)
  <2>4. QED
    BY <1>1, <2>2, <2>3, PairOfMarks DEF Array
<1>2. CASE rs # <<>>
  BY <1>2 DEF Array
<1>3. QED
  BY <1>1, <1>2

LEMMA ArrayEnds ==
  ASSUME NEW rs \in Seq(Results)
  PROVE  /\ Array(rs) # <<>>
         /\ CloseOf(Array(rs)) # 0
         /\ Truncated(Array(rs), Len(Array(rs)) - 1) = <<Open>> \o Inner(rs)
         /\ IsEmptyArray(Array(rs)) <=> rs = <<>>
<1> DEFINE open == <<Open>>
           body == open \o Inner(rs)
           whole == Array(rs)
<1>1. open \in Seq(Tokens) /\ Len(open) = 1 /\ open[1] = Open
  BY MarksAreTokens
<1> HIDE DEF open
<1>2. Inner(rs) \in Seq(Tokens) /\ Bare(Inner(rs))
  BY InnerIsText, InnerIsBare
<1>3. /\ body \in Seq(Tokens) /\ Len(body) = Len(open) + Len(Inner(rs))
      /\ \A i \in 1 .. Len(open) + Len(Inner(rs)) : body[i] =
           IF i <= Len(open) THEN open[i] ELSE Inner(rs)[i - Len(open)]
  BY <1>1, <1>2, ConcatProperties
<1>4. whole = body \o <<Close>>
  BY OpenFirst DEF open
<1> HIDE DEF body, whole
<1>5. /\ Len(whole) = Len(body) + 1 /\ whole[Len(body) + 1] = Close
      /\ \A i \in 1 .. Len(body) : whole[i] = body[i]
      /\ Truncated(whole, Len(body)) = body
  BY <1>3, <1>4, Uncapped
<1>6. whole \in Seq(Tokens)
  BY TextsAreText, <<>> \in Seq(Tokens) DEF whole
<1>7. Len(Inner(rs)) \in Nat /\ Len(body) = 1 + Len(Inner(rs))
  BY <1>1, <1>2, <1>3, LenProperties
<1>8. whole # <<>> /\ Last(whole) = Close /\ CloseOf(whole) # 0
  <2>1. Len(whole) # 0 /\ whole[Len(whole)] = Close
    BY <1>5, <1>7
  <2>2. QED
    BY <2>1, <1>5, <1>7 DEF Last, CloseOf
<1>9. Truncated(whole, Len(whole) - 1) = body
  <2>1. Len(whole) - 1 = Len(body)
    BY <1>5, <1>7
  <2>2. QED
    BY <1>5, <2>1
<1>10. IsEmptyArray(whole) <=> body[Len(body)] = Open
  <2>1. Len(whole) - 1 = Len(body) /\ Len(whole) > 1 /\ Len(body) \in 1 .. Len(body)
    BY <1>5, <1>7
  <2>2. QED
    BY <1>5, <1>8, <2>1 DEF IsEmptyArray
<1>11. CASE rs = <<>>
  <2>1. Len(rs) = 0
    BY <1>11
  <2>2. Len(Inner(rs)) = 0
    BY <2>1 DEF Inner
  <2>3. body[Len(body)] = Open
    BY <1>1, <1>3, <1>7, <2>2
  <2>4. QED
    BY <1>8, <1>9, <1>10, <1>11, <2>3 DEF whole, body, open
<1>12. CASE rs # <<>>
  <2>1. Len(rs) \in Nat /\ Len(rs) # 0
    BY <1>12, LenProperties
  <2>2. Len(Inner(rs)) = 2 * Len(rs) - 1
    BY <2>1, 2 * Len(rs) - 1 \in Nat DEF Inner
  <2>3. Len(Inner(rs)) \in 1 .. Len(Inner(rs))
    BY <2>1, <2>2
  <2>4. body[Len(body)] = Inner(rs)[Len(Inner(rs))]
    BY <1>1, <1>3, <1>7, <2>3
  <2>5. body[Len(body)] # Open
    BY <1>2, <2>3, <2>4 DEF Bare
  <2>6. QED
    BY <1>8, <1>9, <1>10, <1>12, <2>5 DEF whole, body, open
<1>13. QED
  BY <1>11, <1>12

LEMMA Joined ==
  ASSUME NEW s \in Seq(Tokens), NEW t \in Seq(Tokens), NEW u \in Seq(Tokens)
  PROVE  (s \o t) \o u = s \o (t \o u)
BY ConcatAssociative

LEMMA JoinedFour ==
  ASSUME NEW s \in Seq(Tokens), NEW t \in Seq(Tokens), NEW u \in Seq(Tokens),
         NEW v \in Seq(Tokens), s \o t \in Seq(Tokens)
  PROVE  (s \o t) \o (u \o v) = (s \o (t \o u)) \o v
<1>1. (s \o t) \o u = s \o (t \o u)
  BY Joined, Zenon
<1>2. (s \o t) \o (u \o v) = ((s \o t) \o u) \o v
  BY Joined, SMTT(60)
<1>3. QED
  BY <1>1, <1>2, Zenon

(* The new results in place of the bracket of an array make the array of   *)
(* all of them.                                                            *)
LEMMA ArrayGrows ==
  ASSUME NEW rs \in Seq(Results), NEW more \in Seq(Results), more # <<>>
  PROVE  Truncated(Array(rs), Len(Array(rs)) - 1)
           \o (Separator(Array(rs)) \o Inner(more) \o <<Close>>)
         = Array(rs \o more)
<1> DEFINE open  == <<Open>>
           close == <<Close>>
           comma == <<Comma>>
<1>1. /\ open \in Seq(Tokens) /\ close \in Seq(Tokens) /\ comma \in Seq(Tokens)
      /\ Inner(rs) \in Seq(Tokens) /\ Inner(more) \in Seq(Tokens)
      /\ rs \o more \in Seq(Results)
  BY MarksAreTokens, InnerIsText, ConcatProperties
<1>2. Truncated(Array(rs), Len(Array(rs)) - 1) = open \o Inner(rs)
  BY ArrayEnds
<1>3. Array(rs \o more) = (open \o Inner(rs \o more)) \o close
  BY <1>1, OpenFirst
<1>4. CASE rs = <<>>
  <2>1. Separator(Array(rs)) = <<>>
    BY <1>4, ArrayEnds DEF Separator
  <2>2. <<>> \o Inner(more) = Inner(more) /\ rs \o more = more
    BY <1>1, <1>4, ConcatEmptySeq
  <2>3. Inner(rs) = <<>>
    <3>1. Len(rs) = 0
      BY <1>4
    <3>2. QED
      BY <3>1 DEF Inner
  <2> HIDE DEF open, close, comma
  <2>4. open \o Inner(rs) = open
    BY <1>1, <2>3, ConcatEmptySeq
  <2>5. (open \o Inner(more)) \o close = open \o (Inner(more) \o close)
    BY <1>1, ConcatAssociative
  <2>6. QED
    BY <1>2, <1>3, <2>1, <2>2, <2>4, <2>5 DEF close
<1>5. CASE rs # <<>>
  <2>1. Separator(Array(rs)) = comma
    BY <1>5, ArrayEnds DEF Separator
  <2>2. (Inner(rs) \o comma) \o Inner(more) = Inner(rs \o more)
    BY <1>5, InnerGrows
  <2> DEFINE a == Inner(rs)
             b == Inner(more)
  <2> HIDE DEF open, close, comma, a, b
  <2>3. a \in Seq(Tokens) /\ b \in Seq(Tokens)
    BY <1>1 DEF a, b
  <2>4. open \in Seq(Tokens) /\ close \in Seq(Tokens) /\ comma \in Seq(Tokens)
    BY <1>1
  <2>5. comma \o b \in Seq(Tokens) /\ open \o a \in Seq(Tokens)
    BY <2>3, <2>4, ConcatProperties
  <2>6. (open \o a) \o ((comma \o b) \o close) = (open \o (a \o (comma \o b))) \o close
    BY <2>3, <2>4, <2>5, JoinedFour, SMTT(60)
  <2>7. a \o (comma \o b) = (a \o comma) \o b
    BY <2>3, <2>4, Joined, SMTT(60)
  <2>8. QED
    BY <1>2, <1>3, <2>1, <2>2, <2>6, <2>7 DEF a, b, close
<1>6. QED
  BY <1>4, <1>5

(* A file whose end is a bracket loses just that one when it is cut.       *)
LEMMA CutLosesOne ==
  ASSUME NEW text \in Seq(Tokens), Len(text) # 0, text[Len(text)] = Close
  PROVE  LET short == Truncated(text, Len(text) - 1)
         IN  /\ Occurs(text, Open) = Occurs(short, Open)
             /\ Occurs(text, Close) = Occurs(short, Close) + 1
<1> DEFINE short == Truncated(text, Len(text) - 1)
<1>1. short \in Seq(Tokens) /\ text = short \o <<Close>>
  BY Recapped
<1> HIDE DEF short
<1> DEFINE close == <<Close>>
<1>2. /\ close \in Seq(Tokens) /\ text = short \o close
      /\ Occurs(close, Open) = 0 /\ Occurs(close, Close) = 1
  <2>1. <<>> \in Seq(Tokens) /\ Bare(<<>>) /\ close \in Seq(Tokens)
    BY MarksAreTokens DEF Bare
  <2>2. <<>> \o close = close
    BY <2>1, ConcatEmptySeq
  <2>3. QED
    BY <1>1, <2>1, <2>2, Closed
<1> HIDE DEF close
<1>3. Occurs(short, Open) \in Nat /\ Occurs(short, Close) \in Nat
  BY <1>1, OccursIsANumber
<1>4. /\ Occurs(text, Open) = Occurs(short, Open) + Occurs(close, Open)
      /\ Occurs(text, Close) = Occurs(short, Close) + Occurs(close, Close)
  BY <1>1, <1>2, OccursInBoth
<1>5. QED
  BY <1>2, <1>3, <1>4 DEF short

-----------------------------------------------------------------------------
(* The file is an array, but for what a fault has left of one.             *)

(* Between saves: a bracket is missing, or an array too many, only after a *)
(* fault.                                                                  *)
Settled ==
  /\ Occurs(file, Open) <= 1 + faults
  /\ Occurs(file, Open) - Occurs(file, Close) \in 0 .. faults
  /\ CloseOf(file) = 0 => Occurs(file, Open) <= faults
  /\ faults = 0 => file = Array(saved) \/ (file = <<>> /\ saved = <<>>)

(* In a save: what is there and what is still to be written.               *)
Completing(w) ==
  /\ EndOfArray(rest[w])
  /\ Occurs(file \o rest[w], Open) <= 1 + faults
  /\ Occurs(file \o rest[w], Open) - Occurs(file \o rest[w], Close) \in 0 .. faults
  /\ faults = 0 => file \o rest[w] = Array(saved \o mine[w])

SaveUnderWay(w) ==
  /\ Inside(w) => mine[w] # <<>>
  /\ pc[w] = "cut" => rest[w] = Separator(file) \o Inner(mine[w]) \o <<Close>>
  /\ pc[w] \in {"open", "write"} => Completing(w)

Balance ==
  ~overlap =>
    /\ (\A w \in Writers : pc[w] \notin {"open", "write"}) => Settled
    /\ \A w \in Writers : SaveUnderWay(w)

LEMMA EndHasOne ==
  ASSUME NEW text \in Seq(Tokens), EndOfArray(text)
  PROVE  /\ Occurs(text, Close) = 1 /\ Occurs(text, Open) \in {0, 1}
         /\ text[1] # Open => Occurs(text, Open) = 0
         /\ Len(text) \in 1 .. Len(text) /\ text[Len(text)] = Close
<1>1. Len(text) \in Nat /\ Len(text) # 0
  BY LenProperties DEF EndOfArray
<1>2. Len(text) \in 1 .. Len(text) /\ 1 \in 1 .. Len(text)
  BY <1>1
<1>3. Occurs(text, Close) = 1
  BY <1>2, OccursOnce DEF EndOfArray
<1>4. CASE text[1] = Open
  <2>1. \A i \in 1 .. Len(text) : text[i] = Open <=> i = 1
    BY <1>4 DEF EndOfArray
  <2>2. Occurs(text, Open) = 1
    BY <1>2, <2>1, OccursOnce
  <2>3. QED
    BY <1>2, <1>3, <1>4, <2>2 DEF EndOfArray
<1>5. CASE text[1] # Open
  <2>1. \A i \in 1 .. Len(text) : text[i] # Open
    BY <1>5 DEF EndOfArray
  <2>2. Occurs(text, Open) = 0
    BY <2>1, OccursNot
  <2>3. QED
    BY <1>2, <1>3, <2>2 DEF EndOfArray
<1>6. QED
  BY <1>4, <1>5

(* A new array is begun: the file does not end in a bracket, or cannot be  *)
(* opened.                                                                 *)
LEMMA BeginsAnArray ==
  ASSUME TypeOK, Settled, NEW w \in Writers, mine[w] # <<>>,
         UNCHANGED <<file, saved, mine>>, rest'[w] = Array(mine[w]),
         \/ CloseOf(file) = 0 /\ faults' = faults
         \/ faults' = faults + 1
  PROVE  Completing(w)'
<1> DEFINE new == Array(mine[w])
<1>1. /\ file \in Seq(Tokens) /\ mine[w] \in Seq(Results) /\ saved \in Seq(Results)
      /\ faults \in Nat
  BY DEF TypeOK
<1>2. /\ new \in Seq(Tokens) /\ EndOfArray(new)
      /\ Occurs(new, Open) = 1 /\ Occurs(new, Close) = 1
  BY <1>1, TextsAreText, TextsEndArrays
<1> HIDE DEF new
<1>3. /\ Occurs(file, Open) \in Nat /\ Occurs(file, Close) \in Nat
      /\ Occurs(file \o new, Open) = Occurs(file, Open) + 1
      /\ Occurs(file \o new, Close) = Occurs(file, Close) + 1
  <2>1. /\ Occurs(file \o new, Open) = Occurs(file, Open) + Occurs(new, Open)
        /\ Occurs(file \o new, Close) = Occurs(file, Close) + Occurs(new, Close)
    BY <1>1, <1>2, OccursInBoth
  <2>2. QED
    BY <1>1, <1>2, <2>1, OccursIsANumber
<1>4. Occurs(file \o new, Open) <= 1 + faults'
  BY <1>1, <1>3 DEF Settled
<1>5. Occurs(file \o new, Open) - Occurs(file \o new, Close) \in 0 .. faults'
  BY <1>1, <1>3 DEF Settled
<1>6. ASSUME faults' = 0 PROVE file \o new = Array(saved \o mine[w])
  <2>1. faults = 0 /\ CloseOf(file) = 0
    BY <1>1, <1>6
  <2>2. file = <<>> /\ saved = <<>>
    BY <1>1, <2>1, ArrayEnds DEF Settled
  <2>3. saved \o mine[w] = mine[w] /\ file \o new = new
    BY <1>1, <1>2, <2>2, ConcatEmptySeq
  <2>4. QED
    BY <2>3 DEF new
<1>7. rest'[w] = new /\ file' = file /\ saved' = saved /\ mine' = mine
  BY DEF new
<1>8. QED
  BY <1>2, <1>4, <1>5, <1>6, <1>7 DEF Completing

(* The final bracket is cut off, to be written again after the results.    *)
LEMMA ReopensTheArray ==
  ASSUME TypeOK, Settled, NEW w \in Writers, mine[w] # <<>>,
         Len(file) # 0, file[Len(file)] = Close,
         rest[w] = Separator(file) \o Inner(mine[w]) \o <<Close>>,
         file' = Truncated(file, Len(file) - 1),
         UNCHANGED <<rest, saved, mine, faults>>
  PROVE  Completing(w)'
<1> DEFINE more  == Separator(file) \o Inner(mine[w]) \o <<Close>>
           short == Truncated(file, Len(file) - 1)
<1>1. /\ file \in Seq(Tokens) /\ mine[w] \in Seq(Results) /\ saved \in Seq(Results)
      /\ faults \in Nat
  BY DEF TypeOK
<1>2. /\ more \in Seq(Tokens) /\ EndOfArray(more)
      /\ Occurs(more, Open) = 0 /\ Occurs(more, Close) = 1
  BY <1>1, TextsAreText, TextsEndArrays
<1>3. /\ short \in Seq(Tokens)
      /\ Occurs(file, Open) = Occurs(short, Open)
      /\ Occurs(file, Close) = Occurs(short, Close) + 1
  BY <1>1, Recapped, CutLosesOne
<1>4. ASSUME faults = 0 PROVE short \o more = Array(saved \o mine[w])
  <2>1. file # <<>>
    OBVIOUS
  <2>2. file = Array(saved)
    BY <1>4, <2>1 DEF Settled
  <2>3. QED
    BY <1>1, <2>2, ArrayGrows
<1> HIDE DEF more, short
<1>5. /\ Occurs(short, Open) \in Nat /\ Occurs(short, Close) \in Nat
      /\ Occurs(short \o more, Open) = Occurs(short, Open) + 0
      /\ Occurs(short \o more, Close) = Occurs(short, Close) + 1
  <2>1. /\ Occurs(short \o more, Open) = Occurs(short, Open) + Occurs(more, Open)
        /\ Occurs(short \o more, Close) = Occurs(short, Close) + Occurs(more, Close)
    BY <1>2, <1>3, OccursInBoth
  <2>2. QED
    BY <1>2, <1>3, <2>1, OccursIsANumber
<1>6. /\ Occurs(short \o more, Open) <= 1 + faults
      /\ Occurs(short \o more, Open) - Occurs(short \o more, Close) \in 0 .. faults
  BY <1>1, <1>3, <1>5 DEF Settled
<1>7. rest'[w] = more /\ file' = short
  BY DEF more, short
<1>8. QED
  BY <1>2, <1>4, <1>6, <1>7 DEF Completing

LEMMA PartsHaveNoOpening ==
  ASSUME NEW part \in PartsOfAResult
  PROVE  Occurs(part, Open) = 0 /\ Occurs(part, Close) \in {0, 1}
<1>1. Torn # Open /\ Torn # Close /\ Close # Open
  BY FileAssumption DEF FileAssumption
<1>2. CASE part = <<Torn>>
  <2>1. part \in Seq(Tokens) /\ Len(part) = 1 /\ part[1] = Torn
    BY <1>2, MarksAreTokens
  <2>2. \A i \in 1 .. Len(part) : part[i] # Open /\ part[i] # Close
    BY <1>1, <2>1
  <2>3. QED
    BY <2>1, <2>2, OccursNot
<1>3. CASE part = <<Torn, Close>>
  <2>1. part \in Seq(Tokens) /\ Len(part) = 2 /\ part[1] = Torn /\ part[2] = Close
    BY <1>3, MarksAreTokens
  <2>2. \A i \in 1 .. Len(part) : part[i] # Open /\ (part[i] = Close <=> i = 2)
    BY <1>1, <2>1
  <2>3. 2 \in 1 .. Len(part)
    BY <2>1
  <2>4. Occurs(part, Close) = 1
    BY <2>1, <2>2, <2>3, OccursOnce
  <2>5. QED
    BY <2>1, <2>2, <2>4, OccursNot
<1>4. QED
  BY <1>2, <1>3, Zenon DEF PartsOfAResult

(* A fault leaves at most one bracket missing and one array too many.      *)
LEMMA AFaultLeavesLittle ==
  ASSUME TypeOK, NEW w \in Writers, Inside(w), MayTear(w), faults' = faults + 1,
         pc[w] \in {"look", "cut"} => Settled,
         pc[w] \in {"open", "write"} => Completing(w)
  PROVE  Settled'
<1>1. /\ file \in Seq(Tokens) /\ rest[w] \in Seq(Tokens) /\ faults \in Nat
      /\ Occurs(file, Open) \in Nat /\ Occurs(file, Close) \in Nat
      /\ pc[w] \in {"look", "cut", "open", "write"}
  BY OccursIsANumber DEF TypeOK, Inside
<1>2. SUFFICES /\ Occurs(file', Open) <= faults + 1
               /\ Occurs(file', Open) - Occurs(file', Close) \in 0 .. faults + 1
  <2>1. file' \in Seq(Tokens)
    BY <1>1, TearingKeeps
  <2>2. Occurs(file', Open) \in Nat
    BY <2>1, OccursIsANumber
  <2>3. QED
    BY <1>1, <2>2 DEF Settled
<1>3. CASE pc[w] \in {"look", "cut"}
  <2>1. file' = file /\ Settled
    BY <1>3 DEF MayTear
  <2>2. QED
    BY <1>1, <2>1 DEF Settled
<1>4. CASE pc[w] \in {"open", "write"}
  <2> DEFINE o == Occurs(rest[w], Open)
  <2>1. /\ Completing(w) /\ EndOfArray(rest[w])
        /\ o \in {0, 1} /\ Occurs(rest[w], Close) = 1
    BY <1>1, <1>4, EndHasOne DEF Completing
  <2>2. /\ Occurs(file \o rest[w], Open) = Occurs(file, Open) + o
        /\ Occurs(file \o rest[w], Close) = Occurs(file, Close) + Occurs(rest[w], Close)
    BY <1>1, OccursInBoth
  <2> HIDE DEF o
  <2>3. /\ Occurs(file, Open) + o <= 1 + faults
        /\ (Occurs(file, Open) + o) - (Occurs(file, Close) + 1) \in 0 .. faults
    BY <2>1, <2>2 DEF Completing
  <2>4. CASE file' = file
    BY <1>1, <2>1, <2>3, <2>4
  <2>5. CASE /\ Head(rest[w]) \in Results
             /\ \E part \in PartsOfAResult : file' = file \o part
    <3>1. PICK part \in PartsOfAResult : file' = file \o part
      BY <2>5
    <3>2. /\ part \in Seq(Tokens)
          /\ Occurs(part, Open) = 0 /\ Occurs(part, Close) \in {0, 1}
      BY PartsAreText, PartsHaveNoOpening
    <3>3. /\ Occurs(file', Open) = Occurs(file, Open) + Occurs(part, Open)
          /\ Occurs(file', Close) = Occurs(file, Close) + Occurs(part, Close)
      BY <1>1, <3>1, <3>2, OccursInBoth
    <3>4. o = 0
      <4>1. rest[w][1] \in Results
        BY <1>1, <2>1, <2>5 DEF EndOfArray
      <4>2. rest[w][1] # Open
        BY <4>1, FileAssumption DEF FileAssumption, Marks
      <4>3. QED
        BY <1>1, <2>1, <4>2, EndHasOne DEF o
    <3>5. QED
      BY <1>1, <2>3, <3>2, <3>3, <3>4
  <2>6. QED
    BY <2>4, <2>5 DEF MayTear
<1>5. QED
  BY <1>1, <1>3, <1>4

(* A chunk of the text reaches the file. *)
LEMMA WritesAChunk ==
  ASSUME TypeOK, NEW w \in Writers, Completing(w), NEW k \in 1 .. Len(rest[w]),
         file' = file \o SubSeq(rest[w], 1, k), faults' = faults
  PROVE  /\ k = Len(rest[w]) /\ saved' = saved \o mine[w] => Settled'
         /\ /\ k # Len(rest[w])
            /\ rest'[w] = SubSeq(rest[w], k + 1, Len(rest[w]))
            /\ saved' = saved /\ mine' = mine
            => Completing(w)'
<1> DEFINE head == SubSeq(rest[w], 1, k)
           tail == SubSeq(rest[w], k + 1, Len(rest[w]))
           text == rest[w]
<1>1. /\ file \in Seq(Tokens) /\ text \in Seq(Tokens) /\ faults \in Nat
      /\ Len(text) \in Nat /\ EndOfArray(text)
  BY LenProperties DEF TypeOK, Completing
<1>2. /\ head \in Seq(Tokens) /\ Len(head) = k
      /\ \A i \in 1 .. k : head[i] = text[i]
      /\ tail \in Seq(Tokens) /\ Len(tail) = Len(text) - k
      /\ \A i \in 1 .. Len(text) - k : tail[i] = text[k + i]
  BY <1>1, ChunkOf
<1>3. file' = file \o head
  OBVIOUS
<1> HIDE DEF head, tail, text
<1>4. Len(text) \in 1 .. Len(text) /\ text[Len(text)] = Close
  BY <1>1, EndHasOne
<1>5. k \in 1 .. Len(text)
  BY DEF text
<1>6. ASSUME k = Len(text), saved' = saved \o mine[w] PROVE Settled'
  <2>1. head = text
    BY <1>1, <1>2, <1>6, SeqEqual
  <2>2. file' = file \o text
    BY <1>3, <2>1
  <2>3. /\ Occurs(file', Open) <= 1 + faults
        /\ Occurs(file', Open) - Occurs(file', Close) \in 0 .. faults
        /\ faults = 0 => file' = Array(saved')
    BY <1>6, <2>2 DEF Completing, text
  <2>4. CloseOf(file') # 0
    <3>1. /\ Len(file) \in Nat /\ Len(file \o text) = Len(file) + Len(text)
          /\ \A i \in 1 .. Len(file) + Len(text) : (file \o text)[i] =
               IF i <= Len(file) THEN file[i] ELSE text[i - Len(file)]
      BY <1>1, LenProperties, ConcatProperties
    <3>2. /\ Len(file) + Len(text) \in 1 .. Len(file) + Len(text)
          /\ ~(Len(file) + Len(text) <= Len(file))
          /\ (Len(file) + Len(text)) - Len(file) = Len(text)
      BY <1>4, <3>1
    <3>3. file'[Len(file')] = Close /\ Len(file') # 0
      BY <1>4, <2>2, <3>1, <3>2
    <3>4. QED
      BY <3>3 DEF CloseOf, Last
  <2>5. QED
    BY <2>3, <2>4 DEF Settled
<1>7. ASSUME k # Len(text), rest'[w] = tail, saved' = saved, mine' = mine
      PROVE  Completing(w)'
  <2>1. head \o tail = text
    <3>1. /\ head \o tail \in Seq(Tokens)
          /\ Len(head \o tail) = Len(head) + Len(tail)
          /\ \A i \in 1 .. Len(head) + Len(tail) : (head \o tail)[i] =
               IF i <= Len(head) THEN head[i] ELSE tail[i - Len(head)]
      BY <1>2, ConcatProperties
    <3> DEFINE both == head \o tail
    <3> HIDE DEF both
    <3>2. /\ both \in Seq(Tokens) /\ Len(both) = Len(text)
          /\ \A i \in 1 .. Len(text) : both[i] =
               IF i <= k THEN head[i] ELSE tail[i - k]
      BY <1>1, <1>2, <1>5, <3>1 DEF both
    <3>3. ASSUME NEW i \in 1 .. Len(text) PROVE both[i] = text[i]
      <4>1. CASE i <= k
        BY <1>2, <3>2, <4>1
      <4>2. CASE i > k
        <5>1. i - k \in 1 .. Len(text) - k /\ k + (i - k) = i
          BY <1>1, <1>5, <4>2
        <5>2. QED
          BY <1>2, <1>5, <3>2, <4>2, <5>1
      <4>3. QED
        BY <1>5, <4>1, <4>2
    <3>4. both = text
      BY <1>1, <3>2, <3>3, SeqEqual
    <3>5. QED
      BY <3>4 DEF both
  <2>2. (file \o head) \o tail = file \o (head \o tail)
    BY <1>1, <1>2, Joined, SMTT(60)
  <2>3. file' \o rest'[w] = file \o text
    BY <1>3, <1>7, <2>1, <2>2
  <2>4. EndOfArray(tail)
    <3>1. Len(tail) # 0 /\ tail # <<>>
      BY <1>1, <1>2, <1>5, <1>7
    <3>2. ASSUME NEW i \in 1 .. Len(text) - k
          PROVE  (tail[i] = Close <=> i = Len(text) - k) /\ tail[i] # Open
      <4>1. k + i \in 1 .. Len(text) /\ k + i # 1 /\ tail[i] = text[k + i]
        BY <1>1, <1>2, <1>5
      <4>2. (text[k + i] = Close <=> k + i = Len(text)) /\ text[k + i] # Open
        BY <1>1, <4>1 DEF EndOfArray
      <4>3. QED
        BY <1>1, <1>5, <4>1, <4>2
    <3>3. QED
      BY <1>2, <3>1, <3>2 DEF EndOfArray
  <2>5. QED
    BY <1>7, <2>3, <2>4 DEF Completing, text
<1>8. QED
  BY <1>6, <1>7 DEF text, tail

LEMMA BalanceStep == IInv /\ Balance /\ [Next]_vars => Balance'
<1> SUFFICES ASSUME IInv, Balance, [Next]_vars, ~overlap' PROVE Balance'
  BY DEF Balance
<1> USE DEF history, vars
<1>1. ~overlap
  BY DEF Next, append_json_array_file, Enter, Look, Cut, OpenFile, Flush, Fail,
         Crash, Done
<1>2. TypeOK /\ TypeOK'
  BY StepHolds DEF IInv
<1>3. /\ (\A w \in Writers : pc[w] \notin {"open", "write"}) => Settled
      /\ \A w \in Writers : SaveUnderWay(w)
  BY <1>1 DEF Balance
<1>4. \A v, w \in Writers : Inside(v) /\ Inside(w) => v = w
  BY <1>1 DEF IInv, Exclusive
<1>5. /\ pc \in [Writers -> {"idle", "look", "cut", "open", "write"}]
      /\ rest \in [Writers -> Seq(Tokens)] /\ mine \in [Writers -> Seq(Results)]
      /\ file \in Seq(Tokens) /\ saved \in Seq(Results) /\ faults \in Nat /\ made \in Nat
  BY <1>2 DEF TypeOK
\* With nobody inside the file is settled, or nothing is asked of it.
<1>6. ASSUME Settled', \A w \in Writers : ~Inside(w)' PROVE Balance'
  BY <1>6 DEF Balance, SaveUnderWay, Inside
\* With one writer inside, only its save is under way.
<1>7. ASSUME NEW w \in Writers, \A v \in Writers : Inside(v)' => v = w,
             SaveUnderWay(w)', pc'[w] \in {"open", "write"} \/ Settled'
      PROVE  Balance'
  <2>1. \A v \in Writers : SaveUnderWay(v)'
    BY <1>7 DEF SaveUnderWay, Inside
  <2>2. QED
    BY <1>7, <2>1 DEF Balance
\* Until it has opened the file the writer inside finds it settled.
<1>8. ASSUME NEW w \in Writers, pc[w] \in {"look", "cut"} PROVE Settled
  BY <1>3, <1>4, <1>8 DEF Inside
<1>9. ASSUME NEW w \in Writers, Enter(w) PROVE Balance'
  <2>1. PICK n \in 1 .. MaxPerSave :
          mine' = [mine EXCEPT ![w] = [i \in 1 .. n |-> made + i]]
    BY <1>9 DEF Enter
  <2>2. n \in Nat /\ n >= 1
    BY FileAssumption DEF FileAssumption
  <2>3. /\ pc' = [pc EXCEPT ![w] = "look"] /\ UNCHANGED <<file, rest, saved, faults>>
        /\ overlap' <=> (overlap \/ \E v \in Writers :
                                      ProcessOf[v] # ProcessOf[w] /\ Inside(v))
    BY <1>9, Zenon DEF Enter, Goto
  <2>4. \A v \in Writers : ~Inside(v)
    BY <1>9, <2>3 DEF Enter, MutexFree
  <2>5. \A v \in Writers : Inside(v)' => v = w
    BY <1>5, <2>3, <2>4 DEF Inside
  <2>6. mine'[w] # <<>>
    <3>1. mine'[w] = [i \in 1 .. n |-> made + i]
      BY <1>5, <2>1
    <3>2. Len([i \in 1 .. n |-> made + i]) = n
      BY <2>2
    <3>3. QED
      BY <2>2, <3>1, <3>2
  <2>7. SaveUnderWay(w)'
    BY <1>5, <2>3, <2>6 DEF SaveUnderWay
  <2>8. Settled'
    BY <1>3, <2>3, <2>4 DEF Inside, Settled
  <2>9. QED
    BY <1>7, <2>5, <2>7, <2>8
<1>10. ASSUME NEW w \in Writers, Look(w) PROVE Balance'
  <2>1. pc[w] = "look" /\ UNCHANGED <<file, mine, saved>>
    BY <1>10 DEF Look
  <2>2. mine[w] # <<>> /\ Settled
    BY <1>3, <1>8, <2>1 DEF SaveUnderWay, Inside
  <2>3. pc' \in {[pc EXCEPT ![w] = "cut"], [pc EXCEPT ![w] = "open"]}
    BY <1>10 DEF Look, Continue, StartArray, Goto
  <2>4. \A v \in Writers : Inside(v)' => v = w
    <3>1. \A v \in Writers : v # w => ~Inside(v) /\ pc'[v] = pc[v]
      BY <1>4, <1>5, <2>1, <2>3 DEF Inside
    <3>2. QED
      BY <3>1 DEF Inside
  <2>5. CASE Continue(w) /\ faults' = faults
    <3>1. /\ pc' = [pc EXCEPT ![w] = "cut"]
          /\ rest' = [rest EXCEPT ![w] =
                        Separator(file) \o Inner(mine[w]) \o <<Close>>]
      BY <2>5 DEF Continue, Goto
    <3>2. /\ pc'[w] = "cut" /\ mine'[w] = mine[w]
          /\ rest'[w] = Separator(file') \o Inner(mine'[w]) \o <<Close>>
      BY <1>5, <2>1, <3>1
    <3>3. SaveUnderWay(w)'
      BY <2>2, <3>2 DEF SaveUnderWay
    <3>4. Settled'
      BY <2>1, <2>2, <2>5 DEF Settled
    <3>5. QED
      BY <1>7, <2>4, <3>3, <3>4
  <2>6. CASE /\ StartArray(w)
             /\ \/ CloseOf(file) = 0 /\ faults' = faults
                \/ faults' = faults + 1
    <3>1. /\ pc' = [pc EXCEPT ![w] = "open"]
          /\ rest' = [rest EXCEPT ![w] = Array(mine[w])]
      BY <2>6 DEF StartArray, Goto
    <3>2. pc'[w] = "open" /\ mine'[w] = mine[w] /\ rest'[w] = Array(mine[w])
      BY <1>5, <2>1, <3>1
    <3>3. Completing(w)'
      BY <1>2, <2>1, <2>2, <2>6, <3>2, BeginsAnArray
    <3>4. SaveUnderWay(w)'
      BY <2>2, <3>2, <3>3 DEF SaveUnderWay
    <3>5. QED
      BY <1>7, <2>4, <3>2, <3>4
  <2>7. QED
    BY <1>10, <2>5, <2>6 DEF Look
<1>11. ASSUME NEW w \in Writers, Cut(w) PROVE Balance'
  <2>1. /\ pc[w] = "cut" /\ pc' = [pc EXCEPT ![w] = "open"]
        /\ UNCHANGED <<rest, mine, saved, faults>>
        /\ file' = Truncated(file, at[w] - 1)
    BY <1>11 DEF Cut, Goto, KeptUpTo
  <2>2. /\ mine[w] # <<>> /\ Settled
        /\ rest[w] = Separator(file) \o Inner(mine[w]) \o <<Close>>
    BY <1>3, <1>8, <2>1 DEF SaveUnderWay, Inside
  <2>3. Len(file) # 0 /\ at[w] = Len(file) /\ file[Len(file)] = Close
    BY <1>1, <2>1 DEF IInv, SawABracket
  <2>4. Completing(w)'
    BY <1>2, <2>1, <2>2, <2>3, ReopensTheArray
  <2>5. pc'[w] = "open" /\ \A v \in Writers : Inside(v)' => v = w
    BY <1>4, <1>5, <2>1 DEF Inside
  <2>6. SaveUnderWay(w)'
    BY <2>1, <2>2, <2>4, <2>5 DEF SaveUnderWay
  <2>7. QED
    BY <1>7, <2>5, <2>6
<1>12. ASSUME NEW w \in Writers, OpenFile(w) PROVE Balance'
  <2>1. /\ pc[w] = "open" /\ pc' = [pc EXCEPT ![w] = "write"]
        /\ UNCHANGED <<file, rest, mine, saved, faults>>
    BY <1>12 DEF OpenFile, Goto
  <2>2. pc'[w] = "write" /\ \A v \in Writers : Inside(v)' => v = w
    BY <1>4, <1>5, <2>1 DEF Inside
  <2>3. mine[w] # <<>> /\ Completing(w)
    BY <1>3, <2>1 DEF SaveUnderWay, Inside
  <2>4. SaveUnderWay(w)'
    BY <2>1, <2>2, <2>3 DEF SaveUnderWay, Completing
  <2>5. QED
    BY <1>7, <2>2, <2>4
<1>13. ASSUME NEW w \in Writers, Flush(w) PROVE Balance'
  <2>1. PICK k \in 1 .. Len(rest[w]) :
          /\ file' = file \o SubSeq(rest[w], 1, k)
          /\ IF k = Len(rest[w])
             THEN Leave(w) /\ saved' = saved \o mine[w]
             ELSE /\ rest' = [rest EXCEPT ![w] = SubSeq(@, k + 1, Len(@))]
                  /\ UNCHANGED <<pc, at, mine, saved>>
    BY <1>13 DEF Flush
  <2>2. pc[w] = "write" /\ faults' = faults
    BY <1>13 DEF Flush
  <2>3. mine[w] # <<>> /\ Completing(w)
    BY <1>3, <2>2 DEF SaveUnderWay, Inside
  <2>4. CASE k = Len(rest[w])
    <3>1. saved' = saved \o mine[w] /\ pc' = [pc EXCEPT ![w] = "idle"]
      BY <2>1, <2>4 DEF Leave, Goto
    <3>2. \A v \in Writers : ~Inside(v)'
      BY <1>4, <1>5, <2>2, <3>1 DEF Inside
    <3>3. Settled'
      BY <1>2, <2>1, <2>2, <2>3, <2>4, <3>1, WritesAChunk
    <3>4. QED
      BY <1>6, <3>2, <3>3
  <2>5. CASE k # Len(rest[w])
    <3>1. /\ rest' = [rest EXCEPT ![w] = SubSeq(rest[w], k + 1, Len(rest[w]))]
          /\ UNCHANGED <<pc, mine, saved>>
      BY <2>1, <2>5
    <3>2. rest'[w] = SubSeq(rest[w], k + 1, Len(rest[w]))
      BY <1>5, <3>1
    <3>3. Completing(w)'
      BY <1>2, <2>1, <2>2, <2>3, <2>5, <3>1, <3>2, WritesAChunk
    <3>4. pc'[w] = "write" /\ \A v \in Writers : Inside(v)' => v = w
      BY <1>4, <2>2, <3>1 DEF Inside
    <3>5. SaveUnderWay(w)'
      BY <2>3, <3>1, <3>3, <3>4 DEF SaveUnderWay
    <3>6. QED
      BY <1>7, <3>4, <3>5
  <2>6. QED
    BY <2>4, <2>5
<1>14. ASSUME NEW w \in Writers, Inside(w), MayTear(w), faults' = faults + 1,
              \A v \in Writers : ~Inside(v)'
       PROVE  Balance'
  <2>1. /\ pc[w] \in {"look", "cut"} => Settled
        /\ pc[w] \in {"open", "write"} => Completing(w)
    BY <1>3, <1>8 DEF SaveUnderWay
  <2>2. Settled'
    BY <1>2, <1>14, <2>1, AFaultLeavesLittle
  <2>3. QED
    BY <1>6, <1>14, <2>2
<1>15. ASSUME NEW w \in Writers, Fail(w) PROVE Balance'
  <2>1. /\ MayTear(w) /\ faults' = faults + 1 /\ Inside(w)
        /\ pc' = [pc EXCEPT ![w] = "idle"]
    BY <1>15 DEF Fail, Leave, Goto, Inside
  <2>2. \A v \in Writers : ~Inside(v)'
    BY <1>4, <1>5, <2>1 DEF Inside
  <2>3. QED
    BY <1>14, <2>1, <2>2
<1>16. ASSUME NEW p \in Processes, Crash(p) PROVE Balance'
  <2>1. /\ faults' = faults + 1
        /\ pc' = [w \in Writers |-> IF ProcessOf[w] = p THEN "idle" ELSE pc[w]]
    BY <1>16 DEF Crash
  <2>2. PICK w \in Writers : ProcessOf[w] = p /\ Inside(w) /\ MayTear(w)
    BY <1>16 DEF Crash
  <2>3. \A v \in Writers : ~Inside(v)'
    BY <1>4, <2>1, <2>2 DEF Inside
  <2>4. QED
    BY <1>14, <2>1, <2>2, <2>3
<1>17. CASE Done \/ UNCHANGED vars
  <2>1. UNCHANGED vars
    BY <1>17 DEF Done
  <2>2. QED
    BY <1>3, <2>1 DEF Balance, SaveUnderWay, Completing, Settled, Inside
<1>18. QED
  BY <1>9, <1>10, <1>11, <1>12, <1>13, <1>15, <1>16, <1>17
     DEF Next, append_json_array_file

LEMMA BalancedAtFirst == Init => Balance
<1> SUFFICES ASSUME Init PROVE Balance
  OBVIOUS
<1>1. /\ saved \in Seq(Results) /\ faults = 0
      /\ file = Array(saved) \/ (file = <<>> /\ saved = <<>>)
  BY FileAssumption DEF FileAssumption, Init
<1>2. Settled
  <2>1. CASE file = Array(saved)
    <3>1. Occurs(file, Open) = 1 /\ Occurs(file, Close) = 1 /\ CloseOf(file) # 0
      BY <1>1, <2>1, TextsEndArrays, ArrayEnds, <<>> \in Seq(Tokens)
    <3>2. QED
      BY <1>1, <3>1 DEF Settled
  <2>2. CASE file = <<>> /\ saved = <<>>
    <3>1. Occurs(file, Open) = 0 /\ Occurs(file, Close) = 0
      <4>1. file \in Seq(Tokens) /\ Bare(file)
        BY <2>2 DEF Bare
      <4>2. QED
        BY <4>1, BareHasNone
    <3>2. QED
      BY <1>1, <2>2, <3>1 DEF Settled
  <2>3. QED
    BY <1>1, <2>1, <2>2
<1>3. \A w \in Writers : pc[w] = "idle"
  BY DEF Init
<1>4. QED
  BY <1>2, <1>3 DEF Balance, SaveUnderWay, Inside

(* With every call ended, and one process at a time at work, the file is   *)
(* the array of all saved results if nothing ever failed; every fault      *)
(* leaves at most one array too many and one bracket missing, for any      *)
(* number of writers, saves and faults.                                    *)
THEOREM ArrayUnlessDamaged == Spec => []ArrayOrDamage
<1>1. Spec => []Balance
  BY BalancedAtFirst, BalanceStep, AlwaysIInv, PTL DEF Spec
<1>2. IInv /\ Balance => ArrayOrDamage
  <2> SUFFICES ASSUME IInv, Balance, Quiet, ~overlap
               PROVE  /\ faults = 0 => file \in {Array(saved), <<>>}
                                         /\ (file = <<>> => saved = <<>>)
                      /\ Occurs(file, Open) <= 1 + faults
                      /\ Occurs(file, Open) - Occurs(file, Close) \in 0 .. faults
    BY DEF ArrayOrDamage
  <2>1. Settled
    BY DEF Balance, Quiet, Inside
  <2>2. saved \in Seq(Results)
    BY DEF IInv, TypeOK
  <2>3. Array(saved) # <<>>
    BY <2>2, ArrayEnds
  <2>4. QED
    BY <2>1, <2>3 DEF Settled
<1>3. QED
  BY <1>1, <1>2, AlwaysIInv, PTL

-----------------------------------------------------------------------------
(* The results in a text are those of its beginning and those that follow. *)

(* f[n] are the results among the first n tokens, for n up to m. *)
Reads(text, m, f) ==
  f = [n \in 0 .. m |->
         IF n = 0 THEN <<>>
         ELSE IF text[n] \in Marks THEN f[n - 1] ELSE Append(f[n - 1], text[n])]

Begins(s, t) == Len(s) <= Len(t) /\ \A i \in 1 .. Len(s) : t[i] = s[i]

LEMMA ReadsTo ==
  ASSUME NEW text, NEW m \in Nat
  PROVE  \E f : Reads(text, m, f)
<1> DEFINE Bad == {k \in Nat : ~ \E f : Reads(text, k, f)}
<1>1. SUFFICES ASSUME m \in Bad PROVE FALSE
  OBVIOUS
<1>2. PICK k \in Bad : \A l \in Bad : k <= l
  BY <1>1, LeastElement
<1>3. CASE k = 0
  <2>1. Reads(text, 0, [n \in 0 .. 0 |-> <<>>])
    BY DEF Reads
  <2>2. QED
    BY <1>2, <1>3, <2>1
<1>4. CASE k > 0
  <2>1. PICK f : Reads(text, k - 1, f)
    BY <1>2, <1>4
  <2> DEFINE last == IF text[k] \in Marks THEN f[k - 1] ELSE Append(f[k - 1], text[k])
             g == [n \in 0 .. k |-> IF n = k THEN last ELSE f[n]]
  <2>2. \A n \in 0 .. k - 1 : f[n] =
          IF n = 0 THEN <<>>
          ELSE IF text[n] \in Marks THEN f[n - 1] ELSE Append(f[n - 1], text[n])
    BY <2>1 DEF Reads
  <2>3. \A n \in 0 .. k : g[n] =
          IF n = 0 THEN <<>>
          ELSE IF text[n] \in Marks THEN g[n - 1] ELSE Append(g[n - 1], text[n])
    BY <1>4, <2>2
  <2>4. Reads(text, k, g)
    BY <2>3 DEF Reads
  <2>5. QED
    BY <1>2, <2>4
<1>5. QED
  BY <1>2, <1>3, <1>4

LEMMA ResultsAreRead ==
  ASSUME NEW text \in Seq(Tokens)
  PROVE  \E f : Reads(text, Len(text), f) /\ ResultsIn(text) = f[Len(text)]
<1> DEFINE f == CHOOSE g : Reads(text, Len(text), g)
<1>1. Len(text) \in Nat
  BY LenProperties
<1>2. Reads(text, Len(text), f)
  BY <1>1, ReadsTo
<1>3. ResultsIn(text) = f[Len(text)]
  BY DEF ResultsIn, Reads
<1>4. QED
  BY <1>2, <1>3

(* What is read on the way: the results of the beginning stay. *)
LEMMA ReadsOn ==
  ASSUME NEW text \in Seq(Tokens), NEW f, Reads(text, Len(text), f), NEW a \in 0 .. Len(text)
  PROVE  \A n \in a .. Len(text) :
           /\ f[n] \in Seq(Tokens) /\ Begins(f[a], f[n])
           /\ (\A i \in a + 1 .. n : text[i] \in Marks) => f[n] = f[a]
<1>1. Len(text) \in Nat /\ \A i \in 1 .. Len(text) : text[i] \in Tokens
  BY LenProperties, ElementOfSeq
<1>2. \A n \in 0 .. Len(text) : f[n] =
        IF n = 0 THEN <<>>
        ELSE IF text[n] \in Marks THEN f[n - 1] ELSE Append(f[n - 1], text[n])
  BY DEF Reads
<1>3. f[0] = <<>> /\ \A n \in 1 .. Len(text) : f[n] =
        IF text[n] \in Marks THEN f[n - 1] ELSE Append(f[n - 1], text[n])
  BY <1>1, <1>2
<1>4. \A n \in 0 .. Len(text) : f[n] \in Seq(Tokens)
  <2> DEFINE Bad == {n \in 0 .. Len(text) : f[n] \notin Seq(Tokens)}
  <2>1. SUFFICES ASSUME NEW x \in Bad PROVE FALSE
    OBVIOUS
  <2>2. Bad \in SUBSET Nat /\ f[0] \in Seq(Tokens)
    BY <1>1, <1>3
  <2> HIDE DEF Bad
  <2>3. PICK n \in Bad : \A k \in Bad : n <= k
    BY <2>1, <2>2, LeastElement
  <2>4. n \in 1 .. Len(text) /\ f[n - 1] \in Seq(Tokens) /\ f[n] \notin Seq(Tokens)
    <3>1. n \in 0 .. Len(text) /\ n # 0 /\ f[n] \notin Seq(Tokens)
      BY <2>2, <2>3 DEF Bad
    <3>2. n - 1 \in 0 .. Len(text) /\ ~(n <= n - 1)
      BY <1>1, <3>1
    <3>3. n - 1 \notin Bad
      BY <2>3, <3>2
    <3>4. QED
      BY <1>1, <3>1, <3>2, <3>3 DEF Bad
  <2>5. f[n] \in Seq(Tokens)
    <3>1. text[n] \in Tokens
      BY <1>1, <2>4
    <3>2. Append(f[n - 1], text[n]) \in Seq(Tokens)
      BY <2>4, <3>1, AppendProperties
    <3>3. QED
      BY <1>3, <2>4, <3>2
  <2>6. QED
    BY <2>4, <2>5
<1> DEFINE Good(n) == /\ Begins(f[a], f[n])
                      /\ (\A i \in a + 1 .. n : text[i] \in Marks) => f[n] = f[a]
<1>5. Good(a)
  BY DEF Begins
<1>6. ASSUME NEW n \in a + 1 .. Len(text), Good(n - 1) PROVE Good(n)
  <2>1. n \in 1 .. Len(text) /\ n - 1 \in 0 .. Len(text)
    BY <1>1
  <2>2. f[n - 1] \in Seq(Tokens) /\ text[n] \in Tokens
    BY <1>1, <1>4, <2>1
  <2>3. CASE text[n] \in Marks
    <3>1. f[n] = f[n - 1]
      BY <1>3, <2>1, <2>3
    <3>2. \A i \in a + 1 .. n - 1 : i \in a + 1 .. n
      BY <1>1
    <3>3. QED
      BY <1>6, <3>1, <3>2
  <2>4. CASE text[n] \notin Marks
    <3> DEFINE s == f[n - 1]
               t == f[n]
    <3>1. t = Append(s, text[n])
      BY <1>3, <2>1, <2>4
    <3>2. s \in Seq(Tokens) /\ Begins(f[a], s) /\ f[a] \in Seq(Tokens)
      BY <1>4, <1>6, <2>2
    <3> HIDE DEF s, t
    <3>3. Len(t) = Len(s) + 1 /\ \A i \in 1 .. Len(s) : t[i] = s[i]
      BY <2>2, <3>1, <3>2, AppendProperties
    <3>4. Len(s) \in Nat /\ Len(f[a]) \in Nat
      BY <3>2, LenProperties
    <3>5. Begins(f[a], t)
      BY <3>2, <3>3, <3>4 DEF Begins
    <3>6. n \in a + 1 .. n
      BY <1>1
    <3>7. QED
      BY <2>4, <3>5, <3>6 DEF t
  <2>5. QED
    BY <2>3, <2>4
<1> HIDE DEF Good
<1>7. \A n \in a .. Len(text) : Good(n)
  <2> DEFINE Bad == {n \in a .. Len(text) : ~Good(n)}
  <2>1. SUFFICES ASSUME NEW x \in Bad PROVE FALSE
    OBVIOUS
  <2>2. Bad \in SUBSET Nat
    BY <1>1
  <2>3. PICK n \in Bad : \A k \in Bad : n <= k
    BY <2>1, <2>2, LeastElement
  <2>4. n # a
    BY <1>5, <2>3
  <2>5. n \in a + 1 .. Len(text) /\ n - 1 \in a .. Len(text) /\ ~(n <= n - 1)
    BY <1>1, <2>3, <2>4
  <2>6. Good(n - 1)
    BY <2>3, <2>5
  <2>7. QED
    BY <1>6, <2>3, <2>5, <2>6
<1>8. QED
  BY <1>1, <1>4, <1>7 DEF Good

(* Two texts that begin alike have the same results as far as that. *)
LEMMA ReadsAlike ==
  ASSUME NEW s, NEW t, NEW m \in Nat, NEW n \in Nat, m <= n,
         NEW f, Reads(s, m, f), NEW g, Reads(t, n, g), \A i \in 1 .. m : s[i] = t[i]
  PROVE  \A k \in 0 .. m : f[k] = g[k]
<1>1. /\ f[0] = <<>> /\ g[0] = <<>>
      /\ \A k \in 1 .. m :
           /\ f[k] = IF s[k] \in Marks THEN f[k - 1] ELSE Append(f[k - 1], s[k])
           /\ g[k] = IF t[k] \in Marks THEN g[k - 1] ELSE Append(g[k - 1], t[k])
  <2>1. \A k \in 0 .. m : f[k] =
          IF k = 0 THEN <<>>
          ELSE IF s[k] \in Marks THEN f[k - 1] ELSE Append(f[k - 1], s[k])
    BY DEF Reads
  <2>2. \A k \in 0 .. n : g[k] =
          IF k = 0 THEN <<>>
          ELSE IF t[k] \in Marks THEN g[k - 1] ELSE Append(g[k - 1], t[k])
    BY DEF Reads
  <2>3. \A k \in 1 .. m : k \in 0 .. m /\ k \in 0 .. n /\ k # 0
    OBVIOUS
  <2>4. QED
    BY <2>1, <2>2, <2>3
<1> DEFINE Bad == {k \in 0 .. m : f[k] # g[k]}
<1>2. SUFFICES ASSUME NEW x \in Bad PROVE FALSE
  OBVIOUS
<1>3. Bad \in SUBSET Nat
  OBVIOUS
<1> HIDE DEF Bad
<1>4. PICK k \in Bad : \A l \in Bad : k <= l
  BY <1>2, <1>3, LeastElement
<1>5. k \in 1 .. m /\ f[k] # g[k]
  BY <1>1, <1>4 DEF Bad
<1>6. f[k - 1] = g[k - 1]
  <2>1. k - 1 \in 0 .. m /\ ~(k <= k - 1)
    BY <1>5
  <2>2. k - 1 \notin Bad
    BY <1>4, <2>1
  <2>3. QED
    BY <2>1, <2>2 DEF Bad
<1>7. QED
  BY <1>1, <1>5, <1>6

(* A longer text has the results of the shorter one first; marks add none. *)
LEMMA LongerText ==
  ASSUME NEW s \in Seq(Tokens), NEW t \in Seq(Tokens), Len(s) <= Len(t),
         \A i \in 1 .. Len(s) : s[i] = t[i]
  PROVE  /\ J!IsPrefixOf(ResultsIn(s), ResultsIn(t))
         /\ (\A i \in Len(s) + 1 .. Len(t) : t[i] \in Marks) => ResultsIn(t) = ResultsIn(s)
<1>1. Len(s) \in Nat /\ Len(t) \in Nat
  BY LenProperties
<1>2. PICK f : Reads(s, Len(s), f) /\ ResultsIn(s) = f[Len(s)]
  BY ResultsAreRead
<1>3. PICK g : Reads(t, Len(t), g) /\ ResultsIn(t) = g[Len(t)]
  BY ResultsAreRead
<1>4. f[Len(s)] = g[Len(s)]
  BY <1>1, <1>2, <1>3, ReadsAlike
<1>5. Len(s) \in 0 .. Len(t) /\ Len(t) \in Len(s) .. Len(t) /\ Len(s) \in Len(s) .. Len(t)
  BY <1>1
<1> DEFINE p == ResultsIn(s)
           q == ResultsIn(t)
<1>6. /\ p \in Seq(Tokens) /\ q \in Seq(Tokens) /\ Begins(p, q)
      /\ (\A i \in Len(s) + 1 .. Len(t) : t[i] \in Marks) => q = p
  BY <1>2, <1>3, <1>4, <1>5, ReadsOn
<1> HIDE DEF p, q
<1>7. p = SubSeq(q, 1, Len(p))
  <2>1. Len(p) \in Nat /\ Len(q) \in Nat /\ Len(p) <= Len(q) /\ 1 \in Int /\ Len(p) \in Int
    BY <1>6, LenProperties DEF Begins
  <2>2. \A i \in 1 .. Len(p) : q[i] \in Tokens
    BY <1>6, <2>1, ElementOfSeq
  <2>3. /\ SubSeq(q, 1, Len(p)) \in Seq(Tokens)
        /\ Len(SubSeq(q, 1, Len(p))) = Len(p)
        /\ \A i \in 1 .. Len(p) : SubSeq(q, 1, Len(p))[i] = q[i]
    BY <2>1, <2>2, SubSeqProperties
  <2>4. \A i \in 1 .. Len(p) : p[i] = SubSeq(q, 1, Len(p))[i]
    BY <1>6, <2>3 DEF Begins
  <2>5. QED
    BY <1>6, <2>3, <2>4, SeqEqual
<1>8. J!IsPrefixOf(p, q)
  BY <1>6, <1>7 DEF J!IsPrefixOf, Begins
<1>9. QED
  BY <1>6, <1>8 DEF p, q

(* A step of the save is a step of the journal. *)
LEMMA JournalStep == IInv /\ [Next]_vars => [J!Next]_J!vars
<1> SUFFICES ASSUME IInv, [Next]_vars PROVE [J!Next]_J!vars
  OBVIOUS
<1> USE DEF history, vars
<1>1. TypeOK /\ TypeOK' /\ file \in Seq(Tokens) /\ file' \in Seq(Tokens)
  BY StepHolds DEF IInv, TypeOK
<1>2. ASSUME file' = file, overlap' = overlap PROVE [J!Next]_J!vars
  BY <1>2 DEF J!vars
<1>3. ASSUME Len(file) <= Len(file'), \A i \in 1 .. Len(file) : file[i] = file'[i],
             overlap' = overlap
      PROVE  [J!Next]_J!vars
  <2>1. J!IsPrefixOf(ResultsIn(file), ResultsIn(file'))
    BY <1>1, <1>3, LongerText
  <2>2. QED
    BY <1>3, <2>1 DEF J!Next, J!Append1
<1>4. ASSUME NEW w, MayTear(w), overlap' = overlap PROVE [J!Next]_J!vars
  <2>1. \A i \in 1 .. Len(file) : i <= Len(file') /\ file'[i] = file[i]
    BY <1>1, <1>4, TearingKeeps
  <2>2. Len(file) \in Nat /\ Len(file') \in Nat
    BY <1>1, LenProperties
  <2>3. Len(file) <= Len(file')
    <3>1. CASE Len(file) = 0
      BY <2>2, <3>1
    <3>2. CASE Len(file) # 0
      <4>1. Len(file) \in 1 .. Len(file)
        BY <2>2, <3>2
      <4>2. QED
        BY <2>1, <4>1
    <3>3. QED
      BY <3>1, <3>2
  <2>4. QED
    BY <1>3, <1>4, <2>1, <2>3
<1>5. ASSUME NEW w \in Writers, Enter(w) PROVE [J!Next]_J!vars
  <2>1. file' = file /\ overlap \in BOOLEAN /\ overlap' \in BOOLEAN
        /\ (overlap' <=> (overlap \/ \E v \in Writers :
                                        ProcessOf[v] # ProcessOf[w] /\ Inside(v)))
    BY <1>1, <1>5, Zenon DEF Enter, TypeOK
  <2>2. CASE overlap' = overlap
    BY <1>2, <2>1, <2>2
  <2>3. CASE overlap' # overlap
    <3>1. overlap' = TRUE
      BY <2>1, <2>3
    <3>2. QED
      BY <2>1, <3>1 DEF J!Next, J!Share
  <2>4. QED
    BY <2>2, <2>3
<1>6. ASSUME NEW w \in Writers, Cut(w) PROVE [J!Next]_J!vars
  <2>1. /\ pc[w] = "cut" /\ overlap' = overlap /\ file' = Truncated(file, at[w] - 1)
    BY <1>6 DEF Cut, KeptUpTo
  <2>2. at[w] \in Nat /\ at[w] - 1 \in Nat /\ Len(file) \in Nat
    <3>1. at[w] \in Nat
      BY <1>1 DEF TypeOK
    <3>2. at[w] >= 1
      BY <2>1 DEF IInv, SawABracket
    <3>3. QED
      BY <1>1, <3>1, <3>2, LenProperties
  <2>3. /\ Len(file') = at[w] - 1
        /\ \A i \in 1 .. at[w] - 1 : i <= Len(file) => file'[i] = file[i]
    BY <1>1, <2>1, <2>2, TruncatedIsText
  <2>4. CASE at[w] - 1 > Len(file)
    BY <1>3, <2>1, <2>2, <2>3, <2>4
  <2>5. CASE at[w] - 1 <= Len(file)
    <3>1. Len(file') <= Len(file) /\ \A i \in 1 .. Len(file') : file'[i] = file[i]
      BY <2>2, <2>3, <2>5
    <3>2. CASE overlap
      <4>1. J!IsPrefixOf(ResultsIn(file'), ResultsIn(file))
        BY <1>1, <3>1, LongerText
      <4>2. QED
        BY <2>1, <3>2, <4>1 DEF J!Next, J!Lose
    <3>3. CASE ~overlap
      <4>1. at[w] = Len(file) /\ file[Len(file)] = Close
        BY <2>1, <3>3 DEF IInv, SawABracket
      <4>2. \A i \in Len(file') + 1 .. Len(file) : file[i] \in Marks
        <5>1. \A i \in Len(file') + 1 .. Len(file) : i = Len(file)
          BY <2>2, <2>3, <4>1
        <5>2. Close \in Marks
          BY DEF Marks
        <5>3. QED
          BY <4>1, <5>1, <5>2
      <4>3. ResultsIn(file) = ResultsIn(file')
        BY <1>1, <3>1, <4>2, LongerText
      <4>4. QED
        BY <2>1, <4>3 DEF J!vars
    <3>4. QED
      BY <3>2, <3>3
  <2>6. QED
    BY <2>2, <2>4, <2>5
<1>7. ASSUME NEW w \in Writers, Flush(w) PROVE [J!Next]_J!vars
  <2>1. PICK k \in 1 .. Len(rest[w]) : file' = file \o SubSeq(rest[w], 1, k)
    BY <1>7 DEF Flush
  <2>2. rest[w] \in Seq(Tokens) /\ overlap' = overlap
    BY <1>1, <1>7 DEF TypeOK, Flush
  <2> DEFINE head == SubSeq(rest[w], 1, k)
  <2>3. head \in Seq(Tokens) /\ file' = file \o head
    BY <2>1, <2>2, ChunkIsText
  <2> HIDE DEF head
  <2>4. /\ Len(file) \in Nat /\ Len(head) \in Nat /\ Len(file') = Len(file) + Len(head)
        /\ \A i \in 1 .. Len(file) : file'[i] = file[i]
    BY <1>1, <2>3, LenProperties, ConcatProperties
  <2>5. Len(file) <= Len(file')
    BY <2>4
  <2>6. QED
    BY <1>3, <2>2, <2>4, <2>5
<1>8. QED
  BY <1>2, <1>4, <1>5, <1>6, <1>7
     DEF Next, append_json_array_file, Look, OpenFile, Fail, Crash, Done

(* The result file implements the journal: the results in it only grow at  *)
(* their end until two processes have saved at the same time, and even     *)
(* then no step does more than add results or take some from the end.      *)
THEOREM FileIsAJournal == Spec => GrowsAtItsEnd
<1>1. Init => J!Init
  BY DEF Init, J!Init
<1>2. Spec => J!Spec
  BY <1>1, JournalStep, AlwaysIInv, PTL DEF Spec, J!Spec
<1>3. QED
  BY <1>2 DEF GrowsAtItsEnd
=============================================================================
