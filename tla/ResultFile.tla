----------------------------- MODULE ResultFile -----------------------------
(***************************************************************************)
(* The JSON file a profiler's destructor saves its results in: save() of   *)
(* src/utils/base_profiler.hh and append_json_array_file of                *)
(* src/utils/utils.hh.  Writers are the threads that destroy profilers     *)
(* under one block name and one execution folder; those of a process share *)
(* the static mutex of append_json_array_file, those of different          *)
(* processes (OPTKIT_CONFIG::execution_folder_name gives them one folder)  *)
(* do not.  A process may end at any point and be started again, and every *)
(* system call may fail.                                                   *)
(*                                                                         *)
(* The file is a sequence of tokens.  White space is not kept: the last    *)
(* character that is not white space is always among the 256 the code      *)
(* looks at, since it never writes more than one newline at the end.  A    *)
(* missing file and an empty one are treated alike by the code, so <<>> is *)
(* both.  A save without results ("[ ]" of a RAPL profiler without         *)
(* sockets, "" of a disabled profiler) leaves the file as it is.           *)
(***************************************************************************)
EXTENDS Integers, Sequences, FiniteSets, SequencesExt

CONSTANTS
  Writers,         \* threads that save
  ProcessOf,       \* the process each belongs to
  Open, Close, Comma, Nul, Torn,  \* [ ] , a zero byte, a part of a result
  InitialResults,  \* what an earlier process may have left
  MaxResults,      \* bound on the results saved
  MaxPerSave,      \* most results in one save (one per socket with RAPL)
  MaxFaults        \* bound on failing calls and killed processes

Marks   == {Open, Close, Comma, Nul, Torn}
Results == Nat
Tokens  == Marks \union Results

\* Results are numbered in the order they are made.
ASSUME FileAssumption ==
  /\ Marks \intersect Results = {}
  /\ Open # Close /\ Open # Comma /\ Open # Nul /\ Open # Torn
  /\ Close # Comma /\ Close # Nul /\ Close # Torn
  /\ Comma # Nul /\ Comma # Torn /\ Nul # Torn
  /\ DOMAIN ProcessOf = Writers
  /\ InitialResults \subseteq Seq(Results)
  /\ \A rs \in InitialResults : \A i \in 1 .. Len(rs) : rs[i] = i
  /\ MaxResults \in Nat /\ MaxPerSave \in Nat \ {0} /\ MaxFaults \in Nat

Processes == {ProcessOf[w] : w \in Writers}

VARIABLES
  file,     \* the file's text
  pc,       \* each writer's place in append_json_array_file
  at,       \* its existing_close: the position of the final bracket, 0 if none
  rest,     \* the text it has still to write
  \* history: not in the program
  mine,     \* the results of the save a writer is in
  saved,    \* the results of all saves that have returned normally, in order
  made,     \* results so far
  overlap,  \* have writers of two processes been inside at the same time?
  faults    \* failed calls and killed processes so far

history == <<mine, saved, made, overlap, faults>>
vars    == <<file, pc, at, rest, history>>

Goto(w, p) == pc' = [pc EXCEPT ![w] = p]
Inside(w)  == pc[w] # "idle"

-----------------------------------------------------------------------------
(* Texts. *)

\* r1 , r2 , ...: the array without its brackets ("inner")
Inner(rs) ==
  [i \in 1 .. 2 * Len(rs) - 1 |-> IF i % 2 = 1 THEN rs[(i + 1) \div 2] ELSE Comma]

Array(rs) == IF rs = <<>> THEN <<Open, Close>> ELSE <<Open>> \o Inner(rs) \o <<Close>>

\* The results in a text, in order: R[n] are those among its first n tokens.
ResultsIn(text) ==
  LET R[n \in 0 .. Len(text)] ==
        IF n = 0 THEN <<>>
        ELSE IF text[n] \in Marks THEN R[n - 1] ELSE Append(R[n - 1], text[n])
  IN  R[Len(text)]

Occurs(text, x) == Cardinality({i \in 1 .. Len(text) : text[i] = x})

CloseOf_Unset(text) ==
  IF text # <<>> /\ Last(text) = Close THEN Len(text) ELSE -1
\* existing_close, counted from 1: 0 if the text does not end in a bracket
CloseOf(text) ==
  IF text # <<>> /\ Last(text) = Close THEN Len(text) ELSE 0

IsEmptyArray(text) ==
  Len(text) > 1 /\ Last(text) = Close /\ text[Len(text) - 1] = Open

Separator_Always(text) == <<Comma>>
Separator(text) == IF IsEmptyArray(text) THEN <<>> ELSE <<Comma>>

\* truncate(2): cuts, or fills up with zero bytes.
Truncated(text, size) ==
  [i \in 1 .. size |-> IF i <= Len(text) THEN text[i] ELSE Nul]

-----------------------------------------------------------------------------

Init ==
  /\ saved \in InitialResults /\ made = Len(saved)
  /\ \/ file = Array(saved)
     \/ saved = <<>> /\ file = <<>>
  /\ pc = [w \in Writers |-> "idle"]
  /\ at = [w \in Writers |-> 0]
  /\ rest = [w \in Writers |-> <<>>]
  /\ mine = [w \in Writers |-> <<>>]
  /\ overlap = FALSE /\ faults = 0

MutexFree_Ignored(w) == TRUE
\* std::lock_guard on the function's static mutex
MutexFree(w) ==
  \A v \in Writers : ProcessOf[v] = ProcessOf[w] => ~Inside(v)

\* A profiler ends and saves its results.
Enter(w) ==
  /\ ~Inside(w) /\ MutexFree(w)
  /\ \E n \in 1 .. MaxPerSave :
       /\ made + n <= MaxResults
       /\ mine' = [mine EXCEPT ![w] = [i \in 1 .. n |-> made + i]]
       /\ made' = made + n
  /\ overlap' = (overlap \/ \E v \in Writers :
                               ProcessOf[v] # ProcessOf[w] /\ Inside(v))
  /\ Goto(w, "look")
  /\ UNCHANGED <<file, at, rest, saved, faults>>

Continue(w) ==
  /\ at' = [at EXCEPT ![w] = CloseOf(file)]
  /\ rest' = [rest EXCEPT ![w] = Separator(file) \o Inner(mine[w]) \o <<Close>>]
  /\ Goto(w, "cut")

StartArray(w) ==
  /\ at' = [at EXCEPT ![w] = 0]
  /\ rest' = [rest EXCEPT ![w] = Array(mine[w])]
  /\ Goto(w, "open")

\* The end of the file is read, and what to write is decided.  A file that
\* cannot be opened is taken for one that is not there.
Look(w) ==
  /\ pc[w] = "look"
  /\ \/ CloseOf(file) # 0 /\ Continue(w) /\ UNCHANGED faults
     \/ CloseOf(file) = 0 /\ StartArray(w) /\ UNCHANGED faults
     \/ /\ CloseOf(file) # 0 /\ faults < MaxFaults
        /\ faults' = faults + 1
        /\ StartArray(w)
  /\ UNCHANGED <<file, mine, saved, made, overlap>>

KeptUpTo_Before(w) == at[w] - 2
KeptUpTo(w) == at[w] - 1

Cut(w) ==
  /\ pc[w] = "cut"
  /\ file' = Truncated(file, KeptUpTo(w))
  /\ Goto(w, "open")
  /\ UNCHANGED <<at, rest, history>>

\* The file is opened for appending.
OpenFile(w) ==
  /\ pc[w] = "open"
  /\ Goto(w, "write")
  /\ UNCHANGED <<file, at, rest, history>>

Leave(w) ==
  /\ Goto(w, "idle")
  /\ at' = [at EXCEPT ![w] = 0]
  /\ rest' = [rest EXCEPT ![w] = <<>>]
  /\ mine' = [mine EXCEPT ![w] = <<>>]

\* The stream's buffer goes to the file in one or several writes; the last
\* is that of close(), after which the call returns.
Flush(w) ==
  /\ pc[w] = "write"
  /\ \E k \in 1 .. Len(rest[w]) :
       /\ file' = file \o SubSeq(rest[w], 1, k)
       /\ IF k = Len(rest[w])
          THEN /\ Leave(w)
               /\ saved' = saved \o mine[w]
          ELSE /\ rest' = [rest EXCEPT ![w] = SubSeq(@, k + 1, Len(@))]
               /\ UNCHANGED <<pc, at, mine, saved>>
  /\ UNCHANGED <<made, overlap, faults>>

\* What a write that ends early leaves of a result: a part, up to a bracket
\* inside it or not.
PartsOfAResult == {<<Torn>>, <<Torn, Close>>}

\* The text is written up to the end of a token, or into a result.
MayTear(w) ==
  \/ UNCHANGED file
  \/ /\ pc[w] = "write" /\ Head(rest[w]) \in Results
     /\ \E part \in PartsOfAResult : file' = file \o part

\* truncate(), the opening or a write fails: the call returns, and the
\* destructor goes on.
Fail(w) ==
  /\ pc[w] \in {"cut", "open", "write"} /\ faults < MaxFaults
  /\ faults' = faults + 1
  /\ MayTear(w)
  /\ Leave(w)
  /\ UNCHANGED <<saved, made, overlap>>

\* A process is killed, wherever its threads are, and started again.
Crash(p) ==
  /\ \E w \in Writers : ProcessOf[w] = p /\ Inside(w) /\ MayTear(w)
  /\ faults < MaxFaults
  /\ faults' = faults + 1
  /\ pc' = [w \in Writers |-> IF ProcessOf[w] = p THEN "idle" ELSE pc[w]]
  /\ at' = [w \in Writers |-> IF ProcessOf[w] = p THEN 0 ELSE at[w]]
  /\ rest' = [w \in Writers |-> IF ProcessOf[w] = p THEN <<>> ELSE rest[w]]
  /\ mine' = [w \in Writers |-> IF ProcessOf[w] = p THEN <<>> ELSE mine[w]]
  /\ UNCHANGED <<saved, made, overlap>>

Done ==
  /\ \A w \in Writers : ~Inside(w)
  /\ made = MaxResults
  /\ UNCHANGED vars

append_json_array_file(w) ==
  Enter(w) \/ Look(w) \/ Cut(w) \/ OpenFile(w) \/ Flush(w) \/ Fail(w)

Next ==
  \/ \E w \in Writers : append_json_array_file(w)
  \/ \E p \in Processes : Crash(p)
  \/ Done

Spec == Init /\ [][Next]_vars

-----------------------------------------------------------------------------
(* Properties. *)

Quiet == \A w \in Writers : ~Inside(w)

TypeOK ==
  /\ file \in Seq(Tokens)
  /\ pc \in [Writers -> {"idle", "look", "cut", "open", "write"}]
  /\ at \in [Writers -> Nat]
  /\ rest \in [Writers -> Seq(Tokens)]
  /\ mine \in [Writers -> Seq(Results)]
  /\ saved \in Seq(Results) /\ made \in Nat
  /\ overlap \in BOOLEAN /\ faults \in Nat

\* A result whose save has returned stays in the file, once and in its place
\* among the others, whatever calls fail and whenever the process is killed in
\* a later save.
SavedOnce ==
  ~overlap =>
    /\ \A k \in 1 .. Len(saved) : \E i \in 1 .. Len(file) : file[i] = saved[k]
    /\ \A k, l \in 1 .. Len(saved) : \A i, j \in 1 .. Len(file) :
         file[i] = saved[k] /\ file[j] = saved[l] => (i < j <=> k < l)

\* "repeated saves under the same name ... keep the file a single valid array"
\* (utils.hh:384): the array of all the results, once each and in the order of
\* their saves, when no call failed and no two processes saved at once.  Each
\* failed call or killed process leaves at most one bracket missing and one
\* array too many: the damage does not spread to later saves.
ArrayOrDamage ==
  Quiet /\ ~overlap =>
    /\ faults = 0 => file \in {Array(saved), <<>>} /\ (file = <<>> => saved = <<>>)
    /\ Occurs(file, Open) <= 1 + faults
    /\ Occurs(file, Open) - Occurs(file, Close) \in 0 .. faults

\* A step takes nothing from the file but the bracket at its end, and changes
\* nothing in it.
OnlyTheBracketGoes ==
  [][~overlap =>
       \A i \in 1 .. Len(file) :
         i < Len(file) \/ file[i] # Close => i <= Len(file') /\ file'[i] = file[i]]_vars

\* The file is a list that only grows, as long as one process keeps it.
J == INSTANCE Journal WITH list <- ResultsIn(file), shared <- overlap
GrowsAtItsEnd == J!Spec
=============================================================================
