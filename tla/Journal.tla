------------------------------ MODULE Journal ------------------------------
(***************************************************************************)
(* What a result file promises, without brackets, offsets or system calls: *)
(* a list of results that only grows at its end, as long as one process    *)
(* keeps it.  Once two processes have worked on it at the same time,       *)
(* results at its end may go.                                              *)
(***************************************************************************)
EXTENDS Sequences, Naturals

VARIABLES
  list,    \* the results, in the order they were written
  shared   \* have two processes worked on it at the same time?

vars == <<list, shared>>

Init == shared = FALSE

IsPrefixOf(s, t) == Len(s) <= Len(t) /\ s = SubSeq(t, 1, Len(s))

Append1 ==
  /\ IsPrefixOf(list, list')
  /\ UNCHANGED shared

Share ==
  /\ shared' = TRUE
  /\ UNCHANGED list

Lose ==
  /\ shared
  /\ IsPrefixOf(list', list)
  /\ UNCHANGED shared

Next == Append1 \/ Share \/ Lose

Spec == Init /\ [][Next]_vars
=============================================================================
