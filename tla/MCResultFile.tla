---------------------------- MODULE MCResultFile ----------------------------
(* Small instances of ResultFile. *)
EXTENDS ResultFile, TLC

CONSTANTS w1, w2, w3

\* Two threads of one process and one of another.
MCWriters   == {w1, w2, w3}
MCProcessOf == [w \in MCWriters |-> IF w = w3 THEN 2 ELSE 1]

\* Nothing, and the result of an earlier process.
MCInitialResults == {<<>>, <<1>>}

\* The two threads of one process.
ThreadSymmetry == Permutations({w1, w2})
=============================================================================
