---------------------------- MODULE Measurement ----------------------------
(***************************************************************************)
(* What a profiler promises of a quantity that the machine counts, without *)
(* threads, buffers or clocks: what is counted reaches the report once, or *)
(* is lost at the meter; what the report says never shrinks; and a closed  *)
(* measurement delivers a report that misses nothing counted before it was *)
(* closed, or delivers none (it was disabled).                             *)
(***************************************************************************)
EXTENDS Integers

VARIABLES
  counted,    \* what the machine counted and nobody reset deliberately
  reported,   \* what the samples stored so far add up to
  lost,       \* what was counted and can no longer be read
  open,       \* the destructor has not begun
  due,        \* what was counted when it began
  delivered   \* the report handed out at the end: at most one

vars == <<counted, reported, lost, open, due, delivered>>

Init ==
  /\ counted = 0 /\ reported = 0 /\ lost = 0
  /\ open = TRUE /\ due = 0 /\ delivered = {}

Count ==
  /\ counted' = counted + 1
  /\ UNCHANGED <<reported, lost, open, due, delivered>>

\* The user resets the meter: what was not read yet is forgotten.
Forget ==
  /\ open
  /\ counted' \in (reported + lost) .. counted
  /\ UNCHANGED <<reported, lost, open, due, delivered>>

Report ==
  /\ reported' \in reported .. (counted - lost)
  /\ UNCHANGED <<counted, lost, open, due, delivered>>

Lose ==
  /\ lost' \in lost .. (counted - reported)
  /\ UNCHANGED <<counted, reported, open, due, delivered>>

Close ==
  /\ open
  /\ open' = FALSE
  /\ due' = counted
  /\ UNCHANGED <<counted, reported, lost, delivered>>

Deliver ==
  /\ ~open
  /\ delivered = {}
  /\ reported + lost >= due
  /\ delivered' = {reported}
  /\ UNCHANGED <<counted, reported, lost, open, due>>

Next == Count \/ Forget \/ Report \/ Lose \/ Close \/ Deliver

Spec == Init /\ [][Next]_vars
=============================================================================
