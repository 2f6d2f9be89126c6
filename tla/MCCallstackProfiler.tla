-------------------------- MODULE MCCallstackProfiler --------------------------
(* Small instances of CallstackProfiler. *)
EXTENDS CallstackProfiler, TLC

CONSTANTS t1, t2, p1, p2, self, child

MCPidOf == [t \in Tids |-> IF t = t1 THEN self ELSE child]
MCPidOfOne == [t \in Tids |-> self]
MCTargetOf == [p \in Profilers |-> IF p = p1 THEN self ELSE child]
MCTargetOne == [p \in Profilers |-> self]
=============================================================================
