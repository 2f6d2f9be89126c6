----------------------------- MODULE MCPmuBlocks -----------------------------
(* Small instances of PmuBlocks. *)
EXTENDS PmuBlocks, TLC

CONSTANTS b1, b2

MCOne == [b \in Blocks |-> 1]
\* A group of two events on two cores, a block of two events, and a group too
\* large for the hardware's counters.
MCMixedCores == [b \in Blocks |-> IF b = b1 THEN 2 ELSE 1]
MCMixedEvents == [b \in Blocks |-> IF b \in {b1, b2} THEN 2 ELSE 3]
\* For the group alone: b1 monitors two events, b2 one.
MCEvents == [b \in Blocks |-> IF b = b1 THEN 2 ELSE 1]

\* Descriptor numbers are only compared with each other.
FdSymmetry == Permutations(Fds)
=============================================================================
