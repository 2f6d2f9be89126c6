--------------------------- MODULE PmuEventManager ---------------------------
(***************************************************************************)
(* The kernel's table of perf events and the static PMUEventManager that   *)
(* every CPU block profiler goes through (pmu_event_manager.cc).           *)
(*                                                                         *)
(* A perf event is a file descriptor.  The kernel keeps, for every open    *)
(* one, the leader of its group and whether its counter is running.        *)
(* Values are abstracted to one bit: a counter is "dirty" when it has      *)
(* counted something since it was last read or reset.                      *)
(*                                                                         *)
(* The operators below are the effects of the calls; PmuBlocks gives them  *)
(* their callers.                                                          *)
(***************************************************************************)
EXTENDS Integers, FiniteSets

CONSTANTS
  Fds,     \* the descriptor numbers the process may be given
  NoFd     \* no descriptor: "closed", or "no group leader yet"

ASSUME NoFdAssumption == NoFd \notin Fds

VARIABLES
  leader,     \* kernel: the group leader of each open descriptor, else NoFd
  running,    \* kernel: the descriptors whose counter is enabled
  dirty,      \* kernel: the counters holding events not yet fetched
  registry,   \* fd__event_count_map; 0 stands for "no entry"
  eventCount  \* event_count_being_monitor

kernel == <<leader, running, dirty>>
manager == <<registry, eventCount>>

OpenFds == {f \in Fds : leader[f] # NoFd}
Registered == {f \in Fds : registry[f] > 0}

\* Every member of the groups the descriptors S belong to: what an ioctl with
\* PERF_IOC_FLAG_GROUP on each of S reaches.
GroupsOf(S) == {g \in OpenFds : \E f \in S : leader[f] = leader[g]}

-----------------------------------------------------------------------------
(* perf_event_open(attr with disabled = 1, pid, core, group_fd) *)
perf_event_open(f, group_fd) ==
  /\ f \notin OpenFds
  /\ leader' = [leader EXCEPT ![f] = IF group_fd = NoFd THEN f ELSE group_fd]
  /\ UNCHANGED <<running, dirty>>

(* close(f): the siblings of a closed leader become events of their own and *)
(* keep running if they were.                                              *)
perf_close(f) ==
  /\ leader' = [g \in Fds |-> CASE g = f -> NoFd
                                [] g # f /\ leader[g] = f -> g
                                [] OTHER -> leader[g]]
  /\ running' = running \ {f}
  /\ dirty' = dirty \ {f}

register_event_uncounted(f, num_events) ==
  registry' = [registry EXCEPT ![f] = num_events] /\ UNCHANGED eventCount

register_event(f, num_events) ==
  IF f \in Registered
    THEN UNCHANGED manager
    ELSE /\ eventCount' = eventCount + num_events
         /\ registry' = [registry EXCEPT ![f] = num_events]

unregister_event_unclosed(f) ==
  /\ eventCount' = eventCount - registry[f]
  /\ registry' = [registry EXCEPT ![f] = 0]
  /\ UNCHANGED kernel

unregister_event_unerased(f) ==
  perf_close(f) /\ eventCount' = eventCount - registry[f] /\ UNCHANGED registry

unregister_event(f) ==
  IF f \in Registered
    THEN /\ perf_close(f)
         /\ eventCount' = eventCount - registry[f]
         /\ registry' = [registry EXCEPT ![f] = 0]
    ELSE UNCHANGED <<kernel, manager>>

disable_all_events_ungrouped == running' = running \ Registered

disable_all_events == running' = running \ GroupsOf(Registered)

enable_all_events_none == UNCHANGED running

enable_all_events == running' = running \union GroupsOf(Registered)

=============================================================================
