---------------------------- MODULE MCSampleStore ----------------------------
(* Small instances of SampleStore. *)
EXTENDS SampleStore

MCAllSources == Counters \union Powers \union Levels
=============================================================================
