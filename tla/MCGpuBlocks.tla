----------------------------- MODULE MCGpuBlocks -----------------------------
(* Small instances of GpuBlocks. *)
EXTENDS GpuBlocks
=============================================================================
