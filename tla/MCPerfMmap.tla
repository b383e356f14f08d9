----------------------------- MODULE MCPerfMmap -----------------------------
(* Instances of PerfMmap for TLC. *)
EXTENDS PerfMmap
=============================================================================
