--------------------------- MODULE MCSchedReplay ---------------------------
(* All traces of a few events.                                             *)
EXTENDS SchedReplay
=============================================================================
