--------------------------- MODULE MCBackwardMmap ---------------------------
(* A buffer of four units, events of one and three, two laps.       *)
EXTENDS BackwardMmap
=============================================================================
