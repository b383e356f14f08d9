--------------------------- MODULE MCSwitchOutput ---------------------------
(* Up to five dumps, of which two (or all) are kept.                       *)
EXTENDS SwitchOutput
=============================================================================
