----------------------------- MODULE MCRecordAio ----------------------------
(* A forward and an overwritable ring buffer of three units each.          *)
EXTENDS RecordAio
=============================================================================
