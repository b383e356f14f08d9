--------------------------- MODULE MCRecordReport ---------------------------
(* A recording of two buffers read while it is written.                    *)
EXTENDS RecordReport
=============================================================================
