---------------------------- MODULE MCRecordLoop ----------------------------
(* The loop of perf record for the ways to call it.                        *)
EXTENDS RecordLoop

\* Every combination of the options that interact, every signal, every fault.
AllModes ==
  {c \in [target : {"workload", "system"}, overwrite : BOOLEAN,
          switch : {"none", "signal", "size", "time"}, size : {5},
          tail : BOOLEAN, snapshot : BOOLEAN,
          signals : {{"INT", "USR2"}}, faults : {{"read", "snapshot", "switch"}}] :
     /\ c.tail => c.switch # "none"
     /\ c.snapshot => c.switch # "time" /\ ~c.tail}
=============================================================================
