----------------------------- MODULE MCPerfTop -----------------------------
(* A sample that may belong to two entries that collapse into one, and an  *)
(* event that is not a sample.                                             *)
EXTENDS PerfTop

MCKey == {"a", "b"}
MCGroup == [k \in MCKey |-> "ab"]
MCKeysOf == [e \in Event |-> IF e = 1 THEN MCKey ELSE {}]
=============================================================================
