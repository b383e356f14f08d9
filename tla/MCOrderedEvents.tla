-------------------------- MODULE MCOrderedEvents --------------------------
(* Instances of OrderedEvents for TLC. *)
EXTENDS OrderedEvents
=============================================================================
