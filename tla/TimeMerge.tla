----------------------------- MODULE TimeMerge ------------------------------
(***************************************************************************)
(* What recording and reading promise together: the events of all forward  *)
(* buffers are processed as if there were one buffer, in the order of      *)
(* their times.  An event that was taken is never processed after a later  *)
(* one, even if it still is in a ring buffer when the later one is read.   *)
(* A dump of overwritable buffers ends the promise of order: its events    *)
(* may be older than any processed before.                                 *)
(***************************************************************************)
EXTENDS Integers

CONSTANTS
  Occurrences,        \* records with a field time
  Dumpable            \* what a dump consists of: such records, and marks

VARIABLES
  taken,              \* the events the kernel has taken into forward buffers
  dumped,             \* what was read of a dump
  processed,          \* the events that were delivered to the tool
  now                 \* the time of the last one delivered

merge_vars == <<taken, dumped, processed, now>>

MergeInit == taken = {} /\ dumped = {} /\ processed = {} /\ now = 0

Take(e) ==
  /\ dumped = {} => e.time >= now
  /\ taken' = taken \cup {e}
  /\ UNCHANGED <<dumped, processed, now>>

Dump(e) ==
  /\ dumped' = dumped \cup {e}
  /\ UNCHANGED <<taken, processed, now>>

\* An event may be delivered again, as perf_mmap__push may write it twice.
Process(e) ==
  /\ e \in taken \cup dumped
  /\ dumped = {} => e.time >= now /\ \A f \in taken \ processed : e.time <= f.time
  /\ processed' = processed \cup {e}
  /\ now' = e.time
  /\ UNCHANGED <<taken, dumped>>

MergeNext ==
  \/ \E e \in Occurrences : Take(e)
  \/ \E e \in Dumpable : Dump(e)
  \/ \E e \in Occurrences \cup Dumpable : Process(e)

MergeSpec == MergeInit /\ [][MergeNext]_merge_vars
=============================================================================
