---------------------------- MODULE BackwardMmap ----------------------------
(***************************************************************************)
(* One overwritable ring buffer of util/mmap.c.  The kernel writes it      *)
(* backward and never waits for the reader: every event is stored below    *)
(* the previous one, over the oldest data.  The tool pauses the buffer     *)
(* (perf_evlist__toggle_bkw_mmap), reads it from the newest event to the   *)
(* oldest that is still whole, and resumes it.                             *)
(*                                                                         *)
(* Positions are the free-running offsets of the code, here negative, in   *)
(* units of the u64 alignment of events.  A unit of data is the position   *)
(* it was written at; the header of an event is its first unit.            *)
(***************************************************************************)
EXTENDS Integers, Sequences, FiniteSets, FiniteSetsExt, Functions

CONSTANTS
  Size,         \* mask + 1: units in the buffer
  EventSizes,   \* sizes of the events, in units
  MaxUnits      \* bound: units the kernel writes

ASSUME BackwardMmapAssumption ==
  /\ Size \in Nat \ {0}
  /\ EventSizes \subseteq 1..Size
  /\ MaxUnits \in Nat \ {0}

VARIABLES
  head,         \* data_head of the shared page
  data,         \* unit index -> position written there
  sizes,        \* position -> header.size of the event that starts there
  state,        \* evlist->bkw_mmap_state
  prev, start, end,
  func,         \* the function the tool is in
  out,          \* units of the snapshot being read
  snapshots     \* history: the snapshots taken, with the head at the time

backward_vars == <<head, data, sizes, state, prev, start, end, func, out, snapshots>>
mapped == <<head, data, sizes>>

NoUnit == 0
MinHead == -MaxUnits
Positions == MinHead..(-1)
Units(from, to) == [i \in 1..(to - from) |-> data[(from + i - 1) % Size]]

BackwardInit ==
  /\ head = 0
  /\ data = [u \in 0..(Size - 1) |-> NoUnit]
  /\ sizes = [p \in Positions |-> 0]
  /\ state = "RUNNING"
  /\ prev = 0 /\ start = 0 /\ end = 0
  /\ func = "idle"
  /\ out = <<>> /\ snapshots = {}

\* The kernel, outside the repository: an event is stored below the head.
KernelWrite(size) ==
  /\ state = "RUNNING"
  /\ head - size >= MinHead
  /\ head' = head - size
  /\ data' = [u \in DOMAIN data |->
                IF \E p \in (head - size)..(head - 1) : p % Size = u
                THEN CHOOSE p \in (head - size)..(head - 1) : p % Size = u
                ELSE data[u]]
  /\ sizes' = [sizes EXCEPT ![head - size] = size]
  /\ UNCHANGED <<state, prev, start, end, func, out, snapshots>>

\* perf_evlist__toggle_bkw_mmap(DATA_PENDING): the buffers are paused.
Pause ==
  /\ func = "idle" /\ state = "RUNNING"
  /\ state' = "DATA_PENDING"
  /\ func' \in {"push_init", "read_init"}
  /\ UNCHANGED <<mapped, prev, start, end, out, snapshots>>

-----------------------------------------------------------------------------
(* __perf_mmap__read_init                                                  *)

\* pheader->size of what is stored at a position.
header_size(p) ==
  LET unit == data[p % Size] IN IF unit = NoUnit THEN 0 ELSE sizes[unit]

\* Mutant: the oldest event is taken to be whole.
overwrite_rb_whole_buffer(next) ==
  /\ end' = start + Size
  /\ func' = next
  /\ UNCHANGED <<mapped, state, prev, start, out, snapshots>>

\* The buffer is full: walk from event to event, and stop at the end of the
\* last one that is whole.  An iteration of the loop; end holds evt_head.
overwrite_rb_find_range(next) ==
  /\ LET size == header_size(end) IN
       \/ /\ size \in 1..(start + Size - end)
          /\ end' = end + size
          /\ UNCHANGED func
       \/ /\ size \notin 1..(start + Size - end)
          /\ func' = next
          /\ UNCHANGED end
  /\ UNCHANGED <<mapped, state, prev, start, out, snapshots>>

\* -EAGAIN when there is nothing new.
ReadInit(again, walk, next) ==
  /\ start' = head
  /\ IF prev - head > Size THEN end' = head /\ func' = walk
     ELSE end' = prev /\ func' = IF prev = head THEN again ELSE next
  /\ UNCHANGED <<mapped, state, prev, out, snapshots>>

-----------------------------------------------------------------------------
(* perf_mmap__push, as perf record reads the buffer.                       *)

PushInit == func = "push_init" /\ ReadInit("empty", "push_walk", "push_first")
PushWalk == func = "push_walk" /\ overwrite_rb_find_range("push_first")

\* The data crosses the end of the buffer (or touches it): first part.
PushFirst ==
  /\ func = "push_first"
  /\ LET size == IF (start % Size) + (end - start) # end % Size
                 THEN Size - (start % Size) ELSE 0
     IN  /\ out' = out \o Units(start, start + size)
         /\ start' = start + size
  /\ func' = "push_second"
  /\ UNCHANGED <<mapped, state, prev, end, snapshots>>

PushSecond ==
  /\ func = "push_second"
  /\ out' = out \o Units(start, end)
  /\ start' = end
  /\ prev' = head
  /\ func' = "empty"
  /\ UNCHANGED <<mapped, state, end, snapshots>>

-----------------------------------------------------------------------------
(* perf_mmap__read_init; while (perf_mmap__read_event()); read_done, as    *)
(* perf top reads the buffer.                                              *)

ReadBegin == func = "read_init" /\ ReadInit("read_done", "read_walk", "read_event")
ReadWalk == func = "read_walk" /\ overwrite_rb_find_range("read_event")

\* An event is returned, in place or copied when it straddles the end.
ReadEvent ==
  /\ func = "read_event" /\ end > start
  /\ LET size == header_size(start)
     IN  /\ size > 0 /\ size <= end - start
         /\ out' = out \o Units(start, start + size)
         /\ start' = start + size
  /\ UNCHANGED <<mapped, state, prev, end, func, snapshots>>

\* NULL: the end is reached, or the header does not fit what is left.
ReadEventNull ==
  /\ func = "read_event"
  /\ end = start \/ header_size(start) \notin 1..(end - start)
  /\ func' = "read_done"
  /\ UNCHANGED <<mapped, state, prev, start, end, out, snapshots>>

\* Mutant: map->prev stays behind.
read_done_no_prev ==
  /\ func = "read_done"
  /\ func' = "empty"
  /\ UNCHANGED <<mapped, state, prev, start, end, out, snapshots>>

\* The next snapshot starts at the head of this one.
perf_mmap__read_done ==
  /\ func = "read_done"
  /\ prev' = head
  /\ func' = "empty"
  /\ UNCHANGED <<mapped, state, start, end, out, snapshots>>

-----------------------------------------------------------------------------
\* perf_evlist__toggle_bkw_mmap(EMPTY), then (RUNNING): the buffers resume.
Empty ==
  /\ func = "empty" /\ state = "DATA_PENDING"
  /\ state' = "EMPTY"
  /\ snapshots' = snapshots \cup {<<head, out>>}
  /\ out' = <<>>
  /\ UNCHANGED <<mapped, prev, start, end, func>>

Resume ==
  /\ func = "empty" /\ state = "EMPTY"
  /\ state' = "RUNNING"
  /\ func' = "idle"
  /\ UNCHANGED <<mapped, prev, start, end, out, snapshots>>

Tool ==
  \/ Pause \/ PushInit \/ PushWalk \/ PushFirst \/ PushSecond
  \/ ReadBegin \/ ReadWalk \/ ReadEvent \/ ReadEventNull \/ perf_mmap__read_done
  \/ Empty \/ Resume

BackwardNext == (\E size \in EventSizes : KernelWrite(size)) \/ Tool

BackwardSpec == BackwardInit /\ [][BackwardNext]_backward_vars

-----------------------------------------------------------------------------
(* Properties                                                              *)

\* Every variable has the type its C counterpart has.
BackwardTypeOK ==
  /\ head \in MinHead..0 /\ prev \in MinHead..0
  /\ data \in [0..(Size - 1) -> MinHead..0]
  /\ sizes \in [Positions -> 0..Size]
  /\ state \in {"RUNNING", "DATA_PENDING", "EMPTY"}
  /\ start \in MinHead..0 /\ end \in MinHead..0
  /\ func \in {"idle", "push_init", "push_walk", "push_first", "push_second",
               "read_init", "read_walk", "read_event", "read_done", "empty"}
  /\ out \in Seq(MinHead..0)
  /\ snapshots \subseteq (MinHead..0) \X Seq(MinHead..0)

\* The events written since an earlier snapshot, when the head was at h.
EarlierHeads(h) == {s[1] : s \in {t \in snapshots : t[1] > h}} \cup {0}
Fresh(h) == {p \in Positions : p >= h /\ sizes[p] > 0 /\ p + sizes[p] <= Min(EarlierHeads(h))}

\* Those that were still whole in the buffer then, and the units they take.
WholeAt(h) == {p \in Fresh(h) : p + sizes[p] <= h + Size}
UnitsAt(h) == UNION {p..(p + sizes[p] - 1) : p \in WholeAt(h)}

\* A snapshot is exactly the events that are new since the last one and fit the
\* buffer whole, the newest first: the walk of overwrite_rb_find_range leaves
\* out the event the kernel has begun to overwrite, and no other.  It is empty
\* only if nothing was written since the last one.
SnapshotIsWholeEvents ==
  /\ BackwardTypeOK
  /\ \A s \in snapshots :
       s[2] # <<>> =>
         /\ Len(s[2]) = Cardinality(UnitsAt(s[1]))
         /\ \A i \in DOMAIN s[2] : s[2][i] = s[1] + i - 1
  /\ func = "empty" /\ state = "DATA_PENDING" /\ out = <<>> =>
       \E s \in snapshots \cup {<<0, <<>>>>} : s[1] = head

\* No event of the flight recorder is in two snapshots.
SnapshotsDisjoint ==
  \A s, t \in snapshots : s # t => Range(s[2]) \cap Range(t[2]) = {}
=============================================================================
