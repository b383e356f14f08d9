------------------------------ MODULE PerfMmap ------------------------------
(***************************************************************************)
(* One forward (non-overwrite) ring buffer of util/mmap.c: the kernel      *)
(* writes behind the head, the tool reads up to it and hands the room back *)
(* through the tail.  Two readers exist in the tools: perf_mmap__push      *)
(* ("push", perf record) and the read_init / read_event / consume /        *)
(* read_done loop ("read": perf top, trace, kvm, the side-band thread).    *)
(*                                                                         *)
(* Positions are the free-running byte offsets of the code, in units of    *)
(* the u64 alignment of events; a unit of data is the position it was      *)
(* written at, so an overwritten unit is told apart from the original.     *)
(* Several file descriptors may write to the buffer                        *)
(* (PERF_EVENT_IOC_SET_OUTPUT); refcnt counts them, plus one for the last  *)
(* events.  POLLHUP of a descriptor drops its reference.                   *)
(***************************************************************************)
EXTENDS Integers, Sequences, FiniteSets, FiniteSetsExt

CONSTANTS
  Size,         \* mask + 1: units in the buffer
  EventSizes,   \* sizes of the events, in units
  MaxHead,      \* bound: units the kernel writes
  NrFds,        \* descriptors that share the buffer
  Readers       \* the tools considered, by how they read: "push", "read"

ASSUME PerfMmapAssumption ==
  /\ Size \in Nat \ {0}
  /\ EventSizes \subseteq 1..Size
  /\ MaxHead \in Nat
  /\ NrFds \in Nat \ {0}
  /\ Readers \subseteq {"push", "read"}

VARIABLES
  reader,       \* how this tool reads
  auxtrace,     \* the buffer has an AUX area (auxtrace_mmap.base)
  head, tail,   \* data_head and data_tail of the shared page
  data,         \* unit index -> position written there
  sizes,        \* event start -> header.size, for the events written
  open_fds,     \* descriptors whose event still exists
  hups,         \* descriptors closed, POLLHUP not seen by the tool yet
  base,         \* the buffer is mapped
  refcnt, prev, start, end,
  pc,           \* the function the tool is in
  pushed_head,  \* the local 'head' of perf_mmap__push
  out           \* history: units written to the output or returned as events

vars == <<reader, auxtrace, head, tail, data, sizes, open_fds, hups, base, refcnt, prev, start,
          end, pc, pushed_head, out>>
kernel == <<head, data, sizes, open_fds, hups>>

NoUnit == -1
NoSize == 0
\* What is stored from one position up to another.
Units(from, to) == [i \in 1..(to - from) |-> data[(from + i - 1) % Size]]

\* Mutant: no reference is kept for the last events.
FirstRefcnt == NrFds
\* refcount_set(&map->refcnt, 2), and perf_mmap__get for each further descriptor.
InitialRefcnt == 1 + NrFds

\* perf_mmap__mmap, and perf_mmap__get for each further descriptor.
Init ==
  /\ reader \in Readers /\ auxtrace \in BOOLEAN
  /\ head = 0 /\ tail = 0
  /\ data = [u \in 0..(Size - 1) |-> NoUnit]
  /\ sizes = [p \in 0..MaxHead |-> NoSize]
  /\ open_fds = NrFds /\ hups = 0
  /\ base = TRUE /\ refcnt = InitialRefcnt
  /\ prev = 0 /\ start = 0 /\ end = 0
  /\ pc = "idle" /\ pushed_head = 0
  /\ out = <<>>

-----------------------------------------------------------------------------
(* The kernel side, outside the repository: an event is stored when it     *)
(* fits between head and tail, and is dropped otherwise.                   *)

KernelWrite(size) ==
  /\ open_fds > 0
  /\ head + size <= MaxHead
  /\ head + size - tail <= Size
  /\ data' = [u \in DOMAIN data |->
                IF \E i \in 0..(size - 1) : (head + i) % Size = u
                THEN CHOOSE p \in head..(head + size - 1) : p % Size = u
                ELSE data[u]]
  /\ sizes' = [sizes EXCEPT ![head] = size]
  /\ head' = head + size
  /\ UNCHANGED <<reader, auxtrace, tail, open_fds, hups, base, refcnt, prev, start, end,
                 pc, pushed_head, out>>

\* The monitored task exits: its descriptor reports POLLHUP from now on.
TaskExit ==
  /\ open_fds > 0
  /\ open_fds' = open_fds - 1 /\ hups' = hups + 1
  /\ UNCHANGED <<reader, auxtrace, head, tail, data, sizes, base, refcnt, prev, start, end,
                 pc, pushed_head, out>>

-----------------------------------------------------------------------------
(* Reference counts.                                                       *)

\* perf_mmap__put of the count cnt; the last one unmaps, which zeroes the count.
perf_mmap__put(cnt) ==
  /\ refcnt' = cnt - 1
  /\ base' = (cnt > 1)

\* perf_mmap__consume, with map->prev = p and head = h read by perf_mmap__empty; with
\* an AUX area the buffer is never empty.
perf_mmap__consume(p, h) ==
  /\ tail' = p
  /\ IF refcnt = 1 /\ h = p /\ ~auxtrace
     THEN perf_mmap__put(refcnt)
     ELSE UNCHANGED <<refcnt, base>>

\* perf_evlist__filter_pollfd, between two passes over the buffers.
FilterPollfd ==
  /\ pc = "idle" /\ hups > 0
  /\ hups' = hups - 1
  /\ perf_mmap__put(refcnt)
  /\ UNCHANGED <<reader, auxtrace, head, tail, data, sizes, open_fds, prev, start, end,
                 pc, pushed_head, out>>

-----------------------------------------------------------------------------
(* __perf_mmap__read_init, with the head it reads.                         *)

\* Nothing to read, or (never, see TypeOK) more than the buffer holds: -EAGAIN.
ReadInitAgain(return) ==
  /\ prev = head \/ head - prev > Size
  /\ start' = prev /\ end' = head
  /\ prev' = head
  /\ IF prev = head THEN UNCHANGED <<tail, refcnt, base>>
                    ELSE perf_mmap__consume(head, head)
  /\ pc' = return
  /\ UNCHANGED <<reader, auxtrace, kernel, pushed_head, out>>

\* Mutant: the room is handed back before the data is copied.
ReadInitOkEarly(next) ==
  /\ prev # head /\ head - prev <= Size
  /\ start' = prev /\ end' = head
  /\ tail' = head
  /\ pc' = next
  /\ UNCHANGED <<reader, auxtrace, kernel, base, refcnt, prev, pushed_head, out>>

ReadInitOk(next) ==
  /\ prev # head /\ head - prev <= Size
  /\ start' = prev /\ end' = head
  /\ pc' = next
  /\ UNCHANGED <<reader, auxtrace, kernel, tail, base, refcnt, prev, pushed_head, out>>

-----------------------------------------------------------------------------
(* perf_mmap__push: the head is read once here, and again by read_init.    *)

PushHead ==
  /\ reader = "push" /\ pc = "idle" /\ base
  /\ pushed_head' = head
  /\ pc' = "push_init"
  /\ UNCHANGED <<reader, auxtrace, kernel, tail, base, refcnt, prev, start, end, out>>

PushInit ==
  /\ pc = "push_init"
  /\ ReadInitOk("push_first") \/ ReadInitAgain("idle")

\* The data crosses the end of the buffer (or touches it): first part.
Straddles == (start % Size) + (end - start) # end % Size

PushFirst ==
  /\ pc = "push_first"
  /\ LET size == IF Straddles THEN Size - (start % Size) ELSE 0
     IN  /\ out' = out \o Units(start, start + size)
         /\ start' = start + size
  /\ pc' = "push_second"
  /\ UNCHANGED <<reader, auxtrace, kernel, tail, base, refcnt, prev, end, pushed_head>>

PushSecond ==
  /\ pc = "push_second"
  /\ out' = out \o Units(start, end)
  /\ start' = end
  /\ pc' = "push_done"
  /\ UNCHANGED <<reader, auxtrace, kernel, tail, base, refcnt, prev, end, pushed_head>>

\* push() fails in one of the parts, after some of it was written: the room is not
\* handed back, and the error ends the recording.
PushFails ==
  /\ \/ pc = "push_first" /\ Straddles /\ start' = start + (Size - (start % Size))
     \/ pc = "push_second" /\ start' = end
  /\ \E to \in start..(start' - 1) : out' = out \o Units(start, to)
  /\ pc' = "failed"
  /\ UNCHANGED <<reader, auxtrace, kernel, tail, base, refcnt, prev, end, pushed_head>>

\* Mutant: the head is read again at the end.
PushDoneRereads ==
  /\ pc = "push_done"
  /\ prev' = head
  /\ perf_mmap__consume(head, head)
  /\ pc' = "idle"
  /\ UNCHANGED <<reader, auxtrace, kernel, start, end, pushed_head, out>>

PushDone ==
  /\ pc = "push_done"
  /\ prev' = pushed_head
  /\ perf_mmap__consume(pushed_head, head)
  /\ pc' = "idle"
  /\ UNCHANGED <<reader, auxtrace, kernel, start, end, pushed_head, out>>

-----------------------------------------------------------------------------
(* perf_mmap__read_init; while (perf_mmap__read_event()) consume;          *)
(* perf_mmap__read_done.                                                   *)

ReadInit ==
  /\ reader = "read" /\ pc = "idle" /\ refcnt # 0
  /\ ReadInitOk("read_event") \/ ReadInitAgain("idle")

\* An event is returned; its units are read in place or, straddling, copied.
ReadEvent ==
  /\ pc = "read_event" /\ refcnt # 0
  /\ start < head
  /\ LET size == sizes[start]
     IN  /\ out' = out \o Units(start, start + size)
         /\ start' = start + size
         /\ prev' = start + size
  /\ end' = head
  /\ pc' = "consume"
  /\ UNCHANGED <<reader, auxtrace, kernel, tail, base, refcnt, pushed_head>>

\* perf_mmap__read_event returns NULL: nothing left, or unmapped meanwhile.
ReadEventNull ==
  /\ pc = "read_event"
  /\ \/ refcnt = 0 /\ UNCHANGED <<prev, end>>
     \/ refcnt # 0 /\ start = head /\ prev' = start /\ end' = head
  /\ pc' = "read_done"
  /\ UNCHANGED <<reader, auxtrace, kernel, tail, base, refcnt, start, pushed_head, out>>

Consume ==
  /\ pc = "consume"
  /\ perf_mmap__consume(prev, head)
  /\ pc' = "read_event"
  /\ UNCHANGED <<reader, auxtrace, kernel, prev, start, end, pushed_head, out>>

ReadDone ==
  /\ pc = "read_done"
  /\ prev' = IF refcnt = 0 THEN prev ELSE head
  /\ pc' = "idle"
  /\ UNCHANGED <<reader, auxtrace, kernel, tail, base, refcnt, start, end, pushed_head, out>>

-----------------------------------------------------------------------------
Tool ==
  \/ PushHead \/ PushInit \/ PushFirst \/ PushSecond \/ PushFails \/ PushDone
  \/ ReadInit \/ ReadEvent \/ ReadEventNull \/ Consume \/ ReadDone
  \/ FilterPollfd

Next ==
  \/ \E size \in EventSizes : KernelWrite(size)
  \/ TaskExit
  \/ Tool

Spec == Init /\ [][Next]_vars

\* The tool loops over its buffers as long as it runs.
FairSpec == Spec /\ WF_vars(Tool)

-----------------------------------------------------------------------------
(* Properties                                                              *)

\* Every variable has the type its C counterpart has.  The positions are in
\* order, and in non-overwrite mode the reader is never overrun: the "failed to
\* keep up" branch of __perf_mmap__read_init, which drops data, is not reached.
TypeOK ==
  /\ reader \in Readers /\ auxtrace \in BOOLEAN
  /\ head \in 0..MaxHead /\ tail \in 0..MaxHead
  /\ data \in [0..(Size - 1) -> NoUnit..MaxHead]
  /\ sizes \in [0..MaxHead -> 0..Size]
  /\ open_fds \in 0..NrFds /\ hups \in 0..NrFds
  /\ base \in BOOLEAN /\ refcnt \in 0..(1 + NrFds)
  /\ {prev, start, end, pushed_head} \subseteq 0..MaxHead
  /\ pc \in {"idle", "push_init", "push_first", "push_second", "push_done",
             "failed", "read_event", "consume", "read_done"}
  /\ out \in Seq(0..MaxHead)
  /\ tail <= prev /\ prev <= head /\ head - prev <= Size

Written == {out[i] : i \in DOMAIN out}

\* What is read is what the kernel wrote at these positions: no unit changes
\* under the tool between reading the head and handing the room back.  And
\* perf_mmap__read_event returns no event again.
ReadsIntact ==
  [][out' # out =>
       \E from \in 0..head :
         /\ out' = out \o [i \in 1..(Len(out') - Len(out)) |-> from + i - 1]
         /\ reader = "read" => \A i \in DOMAIN out : out[i] < from]_vars

\* perf_mmap__push gives room back to the kernel only after its data was written
\* to the output.  The buffer is unmapped only after every descriptor hung up
\* and the last event was written (the comment in perf_mmap__mmap).
KeptUntilOutput ==
  /\ TypeOK
  /\ reader = "push" =>
       /\ 0..(tail - 1) \subseteq Written
       /\ ~base => open_fds = 0 /\ hups = 0 /\ 0..(head - 1) \subseteq Written

\* Whatever the kernel keeps adding, what is in the buffer now reaches the
\* output of perf_mmap__push, unless writing fails.
EventuallyWritten ==
  \A p \in 0..(MaxHead - 1) :
     (reader = "push" /\ head > p) ~> (p \in Written \/ pc = "failed")
=============================================================================
