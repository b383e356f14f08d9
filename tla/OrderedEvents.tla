--------------------------- MODULE OrderedEvents ---------------------------
(***************************************************************************)
(* The time-ordered event queue of util/ordered-events.c, and the control  *)
(* of the callers that own one: the perf.data reader of util/session.c,    *)
(* and the processing thread of builtin-top.c.                             *)
(*                                                                         *)
(* An ordered_event object is a number, its position in the sequence of    *)
(* objects handed out of the allocation buffers.  An object is linked to   *)
(* the list 'events' (in time order) or to the list 'cache' (removed, most *)
(* recently removed first).  oe->last is a bare pointer into 'events'.     *)
(* Flushing calls back into the tool once per event, so it is a loop of    *)
(* steps: a signal can set session_done between any two of them, and every *)
(* callback can fail.                                                      *)
(***************************************************************************)
EXTENDS Integers, Sequences, FiniteSets, FiniteSetsExt

CONSTANTS
  U64,                \* number of values of a u64 timestamp
  Timestamps,         \* the timestamps the callers pass
  MaxQueued,          \* bound: calls of ordered_events__queue
  MAX_SAMPLE_BUFFER,  \* objects in one allocation buffer
  HeaderSize,         \* bytes of one event copy
  BufferSize,         \* bytes of one allocation buffer
  MaxAlloc,           \* ordered_events__set_alloc_size
  CopyOnQueue,        \* ordered_events__set_copy_on_queue
  Hows,               \* the flush kinds the caller uses while it reads
  StopOnError,        \* the caller gives up when a call fails
  Faults              \* which of "deliver", "done", "nomem" may happen

ULLONG_MAX == U64 - 1

ASSUME OrderedEventsAssumption ==
  /\ U64 \in Nat \ {0, 1}
  /\ Timestamps \subseteq 0..ULLONG_MAX
  /\ MaxQueued \in Nat
  /\ MAX_SAMPLE_BUFFER \in Nat \ {0, 1}
  /\ HeaderSize \in Nat /\ BufferSize \in Nat /\ MaxAlloc \in Nat
  /\ CopyOnQueue \in BOOLEAN /\ StopOnError \in BOOLEAN
  /\ Hows \subseteq {"ROUND", "TOP", "TIME"}
  /\ Faults \subseteq {"deliver", "done", "nomem"}

VARIABLES
  events,             \* oe->events: objects in list order
  cache,              \* oe->cache: removed objects, last removed first
  used,               \* objects handed out of the buffers so far
  timestamp,          \* object -> its timestamp
  last,               \* oe->last, NULL when there is none
  next_flush, last_flush, max_timestamp,
  cur_alloc_size, nr_unordered_events,
  pc,                 \* where the caller is: "idle", "retry", "flush", "wild"
  call,               \* the locals of the calls in progress
  session_done,       \* set by a signal handler
  client,             \* the loop of the caller
  queued,             \* history: calls of ordered_events__queue so far
  serial,             \* history: object -> which queue_event call filled it
  accepted,           \* history: calls of queue_event so far
  handed              \* history: the serials whose delivery succeeded

oe_vars == <<events, cache, used, timestamp, last, next_flush, last_flush,
             max_timestamp, cur_alloc_size, nr_unordered_events>>
ctl_vars == <<pc, call, session_done, client>>
hist_vars == <<queued, serial, accepted, handed>>
vars == <<oe_vars, ctl_vars, hist_vars>>

NULL == 0
Objects == 1..MaxQueued
\* retry: timestamp of the event that ordered_events__queue tries again to queue
\* how, last_ts: locals of __ordered_events__flush and do_flush
NoCall == [retry |-> 0, how |-> "NONE", last_ts |-> 0]

Init ==
  /\ events = <<>> /\ cache = <<>> /\ used = 0
  /\ timestamp = [n \in Objects |-> 0]
  /\ last = NULL
  /\ next_flush = 0 /\ last_flush = 0 /\ max_timestamp = 0
  /\ cur_alloc_size = 0 /\ nr_unordered_events = 0
  /\ pc = "idle" /\ call = NoCall
  /\ session_done = FALSE /\ client = "reading"
  /\ queued = 0 /\ accepted = 0 /\ handed = <<>>
  /\ serial = [n \in Objects |-> 0]

-----------------------------------------------------------------------------
(* Control: what the caller does when a call returns err.                  *)

\* The reader gives up on an error, and looks at session_done after each event.
Return(err) ==
  /\ pc' = "idle" /\ call' = NoCall
  /\ client' = IF err /\ StopOnError THEN "failed"
               ELSE IF client = "closing" THEN "flushed"
               ELSE IF ~err /\ session_done THEN "closing" ELSE client

-----------------------------------------------------------------------------
(* queue_event: search from 'last' for the place of the new event.         *)

\* The list with 'new' linked as its i-th object, and the object at its tail.
list_add(list, i, new) == SubSeq(list, 1, i - 1) \o <<new>> \o SubSeq(list, i, Len(list))
Last(list) == list[Len(list)]

\* Index of the object that oe->last points at.
LastIndex == CHOOSE i \in DOMAIN events : events[i] = last

\* Mutant: the backward search goes on over events of the same time.
InsertIndexStrict(ts) ==
  IF timestamp[last] < ts
  THEN LET later == {i \in LastIndex..Len(events) : timestamp[events[i]] > ts}
       IN  IF later = {} THEN Len(events) + 1 ELSE Min(later)
  ELSE LET earlier == {i \in 1..LastIndex : timestamp[events[i]] < ts}
       IN  IF earlier = {} THEN 1 ELSE Max(earlier) + 1

\* Forward from 'last': before the first later event, else at the tail.
\* Backward from 'last': after the first event that is not later, else at the head.
InsertIndex(ts) ==
  IF timestamp[last] <= ts
  THEN LET later == {i \in LastIndex..Len(events) : timestamp[events[i]] > ts}
       IN  IF later = {} THEN Len(events) + 1 ELSE Min(later)
  ELSE LET earlier == {i \in 1..LastIndex : timestamp[events[i]] <= ts}
       IN  IF earlier = {} THEN 1 ELSE Max(earlier) + 1

\* Mutant: max_timestamp is set before the forward search.
MaxBeforeSearch(ts) == IF timestamp[last] <= ts THEN ts ELSE max_timestamp

\* oe->max_timestamp follows the events that are appended to the list.
MaxAfterInsert(ts) ==
  IF timestamp[last] <= ts /\ InsertIndex(ts) > Len(events) THEN ts ELSE max_timestamp

queue_event(new, ts) ==
  /\ last' = new
  /\ timestamp' = [timestamp EXCEPT ![new] = ts]
  /\ accepted' = accepted + 1
  /\ serial' = [serial EXCEPT ![new] = accepted + 1]
  /\ \/ /\ last = NULL
        /\ events' = <<new>> \o events
        /\ max_timestamp' = ts
     \/ /\ last # NULL
        /\ events' = list_add(events, InsertIndex(ts), new)
        /\ max_timestamp' = MaxAfterInsert(ts)

-----------------------------------------------------------------------------
(* alloc_event: an event copy, then an object from the cache, the current  *)
(* buffer or a new buffer.                                                 *)

buffer == used % MAX_SAMPLE_BUFFER # 0       \* oe->buffer is not NULL

\* __dup_event's limit, and the bytes allocated once the copy exists
DupRefused == CopyOnQueue /\ cur_alloc_size >= MaxAlloc
AfterDup == cur_alloc_size + (IF CopyOnQueue THEN HeaderSize ELSE 0)

BufferRefused == cache = <<>> /\ ~buffer /\ AfterDup + BufferSize >= MaxAlloc

\* alloc_event returns NULL.  The copy is released when malloc fails, and
\* stays allocated when it is the limit that stops the allocation.
alloc_event_fails ==
  /\ \/ CopyOnQueue /\ (DupRefused \/ "nomem" \in Faults) /\ UNCHANGED cur_alloc_size
     \/ /\ ~DupRefused /\ ~BufferRefused /\ "nomem" \in Faults /\ cache = <<>> /\ ~buffer
        /\ UNCHANGED cur_alloc_size
     \/ ~DupRefused /\ BufferRefused /\ cur_alloc_size' = AfterDup
  /\ UNCHANGED <<cache, used>>

\* Mutant: a reused object stays linked to the cache.
alloc_event_keeps(new) ==
  /\ ~DupRefused /\ ~BufferRefused
  /\ IF cache # <<>>
     THEN /\ new = Head(cache)
          /\ cur_alloc_size' = AfterDup
          /\ UNCHANGED <<used, cache>>
     ELSE /\ new = used + 1
          /\ used' = used + 1
          /\ cur_alloc_size' = AfterDup + (IF buffer THEN 0 ELSE BufferSize)
          /\ UNCHANGED cache

\* alloc_event returns the object new.
alloc_event(new) ==
  /\ ~DupRefused /\ ~BufferRefused
  /\ IF cache # <<>>
     THEN /\ new = Head(cache)
          /\ cache' = Tail(cache)
          /\ cur_alloc_size' = AfterDup
          /\ UNCHANGED used
     ELSE /\ new = used + 1
          /\ used' = used + 1
          /\ cur_alloc_size' = AfterDup + (IF buffer THEN 0 ELSE BufferSize)
          /\ UNCHANGED cache

\* Allocates and links.  A search that starts at an object which is no longer
\* in the list runs through freed links: nothing is known after it.
ordered_events__new_event(ts) ==
  \E new \in Objects :
    /\ alloc_event(new)
    /\ IF last # NULL /\ last \notin Range(events)
       THEN /\ pc' = "wild"
            /\ UNCHANGED <<events, timestamp, last, max_timestamp,
                           call, client, serial, accepted>>
       ELSE queue_event(new, ts) /\ Return(FALSE)
    /\ UNCHANGED <<next_flush, last_flush>>

-----------------------------------------------------------------------------
(* __ordered_events__flush, up to the loop of do_flush.                    *)

\* Mutant: FINAL handled like ROUND.
FlushLimitRound(how, time) == IF how = "TIME" THEN time ELSE next_flush

\* oe->next_flush: up to which time each kind of flush goes.
FlushLimit(how, time) ==
  CASE how \in {"FINAL", "TOP"} -> ULLONG_MAX
    [] how = "HALF" ->
         LET first == timestamp[Head(events)]
         IN  (first + ((timestamp[last] - first) % U64) \div 2) % U64
    [] how = "TIME" -> time
    [] OTHER -> next_flush

\* Fields of the call that starts: how to flush, to which time, and the event
\* that waits for the room.  last_ts is read before the loop.
Flush(how, time, retry) ==
  /\ IF events = <<>>                                        \* oe->nr_events == 0
     THEN /\ pc' = IF retry # 0 THEN "retry" ELSE "idle"
          /\ call' = [NoCall EXCEPT !.retry = retry]
          /\ client' = IF client = "closing" THEN "flushed"
                       ELSE IF retry = 0 /\ session_done THEN "closing" ELSE client
          /\ UNCHANGED next_flush
     ELSE /\ next_flush' = FlushLimit(how, time)
          /\ pc' = "flush"
          /\ call' = [retry |-> retry, how |-> how,
                      last_ts |-> IF last = NULL THEN 0 ELSE timestamp[last]]
          /\ UNCHANGED client
  /\ UNCHANGED <<events, cache, used, timestamp, last, last_flush, max_timestamp,
                 serial, accepted, handed>>

\* do_flush returns err to __ordered_events__flush, and that to its caller:
\* ordered_events__queue ignores the result and tries again.
FlushReturn(err) ==
  /\ next_flush' = IF ~err /\ call.how = "ROUND" THEN max_timestamp ELSE next_flush
  /\ IF call.retry # 0
     THEN pc' = "retry" /\ UNCHANGED <<call, client>>
     ELSE Return(err)
  /\ UNCHANGED <<used, timestamp, max_timestamp, cur_alloc_size, nr_unordered_events,
                 session_done, queued, serial, accepted>>

-----------------------------------------------------------------------------
(* The loop of do_flush.                                                   *)

\* The list has an event that is due, and no signal asks to stop.
Due == /\ next_flush # 0
       /\ events # <<>>
       /\ timestamp[Head(events)] <= next_flush

\* Mutant: the copy of a delivered event stays allocated.
KeepDup == cur_alloc_size

\* free_dup_event
FreeDup == cur_alloc_size - (IF CopyOnQueue THEN HeaderSize ELSE 0)

\* deliver succeeds; ordered_events__delete moves the object to the cache.
FlushDeliver ==
  /\ pc = "flush" /\ Due /\ ~session_done
  /\ events' = Tail(events)
  /\ cache' = <<Head(events)>> \o cache
  /\ last_flush' = timestamp[Head(events)]
  /\ cur_alloc_size' = FreeDup
  /\ handed' = Append(handed, serial[Head(events)])
  /\ UNCHANGED <<used, timestamp, last, next_flush, max_timestamp,
                 nr_unordered_events, pc, call, session_done, client,
                 queued, serial, accepted>>

\* deliver fails, or session_done is set: the loop is left at once.
FlushBreakOff ==
  /\ pc = "flush" /\ next_flush # 0 /\ events # <<>>
  /\ \/ session_done /\ FlushReturn(FALSE)
     \/ ~session_done /\ Due /\ "deliver" \in Faults /\ FlushReturn(TRUE)
  /\ UNCHANGED <<events, cache, last, last_flush, handed>>

\* An empty list has no last event, and a last event that was flushed is replaced
\* by the tail.  do_flush does not get here when there is no limit to flush to.
RefreshLast ==
  CASE next_flush = 0                  -> last
    [] next_flush # 0 /\ events = <<>> -> NULL
    [] OTHER -> IF call.last_ts <= next_flush THEN Last(events) ELSE last

\* No event is due any more: oe->last is brought back into the list.
FlushEnd ==
  /\ pc = "flush" /\ ~Due
  /\ next_flush # 0 /\ events # <<>> => ~session_done
  /\ last' = RefreshLast
  /\ FlushReturn(FALSE)
  /\ UNCHANGED <<events, cache, last_flush, handed>>

-----------------------------------------------------------------------------
(* ordered_events__queue                                                   *)

\* An event without a usable time is refused (the session delivers it at once).
QueueNoTime(ts) ==
  /\ ts \in {0, ULLONG_MAX}
  /\ Return(FALSE)
  /\ UNCHANGED <<oe_vars, session_done, serial, accepted, handed>>

\* The event is earlier than one that was flushed.
OutOfOrder(ts) == ts < last_flush

QueueTimed(ts) ==
  /\ ts \notin {0, ULLONG_MAX}
  /\ nr_unordered_events' = nr_unordered_events + (IF OutOfOrder(ts) THEN 1 ELSE 0)
  /\ \/ ordered_events__new_event(ts)
     \/ alloc_event_fails /\ Flush("HALF", 0, ts)
  /\ UNCHANGED <<session_done, handed>>

ordered_events__queue(ts) ==
  /\ client = "reading" /\ pc = "idle" /\ queued < MaxQueued
  /\ queued' = queued + 1
  /\ QueueNoTime(ts) \/ QueueTimed(ts)

\* The second attempt, after OE_FLUSH__HALF; -ENOMEM when it fails too.
QueueRetry ==
  /\ pc = "retry"
  /\ \/ ordered_events__new_event(call.retry)
     \/ /\ alloc_event_fails
        /\ Return(TRUE)
        /\ UNCHANGED <<events, timestamp, last, next_flush, last_flush, max_timestamp,
                       serial, accepted>>
  /\ UNCHANGED <<nr_unordered_events, session_done, queued, handed>>

-----------------------------------------------------------------------------
(* The callers.                                                            *)

\* process_finished_round, perf top's process_thread, perf trace's flush_time.
FlushWhileReading ==
  /\ client = "reading" /\ pc = "idle"
  /\ \E how \in Hows : \E time \in (IF how = "TIME" THEN Timestamps ELSE {0}) :
        Flush(how, time, 0)
  /\ UNCHANGED <<cur_alloc_size, nr_unordered_events, session_done, queued>>

\* End of the data, with or without events left: OE_FLUSH__FINAL.
EndOfData ==
  /\ client = "reading" /\ pc = "idle"
  /\ client' = "closing"
  /\ UNCHANGED <<oe_vars, pc, call, session_done, hist_vars>>

FinalFlush ==
  /\ client = "closing" /\ pc = "idle"
  /\ Flush("FINAL", 0, 0)
  /\ UNCHANGED <<cur_alloc_size, nr_unordered_events, session_done, queued>>

\* ordered_events__reinit frees the buffers and clears the structure.
ordered_events__reinit ==
  /\ client \in {"flushed", "failed"} /\ pc = "idle"
  /\ events' = <<>> /\ cache' = <<>> /\ used' = 0
  /\ timestamp' = [n \in Objects |-> 0] /\ serial' = [n \in Objects |-> 0]
  /\ last' = NULL
  /\ next_flush' = 0 /\ last_flush' = 0 /\ max_timestamp' = 0
  /\ cur_alloc_size' = 0 /\ nr_unordered_events' = 0
  /\ client' = "closed"
  /\ UNCHANGED <<pc, call, session_done, queued, accepted, handed>>

\* The handler of SIGINT, at any moment.
SigInt ==
  /\ "done" \in Faults /\ ~session_done
  /\ session_done' = TRUE
  /\ UNCHANGED <<oe_vars, pc, call, client, hist_vars>>

Finished ==
  /\ client = "closed" \/ pc = "wild"
  /\ UNCHANGED vars

Next ==
  \/ \E ts \in Timestamps : ordered_events__queue(ts)
  \/ QueueRetry
  \/ FlushWhileReading
  \/ FlushDeliver
  \/ FlushBreakOff
  \/ FlushEnd
  \/ EndOfData
  \/ FinalFlush
  \/ ordered_events__reinit
  \/ SigInt
  \/ Finished

Spec == Init /\ [][Next]_vars

-----------------------------------------------------------------------------
(* Properties                                                              *)

\* Every variable has the type its C counterpart has.
TypeOK ==
  /\ events \in Seq(Objects) /\ cache \in Seq(Objects)
  /\ used \in 0..MaxQueued
  /\ timestamp \in [Objects -> 0..ULLONG_MAX]
  /\ last \in Objects \cup {NULL}
  /\ {next_flush, last_flush, max_timestamp} \subseteq 0..ULLONG_MAX
  /\ cur_alloc_size \in Nat /\ nr_unordered_events \in Nat
  /\ pc \in {"idle", "retry", "flush", "wild"}
  /\ call.retry \in 0..ULLONG_MAX /\ call.last_ts \in 0..ULLONG_MAX
  /\ call.how \in {"NONE", "FINAL", "ROUND", "HALF", "TOP", "TIME"}
  /\ session_done \in BOOLEAN
  /\ client \in {"reading", "closing", "flushed", "failed", "closed"}
  /\ queued \in 0..MaxQueued /\ accepted \in 0..queued
  /\ serial \in [Objects -> 0..accepted]
  /\ handed \in Seq(1..accepted)

\* The list that queue_event keeps is sorted by time, and events of the same
\* time stay in the order they were queued, wherever the search started.
TimeOrdered ==
  \A i, j \in DOMAIN events : i < j =>
    LET a == events[i]
        b == events[j]
    IN  \/ timestamp[a] < timestamp[b]
        \/ timestamp[a] = timestamp[b] /\ serial[a] < serial[b]

\* oe->max_timestamp, which the next ROUND flush takes as its limit, is the time
\* of the tail of the list as long as the list has events.
MaxTimestampIsTail ==
  events # <<>> => max_timestamp = timestamp[Last(events)]

\* Each object taken out of a buffer is linked to one of the lists 'events' and
\* 'cache', and to one place of it (the scheme in the comment of alloc_event).
\* Whenever an event may be queued oe->last is an object of 'events', or NULL
\* when that is empty, and the search of queue_event starts inside the list; a
\* flush that session_done stopped leaves it at a removed object.
LinkedOnce ==
  /\ TypeOK
  /\ pc # "wild" => /\ Len(events \o cache) = used
                    /\ Range(events \o cache) = 1..used
  /\ pc \in {"idle", "retry"} /\ client = "reading" /\ ~session_done =>
       IF events = <<>> THEN last = NULL ELSE last \in Range(events)

\* A reader that reaches the end without an error and without a signal has
\* delivered every event it queued, in whichever flushes.
AllDelivered ==
  client = "flushed" /\ ~session_done => Len(handed) = accepted

\* What is accounted for and not held: by a buffer, or by the copy of an event
\* of the list.
Excess == cur_alloc_size
          - BufferSize * ((used + MAX_SAMPLE_BUFFER - 1) \div MAX_SAMPLE_BUFFER)
          - (IF CopyOnQueue THEN HeaderSize * Len(events) ELSE 0)

\* cur_alloc_size is what is held, through reuse, delivery and allocations that
\* fail, but for one case: when the limit refuses a new buffer, alloc_event
\* keeps the copy it made (until ordered_events__free clears everything).  It
\* goes over the size that ordered_events__set_alloc_size sets (perf-config:
\* report.queue-size) by less than one copy of an event, which __dup_event does
\* not count in its check.
AllocAccounting ==
  /\ [](cur_alloc_size < MaxAlloc + (IF CopyOnQueue THEN HeaderSize ELSE 0))
  /\ [][\/ Excess' = Excess
        \/ client' = "closed" \/ pc' = "wild"
        \/ /\ BufferRefused /\ UNCHANGED <<used, cache>>
           /\ Excess' = Excess + HeaderSize]_vars

\* The queue does what EventQueue promises: every delivery is of the earliest
\* event that waits, and of the first queued of those with its time.
Q == INSTANCE EventQueue WITH
       Times     <- Timestamps,
       pending   <- {<<timestamp[o], serial[o]>> : o \in Range(events)},
       serials   <- accepted,
       delivered <- handed
ImplementsEventQueue == Q!QueueSpec
=============================================================================
