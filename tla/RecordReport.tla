---------------------------- MODULE RecordReport ----------------------------
(***************************************************************************)
(* A recording (RecordRounds) and the session that reads it, while it is   *)
(* written (perf record | perf report: __perf_session__process_pipe_events)*)
(* or afterwards: every event is queued, every FINISHED_ROUND flushes the  *)
(* queue up to the latest time known at the FINISHED_ROUND before          *)
(* (process_finished_round, util/session.c), the end flushes it all.  The  *)
(* queue is what EventQueue says, which OrderedEvents implements.          *)
(***************************************************************************)
EXTENDS RecordRounds

VARIABLES
  pos,                          \* items of the file that were read
  pending, serials, delivered,  \* the queue
  events,                       \* serial number -> the event, as read
  next_flush, max_timestamp, last_flush,
  flush,                        \* "none", "ROUND" or "FINAL": in progress
  nr_unordered_events,
  taken                         \* history: the events taken into forward buffers

report_vars == <<pos, pending, serials, delivered, events, next_flush,
                 max_timestamp, last_flush, flush, nr_unordered_events, taken>>

Times == 1..MaxTime
ULLONG_MAX == MaxTime + 1

OE == INSTANCE EventQueue

ReportInit ==
  /\ RoundsInit
  /\ pos = 0
  /\ OE!QueueInit
  /\ events = <<>>
  /\ next_flush = 0 /\ max_timestamp = 0 /\ last_flush = 0
  /\ flush = "none" /\ nr_unordered_events = 0
  /\ taken = {}

Record ==
  /\ RoundsNext
  /\ taken' = taken \cup UNION {{ring'[i][k] : k \in DOMAIN ring'[i]} : i \in Mmaps}
  /\ UNCHANGED <<pos, pending, serials, delivered, events, next_flush,
                 max_timestamp, last_flush, flush, nr_unordered_events>>

-----------------------------------------------------------------------------
\* perf_session__process_event: an event is queued.
ReadSample ==
  /\ flush = "none" /\ pos < Len(file) /\ pos + 1 \notin Marks
  /\ pos' = pos + 1
  /\ LET ts == file[pos'].time
     IN  /\ OE!Queue(ts)
         /\ max_timestamp' = IF \A e \in pending : e[1] <= ts THEN ts ELSE max_timestamp
         /\ nr_unordered_events' = nr_unordered_events + (IF ts < last_flush THEN 1 ELSE 0)
  /\ events' = Append(events, file[pos'])
  /\ UNCHANGED <<rounds_vars, next_flush, last_flush, flush, taken>>

\* Mutant: a round is flushed up to its own latest time, at once.
ReadRoundEager ==
  /\ flush = "none" /\ pos < Len(file) /\ pos + 1 \in Marks
  /\ pos' = pos + 1
  /\ flush' = IF pending = {} THEN "none" ELSE "ROUND"
  /\ next_flush' = max_timestamp
  /\ UNCHANGED <<rounds_vars, pending, serials, delivered, events,
                 max_timestamp, last_flush, nr_unordered_events, taken>>

\* process_finished_round; a flush of an empty queue returns at once.
ReadRound ==
  /\ flush = "none" /\ pos < Len(file) /\ pos + 1 \in Marks
  /\ pos' = pos + 1
  /\ flush' = IF pending = {} THEN "none" ELSE "ROUND"
  /\ UNCHANGED <<rounds_vars, pending, serials, delivered, events, next_flush,
                 max_timestamp, last_flush, nr_unordered_events, taken>>

\* Mutant: the data ends without a last flush.
ReadEndNoFlush == FALSE

\* The end of the data, once the recording has stopped: OE_FLUSH__FINAL.
ReadEnd ==
  /\ flush = "none" /\ stopped /\ pos = Len(file) /\ pending # {}
  /\ flush' = "FINAL"
  /\ next_flush' = ULLONG_MAX
  /\ UNCHANGED <<rounds_vars, pos, pending, serials, delivered, events, max_timestamp,
                 last_flush, nr_unordered_events, taken>>

\* do_flush delivers the first event, if it is due.
FlushOne ==
  /\ flush # "none"
  /\ \E e \in pending :
        /\ e[1] <= next_flush
        /\ OE!Deliver(e)
        /\ last_flush' = e[1]
  /\ UNCHANGED <<rounds_vars, pos, events, next_flush, max_timestamp, flush,
                 nr_unordered_events, taken>>

FlushEnd ==
  /\ flush # "none"
  /\ \A e \in pending : e[1] > next_flush
  /\ next_flush' = IF flush = "ROUND" THEN max_timestamp ELSE next_flush
  /\ flush' = "none"
  /\ UNCHANGED <<rounds_vars, pos, pending, serials, delivered, events, max_timestamp,
                 last_flush, nr_unordered_events, taken>>

Reader == ReadSample \/ ReadRound \/ ReadEnd \/ FlushOne \/ FlushEnd

ReportNext == Record \/ Reader

ReportSpec == ReportInit /\ [][ReportNext]_<<rounds_vars, report_vars>>

\* The session reads on as long as there is something to read.
FairReportSpec == ReportSpec /\ WF_<<rounds_vars, report_vars>>(Reader)

-----------------------------------------------------------------------------
(* Properties                                                              *)

Processed == {events[delivered[i]] : i \in DOMAIN delivered}

\* What overwrite passes wrote, as far as it was read.
Dumped == {file[k] : k \in Dumps \cap 1..pos}

\* The two programs together implement a merge of all forward buffers by time, up
\* to the point where a dump of the overwritable ones is read: from there on an
\* event may be older than one processed before.
Merge == INSTANCE TimeMerge WITH
           Occurrences <- Events,
           Dumpable    <- Dumpable,
           processed   <- Processed,
           dumped      <- Dumped,
           now         <- last_flush
ImplementsTimeMerge == Merge!MergeSpec

\* Once the recording has stopped, every event of the file is processed, those of
\* the overwritable buffers included.
AllProcessed ==
  stopped ~> Processed = {file[k] : k \in DOMAIN file \ Marks}
=============================================================================
