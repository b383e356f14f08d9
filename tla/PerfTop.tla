------------------------------ MODULE PerfTop ------------------------------
(***************************************************************************)
(* The threads of perf top (builtin-top.c).  The main thread reads the     *)
(* ring buffers and queues the events on one of two ordered_events; the    *)
(* process thread swaps the two, waits until the main thread is off the    *)
(* old one, and delivers what it holds to the histogram (Hists); the       *)
(* display thread refreshes the histogram.                                 *)
(*                                                                         *)
(* qe.mutex protects single steps only, so it is not a variable.  In which *)
(* order a queue delivers is the matter of OrderedEvents; here it delivers *)
(* its events one by one.  An event stands for all events of its kind: a   *)
(* queue holds it or not, and a ring buffer (PerfMmap) may hold any of     *)
(* them, or none, whenever it is read.                                     *)
(***************************************************************************)
EXTENDS Hists, FiniteSets

CONSTANTS
  Event,        \* kinds of events
  KeysOf,       \* the entries a sample may belong to; {} for another event
  None,         \* no event
  Unparsable,   \* events that perf_evlist__parse_sample refuses, if any
  MaxPeriod     \* bound: no sample is read while the trees hold this period

ASSUME PerfTopAssumption ==
  /\ KeysOf \in [Event -> SUBSET Key] /\ None \notin Event
  /\ MaxPeriod \in Nat

VARIABLES
  main,         \* where the main thread is
  event, to,    \* the event it read, and the queue (top->qe.in) it puts it on
  in,           \* top->qe.in
  queue,        \* top->qe.data
  rotate,       \* top->qe.rotate
  process, out, \* where the process thread is, and the queue it flushes
  current,      \* the event it delivers
  done,         \* done and session_done
  unparsable,   \* {} or Unparsable
  spurious,     \* history: pthread_cond_wait returned without a signal
  missed        \* history: the signal of the exit came before the wait

main_vars == <<main, event, to>>
process_vars == <<process, out, current>>
queues == <<in, queue, rotate>>
vars == <<main_vars, queues, process_vars, done, unparsable, spurious,
          missed, hists_vars>>

Queued(e) == Cardinality({q \in {0, 1} : e \in queue[q]})
IsSample(e) == KeysOf[e] # {}

Init ==
  /\ main = "read" /\ event = None /\ to = 0
  /\ in = 0 /\ queue = [q \in {0, 1} |-> {}] /\ rotate = FALSE
  /\ process = "test" /\ out = 0 /\ current = None
  /\ done = FALSE
  /\ unparsable \in {{}, Unparsable}
  /\ spurious = FALSE /\ missed = FALSE
  /\ HistsInit

-----------------------------------------------------------------------------
(* The user.                                                               *)

\* display_sig, or the key that ends the display thread: stop_top.
stop_top ==
  /\ ~done
  /\ done' = TRUE
  /\ UNCHANGED <<main_vars, queues, process_vars, unparsable, spurious,
                 missed, hists_vars>>

-----------------------------------------------------------------------------
(* The main thread: perf_top__mmap_read and the end of __cmd_top.          *)

\* perf_mmap__read_event; the queue is the one top->qe.in names now.
ReadEvent(e) ==
  /\ main = "read"
  /\ \A k \in KeysOf[e] : Held(Group[k]) + Queued(e) < MaxPeriod
  /\ event' = e /\ to' = in
  /\ main' = "queue"
  /\ UNCHANGED <<queues, process_vars, done, unparsable, spurious, missed, hists_vars>>

\* The next buffer is read, or the loop of __cmd_top tests done.
LeaveMmap == main' = IF done THEN "join_display" ELSE "read"

\* The buffer is empty.
ReadNull ==
  /\ main = "read"
  /\ LeaveMmap
  /\ main' # main
  /\ UNCHANGED <<event, to, queues, process_vars, done, unparsable, spurious,
                 missed, hists_vars>>

\* ordered_events__queue and perf_mmap__consume.
QueueEvent ==
  /\ main = "queue"
  /\ queue' = [queue EXCEPT ![to] = @ \cup {event}]
  /\ event' = None /\ to' = 0
  /\ main' = "rotate"
  /\ UNCHANGED <<in, rotate, process_vars, done, unparsable, spurious, missed, hists_vars>>

\* The event has no timestamp or there is no memory for it: it is not queued, and
\* perf_mmap__read_done passes over the rest of the buffer.
QueueEventFails ==
  /\ main = "queue"
  /\ event' = None /\ to' = 0
  /\ LeaveMmap
  /\ UNCHANGED <<queues, process_vars, done, unparsable, spurious, missed, hists_vars>>

\* The unlocked test of top->qe.rotate.
TestRotate ==
  /\ main = "rotate"
  /\ main' = IF rotate THEN "acknowledge" ELSE "read"
  /\ UNCHANGED <<event, to, queues, process_vars, done, unparsable,
                 spurious, missed, hists_vars>>

\* pthread_cond_signal wakes the process thread if it waits.
Signal == process' = IF process = "wait" THEN "flush" ELSE process

\* Mutant: rotate is reset and nobody is woken.
AcknowledgeSilently ==
  /\ main = "acknowledge"
  /\ rotate' = FALSE
  /\ main' = "read"
  /\ UNCHANGED <<event, to, in, queue, process_vars, done, unparsable,
                 spurious, missed, hists_vars>>

\* Under qe.mutex: the main thread is off the queue that was swapped out.
Acknowledge ==
  /\ main = "acknowledge"
  /\ rotate' = FALSE
  /\ Signal
  /\ main' = "read"
  /\ UNCHANGED <<event, to, in, queue, out, current, done, unparsable,
                 spurious, missed, hists_vars>>

\* The display thread ended.
JoinDisplay ==
  /\ main = "join_display" /\ display = "exit"
  /\ main' = "signal"
  /\ UNCHANGED <<event, to, queues, process_vars, done, unparsable,
                 spurious, missed, hists_vars>>

\* Mutant: the process thread is joined without a signal.
SignalExitForgotten ==
  /\ main = "signal"
  /\ main' = "join_process"
  /\ UNCHANGED <<event, to, queues, process_vars, done, unparsable,
                 spurious, missed, hists_vars>>

\* One signal, without the mutex; it is missed by a process thread that tested
\* done before and does not wait yet.
SignalExit ==
  /\ main = "signal"
  /\ Signal
  /\ missed' = (process \in {"rotate", "enter"})
  /\ main' = "join_process"
  /\ UNCHANGED <<event, to, queues, out, current, done, unparsable,
                 spurious, hists_vars>>

JoinProcess ==
  /\ main = "join_process" /\ process = "exit"
  /\ main' = "exit"
  /\ UNCHANGED <<event, to, queues, process_vars, done, unparsable,
                 spurious, missed, hists_vars>>

-----------------------------------------------------------------------------
(* The process thread: process_thread and deliver_event.                   *)

\* Nothing is queued: usleep.
TestQueue ==
  /\ process = "test"
  /\ process' = IF done THEN "exit"
                ELSE IF queue[in] = {} THEN "test" ELSE "rotate"
  /\ process' # process
  /\ UNCHANGED <<main_vars, queues, out, current, done, unparsable,
                 spurious, missed, hists_vars>>

rotate_queues ==
  /\ process = "rotate"
  /\ out' = in /\ in' = 1 - in
  /\ process' = "enter"
  /\ UNCHANGED <<main_vars, queue, rotate, current, done, unparsable,
                 spurious, missed, hists_vars>>

\* Mutant: the process thread does not wait for the main thread.
EnterNoWait ==
  /\ process = "enter"
  /\ rotate' = TRUE
  /\ process' = "flush"
  /\ UNCHANGED <<main_vars, in, queue, out, current, done, unparsable,
                 spurious, missed, hists_vars>>

\* Under qe.mutex: rotate is set and the wait begins.
EnterWait ==
  /\ process = "enter"
  /\ rotate' = TRUE
  /\ process' = "wait"
  /\ UNCHANGED <<main_vars, in, queue, out, current, done, unparsable,
                 spurious, missed, hists_vars>>

\* A condition variable may wake without a signal.
SpuriousWakeup ==
  /\ process = "wait"
  /\ process' = "flush" /\ spurious' = TRUE
  /\ UNCHANGED <<main_vars, queues, out, current, done, unparsable,
                 missed, hists_vars>>

\* ordered_events__flush takes the next event and delivers it.
FlushEvent(e) ==
  /\ process = "flush" /\ ~done
  /\ e \in queue[out]
  /\ process' = "deliver" /\ current' = e
  /\ UNCHANGED <<main_vars, queues, out, done, unparsable, spurious,
                 missed, hists_vars>>

\* The queue is empty or the session is done.
FlushEnds ==
  /\ process = "flush"
  /\ done \/ queue[out] = {}
  /\ process' = "test" /\ out' = 0
  /\ UNCHANGED <<main_vars, queues, current, done, unparsable,
                 spurious, missed, hists_vars>>

\* The event was delivered and is removed from the queue.
Delivered ==
  /\ queue' = [queue EXCEPT ![out] = @ \ {current}]
  /\ process' = "flush" /\ current' = None
  /\ UNCHANGED <<main_vars, in, rotate, out, done, unparsable, spurious, missed>>

\* Nothing is added to the histogram: a sample that is too old (should_drop,
\* before it is parsed), hidden, of an idle symbol or of guest user space, or an
\* event that is not a sample.
DeliverOther ==
  /\ process = "deliver" /\ he = NoEntry
  /\ current \in unparsable => IsSample(current)
  /\ Delivered
  /\ UNCHANGED hists_vars

\* The event cannot be parsed: the flush gives up and the event stays queued.
DeliverFails ==
  /\ process = "deliver" /\ he = NoEntry
  /\ current \in unparsable
  /\ process' = "test" /\ current' = None /\ out' = 0
  /\ UNCHANGED <<main_vars, queues, done, unparsable, spurious,
                 missed, hists_vars>>

\* perf_event__process_sample.
ProcessSample ==
  /\ process = "deliver"
  /\ IsSample(current) /\ current \notin unparsable
  /\ \/ /\ (\E k \in KeysOf[current] : FindEntry(k)) \/ RecordPreciseIpFails
        /\ UNCHANGED <<main_vars, queues, process_vars, done, unparsable,
                       spurious, missed>>
     \/ (FindnewEntry \/ RecordPreciseIpResumes) /\ Delivered

ProcessThread ==
  \/ TestQueue \/ rotate_queues \/ EnterWait
  \/ \E e \in Event : FlushEvent(e)
  \/ FlushEnds \/ DeliverOther \/ DeliverFails \/ ProcessSample

-----------------------------------------------------------------------------
(* The display thread: display_thread with perf_top__print_sym_table.      *)

\* The entries are shown and the display sleeps in poll.
DisplayThread ==
  /\ \/ ~done /\ (KeepEntries \/ \E zapped \in SUBSET Groups : Refresh(zapped))
     \/ \E k \in Key, complete \in BOOLEAN : CollapseEntry(k, complete)
     \/ CollapseEnds(done)
     \/ /\ done /\ display = "loop" /\ display' = "exit"
        /\ UNCHANGED <<lock, entries_in, tree, collapsed, he, root>>
  /\ UNCHANGED <<main_vars, queues, process_vars, done, unparsable,
                 spurious, missed>>

MainThread ==
  \/ \E e \in Event : ReadEvent(e)
  \/ ReadNull \/ QueueEvent \/ QueueEventFails \/ TestRotate
  \/ Acknowledge \/ JoinDisplay \/ SignalExit \/ JoinProcess

Next ==
  \/ stop_top \/ SpuriousWakeup
  \/ MainThread \/ ProcessThread \/ DisplayThread

Spec == Init /\ [][Next]_vars

\* The three threads keep running; the user need do nothing.
FairSpec ==
  /\ Spec
  /\ WF_vars(MainThread) /\ WF_vars(ProcessThread) /\ WF_vars(DisplayThread)

-----------------------------------------------------------------------------
(* Properties.                                                             *)

\* The queues and trees two threads share are used by one of them at a time:
\* the main thread never adds to the queue that the process thread flushes
\* (unless pthread_cond_wait returned without a signal, which process_thread
\* does not expect), and the display thread never takes entries from the tree
\* in which the process thread looks for one.
OneUser ==
  /\ main = "queue" /\ process \in {"flush", "deliver"} /\ to = out /\ ~done => spurious
  /\ display = "collapse" /\ he.state = "found" => root # he.tree

\* No sample is lost or counted twice on its way through the trees: what the
\* trees hold of an entry grows by one when perf_event__process_sample completes
\* and shrinks only when the display refreshes what it showed.
PeriodsKept ==
  [][\A g \in Groups :
       LET added == he.state = "found" /\ he' # he /\ Group[he.key] = g IN
         \/ Held(g)' = Held(g) + (IF added THEN 1 ELSE 0)
         \/ display = "loop" /\ Held(g)' < Held(g)]_vars

\* While events keep being queued, every queue is emptied again and again, also
\* the one that was swapped out (no unparsable event is in the way):
\* process_thread depends on the next event to get its signal.
Processed ==
  ([]<><<QueueEvent>>_vars /\ unparsable = {}) =>
     \A q \in {0, 1} : queue[q] # {} ~> (queue[q] = {} \/ done)

\* Quitting ends perf top once the main thread has caught up with the kernel,
\* unless the process thread had tested done already and was on its way to
\* pthread_cond_wait when the main thread signalled.
QuitEnds == <>[][~QueueEvent]_vars => (done ~> (main = "exit" \/ missed))
=============================================================================
