# TLA+ models of the perf tool

This directory specifies and checks the parts of `perf` in which several actors
meet: the data path from the ring buffers the kernel writes, through `perf
record` and `perf.data`, to the events a command processes in the order of their
timestamps; the threads of `perf top` with the histograms, threads, maps and
names they share; the cache of file contents; and `perf sched replay`. TLC checks
the models on small instances; TLAPS proves the central results for every value
of the constants. `PROJECT.json` lists the components, the runs, the lines of
code every definition stands for, the hazards and the findings.

    cd tla
    tlc -workers 2 -config record_report.cfg MCRecordReport
    tlapm RecordReportProofs.tla

## The system

    kernel --> ring buffers --> perf_mmap__push / aio_push --> perf.data
                 (mmap.c)        (builtin-record.c loop)       (data.c)
                                                                  |
       tool callbacks <-- ordered_events <-- session reader <-----+
                          (ordered-events.c)   (session.c)

* The **kernel** appends events to one ring buffer per CPU or thread and moves
  its head; the tool copies events out and moves the tail. A *forward* buffer
  drops events when it is full. An *overwritable* one is written backwards,
  never fills up, and is paused to be read.
* **perf record** loops: pause the overwritable buffers if a dump is wanted,
  read every buffer, serve AUX area snapshots, switch the output file, and when
  nothing was read either leave or poll. SIGINT, SIGCHLD, SIGUSR2 and SIGALRM
  interrupt it anywhere and talk to it through `done` and two triggers.
* With **--aio** buffers are copied and written by asynchronous requests.
* A turn of the loop has a pass over the forward buffers and, when the overwritable
  ones are paused, another over these. After each pass that wrote something a
  **FINISHED_ROUND** mark is written. The **session reader** queues events in the
  **ordered event queue** and flushes it at each mark, up to the largest timestamp
  seen at the mark before.
* **perf top** has three threads. The main thread reads the buffers and copies
  events into one of two queues; the process thread swaps the queues, flushes the
  other one and adds samples to the **histogram**; the display thread swaps the
  histogram's input trees, collapses the other one, decays and shows it.
* A **machine** holds the threads the events speak of, by tid and with reference
  counts; the threads of a process share their **maps**, and equal **names** are
  one string. Histogram entries keep references that the display thread drops.
* The contents of files are read through a **cache of pages** per shared object
  (dso), with a limit on open descriptors.
* **perf sched replay** turns the scheduling events of a trace into one thread
  per task that sleep and wake each other as the tasks did.

### Inventory

| component | state | operations | what is hard | where |
|---|---|---|---|---|
| ordered event queue, `util/ordered-events.c` | list `events`, `cache`, buffers, `last`, `next_flush`, `last_flush`, `max_timestamp`, `cur_alloc_size` | queue, flush FINAL/ROUND/HALF/TOP/TIME, delete, free, reinit | a search that starts anywhere, failing callbacks, interruption, the size limit | OrderedEvents |
| ring buffer reader, `util/mmap.c` | `prev`, `start`, `end`, `refcnt`, kernel head and tail | read_init, read_event, consume, read_done, push, put | races with the kernel, wrap-around, hang-up before the last event was read | PerfMmap, BackwardMmap |
| event list, `util/evlist.c` | poll set, `bkw_mmap_state` | filter_pollfd, toggle_bkw_mmap, set_paused | the state machine is driven from the loop and from signals | PerfMmap, BackwardMmap, RecordLoop |
| record loop, `builtin-record.c`, `util/trigger.h` | `done`, `draining`, `disabled`, two triggers, `samples`, `bytes_written` | handlers, one step per stage of the loop | a signal between any two steps, lost wake-ups | RecordLoop |
| rounds, `builtin-record.c` | forward and overwritable buffers, position of the two passes, the file | push, mark | events arrive behind and ahead of the pass; a dump is of any age | RecordRounds |
| AIO, `builtin-record.c`, `util/mmap.c` | control blocks, copies, offsets, references | push, complete, sync | out of order, partial and failed completion | RecordAio |
| output files, `util/data.c` | names, dump ring | open, backup, switch | failed rename and open, equal names, ring reuse | SwitchOutput |
| session reader, `util/session.c` | position, queue | read sample, read mark, end | a late event after a flush | RecordReport |
| perf top, `builtin-top.c` | two queues, `qe.in`, `rotate`, condition, `done` | read, queue, acknowledge, rotate, flush, deliver, quit | three threads, an unlocked flag, a wait that may never end | PerfTop |
| histograms, `util/hist.c` | two input trees, collapsed tree, lock | find or add, rotate, collapse, decay, delete | a lock that is released in the middle | Hists |
| threads and machines, `util/machine.c`, `util/thread.c` | tree of threads, `last_match`, pids, reference counts | FORK, EXIT, COMM, MMAP2, look-ups | reused tids, lost events, pids that come late | Machine |
| maps, `util/map.c` | disjoint ranges | insert, find | a map inside, across or over others | MapGroups |
| comm strings, `util/comm.c` | tree of counted strings | find or create, put | look-up between the last put and the erase | Comm |
| DSO data, `util/dso.c` | open list and count, descriptors, file size, pages | get and put descriptor, read, delete | limits, EMFILE, a descriptor closed for another reader, two readers of a page | DsoData |
| perf sched replay, `builtin-sched.c` | tasks, atoms, semaphores, two mutexes | read trace, barriers, atoms | circular waits, repetitions that overlap | SchedReplay |
| AUX queues `util/auxtrace.c` | queues, heap | | sequential | not modelled |
| decoders, symbols, parsing, probes, header, user interface, scripts, commands | | | sequential data transformation or I/O | not modelled |

## Modules

| module | models |
|---|---|
| `EventQueue` | what the ordered queue promises: events carry a time and a number, and only a first among the earliest is delivered |
| `OrderedEvents` | `ordered-events.c` in full, with the session or perf top as its client |
| `OrderedEventsProofs` | the proofs of its order, its lists, its accounting and that it implements `EventQueue` |
| `PerfMmap` | a forward buffer: kernel, hang-up, `perf_mmap__push` and the `read_event` loop |
| `BackwardMmap` | an overwritable buffer and its snapshots |
| `RecordLoop` | `__cmd_record` with its signal handlers and triggers |
| `RecordRounds` | the forward and the overwrite pass over several buffers, and round marks |
| `TimeMerge` | what recording and reporting promise together: a merge of all forward buffers by time, until a dump of overwritable ones is read |
| `RecordReport` | `RecordRounds` composed with the session reader and an `EventQueue` |
| `RecordReportProofs` | the proofs that `PerfMmap` loses and mixes nothing, that two marks of `RecordRounds` separate, and that `RecordReport` implements `TimeMerge` |
| `RecordAio`, `RecordAioProofs` | `perf record --aio`, with the proofs about references and places in the file |
| `SwitchOutput` | `--switch-output` file names |
| `RecordProofs` | the proofs about `RecordLoop`, `SwitchOutput` and `BackwardMmap` |
| `Hists` | the histogram between the thread that adds and the one that displays |
| `PerfTop` | the three threads of perf top over `Hists` |
| `Comm` | counted, shared names, as operators |
| `MapGroups` | a set of maps and its insertion, as operators |
| `Machine` | the handlers of the events of threads over `Comm` and `MapGroups`, with the kernel that reports and the display thread that drops references |
| `MachineProofs` | the proofs about the maps of `MapGroups`, and what the operations on threads, map groups and names do to the counts of `Machine` |
| `PerfTopProofs` | the proofs that the threads of `PerfTop` stay out of each other's way, and that the process thread's handlers and the display thread keep the counts, names and maps of `Machine` |
| `DsoData` | descriptors and pages of dsos |
| `DsoDataProofs` | the proofs about its descriptors, pages and reads |
| `SchedReplay`, `SchedReplayProofs` | perf sched replay, with the proofs that repetitions stay apart and keep the order of the trace |
| `MC*` | the roots TLC starts from |

`RecordReport` uses `EventQueue` in place of `OrderedEvents`; the theorem
`ImplementsEventQueueCorrect` justifies the substitution.

### How code became actions

One action is what no other actor can interrupt to a visible effect.

* **OrderedEvents.** A call of `ordered_events__queue` is one step unless it
  flushes; a flush is one step per delivered event, because the callback may
  fail and the user may interrupt (`session_done`) between deliveries. The list
  is a sequence of objects, which are numbered in the order they are taken from
  the buffers and reused through `cache`. When `queue_event` would search from
  an object that is not in the list, `pc` becomes `wild`: nothing is said about
  the rest of that execution. Timestamps are `U64`-valued and wrap.
  `serial`, `accepted` and `delivered` are history variables.
* **PerfMmap.** The two reads of the head in `perf_mmap__push`, the two pieces
  of the copy and the move of the tail are separate steps; output may fail in
  either piece, which ends the recording with the room not given back. A position
  holds a unit of data; an event occupies one or more. With an AUX area
  (`auxtrace`) `perf_mmap__empty` is never true and the last reference stays.
* **BackwardMmap.** The buffer is paused while it is read, as
  `perf_evlist__toggle_bkw_mmap` does it; reads are by range or by event. Each
  iteration of `overwrite_rb_find_range` is a step; an event that would leave the
  buffer ends the walk; the code goes past it and steps back, with the same end.
  Output does not fail here (`PerfMmap` has that).
* **RecordLoop.** One step per statement of the loop that reads or writes
  something a handler or the kernel shares; entering `poll` is a step of its own,
  so that a signal may come just before it. Amounts of data are abstracted to
  whether a buffer has any, except the byte count that switches by size. An AUX
  area snapshot that finds data writes it, which may reach that size, and counts
  as new samples.
* **RecordRounds.** `PushReadHead` reads the head of one buffer and `Push` writes
  what it saw; the kernel samples between the two. The clock is global and
  monotonic, as the comment of `process_finished_round` assumes. A turn that
  found nothing may be the last. The overwritable buffers (`overwrite_mmap`) are
  paused when `done` or `draining` was set before the turn, written out latest
  event first in a pass of their own behind the forward one, with its own mark,
  and stay empty after that: the recording has one output file. With
  `--switch-output` they are dumped many times, each time into another file
  (`RecordLoop`, `SwitchOutput`). A pass that fails ends the recording and is not
  followed here.
* **RecordAio.** A request finishes in any order, for any part of its length, or
  with an error. Output is a sequence of units, each naming its buffer and
  position, so a misplaced or overwritten unit shows. The buffers behind the first
  `NrMmaps` are overwritable: written by requests in the second pass, and not
  waited for by `record__aio_mmap_read_sync`, which walks `evlist->mmap` only.
* **SwitchOutput.** One step per dump; `rename` may fail where the run says so.
  Opening the next file, placing it, or asking for the time may always fail, which
  ends the recording.
* **PerfTop.** One step per access to what threads share: the index of the queue
  is read in one step and the event queued in the next, `rotate` is tested apart
  from its reset, the process thread tests, swaps, enters the wait and delivers
  in steps of their own. What is in a ring buffer is arbitrary (PerfMmap is about
  that) and so is the order within a queue (OrderedEvents). A queue holds an
  event of a kind or not. `missed` and `spurious` are history variables.
* **Hists.** A tree is a function from keys to periods. The display thread's own
  trees change in one step with its next access to the shared ones. An entry that
  was collapsed while `perf_top__record_precise_ip` had released the lock takes
  its period along.
* **Machine.** The handlers are operators on one record of threads, map groups,
  names and `last_match`, in the order of the code, references included. A
  handler is one step, because the display thread only drops references; that
  thread's own steps are apart, down to the two halves of `comm_str__put`. The
  variables `kpid`, `kname` and `kmaps` are what the kernel knows. In `lossy`
  executions any event may be lost. A tid is not reused while it is the pid of a
  process that runs, and there is no event for an unmapping.
* **DsoData.** One step per section under `dso__data_open_lock` (each turn of the
  retry loop in `do_open` apart), per unlocked read of `file_size`, `status` and
  `fd`, per search and per insertion. A search may miss a page while another
  thread inserts one. A file exists or does not, and has one size, throughout;
  `open`, `fstat` and `pread` fail with an `errno` that is not 0 (`-errno` of 0
  would be taken for success), offsets do not overflow and allocations succeed.
  `dso_cache__read`
  frees a page without copying from it even if it is in the tree (a read that
  begins exactly at the end of the file): the model stops there.
* **SchedReplay.** Every event of the trace, every semaphore and every mutex
  operation is a step. `sem_wait` and the `sem_init` after it are one, which is
  sound because a task posts once per repetition. Pids are numbered as they are
  registered. A switch on a cpu that is out of range changes nothing and is left
  out; a trace in which the time of a cpu goes back is refused by the code, and
  is an execution here that reads no further.

Code outside the source tree (the kernel, `rename`, the AIO library, the
workload) is modelled from how the code uses it and marked external.

## Runs

### What holds

| run | bounds | shows |
|---|---|---|
| `ordered_events` | copies, 5 events, times 0 to 3 with 64 bits as 6 values, 2 objects a buffer, a limit of 15, flushes of a session and of perf top; callbacks and allocations fail, the user interrupts | the list is sorted and `max_timestamp` is its tail's (`TimeOrdered`, `MaxTimestampIsTail`), no object is linked twice (`LinkedOnce`), a complete read delivers everything (`AllDelivered`), sizes are exact (`AllocAccounting`), and the first of the earliest events is delivered, once (`ImplementsEventQueue`) |
| `perf_mmap` | 4 units, events of 1 or 3, 7 units written, 2 descriptors; both ways to read, with and without an AUX area, output that fails | nothing is released or unmapped before it was written out (`KeptUntilOutput`), events come out intact (`ReadsIntact`), everything is written unless output fails (`EventuallyWritten`) |
| `backward_mmap` | 4 units, two laps | a snapshot is exactly the new whole events, by range and by event, and snapshots do not overlap |
| `record_loop` | every combination of workload or system, overwritable buffers, switching by signal, size or time, tail synthesis, AUX area snapshots; every signal at every step; reads, snapshots and switches that fail | a switch and the exit come after the overwritable buffers were collected, requests are served, paused buffers run again, the recording ends |
| `record_report` | 2 forward buffers and an overwritable one, 2 times, 3 events | for forward buffers, two marks of forward passes apart means ordered in time (`TwoRoundsApart`, with `PassInv`); writer and reader implement `TimeMerge` (`ImplementsTimeMerge`); all that is in the file, the dump included, is processed (`AllProcessed`) |
| `record_aio` | a forward and an overwritable buffer with 2 blocks each, 3 units each, an error | each unit at its place once and, after the synchronisation, missing only if a request of the overwritable buffer has still to write it (`NothingMisplaced`); references balanced (`OneReferencePerRequest`), synchronisation ends (`SyncEnds`) |
| `switch_output` | 5 dumps, 2 kept, switches that fail | the newest dumps are kept (`KeepsNewest`), `perf.data` is the current one and the last recording is in some file (`PerfDataIsCurrent`) |
| `perf_top` | a sample of two entries that collapse into one and another event, with and without samples that cannot be parsed, a period of 2 in the trees | no queue or tree has two users (`OneUser`), no period is lost between the trees (`PeriodsKept`), queues are emptied while events come (`Processed`), quitting ends the threads (`QuitEnds`) |
| `sched_replay` | all traces of up to 4 events of up to 3 tasks, replayed twice | repetitions do not overlap and leave every semaphore at 0 (`RoundsApart`), sleeps end after their wakeups (`WakeupsFirst`), no replay deadlocks (`ReplayEnds`) |
| `dso_data` | 2 threads, 3 dsos of which one has no file, files of 3 bytes, pages of 2, 3 requests, 4 pairs of limits | list, count and descriptors agree and keep the limits (`OpenFiles`), a descriptor handed out stays open (`FdStaysOpen`), a page is cached once (`PagesDisjoint`), reads return the bytes of the file (`ReadsFile`) |
| `machine` | 3 tids, 2 of them running at the start, 5 events, 3 addresses, 2 maps of which one lies inside the other | counts are exact and nothing is used after it was freed (`ThreadRefs`), names are shared while used (`CommStrs`), maps never overlap (`MapsDisjoint`), and without losses a thread has its process, its name and its maps (`ThreadsFaithful`) |

`RecordLoop` holds its options in the variable `opts` and `PerfMmap` the way of
reading in `reader`. Both are chosen in `Init` and never change, so that one run
covers every configuration. `record_loop` leaves out tail synthesis without
switching, which writes after the loop only, and, to keep the run short, AUX
area snapshots together with switching by time or with tail synthesis.

The bounds are the smallest at which the interesting cases occur: five queued events
give insertions before, behind, between and equal, with reused objects and a full
queue; a buffer of four units with events of one and three wraps inside an event and
fills exactly; two times and two buffers give two marks with events behind and ahead
of the pass, and a dump between two marks; two control blocks complete out of order;
five dumps wrap a ring of two twice; two queues of two kinds of events rotate while
events arrive before and after the swap; three tasks and four events give sleeps
that are woken by others, by nobody, and in a circle; two readers and three dsos
meet a limit of one, of two, and the system's own limit; five events create, rename,
map, end and reuse a tid while an entry of the old thread is kept; `Obj` is large
enough that no allocation of that run fails. Every bound is a constant named in its
module, and every property is violated when a definition is replaced by the mutant
listed for it.

Deadlock is checked for the ordered queue and the overwritable buffer. The other
models end: the program exits, the bound on what the kernel does is used up, or
(`dso_data`) the rest is undefined.

### Where code and documentation disagree

`machine_offsets`: a map that is inserted into the middle of another leaves a part
behind it. `maps__fixup_overlappings` moves the start of that part and not its
`pgoff`, so `map_ip`, "ip -> dso rip" in `util/map.h`, is off by what was cut
away. The dso that is found is right (`ThreadsFaithful`), the place in it is not.

Some properties are stated with a restriction because the code does not have
them otherwise. The models contain these behaviours too:

* `do_flush` returns on an interrupt without refreshing `last`; the insertion that
  caused the HALF flush then searches from a removed event (`pc = "wild"`, where
  the model ends). perf top goes on with a queue whose flush failed, to the same
  effect (`StopOnError = FALSE`, which no run sets);
* a copy takes the queue over `report.queue-size`, and line 162 of
  `ordered-events.c` loses the copy of an event that is refused a buffer
  (`AllocAccounting` allows for it);
* what arrives between the two reads of the head in `perf_mmap__push` is written
  out twice;
* `perf_mmap__read_done` passes over what arrived after the last event read, so
  that reading by event is shown to return events intact, not to return all;
* the last events of a workload may stay in the buffer when SIGCHLD comes after
  the buffers were read and before the check of `done`;
* an alarm before the trigger is ready, during set-up, is the last one;
* an interrupt between the top of the loop and the check of `done` ends a flight
  recorder without its dump (`ExitCollects` is about passes that began with
  `done`);
* a signal between the check and `poll` waits for the next event (`Busy`);
* a dump of overwritable buffers comes behind forward events that may be younger,
  and the reader takes its mark for one of the forward buffers: after it events of
  both kinds may be delivered out of order. `perf record` documents the mix, and
  `perf_session__warn_order` says nothing of it when there are such events
  (`TwoRoundsApart` is about marks of forward passes, `TimeMerge` lets go of the
  order once a dump was read);
* requests of overwritable buffers may be outstanding when the output is switched
  or closed (`NothingMisplaced` says that nothing else is missing);
* a user who keeps asking for AUX area snapshots keeps the recording of a workload
  that has exited alive (`RecordingEnds` excepts it);
* a refused restart of a partial write leaks its reference (`Faults` with
  `"restart"` in `RecordAio`);
* AUX area data is written where queued requests will write (`Aux = TRUE`);
* after a failed rename the original file is not continued (`RenameFails = TRUE`),
  and two dumps of the same hundredth of a second share a name, so that the newer
  file is removed for the older (`DistinctTimes = FALSE`);
* the one signal that ends perf top's process thread is lost when that thread has
  tested `done` and does not wait yet: perf top hangs (`QuitEnds` excepts it);
* `pthread_cond_wait` is not in a loop: after a spurious wake-up a queue is
  flushed while it is written (`OneUser` excepts it);
* an event that cannot be parsed blocks its queue (`Processed` excepts it);
* an entry may be collapsed while `perf_top__record_precise_ip` has released the
  lock and still uses it (state `"warn"`, which `OneUser` leaves out);
* a read fails when the descriptor is closed for another dso between
  `dso__data_file_size` and the check of the offset (`ReadsFile` allows it);
* `down_write` does nothing while `perf_singlethreaded`, as in perf top after
  start-up, so an erase from the tree of names may overlap a search. What follows
  such a data race is not in `Machine`.

### Fairness

* The program's own steps are weakly fair: a process that can run is not
  suspended for ever. Signals and the kernel's events are not fair.
* `RecordLoop!FairSpec` also delivers a pending SIGCHLD, which the kernel does
  not drop. `RequestsServed` and, for a recording of the system, `RecordingEnds`
  have the premise `Busy`, that some forward buffer keeps crossing its
  watermark: `poll` has no timeout, and a signal just before it is only seen
  when something else wakes perf. The end of a workload and `Resumed` need no such
  premise; for a workload `RecordingEnds` has the premise that the user stops
  asking for AUX area snapshots, each of which makes the loop turn once more.
* `RecordAio!FairSpec` assumes each request finishes some time. The number of
  errors is bounded in the run. The code restarts a failing write without a
  limit, so `SyncEnds` says nothing about a write that always fails.
* `RecordReport` assumes fairness of the reader only.
* `PerfTop!FairSpec` assumes that each of the three threads is scheduled; the
  user, spurious wake-ups and new events are not fair. `Processed` has the
  premise that events keep being queued, because only a queued event makes the
  main thread look at `rotate`; `QuitEnds` that the main thread catches up with
  the kernel, because `perf_top__mmap_read` reads until a buffer is empty.
* `SchedReplay!FairSpec` assumes that the main thread and each task's thread are
  scheduled. A mutex or semaphore is held by nobody for ever unless the program
  itself does it, so weak fairness is enough.

## Proofs

The assumptions are the named ASSUMEs of the modules (sizes are natural
numbers, timestamps fit in 64 bits); TLC evaluates them in the runs.

**Two rounds separate** (`RecordReportProofs`). `process_finished_round` may
flush up to the maximum of the round before because an event of a forward buffer
written after the marks of two forward passes cannot be older than one written
before them. That property
(`TwoRoundsApart`) is not inductive: a step that writes an event knows nothing
of the marks' times. The strengthening `PassInv` records the clock at the last
two marks: all written before the last mark is at most `round_at`, all written
before the last but one at most `round_before`, all still in the rings at least
`round_before`, and in buffers the pass has read already (or behind the head it
saw) at least `round_at`. `IInv == RoundsTypeOK /\ PassInv /\ TwoRoundsApart` is
inductive; `PassCorrect`, `TwoRoundsCorrect` and `RingsCorrect` follow, for any
number of forward and overwritable buffers, events and timestamps. What overwrite
passes write is told apart by the history field `from` and left out: the lemmas
show that it moves neither the forward events of the file nor their marks.

**Recording and reading merge by time** (`RecordReportProofs`). `TimeMergeCorrect`
says that `RecordReport` implements `TimeMerge`: until a dump of overwritable
buffers is read, an event is delivered only when no earlier one of any forward
buffer is left to deliver, and none comes that is older than what was delivered.
What makes it true is spread over writer, file and queue, and `ReportInv` collects
it. `QueuedInv` ties the queue to the part of the file that was read: an event there
is queued or was delivered. `FlushInv` says where `next_flush` and `max_timestamp`
come from, an event read before the last mark and one read so far. `OrderInv` says
that nothing unread, still in a buffer or yet to happen is older than what was
flushed; a round flush needs `TwoRoundsApart` and `RingsAfterTwoRounds` for it, the
final flush that the recording has stopped and the file is read (`LastPass`: what
the last pass left in the buffers is not older than what is in the file). `OrderInv`
is claimed as long as no item of a dump was read: a dump comes after the forward
passes it follows, so that up to it every mark the reader has seen is of a forward
pass. `TakenInv` says that what the abstract merge has taken is what is in the
buffers and the file. The bound on events is arbitrary.

**The queue is ordered and implements EventQueue** (`OrderedEventsProofs`).
`InsertPosition` shows that the search from any place of a sorted list ends at
the position after the last event that is not later; `InsertEffect` and
`QueueEventEffect` that the list stays sorted with `max_timestamp` at its tail.
`QueueInv` adds that listed and cached objects are distinct and taken, that an
empty `last` means an empty list, and that a pending retry has a real
timestamp. `TimeOrderedCorrect`, `MaxTimestampCorrect` and
`ImplementsEventQueueCorrect` follow for all sizes, limits, faults and clients.
The least element of a set of positions is obtained from the well-foundedness
of `<` on the natural numbers.

The rest of the queue needs to know where `oe->last` is. `LinkInv` says that the
two lists hold each object taken out of a buffer once. `LastInv` says that `last`
is on the list, or, inside the loop of `do_flush`, is an object just delivered,
all events of whose time were delivered with it, so that the lines after the loop
set it to the tail. For a HALF flush this needs the limit not to be later than
`last`, and for that `LastHigh`: the events behind `last` are later than it.
`CountInv` says that what was delivered and what waits is what was queued.
`LinkedOnceCorrect` and `AllDeliveredCorrect` have the hypothesis `CallerStops`,
that a caller gives up a queue whose flush failed (a session does) or callbacks
do not fail. `AllocAccountingCorrect` has the hypothesis `MaxAlloc > 0`: with a
limit of 0 not even the empty queue is below it.

**A buffer keeps what was not written out** (`RecordReportProofs`). `PosInv` orders
the positions: `perf_mmap__push` gives back what it saw at its first read of the head
and writes out what it saw at its second, which is not before it. `DataInv` says
that the last `Size` positions are stored where they belong, `EventsInv` that
every event but the last is followed by another and that `prev` is at the
beginning of one, `OutInv` how much was written out at each place of the push, and
`RefInv` that the references are one for each descriptor that has not hung up and
one for the last events. `KeptUntilOutputCorrect` and `ReadsIntactCorrect` follow
for all sizes of buffers and events, with an AUX area and without, and when output
fails half-way.

**A snapshot is the whole events** (`RecordProofs`). For an overwritable buffer of
any size and events of any sizes that fit into it. `StoredInv` says that the last
`Size` positions are stored where they belong, `EventsInv` that the events lie
behind each other from the head on: none starts inside another and every position
belongs to one. So the walk of `overwrite_rb_find_range` goes from event to event
and stops at the one whose end is overwritten, if there is one (`UnitsUpTo`).
`PrevInv` says that `prev` is the head of the last snapshot and the beginning of an
event, `ReadingInv` that what was collected is the positions from the head up to
`start` in order, and that `end` is where the snapshot has to end; `SnapshotsInv`
keeps that for the snapshots taken. `NextEvent` shows that `perf_mmap__read_event`
returns NULL at the end only. `SnapshotIsWholeEventsCorrect` and
`SnapshotsDisjointCorrect` follow.

**The loop of perf record** (`RecordProofs`). `BkwInv` says what the state of the
overwritable buffers tells about the events in them, and that they are paused only
when the end or a switch is coming. `LastPassInv` follows the pass that began with
`done` or `draining` set: what is older than `done` is collected buffer by buffer.
`HupInv` ties hang-ups to the workload, `SizeInv` the trigger to the size that was
reached. `ExitCollectsCorrect`, `SwitchCollectsCorrect` and `SleepsUnpaused` (the
safety half of `Resumed`: perf does not sleep with paused buffers) follow for all
options, all signals at every step, and all faults.

**The files of --switch-output** (`RecordProofs`). `CurrentInv` says that
`perf.data` is the recording that was not dumped yet, so that a switch finds nothing
to back up, and that a dump which fails half-way has been made.
`DumpInv` numbers the dumps, and `RingInv` says that the i-th dump's name is in slot
`i % num_files` and no other slot has it, until the slot is reused; `NextSlot`,
`SameSlot` and `OtherSlot` are the arithmetic of a ring. The theorems hold for every
number of files and dumps. They have the hypotheses `Renames`, that no rename
fails, and `DistinctTimes`, that no two dumps share a name: without either the code
does not have the properties.

**Asynchronous output** (`RecordAioProofs`). `RefInv` counts the references by the
queued blocks; `BlockInv` says that a request is finished before its result is
looked at. `OneReferencePerRequestCorrect` follows when no restart is refused
(`RestartsAccepted`). For the places in the file, `RequestInv` says that a request's
part of its copy is what belongs at its offset, `OffsetInv` that the next output
goes behind all earlier output, and `FileInv` that each unit is in its place
already or is one that some queued request has still to write. With `SyncInv`, that
the buffers which were waited for, the forward ones, have no request,
`NothingMisplacedCorrect` follows
without AUX area data (`NoAux`), which the code writes over queued output.

**A queue and a tree have one user** (`PerfTopProofs`). `OneUser` is not
inductive, since it says nothing of a main thread that has read the index and not
queued yet. `QueueInv` says that the process thread flushes the queue that is not
`in`, and that a main thread about to queue holds the current index whenever the
process thread is past its wait: between the swap and the signal the main thread
reads the index anew. `TreeInv` says that who looks for an entry has the lock and
looks in `entries_in`, and that the display thread collapses the other tree.

**Repetitions stay apart, in the order of the trace** (`SchedReplayProofs`). Three
parts: `TraceInv`, that reading the trace gives each semaphore to exactly one sleep
and one wakeup; `BarrierInv`, for each place of the main thread where a task may
be and what its two counters are; `ValueInv`, that the value of a semaphore is 1
between its wakeup and its sleep and 0 otherwise. At the end of a repetition every
task is past its last atom, so all values are 0 again, which starts the next.

**Descriptors and pages** (`DsoDataProofs`). `CallInv` ties the kind of a call to
where its thread is. `FdInv` says that a thread in `open` or `use` is the one that
holds the lock, and that a call that failed to open is about a missing file, which
the second read of `data.fd` cannot find open. `PageInv` says that every page
begins at a multiple of the page size and holds what the file holds there; two
such pages that overlap are equal (`AlignedCovers`). `ListInv` says that the list of
open dsos has no duplicates, holds those with a descriptor and has the length that
is counted, through the retries of `do_open` as well (`FilesOK` is about the state
inside a step). `ErrorInv` says that only a file that cannot be opened puts a dso
into the error state. `ReadInv` follows a read: what was copied is the file from the
offset that was asked for to the one it has reached. `OpenFilesCorrect` and
`ReadsFileCorrect` follow.

**Maps** (`MachineProofs`). For all integer ranges: inserting a map into disjoint
ones leaves disjoint ones (`InsertDisjoint`); an address of the new map is found
in it alone, and every other in the same dso as before (`InsertResolves`).

**Threads, groups and names of a machine** (`MachineProofs`, `PerfTopProofs`).
`MachineInv` is `MachineOK` of the machine at rest. `MachineOK` holds in the middle
of a handler as well: it has as parameters the references that the handler holds
and the threads that have no map group, so that every operation of `machine.c` and
`thread.c` has one lemma that says what it takes and what it leaves, and a handler
is the composition of these (`PerfTopProofs` has one lemma for each handler and for
each step of the display thread). It says that a thread's count is one for the
tree, one for a histogram entry and the held ones; that the count of a group is the
number of its threads and that of a name the number of places in lists of names
where it is; that one thread of a tid is in the tree, and `last_match` is in it or
unset; that a name without users is the one being erased, and another copy of a
name exists only then; and that the maps of a group are disjoint. A fork copies
maps into a group that has none, which is why they stay disjoint. `ThreadRefsHold`,
`CommStrsHold` and `MapsDisjointHold` follow for any threads, any order and loss of
events, with the hypothesis `MemoryLasts`: there are infinitely many addresses, so
that every allocation succeeds (running out of memory is not modelled). `MaxEvents`
is arbitrary.

Only model-checked:

* liveness (`EventuallyWritten`, `RequestsServed`, `RecordingEnds`, `Resumed`,
  `SyncEnds`, `Processed`, `QuitEnds`, `ReplayEnds`, `AllProcessed`): fairness is out
  of the prover's reach;
* `PeriodsKept` of `PerfTop` adds up periods over the entries of trees, a fold, and
  what a fold computes needs an induction over data;
* `ThreadsFaithful` of `Machine` compares what the handlers leave with the history
  of the kernel. Its invariant would have to say to which life of a reused tid and
  pid every object belongs, through every handler; `InsertResolves` is the part
  about maps that is proved.

## Not modelled

Decoders of hardware traces, ELF and DWARF readers, parsers, formatting, sorting,
the terminal interface, scripts, the perf.data header and most commands are
sequential data transformations or I/O; they make up most of the source, and
what could be said about them is about data, not about control. Within the
modelled parts: NUMA placement, error texts, byte swapping, the mapping windows
of the reader, synthesis of events (apart from the bytes it writes), pipes and
directories as output; kernel maps, guests, namespaces, the list of dead threads
and its unlocked removal (`util/thread.c:130`); annotation and the keys of perf
top; names, build ids and decompression of dsos.

The events of the side-band thread are read like any others (`PerfMmap`); what it
does with them is calls of libbpf. The queues and the heap of AUX area data are
used by one thread.

## Plan

1. `Machine`: the parallel synthesis at start-up, when the locks are real and
   `last_match` is not used.
2. AUX area: the wrap-around of a snapshot as a pure operator against a reference;
   queues and heap refining `TimeMerge`.
3. Event list: the workload's cork pipe, the side-band thread.
4. Proofs: `ThreadsFaithful` of `Machine` from `InsertResolves`.
