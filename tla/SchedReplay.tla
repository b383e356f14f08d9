---------------------------- MODULE SchedReplay ----------------------------
(***************************************************************************)
(* perf sched replay (builtin-sched.c): the scheduling events of a trace   *)
(* become one list of atoms per task, in which a sleep waits on a          *)
(* semaphore that a wakeup of another task posts.  Then one thread per     *)
(* task executes its atoms, replay_repeat times; two mutexes that the main *)
(* thread holds keep the threads together between the repetitions.         *)
(*                                                                         *)
(* What a run atom burns is not modelled.  The semaphore of a sleep is     *)
(* named by the sleep, <<task, index>>.                                    *)
(***************************************************************************)
EXTENDS Integers, Sequences, Functions

CONSTANTS
  Pid,            \* pids in the trace, 1..n
  MaxTrace,       \* bound: events of the trace
  replay_repeat

ASSUME SchedReplayAssumption == MaxTrace \in Nat /\ replay_repeat \in Nat

None == <<>>
Main == "main"
Nobody == "nobody"

VARIABLES
  read,           \* events of the trace that were processed
  tasks,          \* sched->tasks: registered pids, in order
  atoms,          \* atoms of each task: <<type, semaphore>>
  value,          \* value of each semaphore that exists
  ready, work_done, \* value of ready_for_work and work_done_sem of each task
  start_work, work_done_wait, \* holders of the two mutexes
  main, i,        \* where the main thread is, and its loop variable
  rounds,         \* repetitions completed
  pc, curr_event  \* where each thread is, and the atom it executes

trace_vars == <<read, tasks, atoms>>
thread_vars == <<pc, curr_event>>
vars == <<trace_vars, value, ready, work_done, start_work, work_done_wait,
          main, i, rounds, thread_vars>>

Registered == Range(tasks)

Init ==
  /\ read = 0 /\ tasks = <<>> /\ atoms = [t \in Pid |-> <<>>]
  /\ value = [s \in {} |-> 0]
  /\ ready = [t \in Pid |-> 0] /\ work_done = [t \in Pid |-> 0]
  /\ start_work = Nobody /\ work_done_wait = Nobody
  /\ main = "read" /\ i = 0 /\ rounds = 0
  /\ pc = [t \in Pid |-> "none"] /\ curr_event = [t \in Pid |-> 0]

-----------------------------------------------------------------------------
(* Reading the trace.  The operators take and return [tasks, atoms, value]. *)

Trace == [tasks |-> tasks, atoms |-> atoms, value |-> value]

AddAtom(tr, t, type, sem) == [tr EXCEPT !.atoms[t] = Append(@, <<type, sem>>)]

\* Every task starts with a sleep.
register_pid(tr, t) ==
  IF t \in Range(tr.tasks) THEN tr
  ELSE AddAtom([tr EXCEPT !.tasks = Append(@, t)], t, "SLEEP", None)

add_sched_event_run(tr, t) ==
  IF tr.atoms[t][Len(tr.atoms[t])][1] = "RUN" THEN tr
  ELSE AddAtom(tr, t, "RUN", None)

add_sched_event_sleep(tr, t) == AddAtom(tr, t, "SLEEP", None)

\* A new semaphore.
sem_init(sems, s) == [x \in DOMAIN sems \cup {s} |-> IF x = s THEN 0 ELSE sems[x]]

\* Mutant: the sleep that the wakee is in is looked up before the wakeup is
\* added to the waker.
add_sched_event_wakeup_late(tr, t, wakee) ==
  LET last == Len(tr.atoms[wakee])
      target == <<wakee, last>>
  IN  IF tr.atoms[wakee][last] = <<"SLEEP", None>>
      THEN AddAtom([tr EXCEPT !.atoms[wakee][last] = <<"SLEEP", target>>,
                              !.value = sem_init(@, target)], t, "WAKEUP", target)
      ELSE AddAtom(tr, t, "WAKEUP", None)

\* The wakeup is added first; it posts the sleep that is the last atom of the
\* wakee, unless another wakeup posts it.
add_sched_event_wakeup(tr, t, wakee) ==
  LET added  == AddAtom(tr, t, "WAKEUP", None)
      last   == Len(added.atoms[wakee])
      target == <<wakee, last>>
  IN  IF added.atoms[wakee][last] = <<"SLEEP", None>>
      THEN [added EXCEPT !.atoms[wakee][last] = <<"SLEEP", target>>,
                         !.atoms[t][Len(added.atoms[t])] = <<"WAKEUP", target>>,
                         !.value = sem_init(@, target)]
      ELSE added

SetTrace(tr) == tasks' = tr.tasks /\ atoms' = tr.atoms /\ value' = tr.value

Process(tr) ==
  /\ main = "read" /\ read < MaxTrace
  /\ read' = read + 1
  /\ SetTrace(tr)
  /\ UNCHANGED <<ready, work_done, start_work, work_done_wait, main, i, rounds,
                 thread_vars>>

replay_wakeup_event(waker, wakee) ==
  Process(add_sched_event_wakeup(register_pid(register_pid(Trace, waker), wakee),
                                 waker, wakee))

\* A switch on a cpu out of range changes nothing.  One earlier than the last of its
\* cpu fails, and perf with it: the behaviours that stay in "read".
replay_switch_event(prev, next) ==
  Process(add_sched_event_sleep(
            add_sched_event_run(register_pid(register_pid(Trace, prev), next), prev),
            prev))

replay_fork_event(parent, child) ==
  Process(register_pid(register_pid(Trace, parent), child))

\* perf_sched__replay after the trace was read.
EndOfTrace ==
  /\ main = "read"
  /\ main' = "cross" /\ i' = 1
  /\ UNCHANGED <<trace_vars, value, ready, work_done, start_work, work_done_wait,
                 rounds, thread_vars>>

\* Every task wakes the next one at the end; the last one wakes the first.
add_cross_task_wakeups ==
  /\ main = "cross" /\ i <= Len(tasks)
  /\ SetTrace(add_sched_event_wakeup(Trace, tasks[i], tasks[(i % Len(tasks)) + 1]))
  /\ i' = i + 1
  /\ UNCHANGED <<read, ready, work_done, start_work, work_done_wait, main, rounds,
                 thread_vars>>

\* Both mutexes are taken before the threads are started.
create_tasks ==
  /\ main = "cross" /\ i > Len(tasks)
  /\ start_work' = Main /\ work_done_wait' = Main
  /\ pc' = [t \in Pid |-> IF t \in Registered THEN "again" ELSE "none"]
  /\ main' = "repeat" /\ i' = 0
  /\ UNCHANGED <<trace_vars, value, ready, work_done, rounds, curr_event>>

-----------------------------------------------------------------------------
(* The main thread: wait_for_tasks, called by run_one_test.                *)

\* The threads that completed the last repetition may go on.
BeginRound ==
  /\ main = "repeat" /\ rounds < replay_repeat
  /\ work_done_wait' = Nobody
  /\ main' = "ready" /\ i' = 1
  /\ UNCHANGED <<trace_vars, value, ready, work_done, start_work, rounds, thread_vars>>

\* sem_wait and sem_init of the next task.
WaitReady ==
  /\ main = "ready" /\ i <= Len(tasks)
  /\ ready[tasks[i]] > 0
  /\ ready' = [ready EXCEPT ![tasks[i]] = 0]
  /\ i' = i + 1
  /\ UNCHANGED <<trace_vars, value, work_done, start_work, work_done_wait, main,
                 rounds, thread_vars>>

\* All are ready: the barrier at the end is closed and the one at the start opened.
StartWork ==
  /\ main = "ready" /\ i > Len(tasks)
  /\ work_done_wait = Nobody
  /\ work_done_wait' = Main /\ start_work' = Nobody
  /\ main' = "done" /\ i' = 1
  /\ UNCHANGED <<trace_vars, value, ready, work_done, rounds, thread_vars>>

WaitDone ==
  /\ main = "done" /\ i <= Len(tasks)
  /\ work_done[tasks[i]] > 0
  /\ work_done' = [work_done EXCEPT ![tasks[i]] = 0]
  /\ i' = i + 1
  /\ UNCHANGED <<trace_vars, value, ready, start_work, work_done_wait, main,
                 rounds, thread_vars>>

\* All are done: the barrier at the start is closed again.
EndRound ==
  /\ main = "done" /\ i > Len(tasks)
  /\ start_work = Nobody
  /\ start_work' = Main
  /\ curr_event' = [t \in Pid |-> 0]
  /\ main' = "repeat" /\ i' = 0 /\ rounds' = rounds + 1
  /\ UNCHANGED <<trace_vars, value, ready, work_done, work_done_wait, pc>>

-----------------------------------------------------------------------------
(* The thread of a task: thread_func.                                      *)

PostReady(t) ==
  /\ pc[t] = "again"
  /\ ready' = [ready EXCEPT ![t] = @ + 1]
  /\ pc' = [pc EXCEPT ![t] = "start"]
  /\ UNCHANGED <<trace_vars, value, work_done, start_work, work_done_wait, main,
                 i, rounds, curr_event>>

\* start_work_mutex is locked and unlocked.
PassStart(t) ==
  /\ pc[t] = "start" /\ start_work = Nobody
  /\ pc' = [pc EXCEPT ![t] = "work"]
  /\ curr_event' = [curr_event EXCEPT ![t] = 1]
  /\ UNCHANGED <<trace_vars, value, ready, work_done, start_work, work_done_wait,
                 main, i, rounds>>

\* Mutant: a sleep tests its semaphore and does not wait.
ProcessEventNoWait(t) ==
  /\ pc[t] = "work" /\ curr_event[t] <= Len(atoms[t])
  /\ LET atom == atoms[t][curr_event[t]] IN
       value' = IF atom[2] = None THEN value
                ELSE IF atom[1] = "WAKEUP" THEN [value EXCEPT ![atom[2]] = 1]
                ELSE [value EXCEPT ![atom[2]] = 0]
  /\ curr_event' = [curr_event EXCEPT ![t] = @ + 1]
  /\ UNCHANGED <<trace_vars, ready, work_done, start_work, work_done_wait, main,
                 i, rounds, pc>>

\* perf_sched__process_event: a sleep waits if a wakeup points to it.
ProcessEvent(t) ==
  /\ pc[t] = "work" /\ curr_event[t] <= Len(atoms[t])
  /\ LET atom == atoms[t][curr_event[t]] IN
       \/ atom[2] = None /\ UNCHANGED value
       \/ /\ atom[1] = "SLEEP" /\ atom[2] # None
          /\ value[atom[2]] > 0
          /\ value' = [value EXCEPT ![atom[2]] = @ - 1]
       \/ /\ atom[1] = "WAKEUP" /\ atom[2] # None
          /\ value' = [value EXCEPT ![atom[2]] = @ + 1]
  /\ curr_event' = [curr_event EXCEPT ![t] = @ + 1]
  /\ UNCHANGED <<trace_vars, ready, work_done, start_work, work_done_wait, main,
                 i, rounds, pc>>

PostDone(t) ==
  /\ pc[t] = "work" /\ curr_event[t] > Len(atoms[t])
  /\ work_done' = [work_done EXCEPT ![t] = @ + 1]
  /\ pc' = [pc EXCEPT ![t] = "wait"]
  /\ UNCHANGED <<trace_vars, value, ready, start_work, work_done_wait, main, i,
                 rounds, curr_event>>

\* Mutant: the thread goes on without work_done_wait_mutex.
PassDoneOpen(t) ==
  /\ pc[t] = "wait"
  /\ pc' = [pc EXCEPT ![t] = "again"]
  /\ UNCHANGED <<trace_vars, value, ready, work_done, start_work, work_done_wait,
                 main, i, rounds, curr_event>>

\* work_done_wait_mutex is locked and unlocked.
PassDone(t) ==
  /\ pc[t] = "wait" /\ work_done_wait = Nobody
  /\ pc' = [pc EXCEPT ![t] = "again"]
  /\ UNCHANGED <<trace_vars, value, ready, work_done, start_work, work_done_wait,
                 main, i, rounds, curr_event>>

-----------------------------------------------------------------------------
\* Pids are interchangeable: they are numbered as they are registered.
ReadTrace ==
  /\ \E t, u \in Pid :
       replay_wakeup_event(t, u) \/ replay_switch_event(t, u) \/ replay_fork_event(t, u)
  /\ \A n \in DOMAIN tasks' : tasks'[n] = n

MainThread ==
  \/ add_cross_task_wakeups \/ create_tasks
  \/ BeginRound \/ WaitReady \/ StartWork \/ WaitDone \/ EndRound

Thread(t) == PostReady(t) \/ PassStart(t) \/ ProcessEvent(t) \/ PostDone(t) \/ PassDone(t)

\* perf exits; its threads wait at a barrier.
Finished == main = "repeat" /\ rounds = replay_repeat

Next ==
  \/ ReadTrace \/ EndOfTrace
  \/ MainThread \/ \E t \in Pid : Thread(t)

Spec == Init /\ [][Next]_vars

FairSpec ==
  /\ Spec
  /\ WF_vars(MainThread)
  /\ \A t \in Pid : WF_vars(Thread(t))

-----------------------------------------------------------------------------
(* Properties.                                                             *)

\* wait_for_tasks keeps the repetitions apart: while the main thread counts the
\* tasks that are ready none of them executes an atom, when it has counted all
\* that are done none does any more, and then every semaphore is 0 again, so a
\* wakeup of one repetition never ends a sleep of the next.
RoundsApart ==
  /\ main \in {"repeat", "ready"} => \A t \in Pid : pc[t] # "work"
  /\ \A s \in DOMAIN value : /\ value[s] \in {0, 1}
                             /\ main \in {"repeat", "ready"} => value[s] = 0

\* In a repetition a sleep that a wakeup points to ends after that wakeup
\* (add_sched_event_wakeup): the order of the trace is the order of the replay.
WakeupsFirst ==
  \A t, u \in Registered : \A n \in DOMAIN atoms[t], m \in DOMAIN atoms[u] :
    (/\ atoms[t][n] = <<"SLEEP", <<t, n>>>> /\ atoms[u][m] = <<"WAKEUP", <<t, n>>>>
     /\ main = "done" /\ curr_event[t] > n)
    => curr_event[u] > m

\* Whatever the trace, its replay does not deadlock: the sleeps and wakeups
\* never wait for each other in a circle, add_cross_task_wakeups included.
ReplayEnds == main # "read" ~> Finished
=============================================================================
