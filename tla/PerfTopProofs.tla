--------------------------- MODULE PerfTopProofs ---------------------------
(***************************************************************************)
(* What the threads of perf top share.                                     *)
(*                                                                         *)
(* The queues and the histogram: no two threads use a queue or a tree of   *)
(* entries at the same time, for any events, entries and bounds.           *)
(*                                                                         *)
(* The machine: the handlers of the events, which run in the process       *)
(* thread, and the display thread, which drops the references of decayed   *)
(* entries in between their steps, keep the counts of references exact,    *)
(* the names shared and the maps disjoint, for any threads, names, maps    *)
(* and events, as long as memory lasts.                                    *)
(***************************************************************************)
EXTENDS PerfTop, MachineProofs

\* The provers: Zenon unless a step names the SMT solver.
USE ZenonT(60)

-----------------------------------------------------------------------------
(* Queues and trees: the inductive invariant.                              *)

\* The process thread waits until the main thread, which may hold the index of
\* the queue that was swapped out, has asked for the index once more.
QueueInv ==
  /\ in \in {0, 1}
  /\ main \in {"join_display", "signal", "join_process", "exit"} => done
  /\ process \in {"enter", "wait", "flush", "deliver"} => out = 1 - in
  /\ process \in {"flush", "deliver"} /\ main = "queue" => to = in \/ spurious \/ done

\* The adding thread has hists->lock while it works on an entry of the tree that
\* samples are added to; the display thread collapses the other one.
TreeInv ==
  /\ entries_in \in {0, 1} /\ "state" \in DOMAIN he
  /\ he.state = "found" => lock = "process" /\ he.tree = entries_in
  /\ display = "collapse" => root = 1 - entries_in

\* What the main thread does leaves the histogram alone.
LEMMA MainKeeps ==
  ASSUME QueueInv, MainThread \/ stop_top \/ SpuriousWakeup
  PROVE  QueueInv' /\ UNCHANGED hists_vars
<1> USE DEF QueueInv, main_vars, queues, process_vars
<1>1. CASE \E e \in Event : ReadEvent(e)
  BY <1>1 DEF ReadEvent
<1>2. CASE ReadNull
  BY <1>2 DEF ReadNull, LeaveMmap
<1>3. CASE QueueEvent
  BY <1>3 DEF QueueEvent
<1>4. CASE QueueEventFails
  BY <1>4 DEF QueueEventFails, LeaveMmap
<1>5. CASE TestRotate
  BY <1>5 DEF TestRotate
<1>6. CASE Acknowledge
  BY <1>6 DEF Acknowledge, Signal
<1>7. CASE JoinDisplay
  BY <1>7 DEF JoinDisplay
<1>8. CASE SignalExit
  BY <1>8 DEF SignalExit, Signal
<1>9. CASE JoinProcess
  BY <1>9 DEF JoinProcess
<1>10. CASE stop_top \/ SpuriousWakeup
  BY <1>10 DEF stop_top, SpuriousWakeup
<1> QED
  BY <1>1, <1>2, <1>3, <1>4, <1>5, <1>6, <1>7, <1>8, <1>9, <1>10 DEF MainThread

\* The process thread swaps the queues, and delivers from the one that was
\* swapped out.
LEMMA ProcessKeeps ==
  ASSUME QueueInv, ProcessThread
  PROVE  QueueInv'
<1> USE DEF QueueInv, main_vars, queues, process_vars
<1>1. CASE TestQueue
  BY <1>1 DEF TestQueue
<1>2. CASE rotate_queues
  BY <1>2, SMTT(60) DEF rotate_queues
<1>3. CASE EnterWait
  BY <1>3 DEF EnterWait
<1>4. CASE \E e \in Event : FlushEvent(e)
  BY <1>4, SMTT(60) DEF FlushEvent
<1>5. CASE FlushEnds
  BY <1>5 DEF FlushEnds
<1>6. CASE DeliverOther
  BY <1>6 DEF DeliverOther, Delivered
<1>7. CASE DeliverFails
  BY <1>7 DEF DeliverFails
<1>8. CASE ProcessSample
  BY <1>8, SMTT(60) DEF ProcessSample, Delivered
<1> QED
  BY <1>1, <1>2, <1>3, <1>4, <1>5, <1>6, <1>7, <1>8 DEF ProcessThread

\* Samples are added under the lock.
LEMMA AddingKeepsTrees ==
  ASSUME TreeInv, ProcessThread
  PROVE  TreeInv'
<1> USE DEF TreeInv, hists_vars, display_vars
<1>1. CASE UNCHANGED hists_vars
  BY <1>1
<1>2. CASE \E k \in KeysOf[current] : FindEntry(k)
  BY <1>2, SMTT(60) DEF FindEntry
<1>3. CASE RecordPreciseIpFails \/ FindnewEntry \/ RecordPreciseIpResumes
  <2>1. he'.state # "found"
    BY <1>3, SMTT(60) DEF RecordPreciseIpFails, FindnewEntry, RecordPreciseIpResumes, NoEntry
  <2>2. "state" \in DOMAIN he'
    BY <1>3, SMTT(60) DEF RecordPreciseIpFails, FindnewEntry, RecordPreciseIpResumes, NoEntry
  <2> QED
    BY <1>3, <2>1, <2>2 DEF RecordPreciseIpFails, FindnewEntry, RecordPreciseIpResumes
<1>4. CASE ProcessSample
  BY <1>2, <1>3, <1>4 DEF ProcessSample
<1> QED
  BY <1>1, <1>4 DEF ProcessThread, TestQueue, rotate_queues, EnterWait, FlushEvent,
                    FlushEnds, DeliverOther, DeliverFails

\* The display thread swaps the trees only while nobody works on an entry.
LEMMA DisplayKeeps ==
  ASSUME QueueInv, TreeInv, DisplayThread
  PROVE  QueueInv' /\ TreeInv'
<1>1. QueueInv'
  BY DEF QueueInv, DisplayThread, main_vars, queues, process_vars
<1>2. CASE KeepEntries \/ \E zapped \in SUBSET Groups : Refresh(zapped)
  BY <1>1, <1>2, SMTT(60) DEF KeepEntries, Refresh, RotateEntriesIn, TreeInv
<1>3. CASE (\E k \in Key, complete \in BOOLEAN : CollapseEntry(k, complete))
             \/ CollapseEnds(done)
  BY <1>1, <1>3 DEF CollapseEntry, CollapseEnds, TreeInv
<1>4. CASE display' = "exit" /\ UNCHANGED <<lock, entries_in, he>>
  BY <1>1, <1>4 DEF TreeInv
<1> QED
  BY <1>1, <1>2, <1>3, <1>4 DEF DisplayThread

-----------------------------------------------------------------------------
(* Queues and trees: the theorem.                                          *)

\* The main thread never adds to the queue that process_thread flushes, unless
\* pthread_cond_wait returned without a signal, and the display thread never
\* takes entries from the tree in which a sample is being added: rotate_queues
\* with its wait, and hists__get_rotate_entries_in under hists->lock, give every
\* queue and tree one user.
THEOREM OneUserCorrect == Spec => []OneUser
<1>1. Init => QueueInv /\ TreeInv
  BY SMTT(60) DEF Init, HistsInit, QueueInv, TreeInv, NoEntry
<1>2. QueueInv /\ TreeInv /\ [Next]_vars => (QueueInv /\ TreeInv)'
  <2> SUFFICES ASSUME QueueInv, TreeInv, [Next]_vars PROVE QueueInv' /\ TreeInv'
    OBVIOUS
  <2>1. UNCHANGED hists_vars => TreeInv'
    BY DEF TreeInv, hists_vars
  <2>2. CASE MainThread \/ stop_top \/ SpuriousWakeup
    BY <2>1, <2>2, MainKeeps
  <2>3. CASE ProcessThread
    BY <2>3, ProcessKeeps, AddingKeepsTrees
  <2>4. CASE DisplayThread
    BY <2>4, DisplayKeeps
  <2>5. CASE UNCHANGED vars
    BY <2>1, <2>5 DEF vars, QueueInv, main_vars, queues, process_vars
  <2> QED
    BY <2>2, <2>3, <2>4, <2>5 DEF Next
<1>3. QueueInv /\ TreeInv => OneUser
  BY SMTT(60) DEF QueueInv, TreeInv, OneUser
<1> QED
  BY <1>1, <1>2, <1>3, PTL DEF Spec

-----------------------------------------------------------------------------
(* The machine: forks.                                                     *)

\* The child o may get copies of the maps of the parent q.
MayFork(mm, o, q) ==
  LET T == mm.threads
  IN  /\ o \in Obj /\ q \in Obj /\ T[o].linked /\ T[q].linked
      /\ \/ T[o].pid = T[q].pid /\ T[q].pid # Unknown
         \/ mm.mgs[T[o].mg].maps = {}

\* thread__clone_map_groups: the child has no maps yet.
LEMMA CloneOK ==
  ASSUME NEW mm, NEW E, NEW v, NEW d, NEW h, MachineOK(mm, E, v, d, h, {v}),
         NEW o, NEW q, MayFork(mm, o, q), NEW clone
  PROVE  Follows(mm, clone_map_groups(mm, o, q, clone), E, v, d, h, {v}, {})
<1> DEFINE T == mm.threads
           G == mm.mgs
           nn == clone_map_groups(mm, o, q, clone)
           M == G[T[q].mg].maps
<1>1. /\ o \in Obj /\ q \in Obj /\ T[o].linked /\ T[q].linked
      /\ (T[o].pid = T[q].pid \/ G[T[o].mg].maps = {})
  BY DEF MayFork
<1>2. /\ T \in [Obj -> Thread] /\ G \in [Obj -> MapGroup] /\ GroupsOK(G, T)
      /\ ThreadsOK(T, E, v, h, {v})
  BY DEF MachineOK, MachineType
<1>3. IsHeld(mm, E, v, h, o) /\ IsHeld(mm, E, v, h, q)
  BY <1>1, HeldIsUsed DEF Counted
<1>4. o # v /\ q # v /\ o \in UsedIn(T) /\ q \in UsedIn(T)
  BY <1>3 DEF IsHeld
<1>5. T[q].mg \in Obj
  BY <1>1, <1>2, <1>4 DEF Thread, ThreadsOK
<1>6. G[T[q].mg] \in MapGroup /\ GroupForm(G[T[q].mg])
  BY <1>2, <1>5 DEF GroupsOK
<1>7. M \in SUBSET MapOf(Int) /\ Disjoint(M)
  BY <1>6 DEF MapGroup, GroupForm
<1>8. CASE \/ T[o].pid = T[q].pid
           \/ T[o].mg = T[q].mg \/ ~clone
  <2>1. nn = mm
    BY <1>8 DEF clone_map_groups
  <2> QED
    BY <2>1, KeepsSame DEF Follows
<1>9. CASE ~(\/ T[o].pid = T[q].pid
             \/ T[o].mg = T[q].mg \/ ~clone)
  <2>1. G[T[o].mg].maps = {}
    BY <1>1, <1>9
  <2>2. nn = [mm EXCEPT !.mgs[T[o].mg].maps = G[T[o].mg].maps \cup M]
    BY <1>9 DEF clone_map_groups
  <2>3. G[T[o].mg].maps \cup M = M
    BY <2>1
  <2>4. nn = [mm EXCEPT !.mgs[mm.threads[o].mg].maps = M]
    BY <2>2, <2>3
  <2> HIDE DEF M
  <2>5. Follows(mm, [mm EXCEPT !.mgs[mm.threads[o].mg].maps = M], E, v, d, h, {v}, {})
    BY <1>1, <1>4, <1>7, MapsOK
  <2> QED
    BY <2>4, <2>5
<1> QED
  BY <1>8, <1>9

\* thread__fork.
LEMMA ThreadForkOK ==
  ASSUME MemoryLasts, NEW mm, NEW E, NEW v, NEW d, NEW h, MachineOK(mm, E, v, d, h, {v}),
         NEW o, NEW q, MayFork(mm, o, q), NEW clone
  PROVE  Follows(mm, thread__fork(mm, o, q, clone), E, v, d, h, {v}, {})
<1> DEFINE T == mm.threads
           name == mm.strs[T[q].comms[1]].name
           m1 == IF T[q].comm_set THEN set_comm(mm, o, name) ELSE mm
<1>1. thread__fork(mm, o, q, clone) = clone_map_groups(m1, o, q, clone)
  BY DEF thread__fork
<1>2. o \in Obj /\ q \in Obj /\ T[o].linked /\ T[q].linked
  BY DEF MayFork
<1>3. name \in Int /\ name # 0
  BY <1>2, FirstName
<1> HIDE DEF name
<1>4. Commed(mm, m1, E, v, d, h, {v}, o)
  <2>1. CASE T[q].comm_set
    <3>1. Commed(mm, set_comm(mm, o, name), E, v, d, h, {v}, o)
      BY <1>2, <1>3, SetCommOK
    <3> QED
      BY <2>1, <3>1
  <2>2. CASE ~T[q].comm_set
    <3>1. m1 = mm
      BY <2>2
    <3> QED
      BY <3>1, KeepsSame DEF Commed, Follows
  <2> QED
    BY <2>1, <2>2
<1> HIDE DEF m1
<1>5. /\ Follows(mm, m1, E, v, d, h, {v}, {}) /\ MachineOK(m1, E, v, d, h, {v})
      /\ Keeps(T, m1.threads, {}) /\ m1.mgs = mm.mgs /\ m1.threads[o].mg = T[o].mg
  BY <1>4 DEF Commed, Follows
<1>6. m1.threads[o].linked /\ m1.threads[q].linked
  BY <1>2, <1>5 DEF Keeps
<1>7. T[o].pid = T[q].pid /\ T[q].pid # Unknown =>
        m1.threads[o].pid = m1.threads[q].pid /\ m1.threads[q].pid # Unknown
  BY <1>2, <1>5 DEF Keeps
<1>8. MayFork(m1, o, q)
  BY <1>2, <1>5, <1>6, <1>7 DEF MayFork
<1>9. Follows(m1, clone_map_groups(m1, o, q, clone), E, v, d, h, {v}, {})
  BY <1>5, <1>8, CloneOK
<1>10. Follows(mm, clone_map_groups(m1, o, q, clone), E, v, d, h, {v}, {})
  BY <1>5, <1>9, FollowsTrans
<1> QED
  BY <1>1, <1>10

\* Both references of the handler of FORK are dropped.
LEMMA ForkFoundOK ==
  ASSUME MemoryLasts, NEW E, NEW v, NEW d, NEW h \in [Obj -> Nat], NEW f, NEW q,
         MachineOK(f.m, E, v, d, Hold(Hold(h, q), f.o), {v}), MayFork(f.m, f.o, q), NEW clone
  PROVE  MachineOK(ForkFound(f, q, clone), E, v, d, h, {v})
<1> DEFINE o == f.o
           mm == f.m
           j == Hold(h, q)
           k == Hold(j, o)
           m1 == thread__fork(mm, o, q, clone)
           m2 == thread__put(m1, o)
           m3 == thread__put(m2, q)
<1>1. ForkFound(f, q, clone) = m3
  BY DEF ForkFound
<1>2. o \in Obj /\ q \in Obj /\ mm.threads[o].linked /\ mm.threads[q].linked
  BY DEF MayFork
<1>3. j \in [Obj -> Nat] /\ j[q] > 0 /\ Drop(j, q) = h
  BY <1>2, HoldDrop
<1> HIDE DEF j
<1>4. k \in [Obj -> Nat] /\ k[o] > 0 /\ Drop(k, o) = j
  BY <1>2, <1>3, HoldDrop
<1>5. MachineOK(mm, E, v, d, k, {v}) /\ MayFork(mm, o, q)
  BY DEF j
<1> HIDE DEF k, mm, o
<1>6. IsHeld(mm, E, v, k, o) /\ IsHeld(mm, E, v, k, q)
  BY <1>2, <1>5, HeldIsUsed DEF Counted
<1>7. o # v /\ q # v
  BY <1>6 DEF IsHeld
<1>8. Follows(mm, m1, E, v, d, k, {v}, {})
  BY <1>5, ThreadForkOK
<1> HIDE DEF m1
<1>9. MachineOK(m1, E, v, d, k, {v})
  BY <1>8 DEF Follows
<1>10. Follows(m1, m2, E, v, d, j, {v}, {})
  <2>1. Follows(m1, m2, E, v, d, Drop(k, o), {v}, {})
    BY <1>2, <1>4, <1>7, <1>9, PutOK
  <2> QED
    BY <1>4, <2>1
<1> HIDE DEF m2
<1>11. MachineOK(m2, E, v, d, j, {v})
  BY <1>10 DEF Follows
<1>12. Follows(m2, m3, E, v, d, h, {v}, {})
  <2>1. Follows(m2, m3, E, v, d, Drop(j, q), {v}, {})
    BY <1>2, <1>3, <1>7, <1>11, PutOK
  <2> QED
    BY <1>3, <2>1
<1> QED
  BY <1>1, <1>12 DEF Follows

\* The child is made: no thread of the tree has its tid.
LEMMA ForkChildOK ==
  ASSUME MemoryLasts, NEW mm, NEW E, NEW v, NEW d, NEW h \in [Obj -> Nat], NEW q \in Obj,
         MachineOK(mm, E, v, d, Hold(h, q), {v}), mm.threads[q].linked,
         NEW pid \in Tid, NEW tid \in Tid, Absent(mm.threads, tid),
         pid = mm.threads[q].pid \/ pid = tid, NEW clone
  PROVE  MachineOK(ForkFound(findnew_thread(mm, pid, tid), q, clone), E, v, d, h, {v})
<1> DEFINE f == findnew_thread(mm, pid, tid)
           j == Hold(h, q)
<1>1. Found(mm, E, v, d, j, f, pid, tid)
  BY FindnewThreadOK
<1> HIDE DEF f
<1>2. /\ f.o \in Obj /\ Follows(mm, f.m, E, v, d, Hold(j, f.o), {v}, {pid, tid})
      /\ f.m.threads[f.o].linked /\ f.m.threads[f.o].pid = pid
      /\ pid = tid => f.m.mgs[f.m.threads[f.o].mg].maps = {}
  BY <1>1 DEF Found
<1>3. MachineOK(f.m, E, v, d, Hold(j, f.o), {v}) /\ Keeps(mm.threads, f.m.threads, {pid, tid})
  BY <1>2 DEF Follows
<1>4. /\ f.m.threads[q].linked
      /\ mm.threads[q].pid # Unknown => f.m.threads[q].pid = mm.threads[q].pid
  BY <1>3 DEF Keeps
<1>5. pid # Unknown
  BY Null
<1>6. MayFork(f.m, f.o, q)
  BY <1>2, <1>4, <1>5 DEF MayFork
<1> QED
  BY <1>3, <1>6, ForkFoundOK DEF f

\* Two references, in either order.
LEMMA HoldTwo ==
  ASSUME NEW h \in [Obj -> Nat], NEW o \in Obj, NEW q \in Obj
  PROVE  Drop(Hold(Hold(h, o), q), o) = Hold(h, q) /\ Hold(Hold(h, o), q)[o] > 0
<1>1. Hold(Hold(h, o), q)[o] > 0
  BY SMTT(60) DEF Hold
<1>2. \A p \in Obj : Drop(Hold(Hold(h, o), q), o)[p] = Hold(h, q)[p]
  BY SMTT(60) DEF Hold, Drop
<1>3. /\ DOMAIN Drop(Hold(Hold(h, o), q), o) = Obj /\ DOMAIN Hold(h, q) = Obj
      /\ Drop(Hold(Hold(h, o), q), o) = [p \in Obj |-> Drop(Hold(Hold(h, o), q), o)[p]]
      /\ Hold(h, q) = [p \in Obj |-> Hold(h, q)[p]]
  BY DEF Hold, Drop
<1> QED
  BY <1>1, <1>2, <1>3

\* The parent: it has the pid of the event now, and no other thread went.
Parented(mm, E, v, d, h, r, ppid, ptid) ==
  LET T == mm.threads
      U == r.m.threads
  IN  /\ r.o \in Obj /\ MachineOK(r.m, E, v, d, Hold(h, r.o), {v})
      /\ U[r.o].linked /\ U[r.o].tid = ptid /\ U[r.o].pid = ppid
      /\ \A p \in Obj : /\ T[p].linked /\ T[p].tid # ptid =>
                             U[p].linked /\ U[p].tid = T[p].tid
                        /\ U[p].linked => \/ T[p].linked /\ U[p].tid = T[p].tid
                                          \/ U[p].tid \in {ppid, ptid}

\* machine__process_fork_event: a parent found with another pid is removed and made
\* anew, so that it has the pid of the event.
LEMMA ForkParentOK ==
  ASSUME MemoryLasts, NEW mm, NEW E, NEW v, NEW d, NEW h \in [Obj -> Nat], NEW f,
         NEW ppid \in Tid, NEW ptid \in Tid, Found(mm, E, v, d, h, f, ppid, ptid)
  PROVE  Parented(mm, E, v, d, h, ForkParent(f, ppid, ptid), ppid, ptid)
<1> DEFINE T == mm.threads
           U == f.m.threads
           o == f.o
           S == {ppid, ptid}
<1>1. /\ o \in Obj /\ MachineOK(f.m, E, v, d, Hold(h, o), {v}) /\ Keeps(T, U, S)
      /\ U[o].linked /\ U[o].tid = ptid
  BY DEF Found, Follows
<1>2. \A p \in Obj : /\ T[p].linked => U[p].linked /\ U[p].tid = T[p].tid
                     /\ U[p].linked => \/ T[p].linked /\ U[p].tid = T[p].tid
                                       \/ U[p].tid \in S
  BY <1>1 DEF Keeps
<1>3. CASE U[o].pid = ppid
  <2>1. ForkParent(f, ppid, ptid) = f
    BY <1>3 DEF ForkParent
  <2> QED
    BY <1>1, <1>2, <1>3, <2>1 DEF Parented
<1>4. CASE U[o].pid # ppid
  <2> DEFINE mr == Replace(f.m, o)
             V == mr.threads
             r == findnew_thread(mr, ppid, ptid)
             W == r.m.threads
  <2>1. ForkParent(f, ppid, ptid) = r
    BY <1>4 DEF ForkParent
  <2>2. Hold(h, o) \in [Obj -> Nat] /\ Hold(h, o)[o] > 0 /\ Drop(Hold(h, o), o) = h
    BY <1>1, HoldDrop
  <2>3. IsHeld(f.m, E, v, Hold(h, o), o)
    BY <1>1, HeldIsUsed DEF Counted
  <2>4. o \notin {v}
    BY <2>3 DEF IsHeld
  <2>5. Replaced(f.m, mr, E, v, d, Drop(Hold(h, o), o), {v}, o)
    BY <1>1, <2>2, <2>4, ReplaceOK
  <2> HIDE DEF mr
  <2>6. /\ MachineOK(mr, E, v, d, h, {v}) /\ Absent(V, ptid)
        /\ \A p \in Obj : /\ U[p].linked /\ p # o => V[p].linked /\ V[p].tid = U[p].tid
                          /\ V[p].linked => U[p].linked /\ V[p].tid = U[p].tid
    BY <1>1, <2>2, <2>5 DEF Replaced
  <2>7. Found(mr, E, v, d, h, r, ppid, ptid)
    BY <2>6, FindnewThreadOK
  <2> HIDE DEF r
  <2>8. /\ r.o \in Obj /\ MachineOK(r.m, E, v, d, Hold(h, r.o), {v}) /\ Keeps(V, W, S)
        /\ W[r.o].linked /\ W[r.o].tid = ptid /\ W[r.o].pid = ppid
    BY <2>6, <2>7 DEF Found, Follows
  <2>9. \A p \in Obj : /\ V[p].linked => W[p].linked /\ W[p].tid = V[p].tid
                       /\ W[p].linked => \/ V[p].linked /\ W[p].tid = V[p].tid
                                         \/ W[p].tid \in S
    BY <2>8 DEF Keeps
  <2>10. ASSUME NEW p \in Obj, T[p].linked, T[p].tid # ptid
         PROVE  W[p].linked /\ W[p].tid = T[p].tid
    <3>1. U[p].linked /\ U[p].tid = T[p].tid /\ p # o
      BY <1>1, <1>2, <2>10
    <3>2. V[p].linked /\ V[p].tid = T[p].tid
      BY <2>6, <3>1
    <3> QED
      BY <2>9, <3>2
  <2>11. ASSUME NEW p \in Obj, W[p].linked, W[p].tid \notin S
         PROVE  T[p].linked /\ W[p].tid = T[p].tid
    <3>1. V[p].linked /\ W[p].tid = V[p].tid
      BY <2>9, <2>11
    <3>2. U[p].linked /\ W[p].tid = U[p].tid
      BY <2>6, <3>1
    <3> QED
      BY <1>2, <2>11, <3>2
  <2> HIDE DEF S
  <2>12. \A p \in Obj : /\ T[p].linked /\ T[p].tid # ptid => W[p].linked /\ W[p].tid = T[p].tid
                        /\ W[p].linked => \/ T[p].linked /\ W[p].tid = T[p].tid
                                          \/ W[p].tid \in S
    BY <2>10, <2>11
  <2> QED
    BY <2>1, <2>8, <2>12 DEF Parented, S
<1> QED
  BY <1>3, <1>4

\* machine__process_fork_event.  The child's tid is no one else's, and its process
\* is the parent's or its own.
LEMMA ForkEventOK ==
  ASSUME MemoryLasts, NEW E, NEW v, NEW d, NEW h \in [Obj -> Nat],
         MachineOK(m, E, v, d, h, {v}),
         NEW pid \in Tid, NEW tid \in Tid, NEW ppid \in Tid, NEW ptid \in Tid,
         tid # ppid, tid # ptid, pid = ppid \/ pid = tid, NEW clone
  PROVE  MachineOK(fork_event(pid, tid, ppid, ptid, clone), E, v, d, h, {v})
<1> DEFINE old == find_thread(m, pid, tid)
           h1 == IF old.o = NULL THEN h ELSE Hold(h, old.o)
           f == findnew_thread(old.m, ppid, ptid)
           r == ForkParent(f, ppid, ptid)
           q == r.o
           mr == IF old.o = NULL THEN r.m ELSE Replace(r.m, old.o)
<1>1. fork_event(pid, tid, ppid, ptid, clone)
        = ForkFound(findnew_thread(mr, pid, tid), q, clone)
  BY DEF fork_event
<1>2. /\ old.o = NULL => Follows(m, old.m, E, v, d, h, {v}, {}) /\ Absent(m.threads, tid)
      /\ old.o # NULL => Found(m, E, v, d, h, old, pid, tid)
  BY FindThreadOK
<1> HIDE DEF old
<1>3. h1 \in [Obj -> Nat] /\ MachineOK(old.m, E, v, d, h1, {v})
  <2>1. CASE old.o = NULL
    BY <1>2, <2>1 DEF Follows
  <2>2. CASE old.o # NULL
    <3>1. old.o \in Obj /\ MachineOK(old.m, E, v, d, Hold(h, old.o), {v})
      BY <1>2, <2>2 DEF Found, Follows
    <3>2. Hold(h, old.o) \in [Obj -> Nat]
      BY <3>1, HoldDrop
    <3> QED
      BY <2>2, <3>1, <3>2
  <2> QED
    BY <2>1, <2>2
<1>4. Found(old.m, E, v, d, h1, f, ppid, ptid)
  <2> HIDE DEF h1
  <2> QED
    BY <1>3, FindnewThreadOK
<1>5. Parented(old.m, E, v, d, h1, r, ppid, ptid)
  <2> HIDE DEF h1, f
  <2> QED
    BY <1>3, <1>4, ForkParentOK
<1> HIDE DEF r
<1>6. /\ q \in Obj /\ MachineOK(r.m, E, v, d, Hold(h1, q), {v})
      /\ r.m.threads[q].linked /\ r.m.threads[q].tid = ptid /\ r.m.threads[q].pid = ppid
  BY <1>5 DEF Parented
<1>7. \A p \in Obj :
        /\ old.m.threads[p].linked /\ old.m.threads[p].tid # ptid =>
             r.m.threads[p].linked /\ r.m.threads[p].tid = old.m.threads[p].tid
        /\ r.m.threads[p].linked /\ r.m.threads[p].tid = tid =>
             old.m.threads[p].linked /\ old.m.threads[p].tid = tid
  BY <1>5 DEF Parented
<1>8. /\ MachineOK(mr, E, v, d, Hold(h, q), {v}) /\ Absent(mr.threads, tid)
      /\ mr.threads[q].linked /\ mr.threads[q].pid = ppid
  <2>1. CASE old.o = NULL
    <3>1. mr = r.m /\ h1 = h
      BY <2>1
    <3>2. Absent(m.threads, tid) /\ Keeps(m.threads, old.m.threads, {})
      BY <1>2, <2>1 DEF Follows
    <3>3. Absent(old.m.threads, tid)
      BY <3>2 DEF Absent, Keeps
    <3>4. Absent(r.m.threads, tid)
      BY <1>7, <3>3 DEF Absent
    <3> QED
      BY <1>6, <3>1, <3>4
  <2>2. CASE old.o # NULL
    <3> DEFINE a == old.o
               k == Hold(Hold(h, a), q)
    <3>1. a \in Obj /\ old.m.threads[a].linked /\ old.m.threads[a].tid = tid
      BY <1>2, <2>2 DEF Found
    <3>2. r.m.threads[a].linked /\ r.m.threads[a].tid = tid /\ a # q
      BY <1>6, <1>7, <3>1
    <3>3. mr = Replace(r.m, a) /\ MachineOK(r.m, E, v, d, k, {v})
      BY <1>6, <2>2
    <3>4. k[a] > 0 /\ Drop(k, a) = Hold(h, q)
      BY <1>6, <3>1, HoldTwo
    <3> HIDE DEF k
    <3>5. IsHeld(r.m, E, v, k, a)
      BY <3>1, <3>2, <3>3, HeldIsUsed DEF Counted
    <3>6. a \notin {v}
      BY <3>5 DEF IsHeld
    <3> HIDE DEF mr, a
    <3>7. Replaced(r.m, mr, E, v, d, Drop(k, a), {v}, a)
      BY <3>1, <3>2, <3>3, <3>4, <3>6, ReplaceOK
    <3>8. ppid # Unknown
      BY Null
    <3> QED
      BY <1>6, <3>2, <3>4, <3>7, <3>8 DEF Replaced
  <2> QED
    BY <2>1, <2>2
<1> HIDE DEF mr, q
<1>9. MachineOK(ForkFound(findnew_thread(mr, pid, tid), q, clone), E, v, d, h, {v})
  BY <1>6, <1>8, ForkChildOK
<1> QED
  BY <1>1, <1>9
-----------------------------------------------------------------------------
(* The machine: the handlers of events.                                    *)

\* A lookup returns the machine and a thread.
LEMMA FoundPair ==
  ASSUME NEW mm, NEW pid, NEW tid
  PROVE  LET f == findnew_thread(mm, pid, tid) IN f = [m |-> f.m, o |-> f.o]
<1> DEFINE f == findnew_thread(mm, pid, tid)
           Pair(x) == x = [m |-> x.m, o |-> x.o]
<1>1. Lookup(mm, tid) # NULL => Pair(f)
  BY DEF findnew_thread, find_thread, FindThread
<1>2. Pair(FindnewOwn(mm, pid, tid))
  BY DEF FindnewOwn, FindOwn, CreateOwn
<1>3. Pair(CreateMember(mm, FreeObj(mm), pid, tid))
  BY DEF CreateMember, JoinNew
<1>4. Pair(f)
  <2> HIDE DEF Pair
  <2> QED
    BY <1>1, <1>2, <1>3 DEF findnew_thread
<1> QED
  BY <1>4

\* The reference of a lookup is dropped.
LEMMA PutFoundOK ==
  ASSUME NEW f, NEW E, NEW v, NEW d, NEW h \in [Obj -> Nat], f.o \in Obj,
         f.m.threads[f.o].linked, MachineOK(f.m, E, v, d, Hold(h, f.o), {v})
  PROVE  MachineOK(PutFound(f), E, v, d, h, {v})
<1> DEFINE o == f.o
           k == Hold(h, o)
<1>1. k \in [Obj -> Nat] /\ k[o] > 0 /\ Drop(k, o) = h
  BY HoldDrop
<1> HIDE DEF k
<1>2. IsHeld(f.m, E, v, k, o)
  BY HeldIsUsed DEF Counted, k
<1>3. o \notin {v}
  BY <1>2 DEF IsHeld
<1>4. Follows(f.m, thread__put(f.m, o), E, v, d, Drop(k, o), {v}, {})
  BY <1>1, <1>3, PutOK DEF k
<1> QED
  BY <1>1, <1>4 DEF PutFound, Follows

\* machine__process_comm_event.
LEMMA CommEventOK ==
  ASSUME MemoryLasts, NEW E, NEW v, NEW d, NEW h \in [Obj -> Nat],
         MachineOK(m, E, v, d, h, {v}),
         NEW pid \in Tid, NEW tid \in Tid, NEW name \in CommName
  PROVE  MachineOK(comm_event(pid, tid, name), E, v, d, h, {v})
<1> DEFINE f == findnew_thread(m, pid, tid)
           m1 == set_comm(f.m, f.o, name)
           r == [f EXCEPT !.m = m1]
<1>1. comm_event(pid, tid, name) = PutFound(r)
  BY DEF comm_event
<1>2. Found(m, E, v, d, h, f, pid, tid) /\ f = [m |-> f.m, o |-> f.o]
  BY FindnewThreadOK, FoundPair
<1> HIDE DEF f
<1>3. r.m = m1 /\ r.o = f.o
  BY <1>2
<1>4. /\ f.o \in Obj /\ MachineOK(f.m, E, v, d, Hold(h, f.o), {v}) /\ f.m.threads[f.o].linked
  BY <1>2 DEF Found, Follows
<1>5. name \in Int /\ name # 0
  BY MachineAssumption
<1>6. Commed(f.m, m1, E, v, d, Hold(h, f.o), {v}, f.o)
  BY <1>4, <1>5, SetCommOK
<1> HIDE DEF m1, r
<1>7. MachineOK(m1, E, v, d, Hold(h, f.o), {v}) /\ m1.threads[f.o].linked
  BY <1>4, <1>6 DEF Commed, Follows, Keeps
<1>8. MachineOK(PutFound(r), E, v, d, h, {v})
  BY <1>3, <1>4, <1>7, PutFoundOK
<1> QED
  BY <1>1, <1>8

\* machine__process_mmap2_event.
LEMMA MmapEventOK ==
  ASSUME MemoryLasts, NEW E, NEW v, NEW d, NEW h \in [Obj -> Nat],
         MachineOK(m, E, v, d, h, {v}),
         NEW pid \in Tid, NEW tid \in Tid, NEW map \in MmapEvent
  PROVE  MachineOK(mmap2_event(pid, tid, map), E, v, d, h, {v})
<1> DEFINE f == findnew_thread(m, pid, tid)
           mm == f.m
           o == f.o
           g == mm.threads[o].mg
           M == insert_map(mm.mgs[g].maps, map)
           m1 == [mm EXCEPT !.mgs[g].maps = M]
           r == [f EXCEPT !.m.mgs[f.m.threads[f.o].mg].maps = insert_map(@, map)]
<1>1. mmap2_event(pid, tid, map) = PutFound(r)
  BY DEF mmap2_event
<1>2. Found(m, E, v, d, h, f, pid, tid) /\ f = [m |-> f.m, o |-> f.o]
  BY FindnewThreadOK, FoundPair
<1> HIDE DEF f
<1>3. r.m = m1 /\ r.o = o
  BY <1>2
<1>4. /\ o \in Obj /\ MachineOK(mm, E, v, d, Hold(h, o), {v}) /\ mm.threads[o].linked
  BY <1>2 DEF Found, Follows
<1>5. IsHeld(mm, E, v, Hold(h, o), o)
  BY <1>4, HeldIsUsed DEF Counted
<1>6. o \notin {v} /\ o \in UsedIn(mm.threads) /\ mm.threads[o] \in Thread
  BY <1>5 DEF IsHeld
<1>7. g \in Obj
  BY <1>4, <1>6 DEF MachineOK, ThreadsOK, Thread
<1>8. mm.mgs[g].maps \in SUBSET MapOf(Int) /\ Disjoint(mm.mgs[g].maps)
  BY <1>4, <1>7 DEF MachineOK, MachineType, MapGroup, GroupsOK, GroupForm
<1>9. map \in MapOf(Int)
  BY MachineAssumption DEF MapOf
<1>10. M \in SUBSET MapOf(Int) /\ Disjoint(M)
  BY <1>8, <1>9, InsertDisjoint
<1> HIDE DEF M
<1>11. Follows(mm, m1, E, v, d, Hold(h, o), {v}, {})
  BY <1>4, <1>6, <1>10, MapsOK
<1> HIDE DEF m1, r
<1>12. MachineOK(m1, E, v, d, Hold(h, o), {v}) /\ m1.threads[o].linked
  BY <1>4, <1>11 DEF Follows, Keeps
<1>13. MachineOK(PutFound(r), E, v, d, h, {v})
  BY <1>3, <1>4, <1>12, PutFoundOK
<1> QED
  BY <1>1, <1>13

\* machine__process_exit_event.
LEMMA ExitEventOK ==
  ASSUME MemoryLasts, NEW E, NEW v, NEW d, NEW h \in [Obj -> Nat],
         MachineOK(m, E, v, d, h, {v}), NEW pid \in Tid, NEW tid \in Tid
  PROVE  MachineOK(exit_event(pid, tid), E, v, d, h, {v})
<1> DEFINE f == find_thread(m, pid, tid)
<1>1. exit_event(pid, tid) = IF f.o = NULL THEN f.m ELSE PutFound(f)
  BY DEF exit_event
<1>2. /\ f.o = NULL => Follows(m, f.m, E, v, d, h, {v}, {})
      /\ f.o # NULL => Found(m, E, v, d, h, f, pid, tid)
  BY FindThreadOK
<1> HIDE DEF f
<1>3. CASE f.o = NULL
  BY <1>1, <1>2, <1>3 DEF Follows
<1>4. CASE f.o # NULL
  <2>1. f.o \in Obj /\ MachineOK(f.m, E, v, d, Hold(h, f.o), {v}) /\ f.m.threads[f.o].linked
    BY <1>2, <1>4 DEF Found, Follows
  <2>2. MachineOK(PutFound(f), E, v, d, h, {v})
    BY <2>1, PutFoundOK
  <2> QED
    BY <1>1, <1>4, <2>2
<1> QED
  BY <1>3, <1>4

\* A reference of the handler becomes one of an entry.
LEMMA EntryOK ==
  ASSUME NEW mm, NEW E, NEW v, NEW d, NEW h \in [Obj -> Nat], NEW o \in Obj, o \notin E,
         MachineOK(mm, E, v, d, Hold(h, o), {v})
  PROVE  MachineOK(mm, E \cup {o}, v, d, h, {v})
<1> DEFINE T == mm.threads
           k == Hold(h, o)
           F == E \cup {o}
<1>1. ThreadsOK(T, E, v, k, {v})
  BY DEF MachineOK
<1>2. k[o] = h[o] + 1 /\ \A p \in Obj : p # o => k[p] = h[p]
  BY HoldDrop
<1> HIDE DEF k
<1>3. ASSUME NEW p \in Obj PROVE T[p].refcnt = Bit(T[p].linked) + Bit(p \in F) + h[p]
  <2>1. T[p].refcnt = Bit(T[p].linked) + Bit(p \in E) + k[p]
    BY <1>1 DEF ThreadsOK
  <2>2. CASE p = o
    <3> DEFINE b == T[o].linked
               n == h[o]
    <3>1. n \in Nat
      OBVIOUS
    <3> HIDE DEF b, n
    <3>2. Bit(b) + Bit(FALSE) + (n + 1) = Bit(b) + Bit(TRUE) + n
      BY <3>1, SMTT(60) DEF Bit
    <3>3. Bit(o \in E) = Bit(FALSE) /\ Bit(o \in F) = Bit(TRUE)
      BY DEF Bit
    <3> QED
      BY <1>2, <2>1, <2>2, <3>2, <3>3 DEF b, n
  <2>3. CASE p # o
    <3>1. Bit(p \in F) = Bit(p \in E)
      BY <2>3 DEF Bit
    <3> QED
      BY <1>2, <2>1, <2>3, <3>1
  <2> QED
    BY <2>2, <2>3
<1>4. ThreadsOK(T, F, v, h, {v})
  BY <1>1, <1>3 DEF ThreadsOK
<1> QED
  BY <1>4 DEF MachineOK
-----------------------------------------------------------------------------
(* The machine: the display thread.                                        *)

\* What is known of every thread.
ThreadForm(T, E, v, h, X, o) ==
  /\ T[o] \in Thread /\ h[o] \in Nat
  /\ T[o].refcnt = Bit(T[o].linked) + Bit(o \in E) + h[o]
  /\ T[o].mg = NULL <=> o \in X
  /\ o # v => T[o].comms # <<>>
  /\ T[o].linked => \A p \in Obj : p # o /\ T[p].linked => T[p].tid # T[o].tid
  /\ T[o].mg # NULL =>
       \A p \in UsedIn(T) : p # o /\ T[p].mg = T[o].mg =>
         T[o].pid # Unknown /\ T[p].pid # Unknown

\* What the invariant says of the one thread that a reference is dropped of.
LEMMA FormOK ==
  ASSUME NEW T \in [Obj -> Thread], NEW E, NEW v, NEW h, NEW X, ThreadsOK(T, E, v, h, X),
         NEW o \in UsedIn(T)
  PROVE  ThreadForm(T, E, v, h, X, o)
<1>1. o \in Obj
  BY DEF UsedIn
<1>2. \A p \in Obj : T[p].linked => p \in UsedIn(T)
  BY CountedIsUsed DEF Counted
<1>3. /\ T[o].mg = NULL <=> o \in X
      /\ o # v => T[o].comms # <<>>
      /\ h[o] \in Nat /\ T[o].refcnt = Bit(T[o].linked) + Bit(o \in E) + h[o]
      /\ \A p \in UsedIn(T) : /\ T[p].linked /\ T[o].linked /\ T[p].tid = T[o].tid => p = o
                              /\ T[p].pid = Unknown /\ T[p].mg # NULL /\ T[p].mg = T[o].mg
                                 => p = o
                              /\ T[o].pid = Unknown /\ T[o].mg # NULL /\ T[o].mg = T[p].mg
                                 => p = o
  BY <1>1 DEF ThreadsOK
<1>4. T[o].linked => \A p \in Obj : p # o /\ T[p].linked => T[p].tid # T[o].tid
  BY <1>2, <1>3
<1>5. T[o].mg # NULL =>
        \A p \in UsedIn(T) : p # o /\ T[p].mg = T[o].mg =>
          T[o].pid # Unknown /\ T[p].pid # Unknown
  BY <1>3
<1> QED
  BY <1>1, <1>3, <1>4, <1>5 DEF ThreadForm

\* hist_entry__delete of an entry of o: the reference is dropped, and if it was
\* the last thread__delete starts.
LEMMA DropOK ==
  ASSUME NEW mm, NEW E, NEW d, NEW h, MachineOK(mm, E, NULL, d, h, {NULL}), NEW o \in E
  PROVE  LET last == mm.threads[o].refcnt = 1
             w == IF last THEN o ELSE NULL
         IN  MachineOK([mm EXCEPT !.threads[o].refcnt = @ - 1,
                                  !.threads[o].mg = IF last THEN NULL ELSE @,
                                  !.mgs = IF last
                                          THEN map_groups__put(@, mm.threads[o].mg)
                                          ELSE @],
                       E \ {o}, w, d, h, {w})
<1> DEFINE last == mm.threads[o].refcnt = 1
           w == IF last THEN o ELSE NULL
           nn == [mm EXCEPT !.threads[o].refcnt = @ - 1,
                            !.threads[o].mg = IF last THEN NULL ELSE @,
                            !.mgs = IF last THEN map_groups__put(@, mm.threads[o].mg)
                                    ELSE @]
           T == mm.threads
           U == nn.threads
           F == E \ {o}
           g == IF last THEN NULL ELSE T[o].mg
           u == [T[o] EXCEPT !.refcnt = @ - 1, !.mg = g]
<1>1. /\ T \in [Obj -> Thread] /\ mm.mgs \in [Obj -> MapGroup] /\ mm.strs \in [Obj -> Str]
      /\ ThreadsOK(T, E, NULL, h, {NULL}) /\ GroupsOK(mm.mgs, T) /\ StrsOK(mm.strs, T, d)
      /\ mm.last_match \in Obj \cup {NULL} /\ LastOK(mm) /\ h \in [Obj -> Nat]
      /\ DOMAIN mm = {"threads", "mgs", "strs", "last_match"} /\ o \in Obj /\ E \subseteq Obj
      /\ IsFiniteSet(UsedIn(T))
  BY DEF MachineOK, MachineType, ThreadsOK
<1>2. IsHeld(mm, E, NULL, h, o)
  BY <1>1, HeldIsUsed DEF Counted
<1>3. o \in UsedIn(T) /\ T[o].tid # NULL /\ T[o].refcnt \in Nat /\ T[o].refcnt > 0
  BY <1>2 DEF IsHeld, UsedIn
<1>4. ThreadForm(T, E, NULL, h, {NULL}, o)
  BY <1>1, <1>3, FormOK
<1>5. /\ T[o] \in Thread /\ h[o] \in Nat /\ T[o].mg \in Obj /\ T[o].linked \in BOOLEAN
      /\ T[o].refcnt = Bit(T[o].linked) + Bit(o \in E) + h[o] /\ T[o].comms # <<>>
  BY <1>1, <1>4, Null DEF ThreadForm, Thread
<1>6. /\ DOMAIN nn = {"threads", "mgs", "strs", "last_match"}
      /\ U = [T EXCEPT ![o] = u] /\ nn.strs = mm.strs /\ nn.last_match = mm.last_match
      /\ nn.mgs = IF last THEN map_groups__put(mm.mgs, T[o].mg) ELSE mm.mgs
  BY <1>1
<1> HIDE DEF nn, U
<1>7. T[o].refcnt - 1 \in Nat /\ g \in Obj \cup {NULL}
  <2>1. T[o].refcnt - 1 \in Nat
    <3> DEFINE n == T[o].refcnt
    <3>1. n \in Nat /\ n > 0
      BY <1>3
    <3> HIDE DEF n
    <3>2. n - 1 \in Nat
      BY <3>1, SMTT(60)
    <3> QED
      BY <3>2 DEF n
  <2> QED
    BY <1>5, <2>1
<1>8. /\ u \in Thread /\ u.tid = T[o].tid /\ u.pid = T[o].pid /\ u.comms = T[o].comms
      /\ u.linked = T[o].linked /\ u.refcnt = T[o].refcnt - 1 /\ u.mg = g
  <2> HIDE DEF g
  <2> QED
    BY <1>5, <1>7 DEF Thread
<1> HIDE DEF u
<1>9. U \in [Obj -> Thread] /\ U[o] = u /\ \A p \in Obj : p # o => U[p] = T[p]
  BY <1>1, <1>6, <1>8
<1>10. u.refcnt = Bit(u.linked) + Bit(o \in F) + h[o] /\ (u.refcnt = 0 <=> last)
  <2> DEFINE b == T[o].linked
             n == h[o]
             c == T[o].refcnt
  <2>1. n \in Nat /\ b \in BOOLEAN /\ c = Bit(b) + Bit(TRUE) + n /\ c \in Nat
    BY <1>3, <1>5 DEF Bit
  <2>2. Bit(o \in F) = Bit(FALSE)
    BY DEF Bit
  <2>3. u.refcnt = c - 1 /\ u.linked = b /\ (last <=> c = 1)
    BY <1>8
  <2> HIDE DEF b, n, c, last
  <2>4. c - 1 = Bit(b) + Bit(FALSE) + n /\ (c - 1 = 0 <=> c = 1)
    BY <2>1, SMTT(60) DEF Bit
  <2> QED
    BY <2>2, <2>3, <2>4 DEF n
<1>11. ThreadsOK(U, F, w, h, {w})
  <2>1. \A p \in Obj : p # o => /\ Bit(p \in F) = Bit(p \in E)
                                /\ (p = w <=> p = NULL) /\ (p \in {w} <=> p \in {NULL})
    BY Null DEF Bit
  <2>2. F \subseteq Obj /\ w \in Obj \cup {NULL} /\ (last <=> o = w)
    BY <1>1, Null
  <2>3. u.mg = NULL <=> o \in {w}
    BY <1>5, <1>8, <2>2, Null
  <2>4. u.linked => \A p \in Obj : p # o /\ T[p].linked => T[p].tid # u.tid
    BY <1>4, <1>8 DEF ThreadForm
  <2>5. u.mg # NULL =>
          \A p \in UsedIn(T) : p # o /\ T[p].mg = u.mg => u.pid # Unknown /\ T[p].pid # Unknown
    BY <1>4, <1>8 DEF ThreadForm
  <2>6. u.refcnt = 0 <=> o = w
    BY <1>10, <2>2
  <2> HIDE DEF F, w
  <2>7. ThreadMay(T, E, NULL, h, {NULL}, o, u, F, w, h, {w})
    BY <1>1, <1>3, <1>5, <1>8, <1>10, <2>1, <2>2, <2>3, <2>4, <2>5, <2>6 DEF ThreadMay
  <2>8. U = [T EXCEPT ![o] = u]
    BY <1>6
  <2> HIDE DEF T
  <2> QED
    BY <2>7, <2>8, ThreadStep
<1>12. GroupsOK(nn.mgs, U) /\ nn.mgs \in [Obj -> MapGroup]
  <2>1. CASE last
    <3>1. \A x \in Obj : Refs(U, o, x) = 0
      BY <1>8, <1>9, <2>1, Null DEF Refs, Members
    <3>2. LeaveMay(mm.mgs, T, o, U, T[o].mg, nn.mgs)
      BY <1>1, <1>3, <1>5, <1>6, <1>9, <2>1, <3>1 DEF LeaveMay
    <3> QED
      BY <3>2, LeaveGroup
  <2>2. CASE ~last
    <3>1. \A x \in Obj : Refs(U, o, x) = Refs(T, o, x)
      BY <1>3, <1>8, <1>9, <2>2 DEF Refs, Members, UsedIn
    <3>2. nn.mgs = mm.mgs
      BY <1>6, <2>2
    <3>3. StayMay(mm.mgs, T, o, U)
      BY <1>1, <1>9, <3>1 DEF StayMay
    <3> QED
      BY <1>1, <3>2, <3>3, SameGroups
  <2> QED
    BY <2>1, <2>2
<1>13. StrsOK(nn.strs, U, d)
  <2>1. U[o].comms = T[o].comms /\ U[o].tid = T[o].tid
    BY <1>8, <1>9
  <2> QED
    BY <1>1, <1>3, <1>6, <1>9, <2>1, SameStrs
<1>14. LastOK(nn)
  <2>1. \A p \in Obj : U[p].linked <=> T[p].linked
    BY <1>8, <1>9
  <2> QED
    BY <1>1, <1>6, <2>1 DEF LastOK, U
<1>15. MachineType(nn)
  BY <1>1, <1>6, <1>9, <1>12 DEF MachineType, U
<1> HIDE DEF F, w
<1>16. MachineOK(nn, F, w, d, h, {w})
  BY <1>11, <1>12, <1>13, <1>14, <1>15 DEF MachineOK, U
<1> QED
  BY <1>16 DEF nn, F, w

\* A reference to the string i is dropped; the last makes it the one that is
\* being erased.
LEMMA DecStr ==
  ASSUME NEW S \in [Obj -> Str], StrsForm(S, NULL), NEW i \in Obj, S[i].refcnt > 0
  PROVE  LET Z == comm_str__dec(S, i)
             e == IF S[i].refcnt = 1 THEN i ELSE NULL
         IN  /\ Z \in [Obj -> Str] /\ StrsForm(Z, e)
             /\ Z[i].refcnt = S[i].refcnt - 1
             /\ \A j \in Obj : j # i => Z[j] = S[j]
<1> DEFINE Z == comm_str__dec(S, i)
           e == IF S[i].refcnt = 1 THEN i ELSE NULL
           r == [S[i] EXCEPT !.refcnt = @ - 1]
           n == S[i].refcnt
<1>1. S[i] \in Str /\ n \in Nat /\ n > 0
  BY DEF Str
<1>2. Z = [S EXCEPT ![i] = r]
  BY DEF comm_str__dec
<1>3. n - 1 \in Nat /\ (n = 1 <=> n - 1 = 0) /\ (n - 1 > 0 <=> n # 1)
  <2> HIDE DEF n
  <2> QED
    BY <1>1, SMTT(60)
<1>4. r \in Str /\ r.refcnt = n - 1 /\ r.name = S[i].name
  BY <1>1, <1>3 DEF Str
<1> HIDE DEF Z, r
<1>5. Z \in [Obj -> Str] /\ Z[i] = r /\ \A j \in Obj : j # i => Z[j] = S[j]
  BY <1>2, <1>4
<1>6. /\ IsFiniteSet(Linked(S))
      /\ \A j \in Obj : /\ S[j].refcnt = 0 => S[j] = NoStr \/ j = NULL
                        /\ S[j].refcnt > 0 => S[j].name # 0
      /\ \A j, k \in Obj :
           S[j].refcnt > 0 /\ S[k].refcnt > 0 /\ S[j].name = S[k].name => j = k
  BY DEF StrsForm
<1>7. NoStr.name = 0 /\ NoStr.refcnt = 0
  BY DEF NoStr
<1>8. IsFiniteSet(Linked(Z))
  <2>1. n # 0
    BY <1>1, SMTT(60)
  <2>2. S[i] # NoStr
    BY <1>7, <2>1
  <2>3. Linked(Z) \subseteq Linked(S)
    BY <1>5, <2>2 DEF Linked
  <2> QED
    BY <1>6, <2>3, FS_Subset
<1>9. S[i].name # 0 /\ r # NoStr /\ (n = 1 <=> i = e)
  BY <1>1, <1>4, <1>6, <1>7, Null
<1> DEFINE Ok(j) == /\ Z[j].refcnt = 0 => Z[j] = NoStr \/ j = e
                    /\ Z[j].refcnt > 0 => S[j].refcnt > 0 /\ Z[j].name # 0
                    /\ j = e => Z[j].refcnt = 0 /\ Z[j] # NoStr
                    /\ Z[j].name = S[j].name
<1>10. ASSUME NEW j \in Obj PROVE Ok(j)
  <2>1. CASE j = i
    BY <1>1, <1>3, <1>4, <1>5, <1>9, <2>1
  <2>2. CASE j # i
    <3>1. j # NULL /\ j # e /\ Z[j] = S[j]
      BY <1>5, <2>2, Null
    <3> QED
      BY <1>6, <3>1
  <2> QED
    BY <2>1, <2>2
<1>11. e \in Obj \cup {NULL}
  OBVIOUS
<1> HIDE DEF e
<1>12. StrsForm(Z, e)
  BY <1>6, <1>8, <1>10, <1>11 DEF StrsForm
<1> QED
  BY <1>4, <1>5, <1>12 DEF Z, e

\* comm__free of the first name of the thread that is being deleted.
LEMMA FreeCommOK ==
  ASSUME NEW mm, NEW E, NEW v, NEW h, MachineOK(mm, E, v, NULL, h, {v}), v # NULL,
         mm.threads[v].comms # <<>>
  PROVE  LET i == Head(mm.threads[v].comms)
             e == IF mm.strs[i].refcnt = 1 THEN i ELSE NULL
         IN  MachineOK([mm EXCEPT !.strs = comm_str__dec(@, i),
                                  !.threads[v].comms = Tail(@)], E, v, e, h, {v})
<1> DEFINE T == mm.threads
           S == mm.strs
           c == T[v].comms
           i == Head(c)
           e == IF S[i].refcnt = 1 THEN i ELSE NULL
           nn == [mm EXCEPT !.strs = comm_str__dec(@, i), !.threads[v].comms = Tail(@)]
           u == [T[v] EXCEPT !.comms = Tail(@)]
           U == nn.threads
           Z == nn.strs
<1>1. /\ T \in [Obj -> Thread] /\ mm.mgs \in [Obj -> MapGroup] /\ S \in [Obj -> Str]
      /\ ThreadsOK(T, E, v, h, {v}) /\ GroupsOK(mm.mgs, T) /\ StrsOK(S, T, NULL)
      /\ mm.last_match \in Obj \cup {NULL} /\ LastOK(mm) /\ h \in [Obj -> Nat]
      /\ DOMAIN mm = {"threads", "mgs", "strs", "last_match"}
      /\ v \in UsedIn(T) /\ v \in Obj /\ T[v].tid # NULL /\ E \subseteq Obj
      /\ IsFiniteSet(UsedIn(T)) /\ T[v].refcnt = 0
  BY DEF MachineOK, MachineType, ThreadsOK, UsedIn
<1>2. ThreadForm(T, E, v, h, {v}, v)
  BY <1>1, FormOK
<1>3. /\ DOMAIN nn = {"threads", "mgs", "strs", "last_match"}
      /\ U = [T EXCEPT ![v] = u] /\ nn.mgs = mm.mgs /\ nn.last_match = mm.last_match
      /\ Z = comm_str__dec(S, i)
  BY <1>1
<1>4. T[v] \in Thread /\ c \in Seq(Obj) /\ c # <<>>
  BY <1>1 DEF Thread
<1> HIDE DEF c
<1>5. /\ i \in Obj /\ Tail(c) \in Seq(Obj) /\ i = c[1]
      /\ \A j : /\ i = j => Cardinality(Places(c, j)) = Cardinality(Places(Tail(c), j)) + 1
                /\ i # j => Cardinality(Places(c, j)) = Cardinality(Places(Tail(c), j))
  BY <1>4, PlacesTail
<1> HIDE DEF nn, U, Z, i
<1>6. /\ u \in Thread /\ u.comms = Tail(c) /\ u.tid = T[v].tid /\ u.pid = T[v].pid
      /\ u.mg = T[v].mg /\ u.linked = T[v].linked /\ u.refcnt = T[v].refcnt
  BY <1>4, <1>5 DEF Thread, c
<1> HIDE DEF u
<1>7. U \in [Obj -> Thread] /\ U[v] = u /\ \A p \in Obj : p # v => U[p] = T[p]
  BY <1>1, <1>3, <1>6
<1>8. ThreadsOK(U, E, v, h, {v})
  <2>1. /\ u.refcnt = Bit(u.linked) + Bit(v \in E) + h[v]
        /\ u.mg = NULL <=> v \in {v}
        /\ u.linked => \A p \in Obj : p # v /\ T[p].linked => T[p].tid # u.tid
        /\ u.mg # NULL =>
             \A p \in UsedIn(T) : p # v /\ T[p].mg = u.mg =>
               u.pid # Unknown /\ T[p].pid # Unknown
    BY <1>2, <1>6 DEF ThreadForm
  <2>2. u.tid # NULL /\ (u.refcnt = 0 <=> v = v)
    BY <1>1, <1>6
  <2>3. ThreadMay(T, E, v, h, {v}, v, u, E, v, h, {v})
    BY <1>1, <1>6, <2>1, <2>2 DEF ThreadMay
  <2> HIDE DEF T
  <2> QED
    BY <1>3, <2>3, ThreadStep
<1>9. GroupsOK(nn.mgs, U) /\ nn.mgs \in [Obj -> MapGroup]
  <2>1. \A x \in Obj : Refs(U, v, x) = Refs(T, v, x)
    BY <1>1, <1>6, <1>7 DEF Refs, Members, UsedIn
  <2>2. StayMay(mm.mgs, T, v, U)
    BY <1>1, <1>7, <2>1 DEF StayMay
  <2> QED
    BY <1>1, <1>3, <2>2, SameGroups
<1>10. StrsOK(Z, U, e) /\ Z \in [Obj -> Str]
  <2>1. StrsForm(S, NULL)
    BY <1>1 DEF StrsOK
  <2> HIDE DEF T, S
  <2>2. \A j \in Obj : Cardinality(Places(c, j)) <= S[j].refcnt
    <3>1. ASSUME NEW j \in Obj PROVE Cardinality(Places(c, j)) <= S[j].refcnt
      <4>1. IsFiniteSet(UsersIn(T, j)) /\ S[j].refcnt = Cardinality(UsersIn(T, j))
        BY <1>1 DEF StrsOK
      <4>2. U[v].tid # NULL
        BY <1>1, <1>6, <1>7
      <4>3. Cardinality(Places(T[v].comms, j)) <= Cardinality(UsersIn(T, j))
        BY <1>1, <1>7, <4>1, <4>2, UsersStep
      <4> QED
        BY <4>1, <4>3 DEF c
    <3> QED
      BY <3>1
  <2>3. \A j : Cardinality(Places(c, j)) \in Nat /\ Cardinality(Places(Tail(c), j)) \in Nat
    BY <1>4, <1>5, PlacesFinite
  <2>4. \A j \in Obj : S[j].refcnt \in Nat
    BY <1>1 DEF Str
  <2>5. S[i].refcnt > 0
    <3> DEFINE a == Cardinality(Places(Tail(c), i))
               b == S[i].refcnt
    <3>1. a \in Nat /\ b \in Nat /\ a + 1 <= b
      BY <1>5, <2>2, <2>3, <2>4
    <3> HIDE DEF a, b
    <3>2. b > 0
      BY <3>1, SMTT(60)
    <3> QED
      BY <3>2 DEF b
  <2>6. /\ Z \in [Obj -> Str] /\ StrsForm(Z, e) /\ Z[i].refcnt = S[i].refcnt - 1
        /\ \A j \in Obj : j # i => Z[j] = S[j]
    BY <1>1, <1>3, <1>5, <2>1, <2>5, DecStr
  <2>7. ASSUME NEW j \in Obj
        PROVE  Z[j].refcnt + Cardinality(Places(c, j))
                 = S[j].refcnt + Cardinality(Places(Tail(c), j))
    <3>1. CASE j = i
      <4> DEFINE a == Cardinality(Places(Tail(c), i))
                 b == S[i].refcnt
      <4>1. a \in Nat /\ b \in Nat /\ Cardinality(Places(c, i)) = a + 1 /\ Z[i].refcnt = b - 1
        BY <1>5, <2>3, <2>4, <2>6
      <4> HIDE DEF a, b
      <4>2. (b - 1) + (a + 1) = b + a
        BY <4>1, SMTT(60)
      <4> QED
        BY <3>1, <4>1, <4>2 DEF a, b
    <3>2. CASE j # i
      BY <1>5, <2>6, <3>2
    <3> QED
      BY <3>1, <3>2
  <2>8. U[v].comms = Tail(c) /\ T[v].comms = c /\ U[v].tid # NULL
    BY <1>1, <1>6, <1>7 DEF c
  <2> HIDE DEF e
  <2>9. StrMay(S, T, NULL, v, U, Z, e)
    BY <1>1, <1>7, <2>6, <2>7, <2>8 DEF StrMay
  <2> QED
    BY <2>6, <2>9, StrStep
<1>11. LastOK(nn)
  <2>1. \A p \in Obj : U[p].linked <=> T[p].linked
    BY <1>6, <1>7
  <2> QED
    BY <1>1, <1>3, <2>1 DEF LastOK, U
<1>12. MachineType(nn)
  BY <1>1, <1>3, <1>7, <1>9, <1>10 DEF MachineType, U, Z
<1> HIDE DEF e
<1>13. MachineOK(nn, E, v, e, h, {v})
  BY <1>8, <1>9, <1>10, <1>11, <1>12 DEF MachineOK, U, Z
<1> QED
  BY <1>13 DEF nn, e, i, c

\* comm_str__put of the display thread erases the string.
LEMMA EraseOK ==
  ASSUME NEW mm, NEW E, NEW v, NEW d, NEW h, NEW X, MachineOK(mm, E, v, d, h, X), d # NULL
  PROVE  MachineOK([mm EXCEPT !.strs = comm_str__erase(@, d)], E, v, NULL, h, X)
<1> DEFINE T == mm.threads
           S == mm.strs
           nn == [mm EXCEPT !.strs = comm_str__erase(@, d)]
           Z == nn.strs
<1>1. /\ S \in [Obj -> Str] /\ StrsOK(S, T, d) /\ StrsForm(S, d) /\ MachineType(mm)
      /\ DOMAIN mm = {"threads", "mgs", "strs", "last_match"}
  BY DEF MachineOK, MachineType, StrsOK
<1>2. /\ DOMAIN nn = DOMAIN mm /\ Z = [S EXCEPT ![d] = NoStr] /\ nn.threads = T
      /\ nn.mgs = mm.mgs /\ nn.last_match = mm.last_match
  BY <1>1 DEF comm_str__erase
<1>3. NoStr \in Str /\ NoStr.refcnt = 0 /\ ~(0 > 0)
  BY SMTT(60) DEF NoStr, Str
<1>4. /\ d \in Obj /\ IsFiniteSet(Linked(S)) /\ S[d].refcnt = 0
      /\ \A i \in Obj : /\ S[i].refcnt = 0 => S[i] = NoStr \/ i = d
                        /\ S[i].refcnt > 0 => S[i].name # 0
      /\ \A i, j \in Obj :
           S[i].refcnt > 0 /\ S[j].refcnt > 0 /\ S[i].name = S[j].name => i = j
  BY <1>1 DEF StrsForm
<1> HIDE DEF nn, Z
<1>5. Z \in [Obj -> Str] /\ Z[d] = NoStr /\ \A i \in Obj : i # d => Z[i] = S[i]
  BY <1>1, <1>2, <1>3, <1>4
<1>6. Linked(Z) \subseteq Linked(S)
  BY <1>1, <1>5 DEF Linked
<1>7. IsFiniteSet(Linked(Z))
  BY <1>4, <1>6, FS_Subset
<1>8. \A i \in Obj : i # NULL /\ Z[i].refcnt = S[i].refcnt
  BY <1>3, <1>4, <1>5, Null
<1>9. \A i \in Obj : /\ Z[i].refcnt = 0 => Z[i] = NoStr
                     /\ Z[i].refcnt > 0 => i # d /\ Z[i] = S[i]
  BY <1>3, <1>4, <1>5
<1>10. StrsForm(Z, NULL)
  BY <1>4, <1>7, <1>8, <1>9 DEF StrsForm
<1>11. StrsOK(Z, T, NULL)
  BY <1>1, <1>8, <1>10 DEF StrsOK
<1>12. MachineType(nn)
  BY <1>1, <1>2, <1>5 DEF MachineType, Z
<1>13. LastOK(nn)
  BY <1>2 DEF LastOK, MachineOK
<1> QED
  BY <1>2, <1>11, <1>12, <1>13 DEF MachineOK, nn, Z

\* The end of thread__delete.
LEMMA FreeThreadOK ==
  ASSUME NEW mm, NEW E, NEW v, NEW d, NEW h, MachineOK(mm, E, v, d, h, {v}), v # NULL,
         mm.threads[v].comms = <<>>
  PROVE  MachineOK([mm EXCEPT !.threads[v] = NoThread], E, NULL, d, h, {NULL})
<1> DEFINE T == mm.threads
           nn == [mm EXCEPT !.threads[v] = NoThread]
           U == nn.threads
<1>1. /\ T \in [Obj -> Thread] /\ mm.mgs \in [Obj -> MapGroup] /\ mm.strs \in [Obj -> Str]
      /\ ThreadsOK(T, E, v, h, {v}) /\ GroupsOK(mm.mgs, T) /\ StrsOK(mm.strs, T, d)
      /\ mm.last_match \in Obj \cup {NULL} /\ LastOK(mm) /\ h \in [Obj -> Nat]
      /\ DOMAIN mm = {"threads", "mgs", "strs", "last_match"}
      /\ v \in UsedIn(T) /\ v \in Obj /\ T[v].tid # NULL /\ E \subseteq Obj
      /\ IsFiniteSet(UsedIn(T)) /\ T[v].refcnt = 0 /\ T[v].mg = NULL
  BY DEF MachineOK, MachineType, ThreadsOK, UsedIn
<1>2. /\ DOMAIN nn = {"threads", "mgs", "strs", "last_match"}
      /\ U = [T EXCEPT ![v] = NoThread] /\ nn.mgs = mm.mgs /\ nn.strs = mm.strs
      /\ nn.last_match = mm.last_match
  BY <1>1
<1>3. /\ NoThread \in Thread /\ NoThread.tid = NULL /\ NoThread.comms = <<>>
      /\ NoThread.linked = FALSE /\ NoThread.refcnt = 0
  BY SMTT(60) DEF NoThread, Thread, Unknown, NULL
<1> HIDE DEF nn, U
<1>4. U \in [Obj -> Thread] /\ U[v] = NoThread /\ \A p \in Obj : p # v => U[p] = T[p]
  BY <1>1, <1>2, <1>3
<1>5. ~T[v].linked /\ 0 = Bit(FALSE) + Bit(v \in E) + h[v]
  <2> DEFINE b == T[v].linked
             c == v \in E
             n == h[v]
  <2>1. 0 = Bit(b) + Bit(c) + n /\ n \in Nat
    BY <1>1 DEF ThreadsOK
  <2> HIDE DEF b, c, n
  <2>2. ~b /\ 0 = Bit(FALSE) + Bit(c) + n
    BY <2>1, SMTT(60) DEF Bit
  <2> QED
    BY <2>2 DEF b, c, n
<1>6. ThreadsOK(U, E, NULL, h, {NULL})
  <2>1. \A p \in Obj : p # v => (p = NULL <=> p = v) /\ (p \in {NULL} <=> p \in {v})
    BY Null
  <2>2. NULL # v /\ v \notin {NULL} /\ NULL \in Obj \cup {NULL}
    OBVIOUS
  <2>3. ThreadMay(T, E, v, h, {v}, v, NoThread, E, NULL, h, {NULL})
    BY <1>1, <1>3, <1>5, <2>1, <2>2 DEF ThreadMay
  <2> HIDE DEF T
  <2> QED
    BY <1>2, <2>3, ThreadStep
<1>7. GroupsOK(nn.mgs, U)
  <2>1. \A x \in Obj : Refs(U, v, x) = 0 /\ Refs(T, v, x) = 0
    BY <1>1, <1>3, <1>4, Null DEF Refs, Members, UsedIn
  <2>2. StayMay(mm.mgs, T, v, U)
    BY <1>1, <1>4, <2>1 DEF StayMay
  <2> QED
    BY <1>2, <2>2, SameGroups
<1>8. StrsOK(nn.strs, U, d)
  <2>1. U[v].comms = T[v].comms /\ U[v].comms = <<>>
    BY <1>3, <1>4
  <2> QED
    BY <1>1, <1>2, <1>4, <2>1, SameStrs
<1>9. LastOK(nn)
  BY <1>1, <1>2, <1>4, <1>5 DEF LastOK, U
<1>10. MachineType(nn)
  BY <1>1, <1>2, <1>4 DEF MachineType, U
<1>11. MachineOK(nn, E, NULL, d, h, {NULL})
  BY <1>6, <1>7, <1>8, <1>9, <1>10 DEF MachineOK, U
<1> QED
  BY <1>11 DEF nn

-----------------------------------------------------------------------------
(* The machine: the inductive invariant and the theorems.                  *)

\* Between events the process thread has no references.
NoRefs == [o \in Obj |-> 0]

\* Every count is the number of references there are; the thread that is being
\* deleted has none left and no map group, the string that is being erased has
\* none left; a thread whose process is not known shares its map group with no
\* other, so it can leave it when the pid comes.
MachineInv ==
  /\ MachineOK(m, entries, victim, dying, NoRefs, {victim})
  /\ kpid \in [Tid -> Tid \cup {NULL}]

\* Nothing is in use at the start.
LEMMA MachineStart == MachineInit => MachineInv
<1> SUFFICES ASSUME MachineInit PROVE MachineInv
  OBVIOUS
<1> DEFINE T == [o \in Obj |-> NoThread]
           G == [g \in Obj |-> NoGroup]
           S == [i \in Obj |-> NoStr]
<1>1. /\ m = [threads |-> T, mgs |-> G, strs |-> S, last_match |-> NULL]
      /\ entries = {} /\ victim = NULL /\ dying = NULL
      /\ kpid = [t \in Tid |-> IF t \in DOMAIN Initial THEN Initial[t] ELSE NULL]
  BY DEF MachineInit
<1>2. m.threads = T /\ m.mgs = G /\ m.strs = S /\ m.last_match = NULL
  BY <1>1
<1>3. kpid \in [Tid -> Tid \cup {NULL}]
  BY <1>1, MachineAssumption
<1>4. /\ NoThread \in Thread /\ NoThread.tid = NULL /\ NoThread.comms = <<>>
      /\ NoThread.linked = FALSE /\ NoThread.refcnt = 0
  BY SMTT(60) DEF NoThread, Thread, Unknown, NULL
<1>5. NoGroup \in MapGroup /\ NoGroup.refcnt = 0 /\ NoGroup.maps = {}
  BY SMTT(60) DEF NoGroup, MapGroup
<1>6. NoStr \in Str /\ NoStr.refcnt = 0 /\ NoStr.name = 0 /\ ~(0 > 0)
  BY SMTT(60) DEF NoStr, Str
<1>7. T \in [Obj -> Thread] /\ G \in [Obj -> MapGroup] /\ S \in [Obj -> Str]
  BY <1>4, <1>5, <1>6
<1>8. MachineType(m) /\ LastOK(m)
  BY <1>1, <1>2, <1>7 DEF MachineType, LastOK
<1>9. UsedIn(T) = {} /\ IsFiniteSet({}) /\ Cardinality({}) = 0
  BY <1>4, FS_EmptySet DEF UsedIn
<1>10. ThreadsOK(T, {}, NULL, NoRefs, {NULL})
  <2>1. 0 = Bit(FALSE) + Bit(FALSE) + 0 /\ NoRefs \in [Obj -> Nat]
    BY SMTT(60) DEF Bit, NoRefs
  <2>2. \A o \in Obj : T[o] = NoThread /\ NoRefs[o] = 0 /\ Bit(o \in {}) = Bit(FALSE)
    BY DEF NoRefs, Bit
  <2>3. \A o \in Obj : T[o].refcnt = Bit(T[o].linked) + Bit(o \in {}) + NoRefs[o]
    BY <1>4, <2>1, <2>2
  <2> QED
    BY <1>9, <2>1, <2>2, <2>3, Null DEF ThreadsOK
<1>11. GroupsOK(G, T)
  <2>1. \A g : Members(T, g) = {}
    BY <1>9 DEF Members
  <2>2. GroupForm(NoGroup)
    BY <1>5 DEF GroupForm, Disjoint
  <2> QED
    BY <1>5, <1>9, <2>1, <2>2 DEF GroupsOK
<1>12. StrsOK(S, T, NULL)
  <2>1. \A i : UsersIn(T, i) = {}
    BY <1>9 DEF UsersIn
  <2>2. Linked(S) = {}
    BY DEF Linked
  <2>3. StrsForm(S, NULL)
    BY <1>6, <1>9, <2>2, Null DEF StrsForm
  <2> QED
    BY <1>6, <1>9, <2>1, <2>3 DEF StrsOK
<1> QED
  BY <1>1, <1>2, <1>3, <1>8, <1>10, <1>11, <1>12 DEF MachineInv, MachineOK

\* Every step keeps the counts, the display thread's steps and those of the process
\* thread in any order.
LEMMA MachineStep ==
  ASSUME MemoryLasts, MachineInv, [MachineNext]_machine_vars
  PROVE  MachineInv'
<1> DEFINE Ok(mm) == MachineOK(mm, entries, victim, dying, NoRefs, {victim})
<1>0. /\ MachineOK(m, entries, victim, dying, NoRefs, {victim})
      /\ kpid \in [Tid -> Tid \cup {NULL}] /\ NoRefs \in [Obj -> Nat]
  BY DEF MachineInv, MachineOK, ThreadsOK
<1>1. ASSUME NEW t \in Tid, Runs(t) PROVE kpid[t] \in Tid
  BY <1>0, <1>1 DEF Runs
<1>2. ASSUME NEW mm, Handle(mm), Ok(mm), Reported, kpid' \in [Tid -> Tid \cup {NULL}]
      PROVE  MachineInv'
  BY <1>0, <1>2 DEF Handle, Reported, display_refs, MachineInv, NoRefs
<1>3. ASSUME NEW t \in Tid, NEW pid \in Tid, NEW parent \in Tid, NEW clone \in BOOLEAN,
             Fork(t, pid, parent, clone)
      PROVE  MachineInv'
  <2> DEFINE mm == fork_event(pid, t, kpid[parent], parent, clone)
  <2>1. /\ Reported /\ Runs(parent) /\ ~Runs(t) /\ kpid[parent] # t
        /\ pid = kpid[parent] \/ pid = t
        /\ kpid' = [kpid EXCEPT ![t] = pid] /\ Handle(mm)
    BY <1>3 DEF Fork
  <2>2. t # parent /\ kpid[parent] \in Tid /\ kpid' \in [Tid -> Tid \cup {NULL}]
    BY <1>0, <1>1, <2>1
  <2>3. Ok(mm)
    BY <1>0, <2>1, <2>2, ForkEventOK
  <2> HIDE DEF mm
  <2> QED
    BY <1>2, <2>1, <2>2, <2>3
<1>4. ASSUME NEW t \in Tid, Exit(t) PROVE MachineInv'
  <2> DEFINE mm == exit_event(kpid[t], t)
  <2>1. /\ Reported /\ Runs(t) /\ kpid' = [kpid EXCEPT ![t] = NULL] /\ Handle(mm)
    BY <1>4 DEF Exit
  <2>2. kpid[t] \in Tid /\ kpid' \in [Tid -> Tid \cup {NULL}]
    BY <1>0, <1>1, <2>1
  <2>3. Ok(mm)
    BY <1>0, <2>2, ExitEventOK
  <2> HIDE DEF mm
  <2> QED
    BY <1>2, <2>1, <2>2, <2>3
<1>5. ASSUME NEW t \in Tid, NEW name \in CommName, SetName(t, name) PROVE MachineInv'
  <2> DEFINE mm == comm_event(kpid[t], t, name)
  <2>1. Reported /\ Runs(t) /\ kpid' = kpid /\ Handle(mm)
    BY <1>5 DEF SetName
  <2>2. Ok(mm)
    BY <1>0, <1>1, <2>1, CommEventOK
  <2> HIDE DEF mm
  <2> QED
    BY <1>0, <1>2, <2>1, <2>2
<1>6. ASSUME NEW t \in Tid, NEW map \in MmapEvent, Mmap(t, map) PROVE MachineInv'
  <2> DEFINE mm == mmap2_event(kpid[t], t, map)
  <2>1. Reported /\ Runs(t) /\ kpid' = kpid /\ Handle(mm)
    BY <1>6 DEF Mmap
  <2>2. Ok(mm)
    BY <1>0, <1>1, <2>1, MmapEventOK
  <2> HIDE DEF mm
  <2> QED
    BY <1>0, <1>2, <2>1, <2>2
<1>7. ASSUME NEW t \in Tid, Sample(t) PROVE MachineInv'
  <2> DEFINE f == findnew_thread(m, kpid[t], t)
  <2>1. /\ Runs(t) /\ m' = IF f.o \in entries THEN thread__put(f.m, f.o) ELSE f.m
        /\ entries' = entries \cup {f.o}
        /\ victim' = victim /\ dying' = dying /\ kpid' = kpid
    BY <1>7 DEF Sample, kernel
  <2>2. Found(m, entries, victim, dying, NoRefs, f, kpid[t], t)
    BY <1>0, <1>1, <2>1, FindnewThreadOK
  <2> HIDE DEF f
  <2>3. /\ f.o \in Obj /\ f.m.threads[f.o].linked
        /\ MachineOK(f.m, entries, victim, dying, Hold(NoRefs, f.o), {victim})
    BY <2>2 DEF Found, Follows
  <2>4. MachineOK(m', entries \cup {f.o}, victim, dying, NoRefs, {victim})
    <3>1. CASE f.o \in entries
      <4>1. Ok(PutFound(f))
        BY <1>0, <2>3, PutFoundOK
      <4>2. m' = PutFound(f) /\ entries \cup {f.o} = entries
        BY <2>1, <3>1 DEF PutFound
      <4> QED
        BY <4>1, <4>2
    <3>2. CASE f.o \notin entries
      <4>1. MachineOK(f.m, entries \cup {f.o}, victim, dying, NoRefs, {victim})
        BY <1>0, <2>3, <3>2, EntryOK
      <4> QED
        BY <2>1, <3>2, <4>1
    <3> QED
      BY <3>1, <3>2
  <2> QED
    BY <1>0, <2>1, <2>4 DEF MachineInv, NoRefs
<1>8. ASSUME NEW t \in Tid, PidUnknown(t) PROVE MachineInv'
  <2> DEFINE f == findnew_thread(m, Unknown, t)
  <2>1. Reported /\ m' = PutFound(f) /\ kpid' = kpid
    BY <1>8 DEF PidUnknown, kernel
  <2>2. Found(m, entries, victim, dying, NoRefs, f, Unknown, t)
    BY <1>0, FindnewThreadOK
  <2> HIDE DEF f
  <2>3. /\ f.o \in Obj /\ f.m.threads[f.o].linked
        /\ MachineOK(f.m, entries, victim, dying, Hold(NoRefs, f.o), {victim})
    BY <2>2 DEF Found, Follows
  <2>4. Ok(PutFound(f))
    BY <1>0, <2>3, PutFoundOK
  <2>5. Handle(PutFound(f))
    BY <2>1 DEF Handle
  <2> QED
    BY <1>0, <1>2, <2>1, <2>4, <2>5
<1>9. ASSUME NEW o \in Obj, DropEntry(o) PROVE MachineInv'
  <2> DEFINE last == m.threads[o].refcnt = 1
             w == IF last THEN o ELSE NULL
             nn == [m EXCEPT !.threads[o].refcnt = @ - 1,
                             !.threads[o].mg = IF last THEN NULL ELSE @,
                             !.mgs = IF last THEN map_groups__put(@, m.threads[o].mg)
                                     ELSE @]
  <2>1. /\ victim = NULL /\ o \in entries /\ entries' = entries \ {o} /\ victim' = w
        /\ m' = nn /\ dying' = dying /\ kpid' = kpid
    BY <1>9 DEF DropEntry, kernel
  <2>2. MachineOK(m, entries, NULL, dying, NoRefs, {NULL})
    BY <1>0, <2>1
  <2>3. MachineOK(nn, entries \ {o}, w, dying, NoRefs, {w})
    BY <2>1, <2>2, DropOK
  <2> HIDE DEF nn, w
  <2> QED
    BY <1>0, <2>1, <2>3 DEF MachineInv, NoRefs
<1>10. ASSUME FreeComm PROVE MachineInv'
  <2> DEFINE i == Head(m.threads[victim].comms)
             e == IF m.strs[i].refcnt = 1 THEN i ELSE NULL
             nn == [m EXCEPT !.strs = comm_str__dec(@, i),
                             !.threads[victim].comms = Tail(@)]
  <2>1. /\ victim # NULL /\ dying = NULL /\ m.threads[victim].comms # <<>>
        /\ m' = nn /\ dying' = e /\ entries' = entries /\ victim' = victim /\ kpid' = kpid
    BY <1>10 DEF FreeComm, kernel
  <2>2. MachineOK(m, entries, victim, NULL, NoRefs, {victim})
    BY <1>0, <2>1
  <2>3. MachineOK(nn, entries, victim, e, NoRefs, {victim})
    BY <2>1, <2>2, FreeCommOK
  <2> HIDE DEF nn, e
  <2> QED
    BY <1>0, <2>1, <2>3 DEF MachineInv, NoRefs
<1>11. ASSUME EraseStr PROVE MachineInv'
  <2> DEFINE nn == [m EXCEPT !.strs = comm_str__erase(@, dying)]
  <2>1. /\ dying # NULL /\ m' = nn /\ dying' = NULL
        /\ entries' = entries /\ victim' = victim /\ kpid' = kpid
    BY <1>11 DEF EraseStr, kernel
  <2>2. MachineOK(nn, entries, victim, NULL, NoRefs, {victim})
    BY <1>0, <2>1, EraseOK
  <2> HIDE DEF nn
  <2> QED
    BY <1>0, <2>1, <2>2 DEF MachineInv, NoRefs
<1>12. ASSUME FreeThread PROVE MachineInv'
  <2> DEFINE nn == [m EXCEPT !.threads[victim] = NoThread]
  <2>1. /\ victim # NULL /\ m.threads[victim].comms = <<>> /\ m' = nn /\ victim' = NULL
        /\ entries' = entries /\ dying' = dying /\ kpid' = kpid
    BY <1>12 DEF FreeThread, kernel
  <2>2. MachineOK(nn, entries, NULL, dying, NoRefs, {NULL})
    BY <1>0, <2>1, FreeThreadOK
  <2> HIDE DEF nn
  <2> QED
    BY <1>0, <2>1, <2>2 DEF MachineInv, NoRefs
<1>13. CASE UNCHANGED machine_vars
  BY <1>0, <1>13 DEF machine_vars, display_refs, kernel, MachineInv, NoRefs
<1> QED
  BY <1>3, <1>4, <1>5, <1>6, <1>7, <1>8, <1>9, <1>10, <1>11, <1>12, <1>13 DEF MachineNext

\* The objects in use.
LEMMA UsedOK == ASSUME MachineInv PROVE Used = UsedIn(m.threads)
<1>1. NoThread.tid = NULL
  BY DEF NoThread
<1>2. \A o \in Obj : m.threads[o].tid = NULL => m.threads[o] = NoThread
  BY DEF MachineInv, MachineOK, ThreadsOK
<1> QED
  BY <1>1, <1>2 DEF Used, UsedIn

\* The counts of the inductive invariant are those that the property compares.
LEMMA RefsExact == MachineInv => ThreadRefs
<1> SUFFICES ASSUME MachineInv PROVE ThreadRefs
  OBVIOUS
<1> DEFINE T == m.threads
<1>1. /\ T \in [Obj -> Thread] /\ ThreadsOK(T, entries, victim, NoRefs, {victim})
      /\ GroupsOK(m.mgs, T) /\ LastOK(m)
      /\ MachineOK(m, entries, victim, dying, NoRefs, {victim})
  BY DEF MachineInv, MachineOK, MachineType
<1>2. Used = UsedIn(T)
  BY UsedOK
<1>3. \A o \in Obj : Counted(T, entries, NoRefs, o) => o \in UsedIn(T)
  BY <1>1, CountedIsUsed
<1>4. ASSUME NEW o \in Used
      PROVE  /\ T[o].refcnt = Bit(T[o].linked) + Bit(o \in entries)
             /\ o = victim <=> T[o].refcnt = 0
             /\ T[o].linked => InTree(m, T[o].tid) = {o}
  <2>1. /\ o \in Obj /\ o \in UsedIn(T) /\ (T[o].refcnt = 0 <=> o = victim)
        /\ T[o].refcnt = Bit(T[o].linked) + Bit(o \in entries) + 0
    BY <1>1, <1>2 DEF ThreadsOK, UsedIn, NoRefs
  <2>2. Bit(T[o].linked) + Bit(o \in entries) + 0 = Bit(T[o].linked) + Bit(o \in entries)
    <3> DEFINE a == T[o].linked
               b == o \in entries
    <3> HIDE DEF a, b
    <3>1. Bit(a) + Bit(b) + 0 = Bit(a) + Bit(b)
      BY SMTT(60) DEF Bit
    <3> QED
      BY <3>1 DEF a, b
  <2>3. ASSUME T[o].linked PROVE InTree(m, T[o].tid) = {o}
    <3>1. ASSUME NEW p \in InTree(m, T[o].tid) PROVE p = o
      <4>1. p \in Obj /\ T[p].linked /\ T[p].tid = T[o].tid
        BY DEF InTree
      <4>2. p \in UsedIn(T)
        BY <1>3, <4>1 DEF Counted
      <4> QED
        BY <1>1, <2>1, <2>3, <4>1, <4>2 DEF ThreadsOK
    <3>2. o \in InTree(m, T[o].tid)
      BY <2>1, <2>3 DEF InTree
    <3> QED
      BY <3>1, <3>2
  <2> QED
    BY <2>1, <2>2, <2>3
<1>5. entries \subseteq Used /\ victim \in Used \cup {NULL}
  <2>1. entries \subseteq Obj /\ (victim # NULL => victim \in UsedIn(T))
    BY <1>1 DEF ThreadsOK
  <2> QED
    BY <1>2, <1>3, <2>1 DEF Counted
<1>6. m.last_match # NULL => T[m.last_match].linked
  BY <1>1 DEF LastOK
<1>7. \A g \in Obj : m.mgs[g].refcnt = Cardinality({o \in Used : T[o].mg = g})
  BY <1>1, <1>2 DEF GroupsOK, Members
<1> QED
  BY <1>4, <1>5, <1>6, <1>7 DEF ThreadRefs

\* The names of the inductive invariant are those that the property compares.
LEMMA NamesExact == MachineInv => CommStrs
<1> SUFFICES ASSUME MachineInv PROVE CommStrs
  OBVIOUS
<1> DEFINE T == m.threads
           S == m.strs
<1>1. S \in [Obj -> Str] /\ StrsOK(S, T, dying) /\ StrsForm(S, dying)
  BY DEF MachineInv, MachineOK, MachineType, StrsOK
<1>2. Used = UsedIn(T)
  BY UsedOK
<1>3. \A i \in Obj : S[i].refcnt = Cardinality(Users(i))
  BY <1>1, <1>2 DEF StrsOK, Users, UsersIn
<1>4. \A i \in Linked(S) : i \in Obj /\ (S[i].refcnt = 0 => i = dying)
  BY <1>1 DEF Linked, StrsForm
<1>5. \A i \in Obj : S[i].refcnt # 0 => S[i].refcnt > 0
  <2>1. \A i \in Obj : S[i].refcnt \in Nat
    BY <1>1 DEF Str
  <2>2. \A n \in Nat : n # 0 => n > 0
    BY SMTT(60)
  <2> QED
    BY <2>1, <2>2
<1>6. ASSUME NEW i \in Linked(S), NEW j \in Linked(S), S[i].name = S[j].name, i # j
      PROVE  dying \in {i, j}
  <2>1. ~(S[i].refcnt > 0 /\ S[j].refcnt > 0)
    BY <1>1, <1>4, <1>6 DEF StrsForm
  <2> QED
    BY <1>4, <1>5, <2>1
<1> QED
  BY <1>3, <1>4, <1>6 DEF CommStrs

\* The inductive invariant has the maps of every group disjoint.
LEMMA MapsApart == MachineInv => MapsDisjoint
BY DEF MachineInv, MachineOK, GroupsOK, GroupForm, MapsDisjoint

\* Every step of the events' handlers and of the display thread keeps the invariant.
LEMMA MachineInvariant == MemoryLasts => (MachineSpec => []MachineInv)
<1> SUFFICES ASSUME MemoryLasts PROVE MachineSpec => []MachineInv
  OBVIOUS
<1>1. MachineInv /\ [MachineNext]_machine_vars => MachineInv'
  BY MachineStep
<1> QED
  BY <1>1, MachineStart, PTL DEF MachineSpec

\* For any threads, names, maps and events, in any order and whichever of them are
\* lost, and with the display thread's steps in between: as long as allocations
\* succeed the reference counts of threads and map groups are exact (thread__get,
\* thread__put, map_groups__get, map_groups__put).
THEOREM ThreadRefsHold == MemoryLasts => (MachineSpec => []ThreadRefs)
<1> SUFFICES ASSUME MemoryLasts PROVE MachineSpec => []ThreadRefs
  OBVIOUS
<1>1. MachineSpec => []MachineInv
  BY MachineInvariant
<1> QED
  BY <1>1, RefsExact, PTL

\* In the same generality a name lives as long as a thread has it and no longer,
\* and only the one that the display thread is erasing may have a second copy
\* (comm_str__put, comm_str__findnew).
THEOREM CommStrsHold == MemoryLasts => (MachineSpec => []CommStrs)
<1> SUFFICES ASSUME MemoryLasts PROVE MachineSpec => []CommStrs
  OBVIOUS
<1>1. MachineSpec => []MachineInv
  BY MachineInvariant
<1> QED
  BY <1>1, NamesExact, PTL

\* In the same generality the maps of a group never overlap: a map is inserted with
\* map_groups__fixup_overlappings, and map_groups__clone fills an empty group only.
THEOREM MapsDisjointHold == MemoryLasts => (MachineSpec => []MapsDisjoint)
<1> SUFFICES ASSUME MemoryLasts PROVE MachineSpec => []MapsDisjoint
  OBVIOUS
<1>1. MachineSpec => []MachineInv
  BY MachineInvariant
<1> QED
  BY <1>1, MapsApart, PTL

=============================================================================
