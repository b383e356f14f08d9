------------------------------ MODULE Machine ------------------------------
(***************************************************************************)
(* The threads of a machine (util/machine.c, util/thread.c): objects that  *)
(* are counted, found by tid, share the maps of their process and have a   *)
(* list of names.  The events of the kernel create, replace and change     *)
(* them.  This is perf top: while the process thread handles events, the   *)
(* display thread drops the references its histogram entries have.         *)
(*                                                                         *)
(* An event is handled in one step: the display thread only puts           *)
(* references.  Its own steps are apart, down to the two halves of         *)
(* comm_str__put.  After start-up perf_singlethreaded holds in perf top:   *)
(* lookups use last_match, and down_write does nothing.  An erase from the *)
(* tree of names that overlaps a search of it is a data race, and what     *)
(* follows one is not in the model.                                        *)
(*                                                                         *)
(* Allocations succeed, and take the lowest free address, so that what was *)
(* freed is used again at once.  All tids are in one bucket of the table   *)
(* of threads.  The dead_threads list, ppid, cpu, namespaces and the       *)
(* unwinder are not modelled.                                              *)
(*                                                                         *)
(* The operators take and return m = [threads, mgs, strs, last_match].     *)
(***************************************************************************)
EXTENDS Comm, MapGroups, Sequences, FiniteSets

CONSTANTS
  Tid,            \* positive numbers; pids are tids of leaders
  CommName,       \* numbers other than tids: names of COMM events
  Initial,        \* the threads that run when perf starts, tid to pid
  MmapEvent,      \* maps of MMAP2 events
  Addr,           \* addresses
  Obj,            \* bound: addresses of the objects of a kind
  MaxEvents       \* bound: events

ASSUME MachineAssumption ==
  /\ Tid \subseteq Nat \ {0} /\ CommName \subseteq Int \ {0}
  /\ Tid \cap CommName = {} /\ Obj \subseteq Nat \ {0} /\ MaxEvents \in Nat
  /\ DOMAIN Initial \subseteq Tid /\ \A t \in DOMAIN Initial : Initial[t] \in Tid
  /\ \A map \in MmapEvent : /\ map \in [start : Int, end : Int, pgoff : Int, dso : Int]
                             /\ map.start < map.end

VARIABLES
  m,              \* the machine
  entries,        \* objects that a histogram entry refers to
  victim, dying,  \* the object the display thread deletes, the string it erases
  lossy,          \* events may be lost
  events,         \* events so far
  kpid,           \* the pid of each thread that exists, 0 for the others
  kname,          \* its name as far as events told, 0 if they did not
  kmaps           \* the last MMAP2 event for each address of a process

kernel == <<kpid, kname, kmaps>>
display_refs == <<entries, victim, dying>>
machine_vars == <<m, display_refs, lossy, events, kernel>>

NULL == 0
Unknown == -1     \* the pid of a thread whose process is not known

NoThread == [tid |-> NULL, pid |-> Unknown, mg |-> NULL, comms |-> <<>>,
             comm_set |-> FALSE, refcnt |-> 0, linked |-> FALSE]
NoGroup == [maps |-> {}, refcnt |-> 0]
NoMap == [dso |-> NULL, offset |-> 0]

MachineInit ==
  /\ m = [threads |-> [o \in Obj |-> NoThread], mgs |-> [g \in Obj |-> NoGroup],
          strs |-> [i \in Obj |-> NoStr], last_match |-> NULL]
  /\ entries = {} /\ victim = NULL /\ dying = NULL
  /\ lossy \in BOOLEAN /\ events = 0
  /\ kpid = [t \in Tid |-> IF t \in DOMAIN Initial THEN Initial[t] ELSE NULL]
  /\ kname = [t \in Tid |-> 0]
  /\ kmaps = [p \in Tid |-> [a \in Addr |-> NoMap]]

-----------------------------------------------------------------------------
(* Map groups and references.                                              *)

map_groups__put(mgs, g) ==
  IF mgs[g].refcnt = 1 THEN [mgs EXCEPT ![g] = NoGroup]
  ELSE [mgs EXCEPT ![g].refcnt = @ - 1]

map_groups__get(mgs, g) == [mgs EXCEPT ![g].refcnt = @ + 1]

thread__get(mm, o) == [mm EXCEPT !.threads[o].refcnt = @ + 1]

\* The names in a list that are the string i.
Places(comms, i) == {k \in DOMAIN comms : comms[k] = i}

\* All names of a deleted thread: comm_str__put for each.
comms__free(strs, comms) ==
  [i \in DOMAIN strs |->
     LET n == Cardinality(Places(comms, i))
     IN  IF n = 0 THEN strs[i]
         ELSE IF strs[i].refcnt = n THEN NoStr ELSE [strs[i] EXCEPT !.refcnt = @ - n]]

thread__delete(mm, o) ==
  [mm EXCEPT !.threads[o] = NoThread,
             !.mgs = map_groups__put(@, mm.threads[o].mg),
             !.strs = comms__free(@, mm.threads[o].comms)]

thread__put(mm, o) ==
  IF mm.threads[o].refcnt = 1 THEN thread__delete(mm, o)
  ELSE [mm EXCEPT !.threads[o].refcnt = @ - 1]

-----------------------------------------------------------------------------
(* Looking up a thread: the result is [m, o], with a reference to o.       *)

InTree(mm, tid) == {o \in Obj : mm.threads[o].linked /\ mm.threads[o].tid = tid}

Cached(mm, tid) ==
  mm.last_match # NULL /\ mm.threads[mm.last_match].tid = tid

\* The object that the cache or the tree has for tid.
Lookup(mm, tid) ==
  IF Cached(mm, tid) THEN mm.last_match
  ELSE IF InTree(mm, tid) # {} THEN Min(InTree(mm, tid)) ELSE NULL

FreeObj(mm) == Min({o \in Obj : mm.threads[o] = NoThread})
FreeGroup(mm) == Min({g \in Obj : mm.mgs[g] = NoGroup})

\* A new thread with the map group g, in the tree and returned.
Create(mm, o, pid, tid, g) ==
  [mm EXCEPT !.threads[o] = [tid |-> tid, pid |-> pid, mg |-> g,
                             comms |-> <<StrOf(mm.strs, tid)>>,
                             comm_set |-> FALSE, refcnt |-> 2, linked |-> TRUE],
             !.strs = comm_str__findnew(@, tid),
             !.last_match = o]

CreateOwn(mm, o, pid, tid, g) ==
  [m |-> [Create(mm, o, pid, tid, g) EXCEPT !.mgs = map_groups__get(@, g)], o |-> o]

FindOwn(mm, o, pid) ==
  [m |-> [mm EXCEPT !.threads[o].refcnt = @ + 1, !.last_match = o,
                    !.threads[o].pid = IF @ = Unknown THEN pid ELSE @],
   o |-> o]

\* The thread of a leader, or of a process that is not known: it has its own
\* map group.
FindnewOwn(mm, pid, tid) ==
  IF Lookup(mm, tid) # NULL THEN FindOwn(mm, Lookup(mm, tid), pid)
  ELSE CreateOwn(mm, FreeObj(mm), pid, tid, FreeGroup(mm))

\* The maps of o are those of the leader from now on.
ShareMaps(mm, o, leader) ==
  [mm EXCEPT !.mgs = map_groups__get(map_groups__put(@, mm.threads[o].mg),
                                     mm.threads[leader].mg),
             !.threads[o].mg = mm.threads[leader].mg]

\* Mutant: the reference to the leader is kept.
JoinLeaderHeld(l, o) == ShareMaps(l.m, o, l.o)

\* The leader l was found for o, with a reference; it is not dropped if they
\* share their maps already.
JoinLeader(l, o) ==
  IF l.m.threads[o].mg = l.m.threads[l.o].mg THEN l.m
  ELSE thread__put(ShareMaps(l.m, o, l.o), l.o)

update_thread_pid(mm, o, pid) ==
  IF pid = Unknown \/ mm.threads[o].pid # Unknown THEN mm
  ELSE IF pid = mm.threads[o].tid THEN [mm EXCEPT !.threads[o].pid = pid]
  ELSE JoinLeader(FindnewOwn([mm EXCEPT !.threads[o].pid = pid], pid, pid), o)

FindThread(mm, o, pid) ==
  IF o = NULL THEN [m |-> [mm EXCEPT !.last_match = NULL], o |-> NULL]
  ELSE [m |-> thread__get(update_thread_pid([mm EXCEPT !.last_match = o], o, pid), o),
        o |-> o]

find_thread(mm, pid, tid) == FindThread(mm, Lookup(mm, tid), pid)

\* The new thread o shares the maps of its leader l.
JoinNew(l, o) ==
  [m |-> thread__put([l.m EXCEPT !.threads[o].mg = l.m.threads[l.o].mg,
                                 !.mgs = map_groups__get(@, l.m.threads[l.o].mg),
                                 !.last_match = o], l.o),
   o |-> o]

\* A thread that is no leader is linked first, then its leader is found or
\* created.
CreateMember(mm, o, pid, tid) ==
  JoinNew(FindnewOwn(Create(mm, o, pid, tid, NULL), pid, pid), o)

findnew_thread(mm, pid, tid) ==
  IF Lookup(mm, tid) # NULL THEN find_thread(mm, pid, tid)
  ELSE IF pid \in {tid, Unknown} THEN FindnewOwn(mm, pid, tid)
  ELSE CreateMember(mm, FreeObj(mm), pid, tid)

remove_thread(mm, o) ==
  thread__put([mm EXCEPT !.threads[o].linked = FALSE,
                         !.last_match = IF @ = o THEN NULL ELSE @], o)

-----------------------------------------------------------------------------
(* The handlers.                                                           *)

\* The reference of a lookup is dropped.
PutFound(f) == thread__put(f.m, f.o)

\* The string i is counted already.  The first name replaces the default one,
\* later ones come before it.
SetComm(mm, o, i) ==
  IF mm.threads[o].comm_set THEN [mm EXCEPT !.threads[o].comms = <<i>> \o @]
  ELSE [mm EXCEPT !.strs = comm_str__put(@, mm.threads[o].comms[1]),
                  !.threads[o].comms[1] = i, !.threads[o].comm_set = TRUE]

set_comm(mm, o, name) ==
  SetComm([mm EXCEPT !.strs = comm_str__findnew(@, name)], o, StrOf(mm.strs, name))

comm_event(pid, tid, name) ==
  LET Named(f) == [f EXCEPT !.m = set_comm(@, f.o, name)]
  IN  PutFound(Named(findnew_thread(m, pid, tid)))

mmap2_event(pid, tid, map) ==
  LET Mapped(f) ==
        [f EXCEPT !.m.mgs[f.m.threads[f.o].mg].maps = insert_map(@, map)]
  IN  PutFound(Mapped(findnew_thread(m, pid, tid)))

\* The exited thread stays, marked.
exit_event(pid, tid) ==
  LET Exited(f) == IF f.o = NULL THEN f.m ELSE PutFound(f)
  IN  Exited(find_thread(m, pid, tid))

\* A new process gets copies of the maps of its parent.
clone_map_groups(mm, o, parent, do_maps_clone) ==
  IF \/ mm.threads[o].pid = mm.threads[parent].pid
     \/ mm.threads[o].mg = mm.threads[parent].mg \/ ~do_maps_clone
  THEN mm
  ELSE [mm EXCEPT !.mgs[mm.threads[o].mg].maps =
                    @ \cup mm.mgs[mm.threads[parent].mg].maps]

\* A child gets the name of its parent first.
thread__fork(mm, o, parent, do_maps_clone) ==
  clone_map_groups(IF mm.threads[parent].comm_set
                   THEN set_comm(mm, o, mm.strs[mm.threads[parent].comms[1]].name)
                   ELSE mm,
                   o, parent, do_maps_clone)

Replace(mm, o) == thread__put(remove_thread(mm, o), o)

\* Both were found: the end of the handler.
ForkFound(child, parent, do_maps_clone) ==
  thread__put(thread__put(thread__fork(child.m, child.o, parent, do_maps_clone),
                          child.o), parent)

\* A parent that was found with another pid than the event says is replaced.
ForkParent(f, ppid, ptid) ==
  IF f.m.threads[f.o].pid # ppid THEN findnew_thread(Replace(f.m, f.o), ppid, ptid)
  ELSE f

\* Mutant: an old thread of the tid is taken for the child.
fork_event_reuse(pid, tid, ppid, ptid, do_maps_clone) ==
  LET Child(parent) ==
        ForkFound(findnew_thread(parent.m, pid, tid), parent.o, do_maps_clone)
  IN  Child(findnew_thread(m, ppid, ptid))

\* So is an old thread of the child's tid.
fork_event(pid, tid, ppid, ptid, do_maps_clone) ==
  LET Child(parent, old) ==
        ForkFound(findnew_thread(IF old = NULL THEN parent.m
                                 ELSE Replace(parent.m, old), pid, tid),
                  parent.o, do_maps_clone)
      Parent(old) ==
        Child(ForkParent(findnew_thread(old.m, ppid, ptid), ppid, ptid), old.o)
  IN  Parent(find_thread(m, pid, tid))

-----------------------------------------------------------------------------
(* Events.  What happens in the kernel is reported, or the report is lost. *)

Reported == events < MaxEvents /\ events' = events + 1 /\ UNCHANGED <<display_refs, lossy>>

Handle(mm) == m' = mm \/ (lossy /\ UNCHANGED m)

Runs(t) == kpid[t] # NULL

\* A thread of the same process, or a new process that is its own leader.
\* FORK events made up for a process that runs already come without its maps.
Fork(t, pid, parent, do_maps_clone) ==
  /\ Reported /\ Runs(parent) /\ ~Runs(t) /\ \A u \in Tid : kpid[u] # t
  /\ pid \in {kpid[parent], t}
  /\ kpid' = [kpid EXCEPT ![t] = pid]
  /\ kname' = [kname EXCEPT ![t] = kname[parent]]
  /\ kmaps' = IF pid = kpid[parent] THEN kmaps
              ELSE [kmaps EXCEPT ![pid] =
                      IF do_maps_clone THEN kmaps[kpid[parent]]
                      ELSE [a \in Addr |-> NoMap]]
  /\ Handle(fork_event(pid, t, kpid[parent], parent, do_maps_clone))

Exit(t) ==
  /\ Reported /\ Runs(t)
  /\ kpid' = [kpid EXCEPT ![t] = NULL]
  /\ kname' = [kname EXCEPT ![t] = 0]
  /\ kmaps' = IF \E u \in Tid \ {t} : kpid[u] = kpid[t] THEN kmaps
              ELSE [kmaps EXCEPT ![kpid[t]] = [a \in Addr |-> NoMap]]
  /\ Handle(exit_event(kpid[t], t))

SetName(t, name) ==
  /\ Reported /\ Runs(t)
  /\ kname' = [kname EXCEPT ![t] = name]
  /\ Handle(comm_event(kpid[t], t, name))
  /\ UNCHANGED <<kpid, kmaps>>

Mmap(t, map) ==
  /\ Reported /\ Runs(t)
  /\ kmaps' = [kmaps EXCEPT ![kpid[t]] =
                 [a \in Addr |-> IF Contains(map, a)
                                 THEN [dso |-> map.dso,
                                       offset |-> map__map_ip(map, a)]
                                 ELSE @[a]]]
  /\ Handle(mmap2_event(kpid[t], t, map))
  /\ UNCHANGED <<kpid, kname>>

\* A sample of t makes a histogram entry that keeps a reference.
Sample(t) ==
  /\ Runs(t) /\ events < MaxEvents /\ events' = events + 1
  /\ LET f == findnew_thread(m, kpid[t], t)
     IN  /\ m' = IF f.o \in entries THEN thread__put(f.m, f.o) ELSE f.m
         /\ entries' = entries \cup {f.o}
  /\ UNCHANGED <<victim, dying, lossy, kernel>>

\* A lookup that knows no pid: perf sched, which has no display thread, looks up
\* the threads of a switch like this.
PidUnknown(t) ==
  /\ Reported /\ Runs(t)
  /\ m' = PutFound(findnew_thread(m, Unknown, t))
  /\ UNCHANGED kernel

-----------------------------------------------------------------------------
(* The display thread deletes entries.                                     *)

DropEntry(o) ==
  /\ victim = NULL /\ o \in entries /\ entries' = entries \ {o}
  /\ LET last == m.threads[o].refcnt = 1
     IN  /\ victim' = IF last THEN o ELSE NULL
         /\ m' = [m EXCEPT !.threads[o].refcnt = @ - 1,
                           !.threads[o].mg = IF last THEN NULL ELSE @,
                           !.mgs = IF last THEN map_groups__put(@, m.threads[o].mg)
                                   ELSE @]
  /\ UNCHANGED <<dying, lossy, events, kernel>>

\* comm__free of the first name of the deleted thread.
FreeComm ==
  /\ victim # NULL /\ dying = NULL /\ m.threads[victim].comms # <<>>
  /\ LET i == Head(m.threads[victim].comms)
     IN  /\ m' = [m EXCEPT !.strs = comm_str__dec(@, i),
                           !.threads[victim].comms = Tail(@)]
         /\ dying' = IF m.strs[i].refcnt = 1 THEN i ELSE NULL
  /\ UNCHANGED <<entries, victim, lossy, events, kernel>>

EraseStr ==
  /\ dying # NULL
  /\ m' = [m EXCEPT !.strs = comm_str__erase(@, dying)] /\ dying' = NULL
  /\ UNCHANGED <<entries, victim, lossy, events, kernel>>

FreeThread ==
  /\ victim # NULL /\ dying = NULL /\ m.threads[victim].comms = <<>>
  /\ m' = [m EXCEPT !.threads[victim] = NoThread] /\ victim' = NULL
  /\ UNCHANGED <<entries, dying, lossy, events, kernel>>

MachineNext ==
  \/ \E t, pid, parent \in Tid, clone \in BOOLEAN : Fork(t, pid, parent, clone)
  \/ \E t \in Tid : \/ Exit(t) \/ Sample(t) \/ PidUnknown(t)
                    \/ \E name \in CommName : SetName(t, name)
                    \/ \E map \in MmapEvent : Mmap(t, map)
  \/ \E o \in Obj : DropEntry(o)
  \/ FreeComm \/ EraseStr \/ FreeThread

MachineSpec == MachineInit /\ [][MachineNext]_machine_vars

-----------------------------------------------------------------------------
(* Properties.                                                             *)

Used == {o \in Obj : m.threads[o] # NoThread}

Bit(b) == IF b THEN 1 ELSE 0

\* Through all replacements, late pids and deletions the counts of threads and
\* map groups are exact, so nothing in use is freed and nothing leaks; there
\* is one thread per tid in the tree, and the one cached there is in it.
ThreadRefs ==
  /\ \A o \in Used : LET th == m.threads[o]
                     IN  /\ th.refcnt = Bit(th.linked) + Bit(o \in entries)
                         /\ o = victim <=> th.refcnt = 0
                         /\ th.linked => InTree(m, th.tid) = {o}
  /\ entries \subseteq Used /\ victim \in Used \cup {NULL}
  /\ m.last_match # NULL => m.threads[m.last_match].linked
  /\ \A g \in Obj :
       m.mgs[g].refcnt = Cardinality({o \in Used : m.threads[o].mg = g})

Users(i) == UNION {{o} \X Places(m.threads[o].comms, i) : o \in Used}

\* A name is kept as long as a thread has it and no longer, although the
\* display thread drops its last reference and erases it in two steps between
\* which the process thread looks for it; and there is one copy in use.
CommStrs ==
  /\ \A i \in Obj : m.strs[i].refcnt = Cardinality(Users(i))
  /\ \A i \in Linked(m.strs) : m.strs[i].refcnt = 0 => i = dying
  /\ \A i, j \in Linked(m.strs) :
       m.strs[i].name = m.strs[j].name /\ i # j => dying \in {i, j}

\* The maps of a group never overlap, in whatever order events come and
\* whichever are lost: the tree can be searched.
MapsDisjoint == \A g \in Obj : Disjoint(m.mgs[g].maps)

\* The thread in the tree for a thread that runs, when its pid is known.
Known == {o \in Used : m.threads[o].linked /\ m.threads[o].pid # Unknown
                       /\ Runs(m.threads[o].tid)}

\* If no event is lost every thread that runs has its own process and name,
\* also when its tid had another thread before and when its pid came late, and
\* an address is found in the dso that was mapped there last.
ThreadsFaithful ==
  ~lossy => \A o \in Known :
    LET th == m.threads[o]
        name == m.strs[Head(th.comms)].name
    IN  /\ th.pid = kpid[th.tid]
        /\ name = IF kname[th.tid] = 0 THEN th.tid ELSE kname[th.tid]
        /\ \A a \in Addr :
             {p.dso : p \in maps__find(m.mgs[th.mg].maps, a)}
               = {kmaps[th.pid][a].dso} \ {NULL}

\* map.h says of map_ip "ip -> dso rip": an address is also found at the place
\* of the dso that was mapped there.
OffsetsFaithful ==
  ~lossy => \A o \in Known : \A a \in Addr :
    \A p \in maps__find(m.mgs[m.threads[o].mg].maps, a) :
      map__map_ip(p, a) = kmaps[m.threads[o].pid][a].offset
=============================================================================
