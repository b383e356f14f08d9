------------------------- MODULE SchedReplayProofs -------------------------
(***************************************************************************)
(* perf sched replay keeps the order of the trace and the repetitions      *)
(* apart, for every trace, any number of tasks and of repetitions.         *)
(***************************************************************************)
EXTENDS SchedReplay, TLAPS

\* The provers: Zenon unless a step names the SMT solver.
USE ZenonT(60)

-----------------------------------------------------------------------------
(* The trace: which sleep each wakeup posts.                               *)

AtomType == {"RUN", "SLEEP", "WAKEUP"}

Atom == AtomType \X ({None} \cup (Pid \X Nat))

\* The atom number n of the task t is a.
At(tr, t, n, a) == t \in Pid /\ n \in DOMAIN tr.atoms[t] /\ tr.atoms[t][n] = a

IsTrace(tr) == DOMAIN tr = {"tasks", "atoms", "value"}

TraceType(tr) ==
  /\ IsTrace(tr)
  /\ tr.tasks \in Seq(Pid)
  /\ tr.atoms \in [Pid -> Seq(Atom)]
  /\ tr.value \in [DOMAIN tr.value -> {0, 1}]

\* A semaphore belongs to one sleep, whose name it is, and to one wakeup.
Linked(tr) ==
  /\ \A t, n, s : At(tr, t, n, <<"SLEEP", s>>) /\ s # None =>
                    s = <<t, n>> /\ s \in DOMAIN tr.value
  /\ \A t, n, s : At(tr, t, n, <<"WAKEUP", s>>) /\ s # None =>
                    s \in DOMAIN tr.value
  /\ \A s \in DOMAIN tr.value :
       \E t, u \in Pid, n, m \in Nat : /\ s = <<t, n>> /\ At(tr, t, n, <<"SLEEP", s>>)
                                       /\ At(tr, u, m, <<"WAKEUP", s>>)
  /\ \A t, u, n, m, s : /\ At(tr, t, n, <<"WAKEUP", s>>) /\ At(tr, u, m, <<"WAKEUP", s>>)
                        /\ s # None
                        => t = u /\ n = m

TraceOK(tr) == TraceType(tr) /\ Linked(tr)

\* The registered tasks have atoms, and no others.
Started(tr) == \A t \in Pid : t \in Range(tr.tasks) <=> tr.atoms[t] # <<>>

\* The atom a was added to t.
Adds(r, tr, t, a) == /\ r.atoms[t] = Append(tr.atoms[t], a)
                     /\ \A x \in Pid \ {t} : r.atoms[x] = tr.atoms[x]

\* Only t was given atoms.
Extended(r, tr, t) == \A x \in Pid : r.atoms[x] # <<>> <=> tr.atoms[x] # <<>> \/ x = t

\* Nothing was posted.
Zero(tr) == \A s \in DOMAIN tr.value : tr.value[s] = 0

\* One atom more at the end of a task.
LEMMA SeqAppend ==
  ASSUME NEW s \in Seq(Atom), NEW e \in Atom
  PROVE  /\ Append(s, e) \in Seq(Atom) /\ Append(s, e) # <<>>
         /\ Len(Append(s, e)) \in DOMAIN Append(s, e)
         /\ DOMAIN Append(s, e) = DOMAIN s \cup {Len(s) + 1}
         /\ \A n \in DOMAIN s : Append(s, e)[n] = s[n]
         /\ Append(s, e)[Len(s) + 1] = e /\ Append(s, e)[Len(Append(s, e))] = e
BY SMTT(60)

\* An atom without a semaphore is added at the end of a task.
LEMMA AddAtomOK ==
  ASSUME NEW tr, TraceOK(tr), NEW t \in Pid, NEW type \in AtomType
  PROVE  /\ TraceOK(AddAtom(tr, t, type, None))
         /\ AddAtom(tr, t, type, None).tasks = tr.tasks
         /\ AddAtom(tr, t, type, None).value = tr.value
         /\ Adds(AddAtom(tr, t, type, None), tr, t, <<type, None>>)
         /\ Extended(AddAtom(tr, t, type, None), tr, t)
<1> DEFINE a == <<type, None>>
           r == AddAtom(tr, t, type, None)
<1>1. /\ r.tasks = tr.tasks /\ r.value = tr.value /\ IsTrace(r)
      /\ r.atoms = [tr.atoms EXCEPT ![t] = Append(@, a)]
  BY DEF AddAtom, TraceOK, TraceType, IsTrace
<1> HIDE DEF r
<1>2. a \in Atom /\ tr.atoms[t] \in Seq(Atom)
  BY DEF Atom, AtomType, TraceOK, TraceType
<1>3. /\ Append(tr.atoms[t], a) \in Seq(Atom) /\ Append(tr.atoms[t], a) # <<>>
      /\ DOMAIN Append(tr.atoms[t], a) = DOMAIN tr.atoms[t] \cup {Len(tr.atoms[t]) + 1}
      /\ \A n \in DOMAIN tr.atoms[t] : Append(tr.atoms[t], a)[n] = tr.atoms[t][n]
      /\ Append(tr.atoms[t], a)[Len(tr.atoms[t]) + 1] = a
  <2> HIDE DEF a
  <2> QED
    BY <1>2, SeqAppend
<1>4. TraceType(r) /\ Extended(r, tr, t)
  BY <1>1, <1>3 DEF TraceOK, TraceType, Extended
<1>5. \A x, n, b : At(tr, x, n, b) => At(r, x, n, b)
  BY <1>1, <1>3 DEF At, TraceOK, TraceType
<1>6. \A x, n, b : At(r, x, n, b) => At(tr, x, n, b) \/ b = a
  BY <1>1, <1>3 DEF At, TraceOK, TraceType
<1>7. ASSUME NEW x, NEW n, NEW k, NEW s, At(r, x, n, <<k, s>>), s # None
      PROVE  At(tr, x, n, <<k, s>>)
  BY <1>6, <1>7
<1> HIDE DEF a
<1>8. Linked(r)
  BY <1>1, <1>5, <1>7, SMTT(60) DEF Linked, TraceOK
<1> QED
  BY <1>1, <1>4, <1>8 DEF TraceOK, TraceType, a, r, Adds

\* A wakeup finds the sleep its wakee is in, or posts nothing.
LEMMA WakeupOK ==
  ASSUME NEW tr, TraceOK(tr), NEW t \in Pid, NEW wakee \in Pid,
         tr.atoms[wakee] # <<>>
  PROVE  LET r == add_sched_event_wakeup(tr, t, wakee)
         IN  /\ TraceOK(r) /\ r.tasks = tr.tasks
             /\ Extended(r, tr, t)
             /\ Zero(tr) => Zero(r)
<1> DEFINE added == AddAtom(tr, t, "WAKEUP", None)
           last == Len(added.atoms[wakee])
           s == <<wakee, last>>
           r == add_sched_event_wakeup(tr, t, wakee)
<1>1. /\ TraceOK(added) /\ added.tasks = tr.tasks /\ added.value = tr.value
      /\ Adds(added, tr, t, <<"WAKEUP", None>>) /\ Extended(added, tr, t)
  <2>1. "WAKEUP" \in AtomType
    BY DEF AtomType
  <2> QED
    BY <2>1, AddAtomOK
<1>2. CASE added.atoms[wakee][last] # <<"SLEEP", None>>
  <2>1. r = added
    BY <1>2 DEF add_sched_event_wakeup
  <2> QED
    BY <1>1, <2>1 DEF Zero
<1>3. CASE added.atoms[wakee][last] = <<"SLEEP", None>>
  <2> DEFINE own == Len(added.atoms[t])
  <2>1. /\ tr.atoms[t] \in Seq(Atom) /\ <<"WAKEUP", None>> \in Atom
        /\ tr.atoms[wakee] \in Seq(Atom)
    BY DEF TraceOK, TraceType, Atom, AtomType
  <2>2. /\ added.atoms \in [Pid -> Seq(Atom)]
        /\ added.atoms[t] = Append(tr.atoms[t], <<"WAKEUP", None>>)
        /\ own \in DOMAIN added.atoms[t] /\ added.atoms[t][own] = <<"WAKEUP", None>>
    <3>1. added.atoms[t] = Append(tr.atoms[t], <<"WAKEUP", None>>)
      BY <1>1 DEF Adds
    <3>2. added.atoms \in [Pid -> Seq(Atom)]
      BY <1>1 DEF TraceOK, TraceType
    <3> DEFINE w == <<"WAKEUP", None>>
    <3>3. w \in Atom /\ added.atoms[t] = Append(tr.atoms[t], w)
      BY <2>1, <3>1
    <3>4. own \in DOMAIN added.atoms[t] /\ added.atoms[t][own] = w
      <4> HIDE DEF w
      <4>1. /\ Len(Append(tr.atoms[t], w)) \in DOMAIN Append(tr.atoms[t], w)
            /\ Append(tr.atoms[t], w)[Len(Append(tr.atoms[t], w))] = w
        BY <2>1, <3>3, SeqAppend
      <4> QED
        BY <3>3, <4>1
    <3> QED
      BY <3>1, <3>2, <3>4
  <2>3. wakee # t
    BY <1>3, <2>2, SMTT(60)
  <2>4. last \in DOMAIN added.atoms[wakee]
    BY <1>1, <2>1, <2>3, SMTT(60) DEF TraceOK, TraceType, Adds
  <2>5. s # None /\ s \in Pid \X Nat /\ <<"SLEEP", s>> \in Atom /\ <<"WAKEUP", s>> \in Atom
    BY <2>1, <2>2, <2>4, SMTT(60) DEF None, Atom, AtomType
  <2>6. /\ r.tasks = added.tasks /\ IsTrace(r)
        /\ r.value = sem_init(added.value, s)
        /\ r.atoms = [added.atoms EXCEPT ![wakee] = [@ EXCEPT ![last] = <<"SLEEP", s>>],
                                         ![t] = [@ EXCEPT ![own] = <<"WAKEUP", s>>]]
    <3>1. DOMAIN added = {"tasks", "atoms", "value"}
      BY <1>1 DEF TraceOK, TraceType, IsTrace
    <3> HIDE DEF added, last, own, s
    <3>2. r = [added EXCEPT !.atoms[wakee][last] = <<"SLEEP", s>>,
                            !.atoms[t][own] = <<"WAKEUP", s>>,
                            !.value = sem_init(@, s)]
      BY <1>3 DEF add_sched_event_wakeup, added, last, own, s
    <3> QED
      BY <3>1, <3>2, <2>2, <2>3 DEF IsTrace
  <2> HIDE DEF added, last, own, s, r
  <2>71. /\ r.atoms[wakee] = [added.atoms[wakee] EXCEPT ![last] = <<"SLEEP", s>>]
         /\ r.atoms[t] = [added.atoms[t] EXCEPT ![own] = <<"WAKEUP", s>>]
         /\ \A x \in Pid : x \notin {t, wakee} => r.atoms[x] = added.atoms[x]
         /\ r.atoms = [x \in Pid |-> r.atoms[x]]
    BY <2>2, <2>3, <2>6
  <2>72. /\ added.atoms[wakee] \in Seq(Atom) /\ last \in 1..Len(added.atoms[wakee])
         /\ added.atoms[t] \in Seq(Atom) /\ own \in 1..Len(added.atoms[t])
    <3>1. added.atoms[wakee] \in Seq(Atom) /\ added.atoms[t] \in Seq(Atom)
      BY <2>2
    <3>2. /\ DOMAIN added.atoms[wakee] = 1..Len(added.atoms[wakee])
          /\ DOMAIN added.atoms[t] = 1..Len(added.atoms[t])
      BY <3>1, SMTT(60)
    <3> QED
      BY <2>2, <2>4, <3>1, <3>2
  <2>73. /\ r.atoms[wakee] \in Seq(Atom)
         /\ DOMAIN r.atoms[wakee] = DOMAIN added.atoms[wakee]
         /\ \A n \in DOMAIN added.atoms[wakee] :
              r.atoms[wakee][n] = IF n = last THEN <<"SLEEP", s>> ELSE added.atoms[wakee][n]
    BY <2>5, <2>71, <2>72, SMTT(60)
  <2>74. /\ r.atoms[t] \in Seq(Atom)
         /\ DOMAIN r.atoms[t] = DOMAIN added.atoms[t]
         /\ \A n \in DOMAIN added.atoms[t] :
              r.atoms[t][n] = IF n = own THEN <<"WAKEUP", s>> ELSE added.atoms[t][n]
    BY <2>5, <2>71, <2>72, SMTT(60)
  <2>7. \A x \in Pid : /\ r.atoms[x] \in Seq(Atom)
                       /\ DOMAIN r.atoms[x] = DOMAIN added.atoms[x]
    BY <2>2, <2>71, <2>73, <2>74
  <2>8. At(r, wakee, last, <<"SLEEP", s>>) /\ At(r, t, own, <<"WAKEUP", s>>)
    BY <2>2, <2>3, <2>4, <2>6, SMTT(60) DEF At
  <2>9. ASSUME NEW x, NEW n, NEW b, At(r, x, n, b)
        PROVE  \/ At(added, x, n, b)
               \/ x = wakee /\ n = last /\ b = <<"SLEEP", s>>
               \/ x = t /\ n = own /\ b = <<"WAKEUP", s>>
    BY <2>7, <2>9, <2>71, <2>73, <2>74 DEF At
  <2>10. ASSUME NEW x, NEW n, NEW k, NEW z, At(added, x, n, <<k, z>>), z # None
         PROVE  At(r, x, n, <<k, z>>)
    <3>1. <<k, z>> # <<"SLEEP", None>> /\ <<k, z>> # <<"WAKEUP", None>>
      BY <2>10
    <3>2. ~(x = wakee /\ n = last) /\ ~(x = t /\ n = own)
      BY <1>3, <2>2, <2>10, <3>1 DEF At
    <3> QED
      BY <2>7, <2>10, <2>71, <2>73, <2>74, <3>2 DEF At
  <2>11. s \notin DOMAIN added.value
    <3>1. <<"SLEEP", s>> # <<"SLEEP", None>>
      BY <2>5
    <3>2. ASSUME s \in DOMAIN added.value PROVE FALSE
      <4>1. PICK x \in Pid, n \in Nat : s = <<x, n>> /\ At(added, x, n, <<"SLEEP", s>>)
        BY <1>1, <3>2 DEF TraceOK, Linked
      <4>2. x = wakee /\ n = last
        BY <4>1 DEF s
      <4> QED
        BY <1>3, <3>1, <4>1, <4>2 DEF At
    <3> QED
      BY <3>2
  <2>12. \A x, n : ~At(added, x, n, <<"WAKEUP", s>>)
    BY <1>1, <2>5, <2>11 DEF TraceOK, Linked
  <2>13. /\ DOMAIN r.value = DOMAIN added.value \cup {s}
         /\ r.value \in [DOMAIN r.value -> {0, 1}] /\ (Zero(tr) => Zero(r))
    BY <1>1, <2>6, SMTT(60) DEF sem_init, TraceOK, TraceType, Zero
  <2>14. TraceType(r) /\ Extended(r, tr, t)
    <3>1. r.atoms \in [Pid -> Seq(Atom)]
      BY <2>2, <2>6, <2>7
    <3>2. \A x \in Pid : added.atoms[x] # <<>> <=> r.atoms[x] # <<>>
      BY <2>2, <2>7, SMTT(60)
    <3> QED
      BY <1>1, <2>6, <2>13, <3>1, <3>2 DEF TraceOK, TraceType, Extended
  <2>15. ASSUME NEW x, NEW n, NEW z, At(r, x, n, <<"SLEEP", z>>), z # None
         PROVE  z = <<x, n>> /\ z \in DOMAIN r.value
    BY <1>1, <2>9, <2>13, <2>15, SMTT(60) DEF TraceOK, Linked, s
  <2>16. ASSUME NEW x, NEW n, NEW z, At(r, x, n, <<"WAKEUP", z>>), z # None
         PROVE  z \in DOMAIN r.value
    BY <1>1, <2>9, <2>13, <2>16, SMTT(60) DEF TraceOK, Linked
  <2>17. ASSUME NEW z \in DOMAIN r.value
         PROVE  \E x, u \in Pid, n, m \in Nat :
                   /\ z = <<x, n>> /\ At(r, x, n, <<"SLEEP", z>>)
                   /\ At(r, u, m, <<"WAKEUP", z>>)
    <3>1. CASE z = s
      BY <2>2, <2>4, <2>8, <3>1, SMTT(60) DEF s
    <3>2. CASE z \in DOMAIN added.value
      <4>1. PICK x, u \in Pid, n, m \in Nat :
                   /\ z = <<x, n>> /\ At(added, x, n, <<"SLEEP", z>>)
                   /\ At(added, u, m, <<"WAKEUP", z>>)
        BY <1>1, <3>2 DEF TraceOK, Linked
      <4>2. z # None
        BY <4>1 DEF None
      <4> QED
        BY <2>10, <4>1, <4>2
    <3> QED
      BY <2>13, <3>1, <3>2
  <2>18. ASSUME NEW x, NEW u, NEW n, NEW m, NEW z, z # None,
                At(r, x, n, <<"WAKEUP", z>>), At(r, u, m, <<"WAKEUP", z>>)
         PROVE  x = u /\ n = m
    <3>1. CASE z = s
      <4>1. x = t /\ n = own
        BY <2>9, <2>12, <2>18, <3>1, SMTT(60)
      <4>2. u = t /\ m = own
        BY <2>9, <2>12, <2>18, <3>1, SMTT(60)
      <4> QED
        BY <4>1, <4>2
    <3>2. CASE z # s
      <4>1. At(added, x, n, <<"WAKEUP", z>>) /\ At(added, u, m, <<"WAKEUP", z>>)
        BY <2>9, <2>18, <3>2, SMTT(60)
      <4> QED
        BY <1>1, <2>18, <4>1, SMTT(60) DEF TraceOK, Linked
    <3> QED
      BY <3>1, <3>2
  <2>19. Linked(r)
    BY <2>15, <2>16, <2>17, <2>18, SMTT(60) DEF Linked
  <2> QED
    BY <1>1, <2>6, <2>13, <2>14, <2>19 DEF TraceOK, r
<1> QED
  BY <1>2, <1>3

\* A task is registered once, and begins with a sleep.
LEMMA RegisterOK ==
  ASSUME NEW tr, TraceOK(tr), Started(tr), NEW t \in Pid
  PROVE  LET r == register_pid(tr, t)
         IN  /\ TraceOK(r) /\ Started(r) /\ (Zero(tr) => Zero(r))
             /\ Extended(r, tr, t)
<1>1. CASE t \in Range(tr.tasks)
  BY <1>1 DEF register_pid, Started, Extended
<1>2. CASE t \notin Range(tr.tasks)
  <2> DEFINE listed == [tr EXCEPT !.tasks = Append(@, t)]
             r == AddAtom(listed, t, "SLEEP", None)
  <2>1. /\ listed.tasks = Append(tr.tasks, t) /\ listed.atoms = tr.atoms
        /\ listed.value = tr.value /\ IsTrace(listed)
    BY DEF TraceOK, TraceType, IsTrace
  <2> HIDE DEF listed
  <2>2. TraceOK(listed)
    <3>1. TraceType(listed)
      BY <2>1, SMTT(60) DEF TraceOK, TraceType
    <3>2. \A x, n, a : At(listed, x, n, a) <=> At(tr, x, n, a)
      BY <2>1 DEF At
    <3>3. Linked(listed)
      BY <2>1, <3>2, SMTT(60) DEF TraceOK, Linked
    <3> QED
      BY <3>1, <3>3 DEF TraceOK
  <2>21. r = AddAtom(listed, t, "SLEEP", None) /\ "SLEEP" \in AtomType
    BY DEF AtomType
  <2> HIDE DEF r
  <2>3. /\ TraceOK(r) /\ r.tasks = listed.tasks /\ r.value = listed.value
        /\ Extended(r, listed, t)
    BY <2>2, <2>21, AddAtomOK
  <2>4. Range(Append(tr.tasks, t)) = Range(tr.tasks) \cup {t}
    <3>1. tr.tasks \in Seq(Pid)
      BY DEF TraceOK, TraceType
    <3>2. /\ DOMAIN Append(tr.tasks, t) = DOMAIN tr.tasks \cup {Len(tr.tasks) + 1}
          /\ \A n \in DOMAIN tr.tasks : Append(tr.tasks, t)[n] = tr.tasks[n]
          /\ Append(tr.tasks, t)[Len(tr.tasks) + 1] = t
      BY <3>1, SMTT(60)
    <3> QED
      BY <3>2 DEF Range
  <2>5. register_pid(tr, t) = r
    BY <1>2 DEF register_pid, listed, r
  <2> QED
    BY <2>1, <2>3, <2>4, <2>5 DEF Started, Zero, Extended
<1> QED
  BY <1>1, <1>2

\* What the handlers of the trace's events do.
LEMMA HandlersOK ==
  ASSUME NEW tr, TraceOK(tr), Started(tr), Zero(tr), NEW t \in Pid, NEW u \in Pid
  PROVE  LET both == register_pid(register_pid(tr, t), u)
         IN  \A r \in {both, add_sched_event_wakeup(both, t, u),
                       add_sched_event_sleep(add_sched_event_run(both, t), t)} :
               TraceOK(r) /\ Started(r) /\ Zero(r)
<1> DEFINE one == register_pid(tr, t)
           both == register_pid(one, u)
           ran == add_sched_event_run(both, t)
<1>1. TraceOK(one) /\ Started(one) /\ Zero(one) /\ one.atoms[t] # <<>>
  BY RegisterOK DEF Extended
<1> HIDE DEF one
<1>2. /\ TraceOK(both) /\ Started(both) /\ Zero(both)
      /\ both.atoms[t] # <<>> /\ both.atoms[u] # <<>>
  BY <1>1, RegisterOK DEF Extended
<1> HIDE DEF both
<1>3. ASSUME NEW r, r.tasks = both.tasks,
             Extended(r, both, t)
      PROVE  Started(r)
  BY <1>2, <1>3 DEF Started, Extended
<1>4. LET r == add_sched_event_wakeup(both, t, u)
      IN  TraceOK(r) /\ Started(r) /\ Zero(r)
  BY <1>2, <1>3, WakeupOK
<1>5. /\ TraceOK(ran) /\ ran.tasks = both.tasks /\ Zero(ran)
      /\ \A x \in Pid : ran.atoms[x] # <<>> <=> both.atoms[x] # <<>>
  <2>1. CASE ran = both
    BY <1>2, <2>1
  <2>2. CASE ran = AddAtom(both, t, "RUN", None)
    <3> HIDE DEF ran
    <3>1. TraceOK(both) /\ "RUN" \in AtomType
      BY <1>2 DEF AtomType
    <3>2. /\ TraceOK(ran) /\ ran.tasks = both.tasks /\ ran.value = both.value
          /\ Extended(ran, both, t)
      BY <2>2, <3>1, AddAtomOK
    <3> QED
      BY <1>2, <3>2 DEF Zero, Extended
  <2> QED
    BY <2>1, <2>2 DEF add_sched_event_run
<1> HIDE DEF ran
<1>6. LET r == add_sched_event_sleep(ran, t)
      IN  TraceOK(r) /\ Started(r) /\ Zero(r)
  <2> DEFINE r == add_sched_event_sleep(ran, t)
  <2>0. r = AddAtom(ran, t, "SLEEP", None)
    BY DEF add_sched_event_sleep
  <2> HIDE DEF r
  <2>1. /\ TraceOK(r) /\ r.tasks = ran.tasks /\ r.value = ran.value
        /\ Extended(r, ran, t)
    <3>1. TraceOK(ran) /\ "SLEEP" \in AtomType
      BY <1>5 DEF AtomType
    <3> QED
      BY <2>0, <3>1, AddAtomOK
  <2>2. Started(r) /\ Zero(r)
    BY <1>3, <1>5, <2>1 DEF Zero, Extended
  <2> QED
    BY <2>1, <2>2 DEF r
<1> QED
  BY <1>2, <1>4, <1>6 DEF one, both, ran

-----------------------------------------------------------------------------
(* The barriers and the semaphores.                                        *)

\* The task was passed by the loop of the main thread.
Counted(t) == \E k \in DOMAIN tasks : k < i /\ tasks[k] = t

Bit(b) == IF b THEN 1 ELSE 0

ControlType ==
  /\ main \in {"read", "cross", "repeat", "ready", "done"} /\ i \in Nat
  /\ pc \in [Pid -> {"none", "again", "start", "work", "wait"}]
  /\ curr_event \in [Pid -> Nat] /\ ready \in [Pid -> Nat] /\ work_done \in [Pid -> Nat]

\* Where the task may be, by where the main thread is.
TaskInv(t) ==
  /\ pc[t] # "none" => t \in Registered
  /\ pc[t] = "none" => curr_event[t] = 0 /\ ready[t] = 0 /\ work_done[t] = 0
  /\ main # "done" => curr_event[t] = 0 /\ work_done[t] = 0
  /\ main \in {"read", "cross"} => pc[t] = "none"
  /\ t \in Registered =>
       /\ main \in {"repeat", "ready"} => pc[t] \in {"again", "start", "wait"}
       /\ main = "repeat" => ready[t] = Bit(pc[t] = "start")
       /\ main = "ready" => /\ Counted(t) => pc[t] = "start" /\ ready[t] = 0
                            /\ ~Counted(t) => ready[t] = Bit(pc[t] = "start")
       /\ main = "done" => /\ pc[t] \in {"start", "work", "wait"} /\ ready[t] = 0
                           /\ Counted(t) => pc[t] = "wait" /\ work_done[t] = 0
                           /\ ~Counted(t) => work_done[t] = Bit(pc[t] = "wait")
                           /\ pc[t] = "start" => curr_event[t] = 0
                           /\ pc[t] = "work" => curr_event[t] >= 1
                           /\ pc[t] = "wait" => curr_event[t] > Len(atoms[t])

BarrierInv ==
  /\ ControlType
  /\ main \in {"cross", "ready", "done"} => i >= 1
  /\ main \in {"repeat", "ready"} => start_work = Main
  /\ main = "done" => work_done_wait = Main
  /\ \A t \in Pid : TaskInv(t)

\* The task is past its atom number n.
Past(t, n) == Bit(curr_event[t] > n)

\* A semaphore is 1 between its wakeup and its sleep, and 0 otherwise.
ValueInv ==
  \A t, u, n, m : /\ At(Trace, t, n, <<"SLEEP", <<t, n>>>>)
                  /\ At(Trace, u, m, <<"WAKEUP", <<t, n>>>>)
                  => value[<<t, n>>] = Past(u, m) - Past(t, n)

TraceInv == TraceOK(Trace) /\ Started(Trace)

Inv == TraceInv /\ BarrierInv /\ ValueInv

\* What TraceInv says of the variables.
LEMMA TraceFacts ==
  ASSUME TraceInv
  PROVE  /\ tasks \in Seq(Pid) /\ atoms \in [Pid -> Seq(Atom)]
         /\ value \in [DOMAIN value -> {0, 1}]
         /\ \A t, n, a : At(Trace, t, n, a) => /\ t \in Pid /\ n \in 1..Len(atoms[t])
                                               /\ atoms[t][n] = a
         /\ \A t \in Pid : \A n \in 1..Len(atoms[t]) : At(Trace, t, n, atoms[t][n])
<1>1. /\ tasks \in Seq(Pid) /\ atoms \in [Pid -> Seq(Atom)]
      /\ value \in [DOMAIN value -> {0, 1}]
  BY DEF TraceInv, TraceOK, TraceType, Trace
<1>2. \A t \in Pid : DOMAIN atoms[t] = 1..Len(atoms[t])
  BY <1>1, SMTT(60)
<1> QED
  BY <1>1, <1>2 DEF At, Trace

\* No task has begun its atoms.
Resting == \A t \in Pid : curr_event[t] = 0

\* Before the first atom is executed the semaphores are 0.
LEMMA ZeroAtStart == TraceInv /\ Resting => (ValueInv <=> Zero(Trace))
<1> SUFFICES ASSUME TraceInv, Resting PROVE ValueInv <=> Zero(Trace)
  OBVIOUS
<1>1. \A t, n, a : At(Trace, t, n, a) => Past(t, n) = 0
  BY TraceFacts, SMTT(60) DEF Past, Bit, Resting
<1>2. ASSUME ValueInv PROVE Zero(Trace)
  <2> SUFFICES ASSUME NEW s \in DOMAIN Trace.value PROVE Trace.value[s] = 0
    BY DEF Zero
  <2>1. PICK t \in Pid, u \in Pid, n \in Nat, m \in Nat :
          /\ s = <<t, n>> /\ At(Trace, t, n, <<"SLEEP", s>>)
          /\ At(Trace, u, m, <<"WAKEUP", s>>)
    BY DEF TraceInv, TraceOK, Linked
  <2>2. value[s] = Past(u, m) - Past(t, n)
    BY <1>2, <2>1 DEF ValueInv
  <2> QED
    BY <1>1, <2>1, <2>2, SMTT(60) DEF Trace
<1>3. ASSUME Zero(Trace) PROVE ValueInv
  <2> SUFFICES ASSUME NEW t, NEW u, NEW n, NEW m,
                      At(Trace, t, n, <<"SLEEP", <<t, n>>>>),
                      At(Trace, u, m, <<"WAKEUP", <<t, n>>>>)
               PROVE  value[<<t, n>>] = Past(u, m) - Past(t, n)
    BY DEF ValueInv
  <2>1. <<t, n>> \in DOMAIN value
    <3>1. <<t, n>> # None
      BY DEF None
    <3>2. <<t, n>> \in DOMAIN Trace.value
      BY <3>1 DEF TraceInv, TraceOK, Linked
    <3> QED
      BY <3>2 DEF Trace
  <2>2. value[<<t, n>>] = 0
    BY <1>3, <2>1 DEF Zero, Trace
  <2> QED
    BY <1>1, <2>2, SMTT(60)
<1> QED
  BY <1>2, <1>3

\* A step that leaves the trace and the progress of the tasks alone.
LEMMA SameTrace ==
  ASSUME TraceInv, ValueInv, UNCHANGED <<tasks, atoms, value, curr_event>>
  PROVE  TraceInv' /\ ValueInv'
BY DEF TraceInv, ValueInv, Trace, Past

\* What a step of one thread must keep.
LEMMA OtherTasks ==
  ASSUME BarrierInv, NEW t \in Pid, UNCHANGED <<tasks, atoms, main, i, start_work,
                                                work_done_wait>>,
         ControlType', TaskInv(t)',
         \A u \in Pid \ {t} : /\ pc'[u] = pc[u] /\ curr_event'[u] = curr_event[u]
                              /\ ready'[u] = ready[u] /\ work_done'[u] = work_done[u]
  PROVE  BarrierInv'
<1>1. \A u \in Pid \ {t} : TaskInv(u)'
  BY SMTT(60) DEF BarrierInv, TaskInv, Counted, Registered
<1> QED
  BY <1>1 DEF BarrierInv

\* Reading the trace keeps the invariant: no thread runs yet.
LEMMA ReadKeeps ==
  ASSUME Inv, NEW tr, TraceOK(tr), Started(tr), Zero(tr), SetTrace(tr),
         main \in {"read", "cross"}, main' = main, i' \in Nat, i' >= i,
         UNCHANGED <<ready, work_done, thread_vars>>
  PROVE  Inv'
<1>1. Trace'.tasks = tr.tasks /\ Trace'.atoms = tr.atoms /\ Trace'.value = tr.value
      /\ IsTrace(Trace')
  BY DEF Trace, SetTrace, IsTrace
<1>2. TraceInv'
  <2>1. TraceType(Trace')
    BY <1>1 DEF TraceOK, TraceType
  <2>2. Linked(Trace')
    <3>1. \A t, n, a : At(Trace', t, n, a) <=> At(tr, t, n, a)
      BY <1>1 DEF At
    <3> QED
      BY <1>1, <3>1, SMTT(60) DEF TraceOK, Linked
  <2>3. Started(Trace')
    BY <1>1 DEF Started
  <2> QED
    BY <2>1, <2>2, <2>3 DEF TraceInv, TraceOK
<1>3. \A t \in Pid : TaskInv(t)'
  BY DEF Inv, BarrierInv, TaskInv, thread_vars
<1>4. BarrierInv'
  BY <1>3, SMTT(60) DEF Inv, BarrierInv, ControlType, thread_vars
<1>5. Zero(Trace)' /\ Resting'
  BY <1>1, <1>3 DEF Zero, TaskInv, Resting
<1>6. ValueInv'
  BY <1>2, <1>5, ZeroAtStart, PTL
<1> QED
  BY <1>2, <1>4, <1>6 DEF Inv

\* The handlers of the events of the trace.
LEMMA ReadTraceKeeps ==
  ASSUME Inv, NEW t \in Pid, NEW u \in Pid,
         replay_wakeup_event(t, u) \/ replay_switch_event(t, u) \/ replay_fork_event(t, u)
  PROVE  Inv'
<1> DEFINE both == register_pid(register_pid(Trace, t), u)
           woken == add_sched_event_wakeup(both, t, u)
           slept == add_sched_event_sleep(add_sched_event_run(both, t), t)
<1>1. PICK tr \in {both, woken, slept} : Process(tr)
  BY DEF replay_wakeup_event, replay_switch_event, replay_fork_event
<1>2. main = "read"
  BY <1>1 DEF Process
<1>3. Zero(Trace)
  <2>1. Resting
    BY <1>2 DEF Inv, BarrierInv, TaskInv, Resting
  <2> QED
    BY <2>1, ZeroAtStart DEF Inv
<1>4. TraceOK(tr) /\ Started(tr) /\ Zero(tr)
  <2>1. TraceOK(Trace) /\ Started(Trace)
    BY DEF Inv, TraceInv
  <2>2. \A r \in {both, woken, slept} : TraceOK(r) /\ Started(r) /\ Zero(r)
    BY <1>3, <2>1, HandlersOK
  <2> HIDE DEF both, woken, slept
  <2> QED
    BY <2>2
<1> HIDE DEF both, woken, slept
<1>5. /\ SetTrace(tr) /\ main' = main /\ i' \in Nat /\ i' >= i
      /\ UNCHANGED <<ready, work_done, thread_vars>>
  BY <1>1, SMTT(60) DEF Process, Inv, BarrierInv, ControlType
<1> QED
  BY <1>2, <1>4, <1>5, ReadKeeps

\* The wakeups that close the circle of tasks.
LEMMA CrossKeeps ==
  ASSUME Inv, add_cross_task_wakeups
  PROVE  Inv'
<1> DEFINE t == tasks[i]
           u == tasks[(i % Len(tasks)) + 1]
           tr == add_sched_event_wakeup(Trace, t, u)
<1>1. /\ main = "cross" /\ i \in 1..Len(tasks) /\ tasks \in Seq(Pid)
      /\ (i % Len(tasks)) + 1 \in 1..Len(tasks)
  <2>1. main = "cross" /\ i \in Nat /\ i >= 1 /\ i <= Len(tasks) /\ tasks \in Seq(Pid)
    BY TraceFacts DEF add_cross_task_wakeups, Inv, BarrierInv, ControlType
  <2>2. \A n \in Nat : n >= 1 => i % n \in 0..(n - 1)
    BY <2>1, SMTT(60)
  <2>3. Len(tasks) \in Nat
    BY <2>1, SMTT(60)
  <2> QED
    BY <2>1, <2>2, <2>3, SMTT(60)
<1>2. t \in Pid /\ u \in Pid /\ {t, u} \subseteq Range(tasks)
  BY <1>1, SMTT(60) DEF Range
<1>3. TraceOK(Trace) /\ Started(Trace) /\ atoms[t] # <<>> /\ atoms[u] # <<>>
  BY <1>2 DEF Inv, TraceInv, Started, Trace
<1>4. Zero(Trace)
  <2>1. Resting
    BY <1>1 DEF Inv, BarrierInv, TaskInv, Resting
  <2> QED
    BY <2>1, ZeroAtStart DEF Inv
<1>5. SetTrace(tr) /\ i' = i + 1 /\ main' = main /\ UNCHANGED <<ready, work_done, thread_vars>>
  BY DEF add_cross_task_wakeups
<1>6. TraceOK(tr) /\ tr.tasks = Trace.tasks /\ Extended(tr, Trace, t) /\ Zero(tr)
  <2>1. Trace.atoms[u] # <<>>
    BY <1>3 DEF Trace
  <2> HIDE DEF t, u
  <2> QED
    BY <1>2, <1>3, <1>4, <2>1, WakeupOK
<1> HIDE DEF tr, t, u
<1>7. Started(tr)
  BY <1>3, <1>6 DEF Started, Extended, Trace
<1> QED
  BY <1>1, <1>4, <1>5, <1>6, <1>7, ReadKeeps, SMTT(60)

\* A step of the main thread after the trace was read.
LEMMA MainKeeps ==
  ASSUME Inv,
         \/ EndOfTrace \/ create_tasks
         \/ BeginRound \/ WaitReady \/ StartWork \/ WaitDone
  PROVE  Inv'
<1>1. UNCHANGED <<tasks, atoms, value, curr_event>>
  BY DEF EndOfTrace, create_tasks, BeginRound, WaitReady, StartWork, WaitDone,
         trace_vars, thread_vars
<1>2. TraceInv' /\ ValueInv'
  BY <1>1, SameTrace DEF Inv
<1>3. /\ tasks \in Seq(Pid) /\ DOMAIN tasks = 1..Len(tasks) /\ Len(tasks) \in Nat
      /\ i \in Nat
  BY TraceFacts, SMTT(60) DEF Inv, BarrierInv, ControlType
<1>4. i > Len(tasks) => \A t \in Registered : Counted(t)
  BY <1>3, SMTT(60) DEF Registered, Range, Counted
<1>5. i' = 1 => \A t : ~Counted(t)'
  BY <1>1, <1>3, SMTT(60) DEF Counted
<1>6. CASE EndOfTrace
  <2>1. \A t \in Pid : TaskInv(t)'
    BY <1>6 DEF EndOfTrace, Inv, BarrierInv, TaskInv, Registered, trace_vars, thread_vars
  <2> QED
    BY <1>2, <1>6, <2>1, SMTT(60) DEF EndOfTrace, Inv, BarrierInv, ControlType, thread_vars
<1>7. CASE create_tasks
  <2>1. ControlType'
    BY <1>7 DEF create_tasks, Inv, BarrierInv, ControlType
  <2>2. \A t \in Pid : TaskInv(t)'
    BY <1>1, <1>7, SMTT(60) DEF create_tasks, Inv, BarrierInv, TaskInv, Registered, Bit, ControlType
  <2> QED
    BY <1>2, <1>7, <2>1, <2>2 DEF create_tasks, Inv, BarrierInv
<1>8. CASE BeginRound
  <2>1. \A t \in Pid : TaskInv(t)'
    BY <1>1, <1>5, <1>8 DEF BeginRound, Inv, BarrierInv, TaskInv, Registered, thread_vars
  <2> QED
    BY <1>2, <1>8, <2>1, SMTT(60) DEF BeginRound, Inv, BarrierInv, ControlType, thread_vars
<1>9. CASE WaitReady
  <2>1. /\ main = "ready" /\ i \in DOMAIN tasks /\ ready[tasks[i]] > 0
        /\ ready' = [ready EXCEPT ![tasks[i]] = 0] /\ i' = i + 1
        /\ UNCHANGED <<work_done, start_work, work_done_wait, main, pc, curr_event>>
    BY <1>3, <1>9, SMTT(60) DEF WaitReady, thread_vars, Inv, BarrierInv
  <2>2. tasks[i] \in Pid /\ tasks[i] \in Registered
    BY <1>3, <2>1, SMTT(60) DEF Registered, Range
  <2>3. \A t : Counted(t)' <=> Counted(t) \/ t = tasks[i]
    BY <1>1, <1>3, <2>1, SMTT(60) DEF Counted
  <2>4. ControlType'
    <3>1. ControlType
      BY DEF Inv, BarrierInv
    <3>2. ready' \in [Pid -> Nat] /\ i' \in Nat
      <4>1. ready \in [Pid -> Nat] /\ i \in Nat
        BY <3>1 DEF ControlType
      <4>2. ready' = [ready EXCEPT ![tasks[i]] = 0] /\ i' = i + 1
        BY <2>1
      <4>3. ready' \in [Pid -> Nat]
        BY <4>1, <4>2
      <4> QED
        BY <4>1, <4>2, <4>3, SMTT(60)
    <3> QED
      BY <2>1, <3>1, <3>2 DEF ControlType
  <2>5. pc[tasks[i]] = "start"
    <3> DEFINE t == tasks[i]
    <3>1. TaskInv(t) /\ t \in Registered /\ main = "ready" /\ ready[t] # 0
      BY <2>1, <2>2, SMTT(60) DEF Inv, BarrierInv
    <3> HIDE DEF t
    <3>2. pc[t] = "start"
      BY <3>1 DEF TaskInv, Bit
    <3> QED
      BY <3>2 DEF t
  <2>6. ASSUME NEW t \in Pid PROVE TaskInv(t)'
    <3>1. /\ TaskInv(t) /\ ready'[t] = IF t = tasks[i] THEN 0 ELSE ready[t]
          /\ Registered' = Registered
      BY <1>1, <2>1 DEF Inv, BarrierInv, ControlType, Registered
    <3> QED
      BY <1>1, <2>1, <2>3, <2>5, <3>1 DEF TaskInv
  <2> QED
    BY <1>2, <1>3, <2>1, <2>4, <2>6, SMTT(60) DEF Inv, BarrierInv
<1>10. CASE StartWork
  <2>1. \A t \in Pid : TaskInv(t)'
    BY <1>1, <1>4, <1>5, <1>10 DEF StartWork, Inv, BarrierInv, TaskInv, Registered,
       thread_vars, Bit
  <2> QED
    BY <1>2, <1>10, <2>1, SMTT(60) DEF StartWork, Inv, BarrierInv, ControlType, thread_vars
<1>11. CASE WaitDone
  <2>1. /\ main = "done" /\ i \in DOMAIN tasks /\ work_done[tasks[i]] > 0
        /\ work_done' = [work_done EXCEPT ![tasks[i]] = 0] /\ i' = i + 1
        /\ UNCHANGED <<ready, start_work, work_done_wait, main, pc, curr_event>>
    BY <1>3, <1>11, SMTT(60) DEF WaitDone, thread_vars, Inv, BarrierInv
  <2>2. tasks[i] \in Pid /\ tasks[i] \in Registered
    BY <1>3, <2>1, SMTT(60) DEF Registered, Range
  <2>3. \A t : Counted(t)' <=> Counted(t) \/ t = tasks[i]
    BY <1>1, <1>3, <2>1, SMTT(60) DEF Counted
  <2>4. ControlType'
    <3>1. ControlType
      BY DEF Inv, BarrierInv
    <3>2. work_done' \in [Pid -> Nat] /\ i' \in Nat
      <4>1. work_done \in [Pid -> Nat] /\ i \in Nat
        BY <3>1 DEF ControlType
      <4>2. work_done' = [work_done EXCEPT ![tasks[i]] = 0] /\ i' = i + 1
        BY <2>1
      <4>3. work_done' \in [Pid -> Nat]
        BY <4>1, <4>2
      <4> QED
        BY <4>1, <4>2, <4>3, SMTT(60)
    <3> QED
      BY <2>1, <3>1, <3>2 DEF ControlType
  <2>5. pc[tasks[i]] = "wait"
    <3> DEFINE t == tasks[i]
    <3>1. TaskInv(t) /\ t \in Registered /\ main = "done" /\ work_done[t] # 0
      BY <2>1, <2>2, SMTT(60) DEF Inv, BarrierInv
    <3> HIDE DEF t
    <3>2. pc[t] = "wait"
      BY <3>1 DEF TaskInv, Bit
    <3> QED
      BY <3>2 DEF t
  <2>6. ASSUME NEW t \in Pid PROVE TaskInv(t)'
    <3>1. /\ TaskInv(t) /\ work_done'[t] = IF t = tasks[i] THEN 0 ELSE work_done[t]
          /\ Registered' = Registered
      BY <1>1, <2>1 DEF Inv, BarrierInv, ControlType, Registered
    <3> QED
      BY <1>1, <2>1, <2>3, <2>5, <3>1 DEF TaskInv
  <2> QED
    BY <1>2, <1>3, <2>1, <2>4, <2>6, SMTT(60) DEF Inv, BarrierInv
<1> QED
  BY <1>6, <1>7, <1>8, <1>9, <1>10, <1>11

\* The end of a repetition: every task is past its last atom, so every sleep and
\* every wakeup was executed.
LEMMA EndRoundKeeps ==
  ASSUME Inv, EndRound
  PROVE  Inv'
<1>1. /\ main = "done" /\ i > Len(tasks) /\ start_work' = Main
      /\ curr_event' = [t \in Pid |-> 0] /\ main' = "repeat" /\ i' = 0
      /\ UNCHANGED <<tasks, atoms, value, ready, work_done, pc>>
  BY DEF EndRound, trace_vars
<1>2. /\ tasks \in Seq(Pid) /\ DOMAIN tasks = 1..Len(tasks) /\ Len(tasks) \in Nat
      /\ i \in Nat
  BY TraceFacts, SMTT(60) DEF Inv, BarrierInv, ControlType
<1>3. \A t \in Registered : Counted(t) /\ t \in Pid
  BY <1>1, <1>2, SMTT(60) DEF Registered, Range, Counted
<1>4. \A t \in Registered : pc[t] = "wait" /\ curr_event[t] > Len(atoms[t])
  <2> SUFFICES ASSUME NEW t \in Registered PROVE pc[t] = "wait" /\ curr_event[t] > Len(atoms[t])
    OBVIOUS
  <2>1. TaskInv(t) /\ Counted(t) /\ main = "done"
    BY <1>1, <1>3 DEF Inv, BarrierInv
  <2> QED
    BY <2>1 DEF TaskInv
<1>5. BarrierInv'
  <2>1. ControlType'
    BY <1>1 DEF Inv, BarrierInv, ControlType
  <2>2. ASSUME NEW t \in Pid PROVE TaskInv(t)'
    <3>1. TaskInv(t) /\ Registered' = Registered /\ curr_event'[t] = 0
      BY <1>1 DEF Inv, BarrierInv, Registered
    <3>2. /\ UNCHANGED <<ready, work_done, pc>> /\ main = "done" /\ main' = "repeat"
          /\ t \in Registered => Counted(t) /\ pc[t] = "wait"
      BY <1>1, <1>3, <1>4
    <3>3. work_done[t] = 0 /\ (t \in Registered => ready[t] = 0)
      BY <3>1, <3>2 DEF TaskInv
    <3> QED
      BY <3>1, <3>2, <3>3 DEF TaskInv, Bit
  <2> QED
    BY <1>1, <2>1, <2>2 DEF BarrierInv
<1>6. TraceInv'
  BY <1>1 DEF Inv, TraceInv, Trace
<1>7. Zero(Trace)
  <2> SUFFICES ASSUME NEW s \in DOMAIN Trace.value PROVE Trace.value[s] = 0
    BY DEF Zero
  <2>1. PICK t \in Pid, u \in Pid, n \in Nat, m \in Nat :
          /\ s = <<t, n>> /\ At(Trace, t, n, <<"SLEEP", s>>)
          /\ At(Trace, u, m, <<"WAKEUP", s>>)
    BY DEF Inv, TraceInv, TraceOK, Linked
  <2>2. value[s] = Past(u, m) - Past(t, n)
    BY <2>1 DEF Inv, ValueInv
  <2>3. n \in 1..Len(atoms[t]) /\ m \in 1..Len(atoms[u])
    BY <2>1, TraceFacts DEF Inv
  <2>4. t \in Registered /\ u \in Registered
    <3>1. atoms[t] # <<>> /\ atoms[u] # <<>>
      BY <2>3, SMTT(60)
    <3> QED
      BY <3>1 DEF Inv, TraceInv, Started, Registered, Trace
  <2>5. Len(atoms[t]) \in Nat /\ Len(atoms[u]) \in Nat
    BY TraceFacts, SMTT(60) DEF Inv
  <2>6. curr_event[t] \in Nat /\ curr_event[u] \in Nat
    BY DEF Inv, BarrierInv, ControlType
  <2>7. curr_event[t] > n /\ curr_event[u] > m
    BY <1>4, <2>3, <2>4, <2>5, <2>6, SMTT(60)
  <2> QED
    BY <2>2, <2>7, SMTT(60) DEF Past, Bit, Trace
<1>8. ValueInv'
  <2>1. Zero(Trace)' /\ Resting'
    BY <1>1, <1>7 DEF Zero, Trace, Resting
  <2> QED
    BY <1>6, <2>1, ZeroAtStart, PTL
<1> QED
  BY <1>5, <1>6, <1>8 DEF Inv

\* The barriers and the posts of one thread.
LEMMA ThreadKeeps ==
  ASSUME Inv, NEW t \in Pid, PostReady(t) \/ PostDone(t) \/ PassDone(t)
  PROVE  Inv'
<1>1. UNCHANGED <<tasks, atoms, value, curr_event, main, i, start_work, work_done_wait>>
  BY DEF PostReady, PostDone, PassDone, trace_vars
<1>2. TraceInv' /\ ValueInv'
  BY <1>1, SameTrace DEF Inv
<1>3. /\ TaskInv(t) /\ ControlType /\ Registered' = Registered
      /\ Counted(t)' <=> Counted(t)
  BY <1>1 DEF Inv, BarrierInv, Registered, Counted
<1>4. main = "done" => work_done_wait = Main
  BY DEF Inv, BarrierInv
<1>5. ControlType'
  <2>1. pc' \in [Pid -> {"none", "again", "start", "work", "wait"}]
    BY <1>3 DEF PostReady, PostDone, PassDone, ControlType
  <2>2. ready' \in [Pid -> Nat]
    BY <1>3, SMTT(60) DEF PostReady, PostDone, PassDone, ControlType
  <2>3. work_done' \in [Pid -> Nat]
    <3>1. work_done' = work_done \/ work_done' = [work_done EXCEPT ![t] = @ + 1]
      BY DEF PostReady, PostDone, PassDone
    <3>2. work_done \in [Pid -> Nat]
      BY <1>3 DEF ControlType
    <3> QED
      BY <3>1, <3>2, SMTT(60)
  <2> QED
    BY <1>1, <1>3, <2>1, <2>2, <2>3 DEF ControlType
<1>6. \A u \in Pid \ {t} : /\ pc'[u] = pc[u] /\ curr_event'[u] = curr_event[u]
                           /\ ready'[u] = ready[u] /\ work_done'[u] = work_done[u]
  BY <1>1, <1>3 DEF PostReady, PostDone, PassDone, ControlType
<1>7. TaskInv(t)'
  <2>1. CASE PostReady(t)
    <3>1. pc[t] = "again" /\ pc'[t] = "start" /\ ready'[t] = ready[t] + 1 /\ work_done' = work_done
      BY <1>3, <2>1 DEF PostReady, ControlType
    <3> QED
      BY <1>1, <1>3, <3>1, SMTT(60) DEF TaskInv, Bit, ControlType
  <2>2. CASE PostDone(t)
    <3>1. /\ pc[t] = "work" /\ pc'[t] = "wait" /\ work_done'[t] = work_done[t] + 1
          /\ ready' = ready /\ curr_event[t] > Len(atoms[t])
      BY <1>3, <2>2 DEF PostDone, ControlType
    <3> QED
      BY <1>1, <1>3, <3>1, SMTT(60) DEF TaskInv, Bit, ControlType
  <2>3. CASE PassDone(t)
    <3>1. /\ pc[t] = "wait" /\ pc'[t] = "again" /\ work_done' = work_done
          /\ ready' = ready /\ work_done_wait = Nobody
      BY <1>3, <2>3 DEF PassDone, ControlType
    <3>2. main # "done"
      BY <1>4, <3>1 DEF Main, Nobody
    <3> QED
      BY <1>1, <1>3, <3>1, <3>2 DEF TaskInv, Bit, ControlType
  <2> QED
    BY <2>1, <2>2, <2>3
<1> QED
  BY <1>1, <1>2, <1>5, <1>6, <1>7, OtherTasks DEF Inv

\* A thread begins its atoms when the main thread has opened the barrier.
LEMMA PassStartKeeps ==
  ASSUME Inv, NEW t \in Pid, PassStart(t)
  PROVE  Inv'
<1>1. /\ pc[t] = "start" /\ start_work = Nobody
      /\ pc' = [pc EXCEPT ![t] = "work"] /\ curr_event' = [curr_event EXCEPT ![t] = 1]
      /\ UNCHANGED <<tasks, atoms, value, ready, work_done, main, i, start_work, work_done_wait>>
  BY DEF PassStart, trace_vars
<1>2. /\ TaskInv(t) /\ ControlType /\ Registered' = Registered
      /\ Counted(t)' <=> Counted(t)
  BY <1>1 DEF Inv, BarrierInv, Registered, Counted
<1>3. main = "done"
  <2>1. main \notin {"repeat", "ready"}
    BY <1>1 DEF Inv, BarrierInv, Main, Nobody
  <2> QED
    BY <1>1, <1>2, <2>1 DEF TaskInv, ControlType
<1>4. curr_event[t] = 0
  BY <1>1, <1>2, <1>3 DEF TaskInv
<1>5. ControlType'
  BY <1>1, <1>2 DEF ControlType
<1>6. TaskInv(t)'
  <2>1. pc'[t] = "work" /\ curr_event'[t] = 1
    BY <1>1, <1>2 DEF ControlType
  <2> QED
    BY <1>1, <1>2, <1>3, <2>1, SMTT(60) DEF TaskInv, Bit
<1>7. BarrierInv'
  <2>1. \A u \in Pid \ {t} : /\ pc'[u] = pc[u] /\ curr_event'[u] = curr_event[u]
                             /\ ready'[u] = ready[u] /\ work_done'[u] = work_done[u]
    BY <1>1, <1>2 DEF ControlType
  <2> QED
    BY <1>1, <1>5, <1>6, <2>1, OtherTasks DEF Inv
<1>8. TraceInv'
  BY <1>1 DEF Inv, TraceInv, Trace
<1>9. ValueInv'
  <2>1. \A u, n, a : At(Trace, u, n, a) => Past(u, n)' = Past(u, n)
    <3>1. \A u, n, a : At(Trace, u, n, a) => u \in Pid /\ n \in Nat /\ n >= 1
      BY TraceFacts, SMTT(60) DEF Inv
    <3>2. \A u \in Pid : curr_event'[u] = IF u = t THEN 1 ELSE curr_event[u]
      BY <1>1, <1>2 DEF ControlType
    <3> QED
      BY <1>4, <3>1, <3>2, SMTT(60) DEF Past, Bit
  <2>2. Trace' = Trace
    BY <1>1 DEF Trace
  <2> QED
    BY <1>1, <2>1, <2>2, SMTT(60) DEF Inv, ValueInv
<1> QED
  BY <1>7, <1>8, <1>9 DEF Inv

\* An atom is executed: the invariant of the semaphores is what makes a sleep
\* end after its wakeup.
LEMMA ProcessEventKeeps ==
  ASSUME Inv, NEW t \in Pid, ProcessEvent(t)
  PROVE  Inv'
<1> DEFINE k == curr_event[t]
           atom == atoms[t][k]
<1>1. /\ pc[t] = "work" /\ k <= Len(atoms[t])
      /\ curr_event' = [curr_event EXCEPT ![t] = @ + 1]
      /\ UNCHANGED <<tasks, atoms, ready, work_done, main, i, start_work, work_done_wait, pc>>
  BY DEF ProcessEvent, trace_vars
<1>2. /\ TaskInv(t) /\ ControlType /\ Registered' = Registered
      /\ Counted(t)' <=> Counted(t)
  BY <1>1 DEF Inv, BarrierInv, Registered, Counted
<1>3. main = "done"
  BY <1>1, <1>2 DEF TaskInv, ControlType
<1>4. k \in 1..Len(atoms[t])
  <2>1. k \in Nat /\ k >= 1
    BY <1>1, <1>2, <1>3 DEF TaskInv, ControlType
  <2>2. Len(atoms[t]) \in Nat
    BY TraceFacts, SMTT(60) DEF Inv
  <2> QED
    BY <1>1, <2>1, <2>2, SMTT(60)
<1>5. At(Trace, t, k, atom) /\ atom \in Atom
  BY <1>4, TraceFacts, SMTT(60) DEF Inv
<1>6. BarrierInv'
  <2>1. ControlType'
    BY <1>1, <1>2, SMTT(60) DEF ControlType
  <2>2. TaskInv(t)'
    <3>1. curr_event'[t] = k + 1 /\ k \in Nat
      BY <1>1, <1>2 DEF ControlType
    <3> QED
      BY <1>1, <1>2, <1>3, <3>1, SMTT(60) DEF TaskInv
  <2>3. \A u \in Pid \ {t} : /\ pc'[u] = pc[u] /\ curr_event'[u] = curr_event[u]
                             /\ ready'[u] = ready[u] /\ work_done'[u] = work_done[u]
    BY <1>1, <1>2 DEF ControlType
  <2> QED
    BY <1>1, <2>1, <2>2, <2>3, OtherTasks DEF Inv
<1>7. \A u, n, a : At(Trace, u, n, a) =>
        Past(u, n)' = Past(u, n) + Bit(u = t /\ n = k) /\ Past(u, n) \in {0, 1}
  <2>1. \A u, n, a : At(Trace, u, n, a) => u \in Pid /\ n \in Nat
    BY TraceFacts, SMTT(60) DEF Inv
  <2>2. \A u \in Pid :
           curr_event[u] \in Nat /\ curr_event'[u] = IF u = t THEN k + 1 ELSE curr_event[u]
    BY <1>1, <1>2 DEF ControlType
  <2> QED
    BY <2>1, <2>2, SMTT(60) DEF Past, Bit
<1>8. \A u, n, a : At(Trace', u, n, a) <=> At(Trace, u, n, a)
  BY <1>1 DEF At, Trace
<1> HIDE DEF k, atom
<1>9. TraceOK(Trace) /\ Started(Trace) /\ ValueInv
  BY DEF Inv, TraceInv
<1>10. ASSUME NEW u, NEW w, NEW n, NEW m, NEW s, s = <<u, n>>,
              At(Trace, u, n, <<"SLEEP", s>>), At(Trace, w, m, <<"WAKEUP", s>>)
       PROVE  /\ s # None /\ s \in DOMAIN value /\ value[s] \in {0, 1}
              /\ value[s] = Past(w, m) - Past(u, n)
              /\ (u = t /\ n = k) <=> atom = <<"SLEEP", s>>
              /\ (w = t /\ m = k) <=> atom = <<"WAKEUP", s>>
  <2>1. s # None
    BY <1>10 DEF None
  <2>2. s \in DOMAIN value /\ value[s] \in {0, 1}
    <3>1. s \in DOMAIN Trace.value
      BY <1>9, <1>10, <2>1 DEF TraceOK, Linked
    <3>2. value \in [DOMAIN value -> {0, 1}]
      BY TraceFacts DEF Inv
    <3> QED
      BY <3>1, <3>2 DEF Trace
  <2>3. value[s] = Past(w, m) - Past(u, n)
    BY <1>9, <1>10 DEF ValueInv
  <2>4. (u = t /\ n = k) <=> atom = <<"SLEEP", s>>
    <3>1. u = t /\ n = k => atom = <<"SLEEP", s>>
      BY <1>5, <1>10 DEF At
    <3>2. atom = <<"SLEEP", s>> => s = <<t, k>>
      BY <1>5, <1>9, <2>1, SMTT(60) DEF TraceOK, Linked
    <3> QED
      BY <1>10, <3>1, <3>2
  <2>5. (w = t /\ m = k) <=> atom = <<"WAKEUP", s>>
    <3>1. w = t /\ m = k => atom = <<"WAKEUP", s>>
      BY <1>5, <1>10 DEF At
    <3>2. atom = <<"WAKEUP", s>> => w = t /\ m = k
      BY <1>5, <1>9, <1>10, <2>1, SMTT(60) DEF TraceOK, Linked
    <3> QED
      BY <3>1, <3>2
  <2> QED
    BY <2>1, <2>2, <2>3, <2>4, <2>5
\* The value of a semaphore follows its wakeup and its sleep.
<1>11. ASSUME NEW u, NEW w, NEW n, NEW m, NEW s, s = <<u, n>>,
              At(Trace, u, n, <<"SLEEP", s>>), At(Trace, w, m, <<"WAKEUP", s>>)
       PROVE  value'[s] = Past(w, m)' - Past(u, n)' /\ value'[s] \in {0, 1}
  <2>1. /\ Past(w, m)' = Past(w, m) + Bit(atom = <<"WAKEUP", s>>)
        /\ Past(u, n)' = Past(u, n) + Bit(atom = <<"SLEEP", s>>)
        /\ Past(u, n) \in {0, 1} /\ Past(w, m) \in {0, 1}
    <3>1. /\ Past(w, m)' = Past(w, m) + Bit(w = t /\ m = k)
          /\ Past(u, n)' = Past(u, n) + Bit(u = t /\ n = k)
          /\ Past(u, n) \in {0, 1} /\ Past(w, m) \in {0, 1}
      BY <1>7, <1>11
    <3>2. /\ Bit(w = t /\ m = k) = Bit(atom = <<"WAKEUP", s>>)
          /\ Bit(u = t /\ n = k) = Bit(atom = <<"SLEEP", s>>)
      <4>1. /\ (u = t /\ n = k) <=> atom = <<"SLEEP", s>>
            /\ (w = t /\ m = k) <=> atom = <<"WAKEUP", s>>
        BY <1>10, <1>11, SMTT(60)
      <4> QED
        BY <4>1 DEF Bit
    <3> QED
      BY <3>1, <3>2
  <2>2. Past(w, m)' \in {0, 1}
    BY DEF Past, Bit
  <2>3. /\ s # None /\ s \in DOMAIN value /\ value[s] \in {0, 1}
        /\ value[s] = Past(w, m) - Past(u, n)
    BY <1>10, <1>11, SMTT(60)
  <2>4. CASE atom[2] = None /\ value' = value
    BY <2>1, <2>3, <2>4, SMTT(60) DEF Bit
  <2>5. CASE /\ atom[1] = "SLEEP" /\ atom[2] # None /\ value[atom[2]] > 0
             /\ value' = [value EXCEPT ![atom[2]] = @ - 1]
    <3>1. atom = <<"SLEEP", atom[2]>>
      BY <1>5, <2>5, SMTT(60) DEF Atom, AtomType
    <3>2. CASE atom[2] = s
      BY <2>1, <2>3, <2>5, <3>1, <3>2, SMTT(60) DEF Bit
    <3>3. CASE atom[2] # s
      BY <2>1, <2>3, <2>5, <3>1, <3>3, SMTT(60) DEF Bit
    <3> QED
      BY <3>2, <3>3
  <2>6. CASE /\ atom[1] = "WAKEUP" /\ atom[2] # None
             /\ value' = [value EXCEPT ![atom[2]] = @ + 1]
    <3>1. atom = <<"WAKEUP", atom[2]>>
      BY <1>5, <2>6, SMTT(60) DEF Atom, AtomType
    <3>2. CASE atom[2] = s
      BY <2>1, <2>2, <2>3, <2>6, <3>1, <3>2, SMTT(60) DEF Bit
    <3>3. CASE atom[2] # s
      BY <2>1, <2>3, <2>6, <3>1, <3>3, SMTT(60) DEF Bit
    <3> QED
      BY <3>2, <3>3
  <2> QED
    BY <2>4, <2>5, <2>6 DEF ProcessEvent, k, atom
<1>12. ValueInv'
  <2> SUFFICES ASSUME NEW u, NEW w, NEW n, NEW m,
                      At(Trace', u, n, <<"SLEEP", <<u, n>>>>),
                      At(Trace', w, m, <<"WAKEUP", <<u, n>>>>)
               PROVE  value'[<<u, n>>] = Past(w, m)' - Past(u, n)'
    BY DEF ValueInv
  <2> QED
    BY <1>8, <1>11, SMTT(60)
<1>13. value' \in [DOMAIN value -> {0, 1}]
  <2>1. value' = [s \in DOMAIN value |-> value'[s]]
    <3>1. value = [s \in DOMAIN value |-> value[s]]
      BY TraceFacts DEF Inv
    <3> QED
      BY <3>1 DEF ProcessEvent
  <2>2. ASSUME NEW s \in DOMAIN value PROVE value'[s] \in {0, 1}
    <3>1. s \in DOMAIN Trace.value
      BY DEF Trace
    <3>2. PICK u \in Pid, w \in Pid, n \in Nat, m \in Nat :
            /\ s = <<u, n>> /\ At(Trace, u, n, <<"SLEEP", s>>)
            /\ At(Trace, w, m, <<"WAKEUP", s>>)
      BY <1>9, <3>1 DEF TraceOK, Linked
    <3> QED
      BY <1>11, <3>2
  <2> QED
    BY <2>1, <2>2
<1>14. TraceInv'
  <2>1. /\ Trace'.tasks = Trace.tasks /\ Trace'.atoms = Trace.atoms
        /\ Trace'.value = value' /\ Trace.value = value /\ IsTrace(Trace')
        /\ DOMAIN value' = DOMAIN value
    BY <1>1, <1>13 DEF Trace, IsTrace
  <2>2. TraceType(Trace')
    BY <1>9, <1>13, <2>1 DEF TraceOK, TraceType
  <2>3. Linked(Trace')
    BY <1>8, <1>9, <2>1, SMTT(60) DEF TraceOK, Linked
  <2>4. Started(Trace')
    BY <1>9, <2>1 DEF Started
  <2> QED
    BY <2>2, <2>3, <2>4 DEF TraceInv, TraceOK
<1> QED
  BY <1>6, <1>12, <1>14 DEF Inv

\* The invariant holds.
THEOREM Invariant == Spec => []Inv
<1>1. Init => Inv
  <2> SUFFICES ASSUME Init PROVE Inv
    OBVIOUS
  <2>1. TraceInv
    <3>1. /\ Trace.tasks = <<>> /\ Trace.atoms = [t \in Pid |-> <<>>]
          /\ DOMAIN Trace.value = {} /\ Trace.value = [s \in {} |-> 0] /\ IsTrace(Trace)
      BY DEF Init, Trace, IsTrace
    <3>2. \A t, n, a : ~At(Trace, t, n, a)
      BY <3>1, SMTT(60) DEF At
    <3>3. TraceType(Trace)
      BY <3>1, SMTT(60) DEF TraceType
    <3>4. Linked(Trace)
      BY <3>1, <3>2 DEF Linked
    <3>5. Started(Trace)
      BY <3>1, SMTT(60) DEF Started, Range
    <3> QED
      BY <3>3, <3>4, <3>5 DEF TraceInv, TraceOK
  <2>2. BarrierInv
    BY DEF Init, BarrierInv, ControlType, TaskInv, Registered, Range
  <2>3. Zero(Trace) /\ Resting
    BY DEF Init, Zero, Trace, Resting
  <2> QED
    BY <2>1, <2>2, <2>3, ZeroAtStart DEF Inv
<1>2. Inv /\ [Next]_vars => Inv'
  <2> SUFFICES ASSUME Inv, [Next]_vars PROVE Inv'
    OBVIOUS
  <2>1. CASE ReadTrace
    BY <2>1, ReadTraceKeeps DEF ReadTrace
  <2>2. CASE EndOfTrace
    BY <2>2, MainKeeps
  <2>3. CASE MainThread
    BY <2>3, CrossKeeps, MainKeeps, EndRoundKeeps DEF MainThread
  <2>4. ASSUME NEW t \in Pid, Thread(t) PROVE Inv'
    BY <2>4, ThreadKeeps, PassStartKeeps, ProcessEventKeeps DEF Thread
  <2>5. CASE UNCHANGED vars
    <3>1. /\ UNCHANGED <<tasks, atoms, value, ready, work_done, start_work>>
          /\ UNCHANGED <<work_done_wait, main, i, pc, curr_event>>
      BY <2>5 DEF vars, trace_vars, thread_vars
    <3>2. TraceInv' /\ ValueInv'
      BY <3>1, SameTrace DEF Inv
    <3>3. ControlType'
      BY <3>1 DEF Inv, BarrierInv, ControlType
    <3>4. ASSUME NEW t \in Pid PROVE TaskInv(t)'
      <4>1. TaskInv(t)
        BY DEF Inv, BarrierInv
      <4> QED
        BY <3>1, <4>1 DEF TaskInv, Registered, Counted
    <3>5. BarrierInv'
      BY <3>1, <3>3, <3>4 DEF Inv, BarrierInv
    <3> QED
      BY <3>2, <3>5 DEF Inv
  <2> QED
    BY <2>1, <2>2, <2>3, <2>4, <2>5 DEF Next
<1> QED
  BY <1>1, <1>2, PTL DEF Spec

\* The repetitions stay apart (wait_for_tasks), whatever the trace and however
\* many tasks and repetitions there are.
THEOREM RoundsApartCorrect == Spec => []RoundsApart
<1>1. Inv => RoundsApart
  <2> SUFFICES ASSUME Inv PROVE RoundsApart
    OBVIOUS
  <2>1. \A t \in Pid : TaskInv(t)
    BY DEF Inv, BarrierInv
  <2>2. main \in {"repeat", "ready"} => \A t \in Pid : pc[t] # "work"
    BY <2>1 DEF TaskInv
  <2>3. \A s \in DOMAIN value : value[s] \in {0, 1}
    BY TraceFacts DEF Inv
  <2>4. main \in {"repeat", "ready"} => Zero(Trace)
    <3>1. main \in {"repeat", "ready"} => Resting
      BY <2>1 DEF TaskInv, Resting
    <3> QED
      BY <3>1, ZeroAtStart DEF Inv
  <2> QED
    BY <2>2, <2>3, <2>4 DEF RoundsApart, Zero, Trace
<1> QED
  BY <1>1, Invariant, PTL

\* A sleep that a wakeup points to ends after it (add_sched_event_wakeup).
THEOREM WakeupsFirstCorrect == Spec => []WakeupsFirst
<1>1. Inv => WakeupsFirst
  <2> SUFFICES ASSUME Inv, NEW t \in Registered, NEW u \in Registered,
                      NEW n \in DOMAIN atoms[t], NEW m \in DOMAIN atoms[u],
                      atoms[t][n] = <<"SLEEP", <<t, n>>>>,
                      atoms[u][m] = <<"WAKEUP", <<t, n>>>>, curr_event[t] > n
               PROVE  curr_event[u] > m
    BY DEF WakeupsFirst
  <2>1. t \in Pid /\ u \in Pid
    BY TraceFacts, SMTT(60) DEF Inv, Registered, Range
  <2>2. At(Trace, t, n, <<"SLEEP", <<t, n>>>>) /\ At(Trace, u, m, <<"WAKEUP", <<t, n>>>>)
    BY <2>1 DEF At, Trace
  <2>3. value[<<t, n>>] = Past(u, m) - Past(t, n)
    BY <2>2 DEF Inv, ValueInv
  <2>4. value[<<t, n>>] \in {0, 1}
    <3>1. <<t, n>> # None
      BY DEF None
    <3>2. <<t, n>> \in DOMAIN Trace.value
      BY <2>2, <3>1 DEF Inv, TraceInv, TraceOK, Linked
    <3> QED
      BY <3>2, TraceFacts DEF Inv, Trace
  <2> QED
    BY <2>3, <2>4, SMTT(60) DEF Past, Bit
<1> QED
  BY <1>1, Invariant, PTL
=============================================================================
