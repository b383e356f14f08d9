---------------------------- MODULE MachineProofs ----------------------------
(***************************************************************************)
(* The threads, names and maps that perf keeps of the machine.             *)
(*                                                                         *)
(* The maps of a process, for every set of maps: thread__insert_map keeps  *)
(* them disjoint, and changes what the addresses of the new map resolve to *)
(* and nothing else.                                                       *)
(*                                                                         *)
(* The inductive invariant of the machine's objects, and what the          *)
(* operations that the events' handlers are built from keep of it: the     *)
(* lookup of a thread, its names, its maps, and the references taken and   *)
(* dropped on the way.  The handlers and the display thread are in         *)
(* PerfTopProofs.                                                          *)
(***************************************************************************)
EXTENDS Machine, FiniteSetTheorems, WellFoundedInduction, TLAPS

\* The provers: Zenon unless a step names the SMT solver.
USE ZenonT(60)

-----------------------------------------------------------------------------
(* The maps of a process.                                                  *)

\* The maps of the dsos D; none of them is empty.
MapOf(D) == {p \in [start : Int, end : Int, pgoff : Int, dso : D] : p.start < p.end}

\* A map that is left by map_groups__fixup_overlappings is a map that was there
\* and does not overlap the new one, or the part of one before or behind it.
LEMMA FixupParts ==
  ASSUME NEW D, NEW maps \in SUBSET MapOf(D), NEW q \in MapOf(D),
         NEW r \in fixup_overlappings(maps, q)
  PROVE  \E p \in maps : /\ r \in MapOf(D) /\ ~Overlap(r, q)
                         /\ p.start <= r.start /\ r.end <= p.end
                         /\ r.dso = p.dso
                         /\ \/ r = p
                            \/ r.start = p.start /\ r.end = q.start /\ Overlap(p, q)
                               /\ r.pgoff = p.pgoff
                            \/ r.start = q.end /\ r.end = p.end /\ Overlap(p, q)
                               /\ r.pgoff = p.pgoff
<1> DEFINE over == {p \in maps : Overlap(p, q)}
<1>1. CASE r \in maps \ over
  BY <1>1, SMTT(60) DEF MapOf
<1>2. CASE \E p \in over : r \in Before(p, q)
  <2>1. PICK p \in over : r \in Before(p, q)
    BY <1>2
  <2>2. /\ q.start > p.start /\ r = [p EXCEPT !.end = q.start]
    BY <2>1 DEF Before
  <2>3. /\ r.start = p.start /\ r.end = q.start /\ r.dso = p.dso /\ r.pgoff = p.pgoff
        /\ r \in MapOf(D)
    BY <2>2 DEF MapOf
  <2> QED
    BY <2>2, <2>3, SMTT(60) DEF Overlap, MapOf
<1>3. CASE \E p \in over : r \in After(p, q)
  <2>1. PICK p \in over : r \in After(p, q)
    BY <1>3
  <2>2. /\ q.end < p.end /\ r = [p EXCEPT !.start = q.end]
    BY <2>1 DEF After
  <2>3. /\ r.start = q.end /\ r.end = p.end /\ r.dso = p.dso /\ r.pgoff = p.pgoff
        /\ r \in MapOf(D)
    BY <2>2 DEF MapOf
  <2> QED
    BY <2>2, <2>3, SMTT(60) DEF Overlap, MapOf
<1> QED
  BY <1>1, <1>2, <1>3 DEF fixup_overlappings

\* Of a map that overlaps the new one the parts before and behind it are kept.
LEMMA FixupKeeps ==
  ASSUME NEW D, NEW maps \in SUBSET MapOf(D), NEW q \in MapOf(D), NEW p \in maps,
         NEW addr \in Int, Contains(p, addr), ~Contains(q, addr)
  PROVE  \E r \in fixup_overlappings(maps, q) : Contains(r, addr) /\ r.dso = p.dso
<1>1. CASE ~Overlap(p, q)
  BY <1>1 DEF fixup_overlappings
<1>2. CASE Overlap(p, q) /\ addr < q.start
  <2> DEFINE r == [p EXCEPT !.end = q.start]
  <2>1. r \in Before(p, q)
    BY <1>2, SMTT(60) DEF Before, Contains, MapOf
  <2>2. r.start = p.start /\ r.end = q.start /\ r.dso = p.dso
    BY DEF MapOf
  <2>3. r \in fixup_overlappings(maps, q)
    BY <1>2, <2>1, SMTT(60) DEF fixup_overlappings
  <2> QED
    BY <1>2, <2>2, <2>3 DEF Contains
<1>3. CASE Overlap(p, q) /\ q.end <= addr
  <2> DEFINE r == [p EXCEPT !.start = q.end]
  <2>1. r \in After(p, q)
    BY <1>3, SMTT(60) DEF After, Contains, MapOf
  <2>2. r.start = q.end /\ r.end = p.end /\ r.dso = p.dso
    BY DEF MapOf
  <2>3. r \in fixup_overlappings(maps, q)
    BY <1>3, <2>1, SMTT(60) DEF fixup_overlappings
  <2> QED
    BY <1>3, <2>2, <2>3 DEF Contains
<1> QED
  BY <1>1, <1>2, <1>3, SMTT(60) DEF Contains, MapOf

\* thread__insert_map keeps the maps of a process disjoint, however the new map
\* covers, splits or touches them: the tree they are kept in can be searched.
THEOREM InsertDisjoint ==
  ASSUME NEW D, NEW maps \in SUBSET MapOf(D), NEW q \in MapOf(D), Disjoint(maps)
  PROVE  insert_map(maps, q) \in SUBSET MapOf(D) /\ Disjoint(insert_map(maps, q))
<1>1. ASSUME NEW r \in fixup_overlappings(maps, q)
      PROVE  r \in MapOf(D) /\ ~Overlap(r, q) /\ ~Overlap(q, r)
  BY <1>1, FixupParts DEF Overlap
<1>2. ASSUME NEW r \in fixup_overlappings(maps, q),
             NEW s \in fixup_overlappings(maps, q), Overlap(r, s)
      PROVE  r = s
  <2>1. PICK p \in maps : /\ r \in MapOf(D) /\ ~Overlap(r, q)
                          /\ p.start <= r.start /\ r.end <= p.end
                          /\ r.dso = p.dso
                          /\ \/ r = p
                             \/ r.start = p.start /\ r.end = q.start /\ Overlap(p, q)
                                /\ r.pgoff = p.pgoff
                             \/ r.start = q.end /\ r.end = p.end /\ Overlap(p, q)
                                /\ r.pgoff = p.pgoff
    BY FixupParts
  <2>2. PICK p2 \in maps : /\ s \in MapOf(D) /\ ~Overlap(s, q)
                           /\ p2.start <= s.start /\ s.end <= p2.end
                           /\ s.dso = p2.dso
                           /\ \/ s = p2
                              \/ s.start = p2.start /\ s.end = q.start /\ Overlap(p2, q)
                                 /\ s.pgoff = p2.pgoff
                              \/ s.start = q.end /\ s.end = p2.end /\ Overlap(p2, q)
                                 /\ s.pgoff = p2.pgoff
    BY FixupParts
  <2>3. p = p2
    BY <1>2, <2>1, <2>2, SMTT(60) DEF Overlap, Disjoint, MapOf
  <2>4. r.start = s.start /\ r.end = s.end /\ r.pgoff = s.pgoff /\ r.dso = s.dso
    BY <1>2, <2>1, <2>2, <2>3, SMTT(60) DEF Overlap, MapOf
  <2> QED
    BY <2>1, <2>2, <2>4, SMTT(60) DEF MapOf
<1> QED
  BY <1>1, <1>2 DEF insert_map, Disjoint

\* After thread__insert_map an address of the new map is found in the new map
\* only, and every other address in a map of the same dso as before, or in none
\* as before.
THEOREM InsertResolves ==
  ASSUME NEW D, NEW maps \in SUBSET MapOf(D), NEW q \in MapOf(D), NEW addr \in Int
  PROVE  /\ Contains(q, addr) => maps__find(insert_map(maps, q), addr) = {q}
         /\ ~Contains(q, addr) =>
              {p.dso : p \in maps__find(insert_map(maps, q), addr)}
                = {p.dso : p \in maps__find(maps, addr)}
<1>1. ASSUME Contains(q, addr), NEW r \in fixup_overlappings(maps, q)
      PROVE  ~Contains(r, addr)
  BY <1>1, FixupParts, SMTT(60) DEF Overlap, Contains, MapOf
<1>2. Contains(q, addr) => maps__find(insert_map(maps, q), addr) = {q}
  BY <1>1 DEF insert_map, maps__find
<1>3. ASSUME ~Contains(q, addr), NEW r \in fixup_overlappings(maps, q), Contains(r, addr)
      PROVE  \E p \in maps : Contains(p, addr) /\ p.dso = r.dso
  <2>1. PICK p \in maps : /\ r \in MapOf(D) /\ p.start <= r.start /\ r.end <= p.end
                          /\ r.dso = p.dso
    BY FixupParts, SMTT(60)
  <2> QED
    BY <1>3, <2>1, SMTT(60) DEF Contains, MapOf
<1>4. ASSUME ~Contains(q, addr)
      PROVE  {p.dso : p \in maps__find(insert_map(maps, q), addr)}
                = {p.dso : p \in maps__find(maps, addr)}
  BY <1>3, <1>4, FixupKeeps, SMTT(60) DEF insert_map, maps__find
<1> QED
  BY <1>2, <1>4

\* A nonempty set of naturals has a least element, which Min is.
LEMMA MinIsLeast ==
  ASSUME NEW S, S \subseteq Nat, S # {}
  PROVE  Min(S) \in S /\ \A y \in S : Min(S) <= y
<1> DEFINE R == OpToRel(<, Nat)
<1>1. IsWellFoundedOn(R, Nat)
  BY NatLessThanWellFounded
<1>2. \A y, x \in S : <<y, x>> \in R <=> y < x
  BY DEF OpToRel
<1> HIDE DEF R
<1>3. PICK x \in S : \A y \in S : ~(<<y, x>> \in R)
  BY <1>1, WFMin
<1>4. \A y \in S : ~(y < x)
  BY <1>2, <1>3
<1>5. \A y \in S : x \in Nat /\ y \in Nat
  OBVIOUS
<1>6. \E z \in S : \A y \in S : z <= y
  BY <1>4, <1>5, SMTT(60)
<1> QED
  BY <1>6 DEF Min

-----------------------------------------------------------------------------
(* The machine: the inductive invariant.                                   *)

\* Allocations succeed.
MemoryLasts == ~IsFiniteSet(Obj)

Thread == [tid : Tid \cup {NULL}, pid : Tid \cup {Unknown}, mg : Obj \cup {NULL},
           comms : Seq(Obj), comm_set : BOOLEAN, refcnt : Nat, linked : BOOLEAN]
MapGroup == [maps : SUBSET MapOf(Int), refcnt : Nat]
Str == [name : Int, refcnt : Nat]

MachineType(mm) ==
  /\ DOMAIN mm = {"threads", "mgs", "strs", "last_match"}
  /\ mm.threads \in [Obj -> Thread] /\ mm.mgs \in [Obj -> MapGroup]
  /\ mm.strs \in [Obj -> Str] /\ mm.last_match \in Obj \cup {NULL}

UsedIn(T) == {o \in Obj : T[o].tid # NULL}

Members(T, g) == {o \in UsedIn(T) : T[o].mg = g}

\* The references of the thread o to the group g.
Refs(T, o, g) == IF o \in Members(T, g) THEN 1 ELSE 0

UsersIn(T, i) == UNION {{o} \X Places(T[o].comms, i) : o \in UsedIn(T)}

\* The threads T when the entries E have references, h counts the references of
\* the handler, v is being deleted and the threads X have no map group.
ThreadsOK(T, E, v, h, X) ==
  /\ IsFiniteSet(UsedIn(T)) /\ E \subseteq Obj /\ h \in [Obj -> Nat]
  /\ v # NULL => v \in UsedIn(T)
  /\ \A o \in Obj : T[o].refcnt = Bit(T[o].linked) + Bit(o \in E) + h[o]
  /\ \A o \in Obj : T[o].tid = NULL => T[o] = NoThread /\ o \notin X
  /\ \A o \in UsedIn(T) : /\ T[o].refcnt = 0 <=> o = v
                          /\ T[o].mg = NULL <=> o \in X
                          /\ o # v => T[o].comms # <<>>
  /\ \A o, p \in UsedIn(T) : T[o].linked /\ T[p].linked /\ T[o].tid = T[p].tid => o = p
  /\ \A o, p \in UsedIn(T) :
       T[o].pid = Unknown /\ T[o].mg # NULL /\ T[o].mg = T[p].mg => o = p

GroupForm(r) == (r.refcnt = 0 => r = NoGroup) /\ Disjoint(r.maps)

\* The map groups G of the threads T.
GroupsOK(G, T) ==
  \A g \in Obj : GroupForm(G[g]) /\ G[g].refcnt = Cardinality(Members(T, g))

\* Strings S of which d is being erased: the others are used, or free, and those
\* in use have different names.
StrsForm(S, d) ==
  /\ IsFiniteSet(Linked(S)) /\ d \in Obj \cup {NULL}
  /\ \A i \in Obj : /\ S[i].refcnt = 0 => S[i] = NoStr \/ i = d
                    /\ S[i].refcnt > 0 => S[i].name # 0
                    /\ i = d => S[i].refcnt = 0 /\ S[i] # NoStr
  /\ \A i, j \in Obj :
       S[i].refcnt > 0 /\ S[j].refcnt > 0 /\ S[i].name = S[j].name => i = j

\* The strings S of the threads T.
StrsOK(S, T, d) ==
  /\ StrsForm(S, d)
  /\ \A i \in Obj : /\ IsFiniteSet(UsersIn(T, i))
                    /\ S[i].refcnt = Cardinality(UsersIn(T, i))

LastOK(mm) == mm.last_match # NULL => mm.threads[mm.last_match].linked

MachineOK(mm, E, v, d, h, X) ==
  /\ MachineType(mm) /\ LastOK(mm)
  /\ ThreadsOK(mm.threads, E, v, h, X)
  /\ GroupsOK(mm.mgs, mm.threads) /\ StrsOK(mm.strs, mm.threads, d)

-----------------------------------------------------------------------------
(* Free addresses.                                                         *)

\* The null pointer and the unknown pid are neither addresses nor ids (thread->pid_ is
\* -1 until an event tells it).
LEMMA Null == NULL \notin Obj /\ NULL \notin Tid /\ Unknown \notin Tid /\ Obj \subseteq Nat
BY MachineAssumption, SMTT(60) DEF NULL, Unknown

\* There is an address outside of a finite set.
LEMMA Fresh ==
  ASSUME MemoryLasts, NEW S, IsFiniteSet(S), NEW F, F \subseteq Obj, Obj \ S \subseteq F
  PROVE  Min(F) \in F
<1>1. F # {}
  <2> SUFFICES ASSUME F = {} PROVE FALSE
    OBVIOUS
  <2>1. Obj \in SUBSET S
    OBVIOUS
  <2> QED
    BY <2>1, FS_Subset DEF MemoryLasts
<1>2. F \subseteq Nat
  BY Null
<1> QED
  BY <1>1, <1>2, MinIsLeast

\* thread__new gets an address.
LEMMA FreeObjOK ==
  ASSUME MemoryLasts, NEW mm, NEW E, NEW v, NEW h, NEW X,
         ThreadsOK(mm.threads, E, v, h, X)
  PROVE  FreeObj(mm) \in Obj /\ mm.threads[FreeObj(mm)] = NoThread
<1> DEFINE F == {o \in Obj : mm.threads[o] = NoThread}
<1>1. IsFiniteSet(UsedIn(mm.threads))
  BY DEF ThreadsOK
<1>2. F \subseteq Obj /\ Obj \ UsedIn(mm.threads) \subseteq F
  BY DEF ThreadsOK, UsedIn
<1>3. FreeObj(mm) = Min(F)
  BY DEF FreeObj
<1> HIDE DEF F
<1>4. Min(F) \in F
  BY <1>1, <1>2, Fresh
<1> QED
  BY <1>3, <1>4 DEF F

\* The groups of threads are finitely many.
LEMMA GroupsFinite ==
  ASSUME NEW T, IsFiniteSet(UsedIn(T))
  PROVE  IsFiniteSet({T[o].mg : o \in UsedIn(T)})
<1> DEFINE S == UsedIn(T)
           R == {T[o].mg : o \in S}
           f == [o \in S |-> T[o].mg]
<1>1. f \in [S -> R] /\ \A g \in R : \E o \in S : f[o] = g
  OBVIOUS
<1>2. f \in Surjection(S, R)
  BY <1>1 DEF Surjection
<1> HIDE DEF f, R, S
<1>3. IsFiniteSet(S)
  BY DEF S
<1>4. IsFiniteSet(R)
  BY <1>2, <1>3, FS_Surjection
<1> QED
  BY <1>4 DEF R, S

\* A group that nobody has has no count.
LEMMA NoMembers ==
  ASSUME NEW T, NEW g, Members(T, g) = {}
  PROVE  Cardinality(Members(T, g)) = 0
BY FS_EmptySet

\* map_groups__new gets an address.
LEMMA FreeGroupOK ==
  ASSUME MemoryLasts, NEW mm, NEW E, NEW v, NEW h, NEW X,
         ThreadsOK(mm.threads, E, v, h, X), GroupsOK(mm.mgs, mm.threads)
  PROVE  FreeGroup(mm) \in Obj /\ mm.mgs[FreeGroup(mm)] = NoGroup
<1> DEFINE F == {g \in Obj : mm.mgs[g] = NoGroup}
           S == {mm.threads[o].mg : o \in UsedIn(mm.threads)}
<1>1. IsFiniteSet(S)
  BY GroupsFinite DEF ThreadsOK
<1>2. ASSUME NEW g \in Obj, g \notin S
      PROVE  g \in F
  <2>1. Members(mm.threads, g) = {}
    BY <1>2 DEF Members
  <2> QED
    BY <2>1, NoMembers DEF GroupsOK, GroupForm
<1>3. FreeGroup(mm) = Min(F) /\ F \subseteq Obj /\ Obj \ S \subseteq F
  BY <1>2 DEF FreeGroup
<1> HIDE DEF F, S
<1>4. Min(F) \in F
  BY <1>1, <1>3, Fresh
<1> QED
  BY <1>3, <1>4 DEF F
-----------------------------------------------------------------------------
(* Counting.                                                               *)

\* When one thread changes, the members of a group change by that thread.
LEMMA MembersStep ==
  ASSUME NEW T, NEW U, NEW o \in Obj, \A p \in Obj : p # o => U[p] = T[p],
         IsFiniteSet(UsedIn(T))
  PROVE  /\ IsFiniteSet(UsedIn(U))
         /\ \A g : /\ Cardinality(Members(T, g)) \in Nat
                   /\ Cardinality(Members(U, g)) + Refs(T, o, g)
                        = Cardinality(Members(T, g)) + Refs(U, o, g)
<1>1. UsedIn(U) \subseteq UsedIn(T) \cup {o}
  BY DEF UsedIn
<1>2. IsFiniteSet(UsedIn(U))
  <2>1. IsFiniteSet(UsedIn(T) \cup {o})
    BY FS_AddElement
  <2> QED
    BY <1>1, <2>1, FS_Subset
<1>3. ASSUME NEW g
      PROVE  /\ Cardinality(Members(T, g)) \in Nat
             /\ Cardinality(Members(U, g)) + Refs(T, o, g)
                  = Cardinality(Members(T, g)) + Refs(U, o, g)
  <2> DEFINE A == Members(T, g)
             B == Members(U, g)
             C == A \ {o}
  <2>1. IsFiniteSet(A)
    BY FS_Subset DEF Members
  <2>2. C = B \ {o}
    BY DEF Members, UsedIn
  <2>3. IsFiniteSet(B)
    BY <1>2, FS_Subset DEF Members
  <2> HIDE DEF A, B
  <2>4. /\ Cardinality(A) \in Nat /\ Cardinality(B) \in Nat
        /\ Cardinality(C) = IF o \in A THEN Cardinality(A) - 1 ELSE Cardinality(A)
    BY <2>1, <2>3, FS_CardinalityType, FS_RemoveElement
  <2>5. Cardinality(C) = IF o \in B THEN Cardinality(B) - 1 ELSE Cardinality(B)
    BY <2>2, <2>3, FS_RemoveElement
  <2>6. Refs(T, o, g) = (IF o \in A THEN 1 ELSE 0) /\ Refs(U, o, g) = (IF o \in B THEN 1 ELSE 0)
    BY DEF Refs, A, B
  <2>7. Cardinality(B) + Refs(T, o, g) = Cardinality(A) + Refs(U, o, g)
    BY <2>4, <2>5, <2>6, SMTT(60)
  <2> QED
    BY <2>4, <2>7 DEF A, B
<1> QED
  BY <1>2, <1>3

\* The names of one thread that are the string i.
LEMMA PlacesFinite ==
  ASSUME NEW c \in Seq(Obj), NEW i
  PROVE  IsFiniteSet(Places(c, i)) /\ Cardinality(Places(c, i)) \in Nat
<1>1. Len(c) \in Nat /\ DOMAIN c = 1..Len(c)
  BY SMTT(60)
<1>2. IsFiniteSet(1..Len(c))
  BY <1>1, FS_Interval, SMTT(60)
<1>3. Places(c, i) \in SUBSET (1..Len(c))
  BY <1>1 DEF Places
<1> QED
  BY <1>2, <1>3, FS_Subset, FS_CardinalityType

\* When one thread changes, the users of a string change by its names.
LEMMA UsersStep ==
  ASSUME NEW T \in [Obj -> Thread], NEW U \in [Obj -> Thread], NEW o \in Obj,
         \A p \in Obj : p # o => U[p] = T[p],
         T[o].tid = NULL => T[o].comms = <<>>, U[o].tid = NULL => U[o].comms = <<>>,
         NEW i, IsFiniteSet(UsersIn(T, i))
  PROVE  /\ IsFiniteSet(UsersIn(U, i))
         /\ Cardinality(UsersIn(T, i)) \in Nat /\ Cardinality(UsersIn(U, i)) \in Nat
         /\ Cardinality(Places(T[o].comms, i)) <= Cardinality(UsersIn(T, i))
         /\ Cardinality(UsersIn(U, i)) + Cardinality(Places(T[o].comms, i))
              = Cardinality(UsersIn(T, i)) + Cardinality(Places(U[o].comms, i))
<1> DEFINE A == UsersIn(T, i)
           B == UsersIn(U, i)
           P == Places(T[o].comms, i)
           Q == Places(U[o].comms, i)
           C == {o} \X P
           D == {o} \X Q
           W(S, p) == {p} \X Places(S[p].comms, i)
<1>1. T[o].comms \in Seq(Obj) /\ U[o].comms \in Seq(Obj)
  BY DEF Thread
<1>2. /\ IsFiniteSet(P) /\ Cardinality(P) \in Nat
      /\ IsFiniteSet(Q) /\ Cardinality(Q) \in Nat
  BY <1>1, PlacesFinite
<1>3. \A p, u : u \in W(T, p) \/ u \in W(U, p) => u[1] = p
  BY SMTT(60)
<1>4. A = UNION {W(T, p) : p \in UsedIn(T)} /\ B = UNION {W(U, p) : p \in UsedIn(U)}
  BY DEF UsersIn
<1>5. C = W(T, o) /\ D = W(U, o)
  OBVIOUS
<1>a. \A p \in Obj : p # o => W(U, p) = W(T, p)
  OBVIOUS
<1>b. (T[o].tid = NULL => C = {}) /\ (U[o].tid = NULL => D = {})
  <2>1. (T[o].tid = NULL => P = {}) /\ (U[o].tid = NULL => Q = {})
    BY SMTT(60) DEF Places
  <2> QED
    BY <2>1
<1>c. C \subseteq A /\ (A \ C) \cap D = {} /\ B = (A \ C) \cup D
  <2> HIDE DEF A, B, C, D, W
  <2>1. C \subseteq A
    BY <1>4, <1>5, <1>b DEF UsedIn
  <2>2. D \subseteq B
    BY <1>4, <1>5, <1>b DEF UsedIn
  <2>3. ASSUME NEW u \in A PROVE u \in C \/ (u \in B /\ u[1] # o)
    <3>1. PICK p \in UsedIn(T) : u \in W(T, p)
      BY <1>4
    <3>2. ASSUME p # o PROVE p \in UsedIn(U) /\ u \in W(U, p)
      BY <1>a, <3>1, <3>2 DEF UsedIn
    <3> QED
      BY <1>3, <1>4, <1>5, <3>1, <3>2
  <2>4. ASSUME NEW u \in B PROVE u \in D \/ (u \in A /\ u[1] # o)
    <3>1. PICK p \in UsedIn(U) : u \in W(U, p)
      BY <1>4
    <3>2. ASSUME p # o PROVE p \in UsedIn(T) /\ u \in W(T, p)
      BY <1>a, <3>1, <3>2 DEF UsedIn
    <3> QED
      BY <1>3, <1>4, <1>5, <3>1, <3>2
  <2>5. \A u : u \in C \/ u \in D => u[1] = o
    BY <1>3, <1>5
  <2> QED
    BY <2>1, <2>2, <2>3, <2>4, <2>5
<1>6. /\ IsFiniteSet(C) /\ Cardinality(C) = Cardinality(P)
      /\ IsFiniteSet(D) /\ Cardinality(D) = Cardinality(Q)
  <2>1. IsFiniteSet({o}) /\ Cardinality({o}) = 1
    BY FS_Singleton
  <2> HIDE DEF P, Q
  <2>2. IsFiniteSet(P) /\ IsFiniteSet(Q)
    BY <1>2
  <2>3. IsFiniteSet(C) /\ Cardinality(C) = 1 * Cardinality(P)
    BY <2>1, <2>2, FS_Product
  <2>4. IsFiniteSet(D) /\ Cardinality(D) = 1 * Cardinality(Q)
    BY <2>1, <2>2, FS_Product
  <2> QED
    BY <1>2, <2>3, <2>4, SMTT(60)
<1>7. IsFiniteSet(A)
  OBVIOUS
<1> HIDE DEF A, B, C, D, P, Q
<1>8. /\ Cardinality(A) \in Nat /\ Cardinality(C) <= Cardinality(A)
      /\ IsFiniteSet(A \ C) /\ Cardinality(A \ C) = Cardinality(A) - Cardinality(C)
  <2>1. A \cap C = C
    BY <1>c
  <2>2. C \in SUBSET A
    BY <1>c
  <2>3. IsFiniteSet(A \ C) /\ Cardinality(A \ C) = Cardinality(A) - Cardinality(C)
    BY <1>7, <2>1, FS_Difference
  <2> QED
    BY <1>7, <2>2, <2>3, FS_Subset, FS_CardinalityType
<1>9. /\ IsFiniteSet(B) /\ Cardinality(B) \in Nat
      /\ Cardinality(B) = Cardinality(A \ C) + Cardinality(D) - Cardinality({})
  <2>1. (A \ C) \cap D = {} /\ B = (A \ C) \cup D
    BY <1>c
  <2> DEFINE R == A \ C
  <2>2. IsFiniteSet(R) /\ R \cap D = {} /\ B = R \cup D
    BY <1>8, <2>1
  <2> HIDE DEF R
  <2>3. /\ IsFiniteSet(R \cup D)
        /\ Cardinality(R \cup D) = Cardinality(R) + Cardinality(D) - Cardinality(R \cap D)
    BY <1>6, <2>2, FS_Union
  <2> QED
    BY <2>2, <2>3, FS_CardinalityType DEF R
<1>10. Cardinality({}) = 0
  BY FS_EmptySet
<1>11. /\ Cardinality(P) <= Cardinality(A)
       /\ Cardinality(B) + Cardinality(P) = Cardinality(A) + Cardinality(Q)
  BY <1>2, <1>6, <1>8, <1>9, <1>10, SMTT(60)
<1> QED
  BY <1>8, <1>9, <1>11 DEF A, B, P, Q
-----------------------------------------------------------------------------
(* The names of a thread.                                                  *)

\* No name.
LEMMA PlacesNone == \A i : Cardinality(Places(<<>>, i)) = 0
<1>1. \A i : Places(<<>>, i) = {}
  BY SMTT(60) DEF Places
<1> QED
  BY <1>1, FS_EmptySet

\* A name before the others.
LEMMA PlacesCons ==
  ASSUME NEW c \in Seq(Obj), NEW s \in Obj, NEW i
  PROVE  /\ <<s>> \o c \in Seq(Obj) /\ <<s>> \o c # <<>>
         /\ s = i => Cardinality(Places(<<s>> \o c, i)) = Cardinality(Places(c, i)) + 1
         /\ s # i => Cardinality(Places(<<s>> \o c, i)) = Cardinality(Places(c, i))
<1> DEFINE e == <<s>> \o c
           P == Places(c, i)
           Q == Places(e, i)
           R == Q \ {1}
           f == [k \in P |-> k + 1]
<1>1. /\ e \in Seq(Obj) /\ Len(c) \in Nat /\ Len(e) = Len(c) + 1 /\ e # <<>>
      /\ DOMAIN c = 1..Len(c) /\ DOMAIN e = 1..Len(e) /\ e[1] = s
      /\ \A k \in 1..Len(c) : e[k + 1] = c[k]
  BY SMTT(60)
<1> HIDE DEF e
<1>2. IsFiniteSet(P) /\ IsFiniteSet(Q) /\ Cardinality(P) \in Nat /\ Cardinality(Q) \in Nat
  BY <1>1, PlacesFinite
<1>3. P \subseteq 1..Len(c) /\ R \subseteq 2..(Len(c) + 1)
  BY <1>1, SMTT(60) DEF Places
<1>4. \A k \in 1..Len(c) : k \in P <=> k + 1 \in R
  BY <1>1, SMTT(60) DEF Places
<1>5. f \in [P -> R] /\ \A j, k \in P : f[j] = f[k] => j = k
  BY <1>3, <1>4, SMTT(60)
<1>6. ASSUME NEW r \in R PROVE \E k \in P : f[k] = r
  <2>1. r - 1 \in 1..Len(c) /\ (r - 1) + 1 = r
    BY <1>1, <1>3, SMTT(60)
  <2>2. r - 1 \in P
    BY <1>4, <2>1
  <2> QED
    BY <2>1, <2>2
<1>7. f \in Bijection(P, R)
  BY <1>5, <1>6 DEF Bijection, Injection, Surjection, IsInjective
<1> HIDE DEF P, Q, R, f
<1>8. Cardinality(R) = Cardinality(P)
  BY <1>2, <1>7, FS_Bijection DEF ExistsBijection
<1>9. Cardinality(R) = IF 1 \in Q THEN Cardinality(Q) - 1 ELSE Cardinality(Q)
  BY <1>2, FS_RemoveElement DEF R
<1>10. 1 \in Q <=> s = i
  BY <1>1, SMTT(60) DEF Q, Places
<1>11. /\ s = i => Cardinality(Q) = Cardinality(P) + 1
       /\ s # i => Cardinality(Q) = Cardinality(P)
  BY <1>2, <1>8, <1>9, <1>10, SMTT(60)
<1> QED
  BY <1>1, <1>11 DEF e, P, Q

\* One name.
LEMMA PlacesOne ==
  ASSUME NEW s \in Obj, NEW i
  PROVE  /\ <<s>> \in Seq(Obj) /\ <<s>> # <<>>
         /\ s = i => Cardinality(Places(<<s>>, i)) = 1
         /\ s # i => Cardinality(Places(<<s>>, i)) = 0
<1> DEFINE c == <<>>
           e == <<s>> \o c
<1>1. c \in Seq(Obj) /\ e = <<s>>
  BY SMTT(60)
<1>2. Cardinality(Places(c, i)) = 0
  BY PlacesNone
<1> HIDE DEF c
<1>3. /\ e \in Seq(Obj) /\ e # <<>>
      /\ s = i => Cardinality(Places(e, i)) = Cardinality(Places(c, i)) + 1
      /\ s # i => Cardinality(Places(e, i)) = Cardinality(Places(c, i))
  BY <1>1, PlacesCons
<1> HIDE DEF e
<1>4. /\ s = i => Cardinality(Places(e, i)) = 1
      /\ s # i => Cardinality(Places(e, i)) = 0
  BY <1>2, <1>3, SMTT(60)
<1> QED
  BY <1>1, <1>3, <1>4

\* The names behind the first one.
LEMMA PlacesTail ==
  ASSUME NEW c \in Seq(Obj), c # <<>>, NEW i
  PROVE  /\ c[1] \in Obj /\ Tail(c) \in Seq(Obj) /\ Head(c) = c[1]
         /\ c[1] = i => Cardinality(Places(c, i)) = Cardinality(Places(Tail(c), i)) + 1
         /\ c[1] # i => Cardinality(Places(c, i)) = Cardinality(Places(Tail(c), i))
<1> DEFINE t == Tail(c)
           s == c[1]
<1>1. s \in Obj /\ t \in Seq(Obj) /\ Head(c) = c[1] /\ c = <<s>> \o t
  BY SMTT(60)
<1> HIDE DEF t, s
<1>2. s \in Obj /\ t \in Seq(Obj)
  BY <1>1
<1>3. /\ s = i => Cardinality(Places(<<s>> \o t, i)) = Cardinality(Places(t, i)) + 1
      /\ s # i => Cardinality(Places(<<s>> \o t, i)) = Cardinality(Places(t, i))
  BY <1>2, PlacesCons
<1> QED
  BY <1>1, <1>3 DEF t, s

Same(a, b) == IF a = b THEN 1 ELSE 0

WithFirst(c, s, e) ==
  c \in Seq(Obj) /\ c # <<>> /\ s \in Obj /\ e = [c EXCEPT ![1] = s]

FirstMoved(c, s, e, i) ==
  /\ e \in Seq(Obj) /\ e # <<>>
  /\ Cardinality(Places(e, i)) + Same(c[1], i) = Cardinality(Places(c, i)) + Same(s, i)

\* Another first name.
LEMMA PlacesFirst ==
  ASSUME NEW c, NEW s, NEW e, WithFirst(c, s, e), NEW i
  PROVE  FirstMoved(c, s, e, i)
<1> USE DEF WithFirst
<1> DEFINE t == Tail(c)
           x == <<s>> \o t
<1>1. e = x
  BY SMTT(60)
<1>2. /\ c[1] \in Obj /\ t \in Seq(Obj)
      /\ c[1] = i => Cardinality(Places(c, i)) = Cardinality(Places(t, i)) + 1
      /\ c[1] # i => Cardinality(Places(c, i)) = Cardinality(Places(t, i))
  BY PlacesTail
<1> HIDE DEF t
<1>3. /\ x \in Seq(Obj) /\ x # <<>>
      /\ s = i => Cardinality(Places(x, i)) = Cardinality(Places(t, i)) + 1
      /\ s # i => Cardinality(Places(x, i)) = Cardinality(Places(t, i))
  BY <1>2, PlacesCons
<1>4. Cardinality(Places(t, i)) \in Nat
  BY <1>2, PlacesFinite
<1> HIDE DEF x
<1>5. Cardinality(Places(x, i)) + Same(c[1], i) = Cardinality(Places(c, i)) + Same(s, i)
  BY <1>2, <1>3, <1>4, SMTT(60) DEF Same
<1> QED
  BY <1>1, <1>3, <1>5 DEF FirstMoved
-----------------------------------------------------------------------------
(* One thread changes.                                                     *)

\* The thread o may be u, when the entries F have references, w is being deleted,
\* the handler has the references k and the threads Y have no map group.
ThreadMay(T, E, v, h, X, o, u, F, w, k, Y) ==
  /\ ThreadsOK(T, E, v, h, X) /\ T \in [Obj -> Thread] /\ o \in Obj /\ u \in Thread
  /\ F \subseteq Obj /\ w \in Obj \cup {NULL} /\ k \in [Obj -> Nat]
  /\ \A p \in Obj : p # o => /\ Bit(p \in F) = Bit(p \in E) /\ k[p] = h[p]
                             /\ (p = w <=> p = v) /\ (p \in Y <=> p \in X)
  /\ u.refcnt = Bit(u.linked) + Bit(o \in F) + k[o]
  /\ u.tid = NULL => u = NoThread /\ w # o /\ o \notin Y
  /\ u.tid # NULL => (u.refcnt = 0 <=> o = w)
  /\ u.tid # NULL => (u.mg = NULL <=> o \in Y)
  /\ u.tid # NULL /\ o # w => u.comms # <<>>
  /\ u.linked => \A p \in Obj : p # o /\ T[p].linked => T[p].tid # u.tid
  /\ u.tid # NULL /\ u.mg # NULL =>
       \A p \in UsedIn(T) : p # o /\ T[p].mg = u.mg => u.pid # Unknown /\ T[p].pid # Unknown

\* The thread o is u from now on.
LEMMA ThreadStep ==
  ASSUME NEW T, NEW E, NEW v, NEW h, NEW X, NEW o, NEW u, NEW F, NEW w, NEW k, NEW Y,
         ThreadMay(T, E, v, h, X, o, u, F, w, k, Y), NEW U, U = [T EXCEPT ![o] = u]
  PROVE  ThreadsOK(U, F, w, k, Y)
<1> USE DEF ThreadMay
<1>1. U \in [Obj -> Thread] /\ U[o] = u /\ \A p \in Obj : p # o => U[p] = T[p]
  OBVIOUS
<1>2. IsFiniteSet(UsedIn(U))
  BY <1>1, MembersStep DEF ThreadsOK
<1>3. \A p \in Obj : p # o => (p \in UsedIn(U) <=> p \in UsedIn(T))
  BY <1>1 DEF UsedIn
<1>4. o \in UsedIn(U) <=> u.tid # NULL
  BY <1>1 DEF UsedIn
<1>5. w # NULL => w \in UsedIn(U)
  BY <1>3, <1>4 DEF ThreadsOK, UsedIn
<1>6. ASSUME NEW p \in Obj
      PROVE  /\ U[p].refcnt = Bit(U[p].linked) + Bit(p \in F) + k[p]
             /\ U[p].tid = NULL => U[p] = NoThread /\ p \notin Y
  <2>1. CASE p = o
    BY <1>1, <2>1
  <2>2. CASE p # o
    BY <1>1, <2>2 DEF ThreadsOK
  <2> QED
    BY <2>1, <2>2
<1>7. ASSUME NEW p \in UsedIn(U)
      PROVE  /\ U[p].refcnt = 0 <=> p = w
             /\ U[p].mg = NULL <=> p \in Y
             /\ p # w => U[p].comms # <<>>
  <2>1. CASE p = o
    BY <1>1, <1>4, <2>1
  <2>2. CASE p # o
    <3>1. p \in Obj
      BY DEF UsedIn
    <3>2. p \in UsedIn(T) /\ U[p] = T[p] /\ (p = w <=> p = v) /\ (p \in Y <=> p \in X)
      BY <1>1, <1>3, <2>2, <3>1
    <3> HIDE DEF ThreadMay
    <3>3. ThreadsOK(T, E, v, h, X)
      BY DEF ThreadMay
    <3>4. /\ T[p].refcnt = 0 <=> p = v
          /\ T[p].mg = NULL <=> p \in X
          /\ p # v => T[p].comms # <<>>
      BY <3>2, <3>3 DEF ThreadsOK
    <3> QED
      BY <3>2, <3>4
  <2> QED
    BY <2>1, <2>2
<1>8. ASSUME NEW p \in UsedIn(U), NEW q \in UsedIn(U),
             U[p].linked, U[q].linked, U[p].tid = U[q].tid
      PROVE  p = q
  <2>1. p \in Obj /\ q \in Obj
    BY DEF UsedIn
  <2>2. CASE p = o /\ q # o
    BY <1>1, <1>8, <2>1, <2>2
  <2>3. CASE p # o /\ q = o
    BY <1>1, <1>8, <2>1, <2>3
  <2>4. CASE p # o /\ q # o
    <3>1. p \in UsedIn(T) /\ U[p] = T[p] /\ q \in UsedIn(T) /\ U[q] = T[q]
      BY <1>1, <1>3, <2>1, <2>4
    <3> HIDE DEF ThreadMay
    <3>2. ThreadsOK(T, E, v, h, X)
      BY DEF ThreadMay
    <3> QED
      BY <1>8, <3>1, <3>2 DEF ThreadsOK
  <2> QED
    BY <2>2, <2>3, <2>4
<1>9. ASSUME NEW p \in UsedIn(U), NEW q \in UsedIn(U),
             U[p].pid = Unknown, U[p].mg # NULL, U[p].mg = U[q].mg
      PROVE  p = q
  <2>1. p \in Obj /\ q \in Obj
    BY DEF UsedIn
  <2>2. CASE p = o /\ q # o
    BY <1>1, <1>3, <1>4, <1>9, <2>1, <2>2
  <2>3. CASE p # o /\ q = o
    BY <1>1, <1>3, <1>4, <1>9, <2>1, <2>3
  <2>4. CASE p # o /\ q # o
    BY <1>1, <1>3, <1>9, <2>1, <2>4 DEF ThreadsOK
  <2> QED
    BY <2>2, <2>3, <2>4
<1>10. F \subseteq Obj /\ k \in [Obj -> Nat]
  OBVIOUS
<1> HIDE DEF ThreadMay
<1> QED
  BY <1>2, <1>5, <1>6, <1>7, <1>8, <1>9, <1>10 DEF ThreadsOK

\* The groups may be H, when the thread o changes.
GroupMay(G, T, o, U, H) ==
  /\ GroupsOK(G, T) /\ IsFiniteSet(UsedIn(T)) /\ o \in Obj /\ H \in [Obj -> MapGroup]
  /\ \A p \in Obj : p # o => U[p] = T[p]
  /\ \A g \in Obj : /\ GroupForm(H[g])
                    /\ H[g].refcnt + Refs(T, o, g) = G[g].refcnt + Refs(U, o, g)

\* The counts of the groups follow.
LEMMA GroupStep ==
  ASSUME NEW G, NEW T, NEW o, NEW U, NEW H, GroupMay(G, T, o, U, H)
  PROVE  GroupsOK(H, U)
<1> USE DEF GroupMay
<1>0. /\ IsFiniteSet(UsedIn(U))
      /\ \A g : /\ Cardinality(Members(T, g)) \in Nat
                /\ Cardinality(Members(U, g)) + Refs(T, o, g)
                     = Cardinality(Members(T, g)) + Refs(U, o, g)
  BY MembersStep
<1> SUFFICES ASSUME NEW g \in Obj
             PROVE  H[g].refcnt = Cardinality(Members(U, g))
  BY DEF GroupsOK
<1>1. /\ Cardinality(Members(T, g)) \in Nat
      /\ Cardinality(Members(U, g)) + Refs(T, o, g)
           = Cardinality(Members(T, g)) + Refs(U, o, g)
  BY <1>0
<1>2. /\ H[g].refcnt + Refs(T, o, g) = G[g].refcnt + Refs(U, o, g)
      /\ G[g].refcnt = Cardinality(Members(T, g)) /\ H[g].refcnt \in Nat
  BY DEF GroupsOK, MapGroup
<1>3. IsFiniteSet(Members(U, g))
  BY <1>0, FS_Subset DEF Members
<1>4. Cardinality(Members(U, g)) \in Nat
  BY <1>3, FS_CardinalityType
<1> QED
  BY <1>1, <1>2, <1>4, SMTT(60) DEF Refs

\* The strings may be Z, of which e is being erased, when the thread o changes.
StrMay(S, T, d, o, U, Z, e) ==
  /\ StrsOK(S, T, d) /\ S \in [Obj -> Str] /\ T \in [Obj -> Thread] /\ o \in Obj
  /\ U \in [Obj -> Thread] /\ Z \in [Obj -> Str] /\ StrsForm(Z, e)
  /\ \A p \in Obj : p # o => U[p] = T[p]
  /\ T[o].tid = NULL => T[o].comms = <<>>
  /\ U[o].tid = NULL => U[o].comms = <<>>
  /\ \A i \in Obj : Z[i].refcnt + Cardinality(Places(T[o].comms, i))
                      = S[i].refcnt + Cardinality(Places(U[o].comms, i))

\* The counts of the strings follow.
LEMMA StrStep ==
  ASSUME NEW S, NEW T, NEW d, NEW o, NEW U, NEW Z, NEW e, StrMay(S, T, d, o, U, Z, e)
  PROVE  StrsOK(Z, U, e)
<1> USE DEF StrMay
<1> SUFFICES ASSUME NEW i \in Obj
             PROVE  /\ IsFiniteSet(UsersIn(U, i))
                    /\ Z[i].refcnt = Cardinality(UsersIn(U, i))
  BY DEF StrsOK
<1>1. IsFiniteSet(UsersIn(T, i)) /\ S[i].refcnt = Cardinality(UsersIn(T, i))
  BY DEF StrsOK
<1>2. /\ IsFiniteSet(UsersIn(U, i))
      /\ Cardinality(UsersIn(T, i)) \in Nat /\ Cardinality(UsersIn(U, i)) \in Nat
      /\ Cardinality(UsersIn(U, i)) + Cardinality(Places(T[o].comms, i))
           = Cardinality(UsersIn(T, i)) + Cardinality(Places(U[o].comms, i))
  BY <1>1, UsersStep
<1>3. T[o].comms \in Seq(Obj) /\ U[o].comms \in Seq(Obj) /\ Z[i].refcnt \in Nat
  BY DEF Thread, Str
<1>4. Cardinality(Places(T[o].comms, i)) \in Nat /\ Cardinality(Places(U[o].comms, i)) \in Nat
  BY <1>3, PlacesFinite
<1>5. Z[i].refcnt + Cardinality(Places(T[o].comms, i))
        = S[i].refcnt + Cardinality(Places(U[o].comms, i))
  OBVIOUS
<1>6. Z[i].refcnt = Cardinality(UsersIn(U, i))
  BY <1>1, <1>2, <1>3, <1>4, <1>5, SMTT(60)
<1> QED
  BY <1>2, <1>6

\* A reference to a map group is dropped.
LEMMA PutGroup ==
  ASSUME NEW G \in [Obj -> MapGroup], NEW g \in Obj, G[g].refcnt > 0, GroupForm(G[g])
  PROVE  LET H == map_groups__put(G, g)
         IN  /\ H \in [Obj -> MapGroup] /\ \A x \in Obj : x # g => H[x] = G[x]
             /\ H[g].refcnt = G[g].refcnt - 1 /\ GroupForm(H[g])
<1> DEFINE H == map_groups__put(G, g)
<1>1. G[g] \in MapGroup /\ G[g].refcnt \in Nat
  BY DEF MapGroup
<1>2. CASE G[g].refcnt = 1
  <2>1. H = [G EXCEPT ![g] = NoGroup]
    BY <1>2 DEF map_groups__put
  <2>2. NoGroup \in MapGroup /\ NoGroup.refcnt = 0 /\ NoGroup.maps = {}
    BY DEF NoGroup, MapGroup
  <2>3. GroupForm(NoGroup)
    BY <2>2 DEF GroupForm, Disjoint
  <2>4. 0 = G[g].refcnt - 1
    BY <1>2, SMTT(60)
  <2> QED
    BY <2>1, <2>2, <2>3, <2>4
<1>3. CASE G[g].refcnt # 1
  <2> DEFINE r == [G[g] EXCEPT !.refcnt = @ - 1]
  <2>1. H = [G EXCEPT ![g] = r]
    BY <1>3 DEF map_groups__put
  <2>2. G[g].refcnt - 1 \in Nat /\ G[g].refcnt - 1 # 0
    BY <1>1, <1>3, SMTT(60)
  <2>3. r \in MapGroup /\ r.refcnt = G[g].refcnt - 1 /\ r.maps = G[g].maps
    BY <1>1, <2>2 DEF MapGroup
  <2>4. GroupForm(r)
    BY <2>2, <2>3 DEF GroupForm
  <2> HIDE DEF r
  <2> QED
    BY <2>1, <2>3, <2>4
<1> QED
  BY <1>2, <1>3

\* A reference to a map group is taken.
LEMMA GetGroup ==
  ASSUME NEW G \in [Obj -> MapGroup], NEW g \in Obj, GroupForm(G[g])
  PROVE  LET H == map_groups__get(G, g)
         IN  /\ H \in [Obj -> MapGroup] /\ \A x \in Obj : x # g => H[x] = G[x]
             /\ H[g].refcnt = G[g].refcnt + 1 /\ GroupForm(H[g]) /\ H[g].maps = G[g].maps
<1> DEFINE H == map_groups__get(G, g)
           r == [G[g] EXCEPT !.refcnt = @ + 1]
<1>1. G[g] \in MapGroup /\ G[g].refcnt \in Nat
  BY DEF MapGroup
<1>2. H = [G EXCEPT ![g] = r]
  BY DEF map_groups__get
<1>3. G[g].refcnt + 1 \in Nat /\ G[g].refcnt + 1 # 0
  BY <1>1, SMTT(60)
<1>4. r \in MapGroup /\ r.refcnt = G[g].refcnt + 1 /\ r.maps = G[g].maps
  BY <1>1, <1>3 DEF MapGroup
<1>5. GroupForm(r)
  BY <1>3, <1>4 DEF GroupForm
<1> HIDE DEF r
<1> QED
  BY <1>2, <1>4, <1>5

\* The thread o keeps its group, or has none before and after.
StayMay(G, T, o, U) ==
  /\ G \in [Obj -> MapGroup] /\ GroupsOK(G, T) /\ IsFiniteSet(UsedIn(T)) /\ o \in Obj
  /\ \A p \in Obj : p # o => U[p] = T[p]
  /\ \A g \in Obj : Refs(U, o, g) = Refs(T, o, g)

\* The counts of the groups stay.
LEMMA SameGroups ==
  ASSUME NEW G, NEW T, NEW o, NEW U, StayMay(G, T, o, U)
  PROVE  GroupsOK(G, U)
<1> USE DEF StayMay
<1>1. \A g \in Obj : /\ GroupForm(G[g])
                     /\ G[g].refcnt + Refs(T, o, g) = G[g].refcnt + Refs(U, o, g)
  BY DEF GroupsOK
<1>2. GroupMay(G, T, o, U, G)
  BY <1>1 DEF GroupMay
<1> QED
  BY <1>2, GroupStep

\* The groups may be H, when the thread o leaves its group g.
LeaveMay(G, T, o, U, g, H) ==
  /\ G \in [Obj -> MapGroup] /\ GroupsOK(G, T) /\ IsFiniteSet(UsedIn(T))
  /\ o \in UsedIn(T) /\ o \in Obj /\ g \in Obj /\ T[o].mg = g
  /\ \A p \in Obj : p # o => U[p] = T[p]
  /\ \A x \in Obj : Refs(U, o, x) = 0
  /\ H = map_groups__put(G, g)

\* The thread o leaves its group.
LEMMA LeaveGroup ==
  ASSUME NEW G, NEW T, NEW o, NEW U, NEW g, NEW H, LeaveMay(G, T, o, U, g, H)
  PROVE  GroupsOK(H, U) /\ H \in [Obj -> MapGroup]
<1> USE DEF LeaveMay
<1>1. o \in Members(T, g)
  BY DEF Members
<1>2. G[g].refcnt > 0 /\ G[g].refcnt \in Nat
  <2>1. G[g].refcnt = Cardinality(Members(T, g))
    BY DEF GroupsOK
  <2>2. IsFiniteSet(Members(T, g))
    BY FS_Subset DEF Members
  <2>3. Cardinality(Members(T, g)) \in Nat /\ Cardinality(Members(T, g)) # 0
    BY <1>1, <2>2, FS_CardinalityType, FS_EmptySet
  <2> QED
    BY <2>1, <2>3, SMTT(60)
<1>3. \A x \in Obj : GroupForm(G[x])
  BY DEF GroupsOK
<1>4. /\ H \in [Obj -> MapGroup] /\ \A x \in Obj : x # g => H[x] = G[x]
      /\ H[g].refcnt = G[g].refcnt - 1 /\ GroupForm(H[g])
  BY <1>2, <1>3, PutGroup
<1>5. \A x : x # g => Refs(T, o, x) = 0
  BY DEF Refs, Members
<1>6. Refs(T, o, g) = 1
  BY <1>1 DEF Refs
<1>7. ASSUME NEW x \in Obj
      PROVE  GroupForm(H[x]) /\ H[x].refcnt + Refs(T, o, x) = G[x].refcnt + Refs(U, o, x)
  <2>1. CASE x = g
    <3>1. (G[g].refcnt - 1) + 1 = G[g].refcnt + 0
      BY <1>2, SMTT(60)
    <3> QED
      BY <1>4, <1>6, <2>1, <3>1
  <2>2. CASE x # g
    BY <1>3, <1>4, <1>5, <2>2
  <2> QED
    BY <2>1, <2>2
<1>8. GroupMay(G, T, o, U, H)
  BY <1>4, <1>7 DEF GroupMay
<1> QED
  BY <1>4, <1>8, GroupStep

\* The thread o keeps its names.
LEMMA SameStrs ==
  ASSUME NEW S \in [Obj -> Str], NEW T \in [Obj -> Thread], NEW U \in [Obj -> Thread],
         NEW d, NEW o \in Obj, StrsOK(S, T, d), \A p \in Obj : p # o => U[p] = T[p],
         U[o].comms = T[o].comms, T[o].tid = NULL => T[o].comms = <<>>,
         U[o].tid = NULL => U[o].comms = <<>>
  PROVE  StrsOK(S, U, d)
<1>1. \A i \in Obj : S[i].refcnt + Cardinality(Places(T[o].comms, i))
                       = S[i].refcnt + Cardinality(Places(U[o].comms, i))
  OBVIOUS
<1>2. StrsForm(S, d)
  BY DEF StrsOK
<1>3. StrMay(S, T, d, o, U, S, d)
  BY <1>1, <1>2 DEF StrMay
<1> QED
  BY <1>3, StrStep
-----------------------------------------------------------------------------
(* The tree of names.                                                      *)

\* Strings that keep their names, or are freed, when they were in use.
LEMMA StrsFormSub ==
  ASSUME NEW S \in [Obj -> Str], NEW d, StrsForm(S, d), NEW Z \in [Obj -> Str],
         \A i \in Obj : \/ Z[i] = S[i]
                        \/ S[i].refcnt > 0 /\ Z[i] = NoStr
                        \/ S[i].refcnt > 0 /\ Z[i].refcnt > 0 /\ Z[i].name = S[i].name
  PROVE  StrsForm(Z, d)
<1>0. NoStr.refcnt = 0 /\ NoStr.name = 0 /\ ~(0 > 0)
  BY SMTT(60) DEF NoStr
<1>1. Linked(Z) \subseteq Linked(S)
  BY <1>0 DEF Linked
<1>2. IsFiniteSet(Linked(Z))
  BY <1>1, FS_Subset DEF StrsForm
<1>3. ASSUME NEW i \in Obj
      PROVE  /\ Z[i].refcnt = 0 => Z[i] = NoStr \/ i = d
             /\ Z[i].refcnt > 0 => Z[i].name # 0
             /\ i = d => Z[i].refcnt = 0 /\ Z[i] # NoStr
             /\ Z[i].refcnt > 0 => S[i].refcnt > 0 /\ S[i].name = Z[i].name
  <2>1. CASE Z[i] = S[i]
    BY <2>1 DEF StrsForm
  <2>2. CASE S[i].refcnt > 0 /\ Z[i] = NoStr
    BY <1>0, <2>2 DEF StrsForm
  <2>3. CASE S[i].refcnt > 0 /\ Z[i].refcnt > 0 /\ Z[i].name = S[i].name
    BY <1>0, <2>3 DEF StrsForm
  <2> QED
    BY <2>1, <2>2, <2>3
<1>4. \A i, j \in Obj :
        Z[i].refcnt > 0 /\ Z[j].refcnt > 0 /\ Z[i].name = Z[j].name => i = j
  BY <1>3 DEF StrsForm
<1>5. d \in Obj \cup {NULL}
  BY DEF StrsForm
<1> QED
  BY <1>2, <1>3, <1>4, <1>5 DEF StrsForm

\* comm_str__findnew takes a reference to the one string with the name that is
\* in use, or makes one.
LEMMA FindnewStr ==
  ASSUME MemoryLasts, NEW S \in [Obj -> Str], NEW d, StrsForm(S, d),
         NEW name \in Int, name # 0
  PROVE  LET i == StrOf(S, name)
             Z == comm_str__findnew(S, name)
         IN  /\ i \in Obj /\ Z \in [Obj -> Str] /\ StrsForm(Z, d)
             /\ Z[i].refcnt = S[i].refcnt + 1 /\ Z[i].name = name
             /\ \A j \in Obj : j # i => Z[j] = S[j]
<1> DEFINE i == StrOf(S, name)
           Z == comm_str__findnew(S, name)
           L == Live(S, name)
<1>1. CASE L # {}
  <2> DEFINE r == [S[i] EXCEPT !.refcnt = @ + 1]
  <2>1. i = Min(L) /\ Z = [S EXCEPT ![i] = r]
    BY <1>1 DEF StrOf, comm_str__findnew, comm_str__get
  <2>2. L \subseteq Nat
    BY Null DEF Live, Linked
  <2>3. i \in Obj /\ S[i].refcnt > 0 /\ S[i].name = name
    <3> HIDE DEF L
    <3>1. i \in L
      BY <1>1, <2>1, <2>2, MinIsLeast
    <3> QED
      BY <3>1 DEF L, Live, Linked
  <2> HIDE DEF i, L, Z
  <2>4. S[i].refcnt + 1 \in Nat /\ S[i].refcnt + 1 > 0 /\ S[i] \in Str
    <3>1. S[i] \in Str /\ S[i].refcnt \in Nat
      BY <2>3 DEF Str
    <3> QED
      BY <3>1, SMTT(60)
  <2>5. r \in Str /\ r.refcnt = S[i].refcnt + 1 /\ r.name = S[i].name
    BY <2>4 DEF Str
  <2> HIDE DEF r
  <2>6. Z \in [Obj -> Str] /\ Z[i] = r /\ \A j \in Obj : j # i => Z[j] = S[j]
    BY <2>1, <2>3, <2>5
  <2>7. StrsForm(Z, d)
    <3>1. \A j \in Obj : \/ Z[j] = S[j]
                         \/ S[j].refcnt > 0 /\ Z[j].refcnt > 0 /\ Z[j].name = S[j].name
      BY <2>3, <2>4, <2>5, <2>6
    <3> QED
      BY <2>6, <3>1, StrsFormSub
  <2> QED
    BY <2>3, <2>5, <2>6, <2>7 DEF i, Z
<1>2. CASE L = {}
  <2> DEFINE r == [name |-> name, refcnt |-> 1]
             F == DOMAIN S \ Linked(S)
  <2>1. i = Min(F) /\ Z = [S EXCEPT ![i] = r]
    BY <1>2 DEF StrOf, comm_str__findnew
  <2>2. F \subseteq Obj /\ Obj \ Linked(S) \subseteq F /\ IsFiniteSet(Linked(S))
    BY DEF StrsForm
  <2>3. i \in Obj /\ S[i] = NoStr
    <3> HIDE DEF F
    <3>1. i \in F
      BY <2>1, <2>2, Fresh
    <3> QED
      BY <3>1 DEF F, Linked
  <2>4. \A j \in Obj : S[j].refcnt > 0 => S[j].name # name
    <3>1. \A j \in Obj : S[j].refcnt > 0 => S[j] # NoStr
      BY SMTT(60) DEF NoStr
    <3> QED
      BY <1>2, <3>1 DEF Live, Linked
  <2> HIDE DEF i, L, F, Z
  <2>5. r \in Str /\ r.refcnt = 1 /\ r.name = name /\ r # NoStr /\ 1 > 0 /\ 1 # 0
    BY SMTT(60) DEF Str, NoStr
  <2>6. S[i].refcnt = 0 /\ S[i].refcnt + 1 = 1 /\ ~(0 > 0) /\ i # d
    <3>0. NoStr.refcnt = 0
      BY DEF NoStr
    <3>1. S[i].refcnt = 0
      BY <2>3, <3>0
    <3>2. i # d
      BY <2>3 DEF StrsForm
    <3> QED
      BY <3>1, <3>2, SMTT(60)
  <2> HIDE DEF r
  <2>7. Z \in [Obj -> Str] /\ Z[i] = r /\ \A j \in Obj : j # i => Z[j] = S[j]
    BY <2>1, <2>3, <2>5
  <2>8. IsFiniteSet(Linked(Z))
    <3>1. Linked(Z) \subseteq Linked(S) \cup {i}
      BY <2>7 DEF Linked
    <3>2. IsFiniteSet(Linked(S) \cup {i})
      BY <2>2, FS_AddElement
    <3> QED
      BY <3>1, <3>2, FS_Subset
  <2>9. ASSUME NEW j \in Obj
        PROVE  /\ Z[j].refcnt = 0 => Z[j] = NoStr \/ j = d
               /\ Z[j].refcnt > 0 => Z[j].name # 0
               /\ j = d => Z[j].refcnt = 0 /\ Z[j] # NoStr
    <3>1. CASE j = i
      BY <2>5, <2>6, <2>7, <3>1
    <3>2. CASE j # i
      BY <2>7, <3>2 DEF StrsForm
    <3> QED
      BY <3>1, <3>2
  <2>10. ASSUME NEW j \in Obj, NEW k \in Obj,
                Z[j].refcnt > 0, Z[k].refcnt > 0, Z[j].name = Z[k].name
         PROVE  j = k
    <3>1. CASE j # i /\ k # i
      BY <2>7, <2>10, <3>1 DEF StrsForm
    <3>2. CASE j = i /\ k # i
      BY <2>4, <2>5, <2>7, <2>10, <3>2
    <3>3. CASE j # i /\ k = i
      BY <2>4, <2>5, <2>7, <2>10, <3>3
    <3> QED
      BY <3>1, <3>2, <3>3
  <2>11. StrsForm(Z, d)
    BY <2>8, <2>9, <2>10 DEF StrsForm
  <2> QED
    BY <2>3, <2>5, <2>6, <2>7, <2>11 DEF i, Z
<1> QED
  BY <1>1, <1>2

\* comm_str__put drops a reference.
LEMMA PutStr ==
  ASSUME NEW S \in [Obj -> Str], NEW d, StrsForm(S, d), NEW i \in Obj, S[i].refcnt > 0
  PROVE  LET Z == comm_str__put(S, i)
         IN  /\ Z \in [Obj -> Str] /\ StrsForm(Z, d)
             /\ Z[i].refcnt = S[i].refcnt - 1
             /\ \A j \in Obj : j # i => Z[j] = S[j]
<1> DEFINE Z == comm_str__put(S, i)
<1>1. S[i] \in Str /\ S[i].refcnt \in Nat
  BY DEF Str
<1>2. CASE S[i].refcnt = 1
  <2>1. Z = [S EXCEPT ![i] = NoStr]
    BY <1>2 DEF comm_str__put, comm_str__erase
  <2>2. NoStr \in Str /\ NoStr.refcnt = S[i].refcnt - 1
    BY <1>2, SMTT(60) DEF NoStr, Str
  <2> HIDE DEF Z
  <2>3. Z \in [Obj -> Str] /\ Z[i] = NoStr /\ \A j \in Obj : j # i => Z[j] = S[j]
    BY <2>1, <2>2
  <2>4. StrsForm(Z, d)
    BY <2>3, StrsFormSub
  <2> QED
    BY <2>2, <2>3, <2>4 DEF Z
<1>3. CASE S[i].refcnt # 1
  <2> DEFINE r == [S[i] EXCEPT !.refcnt = @ - 1]
  <2>1. Z = [S EXCEPT ![i] = r]
    BY <1>3 DEF comm_str__put, comm_str__dec
  <2>2. S[i].refcnt - 1 \in Nat /\ S[i].refcnt - 1 > 0
    BY <1>1, <1>3, SMTT(60)
  <2>3. r \in Str /\ r.refcnt = S[i].refcnt - 1 /\ r.name = S[i].name
    BY <1>1, <2>2 DEF Str
  <2> HIDE DEF r, Z
  <2>4. Z \in [Obj -> Str] /\ Z[i] = r /\ \A j \in Obj : j # i => Z[j] = S[j]
    BY <2>1, <2>3
  <2>5. StrsForm(Z, d)
    <3>1. \A j \in Obj : \/ Z[j] = S[j]
                         \/ S[j].refcnt > 0 /\ Z[j].refcnt > 0 /\ Z[j].name = S[j].name
      BY <2>2, <2>3, <2>4
    <3> QED
      BY <2>4, <3>1, StrsFormSub
  <2> QED
    BY <2>3, <2>4, <2>5 DEF Z
<1> QED
  BY <1>2, <1>3

\* The names of a deleted thread are dropped.
LEMMA FreeStrs ==
  ASSUME NEW S \in [Obj -> Str], NEW d, StrsForm(S, d), NEW c \in Seq(Obj),
         \A i \in Obj : Cardinality(Places(c, i)) <= S[i].refcnt
  PROVE  LET Z == comms__free(S, c)
         IN  /\ Z \in [Obj -> Str] /\ StrsForm(Z, d)
             /\ \A i \in Obj : Z[i].refcnt + Cardinality(Places(c, i)) = S[i].refcnt
<1> DEFINE Z == comms__free(S, c)
           n(i) == Cardinality(Places(c, i))
<1>1. \A i \in Obj : n(i) \in Nat /\ n(i) <= S[i].refcnt
  BY PlacesFinite
<1>2. Z = [i \in Obj |-> IF n(i) = 0 THEN S[i]
                         ELSE IF S[i].refcnt = n(i) THEN NoStr
                         ELSE [S[i] EXCEPT !.refcnt = @ - n(i)]]
  BY DEF comms__free
<1> HIDE DEF Z, n
<1>3. ASSUME NEW i \in Obj
      PROVE  /\ Z[i] \in Str /\ Z[i].refcnt + n(i) = S[i].refcnt
             /\ \/ Z[i] = S[i]
                \/ S[i].refcnt > 0 /\ Z[i] = NoStr
                \/ S[i].refcnt > 0 /\ Z[i].refcnt > 0 /\ Z[i].name = S[i].name
  <2>1. S[i] \in Str /\ S[i].refcnt \in Nat /\ n(i) \in Nat /\ n(i) <= S[i].refcnt
    BY <1>1 DEF Str
  <2>2. CASE n(i) = 0
    <3>1. Z[i] = S[i]
      BY <1>2, <2>2
    <3>2. S[i].refcnt + n(i) = S[i].refcnt
      BY <2>1, <2>2, SMTT(60)
    <3> QED
      BY <2>1, <3>1, <3>2
  <2>3. CASE n(i) # 0 /\ S[i].refcnt = n(i)
    <3>1. Z[i] = NoStr
      BY <1>2, <2>3
    <3>2. NoStr \in Str /\ NoStr.refcnt + n(i) = S[i].refcnt /\ S[i].refcnt > 0
      BY <2>1, <2>3, SMTT(60) DEF NoStr, Str
    <3> QED
      BY <3>1, <3>2
  <2>4. CASE n(i) # 0 /\ S[i].refcnt # n(i)
    <3>1. Z[i] = [S[i] EXCEPT !.refcnt = @ - n(i)]
      BY <1>2, <2>4
    <3>2. /\ S[i].refcnt - n(i) \in Nat /\ S[i].refcnt - n(i) > 0 /\ S[i].refcnt > 0
          /\ (S[i].refcnt - n(i)) + n(i) = S[i].refcnt
      <4>1. \A a, b \in Nat : b <= a /\ b # 0 /\ a # b =>
              a - b \in Nat /\ a - b > 0 /\ a > 0 /\ (a - b) + b = a
        BY SMTT(60)
      <4> QED
        BY <2>1, <2>4, <4>1
    <3>3. Z[i] \in Str /\ Z[i].refcnt = S[i].refcnt - n(i) /\ Z[i].name = S[i].name
      BY <2>1, <3>1, <3>2 DEF Str
    <3> QED
      BY <3>2, <3>3
  <2> QED
    BY <2>2, <2>3, <2>4
<1>4. Z \in [Obj -> Str]
  BY <1>2, <1>3
<1>5. StrsForm(Z, d)
  BY <1>3, <1>4, StrsFormSub
<1> QED
  BY <1>3, <1>4, <1>5 DEF Z, n
-----------------------------------------------------------------------------
(* References to threads.                                                  *)

Hold(h, o) == [h EXCEPT ![o] = @ + 1]
Drop(h, o) == [h EXCEPT ![o] = @ - 1]

\* A thread in the tree stays there, with its tid, and with its pid if that is
\* known.  A new one has its tid in S.
Keeps(T, U, S) ==
  \A p \in Obj :
    /\ T[p].linked => /\ U[p].linked /\ U[p].tid = T[p].tid
                      /\ T[p].pid # Unknown => U[p].pid = T[p].pid
    /\ U[p].linked => T[p].linked \/ U[p].tid \in S

\* A count of references with one more, and with one less (thread__get, thread__put).
LEMMA HoldDrop ==
  ASSUME NEW h \in [Obj -> Nat], NEW o \in Obj
  PROVE  /\ Hold(h, o) \in [Obj -> Nat] /\ Drop(Hold(h, o), o) = h
         /\ Hold(h, o)[o] = h[o] + 1 /\ Hold(h, o)[o] > 0
         /\ \A p \in Obj : p # o => Hold(h, o)[p] = h[p]
         /\ h[o] > 0 => /\ Drop(h, o) \in [Obj -> Nat] /\ Drop(h, o)[o] = h[o] - 1
                        /\ \A p \in Obj : p # o => Drop(h, o)[p] = h[p]
<1> DEFINE k == Hold(h, o)
<1>1. k \in [Obj -> Nat] /\ k[o] = h[o] + 1 /\ \A p \in Obj : p # o => k[p] = h[p]
  BY SMTT(60) DEF Hold
<1>2. h[o] + 1 > 0 /\ (h[o] + 1) - 1 = h[o]
  BY SMTT(60)
<1>3. Drop(k, o) = h
  <2>1. Drop(k, o) = [k EXCEPT ![o] = k[o] - 1]
    BY DEF Drop
  <2> HIDE DEF k
  <2> QED
    BY <1>1, <1>2, <2>1, SMTT(60)
<1>4. h[o] > 0 => /\ Drop(h, o) \in [Obj -> Nat] /\ Drop(h, o)[o] = h[o] - 1
                  /\ \A p \in Obj : p # o => Drop(h, o)[p] = h[p]
  BY SMTT(60) DEF Drop
<1> QED
  BY <1>1, <1>2, <1>3, <1>4

\* There is a reference to o.
Counted(T, E, h, o) == T[o].linked \/ h[o] > 0 \/ o \in E

\* What is counted is no free object, and not the one that is being deleted.
LEMMA CountedIsUsed ==
  ASSUME NEW T \in [Obj -> Thread], NEW E, NEW v, NEW h, NEW X, ThreadsOK(T, E, v, h, X),
         NEW o \in Obj, Counted(T, E, h, o)
  PROVE  /\ o \in UsedIn(T) /\ o # v /\ T[o].tid \in Tid /\ T[o].refcnt \in Nat
         /\ T[o].refcnt > 0
<1>1. /\ T[o].refcnt = Bit(T[o].linked) + Bit(o \in E) + h[o]
      /\ T[o].tid = NULL => T[o] = NoThread
      /\ o \in UsedIn(T) => (T[o].refcnt = 0 <=> o = v)
      /\ h[o] \in Nat
  BY DEF ThreadsOK
<1>2. T[o].refcnt \in Nat /\ T[o].linked \in BOOLEAN /\ T[o].tid \in Tid \cup {NULL}
  BY DEF Thread
<1>3. T[o].refcnt > 0
  <2>1. Bit(T[o].linked) \in Nat /\ (T[o].linked => Bit(T[o].linked) = 1)
    BY SMTT(60) DEF Bit
  <2>2. Bit(o \in E) \in Nat /\ (o \in E => Bit(o \in E) = 1)
    BY SMTT(60) DEF Bit
  <2>3. \A a, b, c \in Nat : a = 1 \/ b = 1 \/ c > 0 => a + b + c > 0
    BY SMTT(60)
  <2>4. Bit(T[o].linked) = 1 \/ Bit(o \in E) = 1 \/ h[o] > 0
    BY <2>1, <2>2 DEF Counted
  <2> QED
    BY <1>1, <2>1, <2>2, <2>3, <2>4
<1>4. T[o].tid # NULL
  <2>1. NoThread.refcnt = 0 /\ ~(0 > 0)
    BY SMTT(60) DEF NoThread
  <2> QED
    BY <1>1, <1>3, <2>1
<1>5. T[o].refcnt # 0
  BY <1>2, <1>3, SMTT(60)
<1> QED
  BY <1>1, <1>2, <1>3, <1>4, <1>5 DEF UsedIn

\* A thread in use that keeps its tid, its maps and its names may be u, in nn.
TouchMay(mm, v, h, E, o, u, k, nn) ==
  /\ o \in UsedIn(mm.threads) /\ o # v /\ u \in Thread
  /\ u.tid = mm.threads[o].tid /\ u.mg = mm.threads[o].mg
  /\ u.comms = mm.threads[o].comms
  /\ u.pid = mm.threads[o].pid \/ u.pid # Unknown
  /\ u.linked => mm.threads[o].linked
  /\ k \in [Obj -> Nat] /\ \A p \in Obj : p # o => k[p] = h[p]
  /\ u.refcnt = Bit(u.linked) + Bit(o \in E) + k[o] /\ u.refcnt # 0
  /\ MachineType(nn) /\ LastOK(nn) /\ nn.threads = [mm.threads EXCEPT ![o] = u]
  /\ nn.mgs = mm.mgs /\ nn.strs = mm.strs

\* It is u from now on.
LEMMA Touch ==
  ASSUME NEW mm, NEW E, NEW v, NEW d, NEW h, NEW X, MachineOK(mm, E, v, d, h, X),
         NEW o, NEW u, NEW k, NEW nn, TouchMay(mm, v, h, E, o, u, k, nn)
  PROVE  MachineOK(nn, E, v, d, k, X)
<1> USE DEF TouchMay
<1> DEFINE T == mm.threads
           U == nn.threads
<1>1. /\ T \in [Obj -> Thread] /\ mm.mgs \in [Obj -> MapGroup] /\ mm.strs \in [Obj -> Str]
      /\ ThreadsOK(T, E, v, h, X) /\ GroupsOK(mm.mgs, T) /\ StrsOK(mm.strs, T, d)
  BY DEF MachineOK, MachineType
<1>2. o \in Obj /\ T[o].tid # NULL
  BY DEF UsedIn
<1>3. U \in [Obj -> Thread] /\ U[o] = u /\ \A p \in Obj : p # o => U[p] = T[p]
  BY <1>1, <1>2
<1>4. U = [T EXCEPT ![o] = u]
  OBVIOUS
<1> HIDE DEF U, T
<1>5. ThreadsOK(U, E, v, k, X)
  <2>1. /\ T[o].mg = NULL <=> o \in X
        /\ o # v => T[o].comms # <<>>
        /\ \A p \in UsedIn(T) : /\ T[p].linked /\ T[o].linked /\ T[p].tid = T[o].tid => p = o
                                /\ T[p].pid = Unknown /\ T[p].mg # NULL /\ T[p].mg = T[o].mg
                                   => p = o
                                /\ T[o].pid = Unknown /\ T[o].mg # NULL /\ T[o].mg = T[p].mg
                                   => p = o
    BY <1>1 DEF ThreadsOK, T
  <2>2. u.linked => \A p \in Obj : p # o /\ T[p].linked => T[p].tid # u.tid
    <3>1. \A p \in Obj : T[p].linked => p \in UsedIn(T)
      BY <1>1, CountedIsUsed DEF Counted
    <3> QED
      BY <2>1, <3>1 DEF T
  <2>3. u.tid # NULL /\ u.mg # NULL =>
           \A p \in UsedIn(T) : p # o /\ T[p].mg = u.mg =>
             u.pid # Unknown /\ T[p].pid # Unknown
    BY <2>1 DEF T
  <2>4. u.tid # NULL /\ (u.mg = NULL <=> o \in X) /\ u.comms # <<>>
    BY <1>2, <2>1 DEF T
  <2>5. E \subseteq Obj /\ v \in Obj \cup {NULL}
    BY <1>1 DEF ThreadsOK, UsedIn
  <2>6. ThreadMay(T, E, v, h, X, o, u, E, v, k, X)
    BY <1>1, <1>2, <2>2, <2>3, <2>4, <2>5 DEF ThreadMay
  <2> QED
    BY <1>4, <2>6, ThreadStep
<1>6. GroupsOK(nn.mgs, U)
  <2>1. IsFiniteSet(UsedIn(T))
    BY <1>1 DEF ThreadsOK
  <2>2. \A g : Refs(U, o, g) = Refs(T, o, g)
    BY <1>2, <1>3 DEF Refs, Members, UsedIn, T
  <2>3. \A g \in Obj : /\ GroupForm(mm.mgs[g])
                       /\ mm.mgs[g].refcnt + Refs(T, o, g) = mm.mgs[g].refcnt + Refs(U, o, g)
    BY <1>1, <2>2 DEF GroupsOK
  <2>4. GroupMay(mm.mgs, T, o, U, mm.mgs)
    BY <1>1, <1>2, <1>3, <2>1, <2>3 DEF GroupMay
  <2> QED
    BY <2>4, GroupStep
<1>7. StrsOK(nn.strs, U, d)
  <2>1. U[o].comms = T[o].comms /\ U[o].tid # NULL /\ StrsForm(mm.strs, d)
    BY <1>1, <1>2, <1>3 DEF T, StrsOK
  <2>2. \A i \in Obj : mm.strs[i].refcnt + Cardinality(Places(T[o].comms, i))
                         = mm.strs[i].refcnt + Cardinality(Places(U[o].comms, i))
    BY <2>1
  <2>3. StrMay(mm.strs, T, d, o, U, mm.strs, d)
    BY <1>1, <1>2, <1>3, <2>1, <2>2 DEF StrMay, T
  <2> QED
    BY <2>3, StrStep
<1> QED
  BY <1>5, <1>6, <1>7 DEF MachineOK, U

\* thread__delete of a thread with one reference, that of the handler.
LEMMA DeleteOK ==
  ASSUME NEW mm, NEW E, NEW v, NEW d, NEW h, NEW X, MachineOK(mm, E, v, d, h, X),
         NEW o \in Obj, h[o] > 0, o \notin X, mm.threads[o].refcnt = 1
  PROVE  LET nn == thread__delete(mm, o)
         IN  /\ MachineOK(nn, E, v, d, Drop(h, o), X)
             /\ ~mm.threads[o].linked
             /\ \A p \in Obj : p # o => nn.threads[p] = mm.threads[p]
<1> DEFINE nn == thread__delete(mm, o)
           T == mm.threads
           U == nn.threads
           g == T[o].mg
           k == Drop(h, o)
<1>1. /\ T \in [Obj -> Thread] /\ mm.mgs \in [Obj -> MapGroup] /\ mm.strs \in [Obj -> Str]
      /\ ThreadsOK(T, E, v, h, X) /\ GroupsOK(mm.mgs, T) /\ StrsOK(mm.strs, T, d)
      /\ mm.last_match \in Obj \cup {NULL} /\ LastOK(mm) /\ h \in [Obj -> Nat]
      /\ DOMAIN mm = {"threads", "mgs", "strs", "last_match"}
  BY DEF MachineOK, MachineType, ThreadsOK
<1>2. o \in UsedIn(T) /\ o # v /\ T[o].tid # NULL
  <2> HIDE DEF T
  <2>1. T \in [Obj -> Thread] /\ ThreadsOK(T, E, v, h, X) /\ Counted(T, E, h, o)
    BY <1>1 DEF Counted
  <2>2. o \in UsedIn(T) /\ o # v
    BY <2>1, CountedIsUsed
  <2> QED
    BY <2>2 DEF UsedIn
<1>3. /\ DOMAIN nn = {"threads", "mgs", "strs", "last_match"}
      /\ U = [T EXCEPT ![o] = NoThread] /\ nn.mgs = map_groups__put(mm.mgs, g)
      /\ nn.strs = comms__free(mm.strs, T[o].comms) /\ nn.last_match = mm.last_match
  BY <1>1 DEF thread__delete
<1>4. /\ NoThread \in Thread /\ NoThread.tid = NULL /\ NoThread.comms = <<>>
      /\ NoThread.linked = FALSE /\ NoThread.refcnt = 0
  BY SMTT(60) DEF NoThread, Thread, Unknown, NULL
<1> HIDE DEF nn, U, T
<1>5. U \in [Obj -> Thread] /\ U[o] = NoThread /\ \A p \in Obj : p # o => U[p] = T[p]
  BY <1>1, <1>3, <1>4
<1>6. ~T[o].linked /\ o \notin E /\ h[o] = 1
  <2>1. T[o].refcnt = Bit(T[o].linked) + Bit(o \in E) + h[o] /\ h[o] \in Nat
    BY <1>1 DEF ThreadsOK
  <2>2. T[o].refcnt = 1
    BY DEF T
  <2> QED
    BY <2>1, <2>2, SMTT(60) DEF Bit
<1>7. k \in [Obj -> Nat] /\ k[o] = 0 /\ \A p \in Obj : p # o => k[p] = h[p]
  <2>1. h[o] > 0 => /\ k \in [Obj -> Nat] /\ k[o] = h[o] - 1
                    /\ \A p \in Obj : p # o => k[p] = h[p]
    BY <1>1, HoldDrop
  <2>2. 1 - 1 = 0
    BY SMTT(60)
  <2> QED
    BY <1>6, <2>1, <2>2
<1> HIDE DEF k
<1>8. ThreadsOK(U, E, v, k, X)
  <2>1. 0 = Bit(FALSE) + Bit(o \in E) + k[o]
    BY <1>6, <1>7, SMTT(60) DEF Bit
  <2>2. E \subseteq Obj /\ v \in Obj \cup {NULL}
    BY <1>1 DEF ThreadsOK, UsedIn
  <2>3. ThreadMay(T, E, v, h, X, o, NoThread, E, v, k, X)
    BY <1>1, <1>2, <1>4, <1>7, <2>1, <2>2 DEF ThreadMay
  <2> QED
    BY <1>3, <2>3, ThreadStep
<1>9. g \in Obj
  <2>1. g # NULL
    BY <1>1, <1>2 DEF ThreadsOK
  <2>2. g \in Obj \cup {NULL}
    BY <1>1 DEF Thread
  <2> QED
    BY <2>1, <2>2
<1>10. GroupsOK(nn.mgs, U) /\ nn.mgs \in [Obj -> MapGroup]
  <2>1. IsFiniteSet(UsedIn(T))
    BY <1>1 DEF ThreadsOK
  <2>2. \A x \in Obj : Refs(U, o, x) = 0
    BY <1>4, <1>5 DEF Refs, Members, UsedIn
  <2>3. LeaveMay(mm.mgs, T, o, U, g, nn.mgs)
    BY <1>1, <1>2, <1>3, <1>5, <1>9, <2>1, <2>2 DEF LeaveMay
  <2> QED
    BY <2>3, LeaveGroup
<1>11. StrsOK(nn.strs, U, d) /\ nn.strs \in [Obj -> Str]
  <2> DEFINE S == mm.strs
             Z == nn.strs
             c == T[o].comms
  <2>1. c \in Seq(Obj) /\ StrsForm(S, d)
    BY <1>1 DEF Thread, StrsOK
  <2>2. \A i \in Obj : Cardinality(Places(c, i)) <= S[i].refcnt
    <3>1. ASSUME NEW i \in Obj PROVE Cardinality(Places(c, i)) <= S[i].refcnt
      <4>1. IsFiniteSet(UsersIn(T, i)) /\ S[i].refcnt = Cardinality(UsersIn(T, i))
        BY <1>1 DEF StrsOK
      <4>2. Cardinality(Places(c, i)) <= Cardinality(UsersIn(T, i))
        BY <1>1, <1>2, <1>4, <1>5, <4>1, UsersStep
      <4> QED
        BY <4>1, <4>2
    <3> QED
      BY <3>1
  <2> HIDE DEF S, c
  <2>3. /\ Z \in [Obj -> Str] /\ StrsForm(Z, d)
        /\ \A i \in Obj : Z[i].refcnt + Cardinality(Places(c, i)) = S[i].refcnt
    <3> HIDE DEF Z
    <3>1. S \in [Obj -> Str] /\ Z = comms__free(S, c)
      BY <1>1, <1>3 DEF S, Z, c
    <3> QED
      BY <2>1, <2>2, <3>1, FreeStrs
  <2>4. \A i \in Obj : Z[i].refcnt + Cardinality(Places(T[o].comms, i))
                         = S[i].refcnt + Cardinality(Places(U[o].comms, i))
    <3>1. \A i \in Obj : S[i].refcnt + 0 = S[i].refcnt
      BY <1>1, SMTT(60) DEF S, Str
    <3>2. \A i : Cardinality(Places(U[o].comms, i)) = 0
      BY <1>4, <1>5, PlacesNone
    <3> QED
      <4> HIDE DEF Z, S, c
      <4>1. ASSUME NEW i \in Obj
            PROVE  Z[i].refcnt + Cardinality(Places(c, i))
                     = S[i].refcnt + Cardinality(Places(U[o].comms, i))
        <5>1. Z[i].refcnt + Cardinality(Places(c, i)) = S[i].refcnt
          BY <2>3
        <5>2. S[i].refcnt + Cardinality(Places(U[o].comms, i)) = S[i].refcnt + 0
          BY <3>2
        <5> QED
          BY <3>1, <5>1, <5>2
      <4> QED
        BY <4>1 DEF c
  <2> HIDE DEF Z
  <2>5. StrMay(S, T, d, o, U, Z, d)
    BY <1>1, <1>2, <1>4, <1>5, <2>3, <2>4 DEF StrMay, S
  <2> QED
    BY <2>3, <2>5, StrStep DEF Z
<1>12. LastOK(nn)
  BY <1>1, <1>3, <1>5, <1>6 DEF LastOK, T, U
<1>13. MachineType(nn)
  BY <1>1, <1>3, <1>5, <1>10, <1>11 DEF MachineType, U
<1> QED
  BY <1>5, <1>6, <1>8, <1>10, <1>11, <1>12, <1>13 DEF MachineOK, nn, U, T, k

IsHeld(mm, E, v, h, o) ==
  /\ o \in UsedIn(mm.threads) /\ o # v /\ mm.threads[o].tid \in Tid
  /\ mm.threads[o] \in Thread
  /\ mm.threads[o].refcnt \in Nat /\ mm.threads[o].refcnt > 0
  /\ mm.threads[o].refcnt = Bit(mm.threads[o].linked) + Bit(o \in E) + h[o]

\* A thread that is counted is in use, and counted once at least.
LEMMA HeldIsUsed ==
  ASSUME NEW mm, NEW E, NEW v, NEW d, NEW h, NEW X, MachineOK(mm, E, v, d, h, X),
         NEW o \in Obj, Counted(mm.threads, E, h, o)
  PROVE  IsHeld(mm, E, v, h, o)
<1> DEFINE T == mm.threads
<1>1. T \in [Obj -> Thread] /\ ThreadsOK(T, E, v, h, X) /\ Counted(T, E, h, o)
  BY DEF MachineOK, MachineType
<1>2. T[o].refcnt = Bit(T[o].linked) + Bit(o \in E) + h[o]
  BY <1>1 DEF ThreadsOK
<1> HIDE DEF T
<1>3. /\ o \in UsedIn(T) /\ o # v /\ T[o].tid \in Tid /\ T[o].refcnt \in Nat
      /\ T[o].refcnt > 0
  BY <1>1, CountedIsUsed
<1>4. T[o] \in Thread
  BY <1>1
<1> QED
  BY <1>2, <1>3, <1>4 DEF T, IsHeld

\* A lookup may add one id or the other (thread__fork's parent and child).
LEMMA KeepsPair ==
  ASSUME NEW T, NEW U, NEW a, NEW b, Keeps(T, U, {a})
  PROVE  Keeps(T, U, {a, b})
BY DEF Keeps

\* Threads that do not change are kept.
LEMMA KeepsSame == \A T, S : Keeps(T, T, S)
BY DEF Keeps

\* What two steps of a handler keep, the handler keeps.
LEMMA KeepsTrans ==
  ASSUME NEW T, NEW U, NEW V, NEW S, Keeps(T, U, S), Keeps(U, V, S)
  PROVE  Keeps(T, V, S)
<1> SUFFICES ASSUME NEW p \in Obj
             PROVE  /\ T[p].linked => /\ V[p].linked /\ V[p].tid = T[p].tid
                                      /\ T[p].pid # Unknown => V[p].pid = T[p].pid
                    /\ V[p].linked => T[p].linked \/ V[p].tid \in S
  BY DEF Keeps
<1>1. /\ T[p].linked => /\ U[p].linked /\ U[p].tid = T[p].tid
                        /\ T[p].pid # Unknown => U[p].pid = T[p].pid
      /\ U[p].linked => T[p].linked \/ U[p].tid \in S
  BY DEF Keeps
<1>2. /\ U[p].linked => /\ V[p].linked /\ V[p].tid = U[p].tid
                        /\ U[p].pid # Unknown => V[p].pid = U[p].pid
      /\ V[p].linked => U[p].linked \/ V[p].tid \in S
  BY DEF Keeps
<1> QED
  BY <1>1, <1>2

\* nn follows mm, with what was kept of it.
Follows(mm, nn, E, v, d, k, X, S) ==
  MachineOK(nn, E, v, d, k, X) /\ Keeps(mm.threads, nn.threads, S)

\* A step that links no thread may as well link those of S.
LEMMA FollowsMore ==
  ASSUME NEW mm, NEW nn, NEW E, NEW v, NEW d, NEW k, NEW X, NEW S,
         Follows(mm, nn, E, v, d, k, X, {})
  PROVE  Follows(mm, nn, E, v, d, k, X, S)
<1>1. Keeps(mm.threads, nn.threads, {})
  BY DEF Follows
<1>2. Keeps(mm.threads, nn.threads, S)
  BY <1>1 DEF Keeps
<1> QED
  BY <1>2 DEF Follows

\* A handler in two steps.
LEMMA FollowsTrans ==
  ASSUME NEW mm, NEW nn, NEW oo, NEW E, NEW v, NEW d, NEW k, NEW X, NEW j, NEW Y, NEW S,
         Follows(mm, nn, E, v, d, k, X, S), Follows(nn, oo, E, v, d, j, Y, S)
  PROVE  Follows(mm, oo, E, v, d, j, Y, S)
BY KeepsTrans DEF Follows

\* One thread changes, and is not unlinked.
LEMMA KeepsOne ==
  ASSUME NEW T, NEW U, NEW o \in Obj, NEW S, \A p \in Obj : p # o => U[p] = T[p],
         T[o].linked => /\ U[o].linked /\ U[o].tid = T[o].tid
                        /\ T[o].pid # Unknown => U[o].pid = T[o].pid,
         U[o].linked => T[o].linked \/ U[o].tid \in S
  PROVE  Keeps(T, U, S)
<1> SUFFICES ASSUME NEW p \in Obj
             PROVE  /\ T[p].linked => /\ U[p].linked /\ U[p].tid = T[p].tid
                                      /\ T[p].pid # Unknown => U[p].pid = T[p].pid
                    /\ U[p].linked => T[p].linked \/ U[p].tid \in S
  BY DEF Keeps
<1>1. CASE p = o
  BY <1>1
<1>2. CASE p # o
  BY <1>2
<1> QED
  BY <1>1, <1>2

\* thread__put drops a reference of the handler.
LEMMA PutOK ==
  ASSUME NEW mm, NEW E, NEW v, NEW d, NEW h, NEW X, MachineOK(mm, E, v, d, h, X),
         NEW o \in Obj, h[o] > 0, o \notin X
  PROVE  Follows(mm, thread__put(mm, o), E, v, d, Drop(h, o), X, {})
<1> DEFINE nn == thread__put(mm, o)
           T == mm.threads
           U == nn.threads
           k == Drop(h, o)
<1>1. CASE T[o].refcnt = 1
  <2>1. nn = thread__delete(mm, o)
    BY <1>1 DEF thread__put
  <2>2. /\ MachineOK(thread__delete(mm, o), E, v, d, k, X)
        /\ ~T[o].linked
        /\ \A p \in Obj : p # o => thread__delete(mm, o).threads[p] = T[p]
    BY <1>1, DeleteOK
  <2>3. MachineOK(nn, E, v, d, k, X) /\ \A p \in Obj : p # o => U[p] = T[p]
    BY <2>1, <2>2
  <2>4. thread__delete(mm, o).threads[o].linked = FALSE
    <3>1. /\ mm.threads \in [Obj -> Thread]
          /\ DOMAIN mm = {"threads", "mgs", "strs", "last_match"}
      BY DEF MachineOK, MachineType
    <3>2. thread__delete(mm, o).threads = [T EXCEPT ![o] = NoThread]
      BY <3>1 DEF thread__delete
    <3>3. NoThread.linked = FALSE
      BY DEF NoThread
    <3> QED
      BY <3>1, <3>2, <3>3
  <2> HIDE DEF nn, T, U
  <2>5. Keeps(T, U, {})
    BY <2>1, <2>2, <2>3, <2>4, KeepsOne DEF U
  <2> QED
    BY <2>3, <2>5 DEF nn, T, U, Follows
<1>2. CASE T[o].refcnt # 1
  <2> DEFINE u == [T[o] EXCEPT !.refcnt = @ - 1]
  <2>1. nn = [mm EXCEPT !.threads[o].refcnt = @ - 1]
    BY <1>2 DEF thread__put
  <2>2. MachineType(mm) /\ LastOK(mm) /\ h \in [Obj -> Nat]
    BY DEF MachineOK, ThreadsOK
  <2>3. /\ DOMAIN nn = {"threads", "mgs", "strs", "last_match"}
        /\ U = [T EXCEPT ![o] = u] /\ nn.mgs = mm.mgs /\ nn.strs = mm.strs
        /\ nn.last_match = mm.last_match
    BY <2>1, <2>2 DEF MachineType
  <2> HIDE DEF nn, U
  <2>4. Counted(mm.threads, E, h, o)
    BY DEF Counted
  <2>5. /\ o \in UsedIn(T) /\ o # v /\ T[o].tid \in Tid /\ T[o] \in Thread
        /\ T[o].refcnt \in Nat /\ T[o].refcnt > 0
        /\ T[o].refcnt = Bit(T[o].linked) + Bit(o \in E) + h[o]
    <3>1. IsHeld(mm, E, v, h, o)
      BY <2>4, HeldIsUsed
    <3> QED
      BY <3>1 DEF IsHeld
  <2>6. k \in [Obj -> Nat] /\ k[o] = h[o] - 1 /\ \A p \in Obj : p # o => k[p] = h[p]
    BY <2>2, HoldDrop
  <2> HIDE DEF k
  <2>7. /\ T[o].refcnt - 1 \in Nat /\ T[o].refcnt - 1 # 0
        /\ T[o].refcnt - 1 = Bit(T[o].linked) + Bit(o \in E) + k[o]
    <3>1. Bit(T[o].linked) \in Nat
      BY DEF Bit
    <3>2. Bit(o \in E) \in Nat
      BY DEF Bit
    <3>3. h[o] \in Nat
      BY <2>2
    <3> DEFINE r == T[o].refcnt
               a == Bit(T[o].linked)
               b == Bit(o \in E)
               c == h[o]
               e == k[o]
    <3>4. r \in Nat /\ r > 0 /\ r # 1 /\ r = a + b + c /\ e = c - 1 /\ c > 0
      BY <1>2, <2>5, <2>6
    <3>5. a \in Nat /\ b \in Nat /\ c \in Nat
      BY <3>1, <3>2, <3>3
    <3> HIDE DEF r, a, b, c, e
    <3>6. r - 1 \in Nat /\ r - 1 # 0 /\ r - 1 = a + b + e
      BY <3>4, <3>5, SMTT(60)
    <3> QED
      BY <3>6 DEF r, a, b, e
  <2>8. /\ u \in Thread /\ u.tid = T[o].tid /\ u.mg = T[o].mg /\ u.comms = T[o].comms
        /\ u.pid = T[o].pid /\ u.linked = T[o].linked /\ u.refcnt = T[o].refcnt - 1
    BY <2>5, <2>7 DEF Thread
  <2> HIDE DEF u, T
  <2>9. T \in [Obj -> Thread]
    BY <2>2 DEF MachineType, T
  <2>10. U \in [Obj -> Thread] /\ U[o] = u /\ \A p \in Obj : p # o => U[p] = T[p]
    BY <2>3, <2>8, <2>9
  <2>11. MachineType(nn)
    BY <2>2, <2>3, <2>10 DEF MachineType, U
  <2>12. LastOK(nn)
    BY <2>2, <2>3, <2>8, <2>10 DEF LastOK, T, U, MachineType
  <2>13. TouchMay(mm, v, h, E, o, u, k, nn)
    BY <2>3, <2>5, <2>6, <2>7, <2>8, <2>11, <2>12 DEF TouchMay, T, U
  <2>14. MachineOK(nn, E, v, d, k, X)
    BY <2>13, Touch
  <2>15. Keeps(T, U, {})
    BY <2>8, <2>10, KeepsOne
  <2> QED
    BY <2>14, <2>15 DEF nn, T, U, k, Follows
<1> QED
  BY <1>1, <1>2

\* The thread of a lookup is the one in the tree with the tid.
LEMMA LookupOK ==
  ASSUME NEW mm, NEW E, NEW v, NEW d, NEW h, NEW X, MachineOK(mm, E, v, d, h, X),
         NEW tid
  PROVE  LET o == Lookup(mm, tid)
         IN  /\ o = NULL => \A p \in Obj : mm.threads[p].linked => mm.threads[p].tid # tid
             /\ o # NULL => o \in Obj /\ mm.threads[o].linked /\ mm.threads[o].tid = tid
<1> DEFINE o == Lookup(mm, tid)
           I == InTree(mm, tid)
<1>1. mm.last_match \in Obj \cup {NULL} /\ LastOK(mm)
  BY DEF MachineOK, MachineType
<1>2. CASE Cached(mm, tid)
  <2>1. o = mm.last_match
    BY <1>2 DEF Lookup
  <2> QED
    BY <1>1, <1>2, <2>1 DEF Cached, LastOK
<1>3. CASE ~Cached(mm, tid) /\ I # {}
  <2>1. o = Min(I)
    BY <1>3 DEF Lookup
  <2>2. I \subseteq Nat /\ I \subseteq Obj
    BY Null DEF InTree
  <2> HIDE DEF I
  <2>3. Min(I) \in I
    BY <1>3, <2>2, MinIsLeast
  <2> QED
    BY <2>1, <2>2, <2>3, Null DEF I, InTree
<1>4. CASE ~Cached(mm, tid) /\ I = {}
  <2>1. o = NULL
    BY <1>4 DEF Lookup
  <2> QED
    BY <1>4, <2>1 DEF InTree
<1> QED
  BY <1>2, <1>3, <1>4
-----------------------------------------------------------------------------
(* Looking up a thread.                                                    *)

\* What thread__new makes.
NewThread(mm, pid, tid, g) ==
  [tid |-> tid, pid |-> pid, mg |-> g, comms |-> <<StrOf(mm.strs, tid)>>,
   comm_set |-> FALSE, refcnt |-> 2, linked |-> TRUE]

\* No thread in the tree has the tid.
Absent(T, tid) == \A p \in Obj : T[p].linked => T[p].tid # tid

\* nn is mm with a new thread at o; it has the new group g, or none.
Created(mm, nn, o, pid, tid, g, X, Y) ==
  /\ o \in Obj /\ mm.threads[o] = NoThread /\ tid \in Tid /\ Absent(mm.threads, tid)
  /\ pid \in Tid \cup {Unknown} /\ g \in Obj \cup {NULL}
  /\ DOMAIN nn = {"threads", "mgs", "strs", "last_match"}
  /\ nn.threads = [mm.threads EXCEPT ![o] = NewThread(mm, pid, tid, g)]
  /\ nn.strs = comm_str__findnew(mm.strs, tid) /\ nn.last_match = o
  /\ g = NULL => nn.mgs = mm.mgs
  /\ g # NULL => mm.mgs[g] = NoGroup /\ nn.mgs = map_groups__get(mm.mgs, g)
  /\ \A p \in Obj : p \in Y <=> p \in X \/ (p = o /\ g = NULL)

\* A group that is not counted has no member.
LEMMA NotAMember ==
  ASSUME NEW T, NEW G, GroupsOK(G, T), IsFiniteSet(UsedIn(T)), NEW g \in Obj, G[g] = NoGroup
  PROVE  \A p \in UsedIn(T) : T[p].mg # g
<1>1. IsFiniteSet(Members(T, g))
  BY FS_Subset DEF Members
<1>2. Cardinality(Members(T, g)) = 0
  <2>1. NoGroup.refcnt = 0
    BY DEF NoGroup
  <2> QED
    BY <2>1 DEF GroupsOK
<1>3. Members(T, g) = {}
  BY <1>1, <1>2, FS_EmptySet
<1> QED
  BY <1>3 DEF Members

\* Nothing counts a free object.
LEMMA FreeIsNotHeld ==
  ASSUME NEW T, NEW E, NEW v, NEW h, NEW X, ThreadsOK(T, E, v, h, X),
         NEW o \in Obj, T[o] = NoThread
  PROVE  h[o] = 0 /\ o \notin E /\ o # v /\ o \notin X /\ o \notin UsedIn(T)
<1>1. /\ NoThread.tid = NULL /\ NoThread.refcnt = 0 /\ NoThread.linked = FALSE
  BY DEF NoThread
<1>2. T[o].refcnt = Bit(T[o].linked) + Bit(o \in E) + h[o] /\ h[o] \in Nat
  BY DEF ThreadsOK
<1>3. 0 = Bit(FALSE) + Bit(o \in E) + h[o]
  BY <1>1, <1>2
<1>4. h[o] = 0 /\ o \notin E
  BY <1>2, <1>3, SMTT(60) DEF Bit
<1>5. o \notin UsedIn(T) /\ o \notin X
  BY <1>1 DEF UsedIn, ThreadsOK
<1>6. o # v
  <2>1. o # NULL
    BY Null
  <2> QED
    BY <1>5, <2>1 DEF ThreadsOK
<1> QED
  BY <1>4, <1>5, <1>6

\* A new thread has two references: of the tree and of the handler.
LEMMA CreatedOK ==
  ASSUME MemoryLasts, NEW mm, NEW E, NEW v, NEW d, NEW h, NEW X,
         MachineOK(mm, E, v, d, h, X), NEW nn, NEW o, NEW pid, NEW tid, NEW g,
         NEW Y, Created(mm, nn, o, pid, tid, g, X, Y)
  PROVE  MachineOK(nn, E, v, d, Hold(h, o), Y)
<1> DEFINE T == mm.threads
           U == nn.threads
           S == mm.strs
           Z == nn.strs
           G == mm.mgs
           H == nn.mgs
           u == NewThread(mm, pid, tid, g)
           s == StrOf(S, tid)
           k == Hold(h, o)
<1>1. /\ T \in [Obj -> Thread] /\ G \in [Obj -> MapGroup] /\ S \in [Obj -> Str]
      /\ ThreadsOK(T, E, v, h, X) /\ GroupsOK(G, T) /\ StrsOK(S, T, d)
      /\ h \in [Obj -> Nat] /\ StrsForm(S, d) /\ IsFiniteSet(UsedIn(T))
      /\ E \subseteq Obj /\ v \in Obj \cup {NULL}
  BY DEF MachineOK, MachineType, ThreadsOK, StrsOK, UsedIn
<1>2. /\ o \in Obj /\ T[o] = NoThread /\ tid \in Tid /\ Absent(T, tid)
      /\ pid \in Tid \cup {Unknown} /\ g \in Obj \cup {NULL}
      /\ g # NULL => G[g] = NoGroup
      /\ U = [T EXCEPT ![o] = u] /\ Z = comm_str__findnew(S, tid)
      /\ g = NULL => H = G
      /\ g # NULL => H = map_groups__get(G, g)
      /\ \A p \in Obj : p \in Y <=> p \in X \/ (p = o /\ g = NULL)
  BY DEF Created
<1>3. tid \in Int /\ tid # 0 /\ tid # NULL
  BY <1>2, MachineAssumption, SMTT(60) DEF NULL
<1> HIDE DEF T, U, S, Z, G, H, s
<1>4. /\ s \in Obj /\ Z \in [Obj -> Str] /\ StrsForm(Z, d)
      /\ Z[s].refcnt = S[s].refcnt + 1 /\ \A j \in Obj : j # s => Z[j] = S[j]
  BY <1>1, <1>2, <1>3, FindnewStr DEF s
<1>5. /\ u \in Thread /\ u.tid = tid /\ u.pid = pid /\ u.mg = g /\ u.comms = <<s>>
      /\ u.refcnt = 2 /\ u.linked = TRUE /\ u.comms # <<>>
  <2>1. <<s>> \in Seq(Obj) /\ <<s>> # <<>>
    BY <1>4, PlacesOne
  <2> DEFINE c == <<s>>
  <2>2. u = [tid |-> tid, pid |-> pid, mg |-> g, comms |-> c, comm_set |-> FALSE,
             refcnt |-> 2, linked |-> TRUE]
    BY DEF NewThread, s, S
  <2>3. c \in Seq(Obj) /\ c # <<>> /\ 2 \in Nat /\ tid \in Tid \cup {NULL}
    BY <1>2, <2>1
  <2> HIDE DEF u, c
  <2>4. /\ u \in Thread /\ u.tid = tid /\ u.pid = pid /\ u.mg = g /\ u.comms = c
        /\ u.refcnt = 2 /\ u.linked = TRUE
    BY <1>2, <2>2, <2>3, SMTT(60) DEF Thread
  <2> QED
    BY <2>3, <2>4 DEF c
<1> HIDE DEF u
<1>6. U \in [Obj -> Thread] /\ U[o] = u /\ \A p \in Obj : p # o => U[p] = T[p]
  BY <1>1, <1>2, <1>5
<1>7. h[o] = 0 /\ o \notin E /\ o # v /\ o \notin X /\ o \notin UsedIn(T)
  BY <1>1, <1>2, FreeIsNotHeld
<1>8. /\ NoThread.tid = NULL /\ NoThread.comms = <<>>
  BY DEF NoThread
<1>9. k \in [Obj -> Nat] /\ k[o] = h[o] + 1 /\ \A p \in Obj : p # o => k[p] = h[p]
  BY <1>1, <1>2, HoldDrop
<1> HIDE DEF k
<1>10. ThreadsOK(U, E, v, k, Y)
  <2>1. u.refcnt = Bit(u.linked) + Bit(o \in E) + k[o]
    <3>1. Bit(u.linked) = 1
      BY <1>5 DEF Bit
    <3>2. Bit(o \in E) = 0
      BY <1>7 DEF Bit
    <3> QED
      BY <1>5, <1>7, <1>9, <3>1, <3>2, SMTT(60)
  <2>2. u.linked => \A p \in Obj : p # o /\ T[p].linked => T[p].tid # u.tid
    BY <1>2, <1>5 DEF Absent
  <2>3. u.mg # NULL => \A p \in UsedIn(T) : T[p].mg # u.mg
    <3> SUFFICES ASSUME g # NULL PROVE \A p \in UsedIn(T) : T[p].mg # g
      BY <1>5
    <3>1. g \in Obj /\ G[g] = NoGroup
      BY <1>2
    <3> QED
      BY <1>1, <3>1, NotAMember
  <2>4. u.mg = NULL <=> o \in Y
    BY <1>2, <1>5, <1>7
  <2>5. u.refcnt # 0
    BY <1>5, SMTT(60)
  <2>6. ThreadMay(T, E, v, h, X, o, u, E, v, k, Y)
    BY <1>1, <1>2, <1>3, <1>5, <1>7, <1>9, <2>1, <2>2, <2>3, <2>4, <2>5 DEF ThreadMay
  <2> QED
    BY <1>2, <2>6, ThreadStep
<1>11. GroupsOK(H, U) /\ H \in [Obj -> MapGroup]
  <2>1. \A x \in Obj : GroupForm(G[x])
    BY <1>1 DEF GroupsOK
  <2>2. \A x : Refs(T, o, x) = 0
    BY <1>7 DEF Refs, Members
  <2>3. \A x : x = g => Refs(U, o, x) = 1
    BY <1>2, <1>3, <1>5, <1>6 DEF Refs, Members, UsedIn
  <2>4. \A x : x # g => Refs(U, o, x) = 0
    BY <1>5, <1>6 DEF Refs, Members
  <2>5. g = NULL => H \in [Obj -> MapGroup] /\ \A x \in Obj : GroupForm(H[x]) /\ H[x] = G[x]
    BY <1>1, <1>2, <2>1
  <2>6. g # NULL =>
          /\ H \in [Obj -> MapGroup] /\ \A x \in Obj : x # g => H[x] = G[x]
          /\ g \in Obj /\ H[g].refcnt = G[g].refcnt + 1 /\ GroupForm(H[g])
    <3> SUFFICES ASSUME g # NULL
                 PROVE  /\ H \in [Obj -> MapGroup] /\ \A x \in Obj : x # g => H[x] = G[x]
                        /\ g \in Obj /\ H[g].refcnt = G[g].refcnt + 1 /\ GroupForm(H[g])
      OBVIOUS
    <3>1. g \in Obj /\ H = map_groups__get(G, g) /\ GroupForm(G[g])
      BY <1>2, <2>1
    <3> QED
      BY <1>1, <3>1, GetGroup
  <2>7. \A x \in Obj : G[x].refcnt \in Nat
    BY <1>1 DEF MapGroup
  <2>8. ASSUME NEW x \in Obj
        PROVE  GroupForm(H[x]) /\ H[x].refcnt + Refs(T, o, x) = G[x].refcnt + Refs(U, o, x)
    <3>1. CASE x = g
      <4>1. x # NULL
        BY Null
      <4>2. H[x].refcnt = G[x].refcnt + 1 /\ GroupForm(H[x])
        BY <2>6, <3>1, <4>1
      <4>3. (G[x].refcnt + 1) + 0 = G[x].refcnt + 1
        BY <2>7, SMTT(60)
      <4> QED
        BY <2>2, <2>3, <3>1, <4>2, <4>3
    <3>2. CASE x # g
      <4>1. H[x] = G[x]
        BY <2>5, <2>6, <3>2
      <4> QED
        BY <2>1, <2>2, <2>4, <3>2, <4>1
    <3> QED
      BY <3>1, <3>2
  <2>9. H \in [Obj -> MapGroup]
    BY <2>5, <2>6
  <2>10. GroupMay(G, T, o, U, H)
    BY <1>1, <1>2, <1>6, <2>8, <2>9 DEF GroupMay
  <2> QED
    BY <2>9, <2>10, GroupStep
<1>12. StrsOK(Z, U, d)
  <2>1. ASSUME NEW i \in Obj
        PROVE  Z[i].refcnt + Cardinality(Places(T[o].comms, i))
                 = S[i].refcnt + Cardinality(Places(U[o].comms, i))
    <3>1. Cardinality(Places(T[o].comms, i)) = 0
      BY <1>2, <1>8, PlacesNone
    <3>2. /\ s = i => Cardinality(Places(<<s>>, i)) = 1
          /\ s # i => Cardinality(Places(<<s>>, i)) = 0
      BY <1>4, PlacesOne
    <3>3. U[o].comms = <<s>>
      BY <1>5, <1>6
    <3>4. S[i].refcnt \in Nat
      BY <1>1 DEF Str
    <3>5. (S[i].refcnt + 1) + 0 = S[i].refcnt + 1
      BY <3>4, SMTT(60)
    <3>6. CASE s = i
      BY <1>4, <3>1, <3>2, <3>3, <3>5, <3>6
    <3>7. CASE s # i
      BY <1>4, <3>1, <3>2, <3>3, <3>7
    <3> QED
      BY <3>6, <3>7
  <2>2. U[o].tid # NULL /\ (T[o].tid = NULL => T[o].comms = <<>>)
    BY <1>2, <1>3, <1>5, <1>6, <1>8
  <2>3. StrMay(S, T, d, o, U, Z, d)
    BY <1>1, <1>2, <1>4, <1>6, <2>1, <2>2 DEF StrMay
  <2> QED
    BY <2>3, StrStep
<1>13. MachineType(nn) /\ LastOK(nn)
  BY <1>2, <1>4, <1>5, <1>6, <1>11 DEF MachineType, LastOK, Created, U, Z, H
<1> QED
  BY <1>10, <1>11, <1>12, <1>13 DEF MachineOK, U, Z, H, k

\* r.o is the thread tid of the tree of r.m, with a reference of the handler, and
\* no other thread was changed.
FoundOwn(mm, E, v, d, h, X, r, pid, tid) ==
  LET T == mm.threads
      U == r.m.threads
      o == r.o
  IN  /\ o \in Obj /\ MachineOK(r.m, E, v, d, Hold(h, o), X)
      /\ U[o].linked /\ U[o].tid = tid
      /\ pid # Unknown => U[o].pid # Unknown
      /\ Keeps(T, U, {tid}) /\ \A p \in Obj : p # o => U[p] = T[p]
      /\ \/ T[o].linked /\ U[o].mg = T[o].mg
         \/ U[o].mg \in Obj /\ mm.mgs[U[o].mg] = NoGroup
      /\ Absent(T, tid) => U[o].pid = pid /\ r.m.mgs[U[o].mg].maps = {}

\* FindOwn gets a reference to a thread of the tree.
LEMMA FindOwnOK ==
  ASSUME NEW mm, NEW E, NEW v, NEW d, NEW h, NEW X, MachineOK(mm, E, v, d, h, X),
         NEW pid \in Tid \cup {Unknown}, NEW o \in Obj, mm.threads[o].linked
  PROVE  FoundOwn(mm, E, v, d, h, X, FindOwn(mm, o, pid), pid, mm.threads[o].tid)
<1> DEFINE r == FindOwn(mm, o, pid)
           nn == r.m
           T == mm.threads
           U == nn.threads
           w == IF T[o].pid = Unknown THEN pid ELSE T[o].pid
           u == [T[o] EXCEPT !.refcnt = @ + 1, !.pid = w]
           k == Hold(h, o)
<1>1. MachineType(mm) /\ LastOK(mm) /\ h \in [Obj -> Nat] /\ T \in [Obj -> Thread]
  BY DEF MachineOK, ThreadsOK, MachineType
<1>2. /\ r.o = o /\ nn = [mm EXCEPT !.threads[o] = u, !.last_match = o]
  BY DEF FindOwn
<1>3. IsHeld(mm, E, v, h, o)
  BY HeldIsUsed DEF Counted
<1>4. /\ o \in UsedIn(T) /\ o # v /\ T[o] \in Thread
      /\ T[o].refcnt \in Nat /\ T[o].refcnt > 0
      /\ T[o].refcnt = Bit(T[o].linked) + Bit(o \in E) + h[o]
  BY <1>3 DEF IsHeld
<1> HIDE DEF r
<1>5. /\ DOMAIN nn = {"threads", "mgs", "strs", "last_match"}
      /\ U = [T EXCEPT ![o] = u] /\ nn.mgs = mm.mgs /\ nn.strs = mm.strs
      /\ nn.last_match = o
  BY <1>1, <1>2 DEF MachineType
<1> HIDE DEF nn, U
<1>6. k \in [Obj -> Nat] /\ k[o] = h[o] + 1 /\ \A p \in Obj : p # o => k[p] = h[p]
  BY <1>1, HoldDrop
<1> HIDE DEF k
<1>7. /\ T[o].refcnt + 1 \in Nat /\ T[o].refcnt + 1 # 0
      /\ T[o].refcnt + 1 = Bit(T[o].linked) + Bit(o \in E) + k[o]
  <2>1. Bit(T[o].linked) \in Nat
    BY DEF Bit
  <2>2. Bit(o \in E) \in Nat
    BY DEF Bit
  <2>3. h[o] \in Nat
    BY <1>1
  <2> DEFINE n == T[o].refcnt
             a == Bit(T[o].linked)
             b == Bit(o \in E)
             c == h[o]
             e == k[o]
  <2>4. n \in Nat /\ n > 0 /\ n = a + b + c /\ e = c + 1
    BY <1>4, <1>6
  <2>5. a \in Nat /\ b \in Nat /\ c \in Nat
    BY <2>1, <2>2, <2>3
  <2> HIDE DEF n, a, b, c, e
  <2>6. n + 1 \in Nat /\ n + 1 # 0 /\ n + 1 = a + b + e
    BY <2>4, <2>5, SMTT(60)
  <2> QED
    BY <2>6 DEF n, a, b, e
<1>8. /\ w \in Tid \cup {Unknown} /\ (T[o].pid # Unknown => w = T[o].pid)
      /\ (pid # Unknown => w # Unknown) /\ (w = T[o].pid \/ w # Unknown)
  BY <1>4 DEF Thread
<1> HIDE DEF w
<1>9. /\ u \in Thread /\ u.tid = T[o].tid /\ u.mg = T[o].mg /\ u.comms = T[o].comms
      /\ u.pid = w /\ u.linked = T[o].linked /\ u.refcnt = T[o].refcnt + 1
  BY <1>4, <1>7, <1>8 DEF Thread
<1> HIDE DEF u, T
<1>10. U \in [Obj -> Thread] /\ U[o] = u /\ \A p \in Obj : p # o => U[p] = T[p]
  BY <1>1, <1>5, <1>9
<1>11. MachineType(nn) /\ LastOK(nn)
  <2>1. u.linked
    BY <1>9 DEF T
  <2> QED
    BY <1>1, <1>5, <1>10, <2>1 DEF MachineType, LastOK, U
<1>12. TouchMay(mm, v, h, E, o, u, k, nn)
  BY <1>4, <1>5, <1>6, <1>7, <1>8, <1>9, <1>11 DEF TouchMay, T, U
<1>13. MachineOK(nn, E, v, d, k, X)
  BY <1>12, Touch
<1>14. Keeps(T, U, {T[o].tid})
  BY <1>8, <1>9, <1>10, KeepsOne
<1>15. T[o].linked /\ ~Absent(T, T[o].tid)
  BY DEF T, Absent
<1> QED
  BY <1>2, <1>8, <1>9, <1>10, <1>13, <1>14, <1>15 DEF FoundOwn, nn, T, U, k, r

\* The thread of a leader is found or made.
LEMMA FindnewOwnOK ==
  ASSUME MemoryLasts, NEW mm, NEW E, NEW v, NEW d, NEW h, NEW X,
         MachineOK(mm, E, v, d, h, X), NEW pid \in Tid \cup {Unknown}, NEW tid \in Tid
  PROVE  FoundOwn(mm, E, v, d, h, X, FindnewOwn(mm, pid, tid), pid, tid)
<1> DEFINE l == Lookup(mm, tid)
<1>1. /\ l = NULL => Absent(mm.threads, tid)
      /\ l # NULL => l \in Obj /\ mm.threads[l].linked /\ mm.threads[l].tid = tid
  BY LookupOK DEF Absent
<1>2. CASE l # NULL
  <2>1. FindnewOwn(mm, pid, tid) = FindOwn(mm, l, pid)
    BY <1>2 DEF FindnewOwn
  <2> HIDE DEF l
  <2>2. FoundOwn(mm, E, v, d, h, X, FindOwn(mm, l, pid), pid, mm.threads[l].tid)
    BY <1>1, <1>2, FindOwnOK
  <2> QED
    BY <1>1, <1>2, <2>1, <2>2
<1>3. CASE l = NULL
  <2> DEFINE o == FreeObj(mm)
             g == FreeGroup(mm)
             cc == Create(mm, o, pid, tid, g)
             nn == [cc EXCEPT !.mgs = map_groups__get(@, g)]
             T == mm.threads
             U == nn.threads
             u == NewThread(mm, pid, tid, g)
  <2>1. FindnewOwn(mm, pid, tid) = [m |-> nn, o |-> o]
    BY <1>3 DEF FindnewOwn, CreateOwn
  <2>2. /\ MachineType(mm) /\ ThreadsOK(T, E, v, h, X) /\ GroupsOK(mm.mgs, T)
    BY DEF MachineOK
  <2>3. o \in Obj /\ T[o] = NoThread
    BY <2>2, FreeObjOK
  <2>4. g \in Obj /\ mm.mgs[g] = NoGroup /\ g # NULL
    BY <2>2, FreeGroupOK, Null
  <2>5. /\ DOMAIN cc = {"threads", "mgs", "strs", "last_match"}
        /\ cc.threads = [T EXCEPT ![o] = u] /\ cc.mgs = mm.mgs
        /\ cc.strs = comm_str__findnew(mm.strs, tid) /\ cc.last_match = o
    BY <2>2, <2>3 DEF Create, NewThread, MachineType
  <2> HIDE DEF cc, o, g, u
  <2>6. /\ DOMAIN nn = {"threads", "mgs", "strs", "last_match"}
        /\ U = [T EXCEPT ![o] = u] /\ nn.mgs = map_groups__get(mm.mgs, g)
        /\ nn.strs = comm_str__findnew(mm.strs, tid) /\ nn.last_match = o
    BY <2>5
  <2> HIDE DEF nn, U
  <2>7. Absent(T, tid)
    BY <1>1, <1>3
  <2>8. Created(mm, nn, o, pid, tid, g, X, X)
    BY <2>3, <2>4, <2>6, <2>7 DEF Created, U, u
  <2>9. MachineOK(nn, E, v, d, Hold(h, o), X)
    BY <2>8, CreatedOK
  <2> HIDE DEF T
  <2>10. /\ u.linked = TRUE /\ u.tid = tid /\ u.pid = pid /\ u.mg = g
    BY DEF u, NewThread
  <2>11. T \in [Obj -> Thread]
    BY <2>2 DEF MachineType, T
  <2>12. U[o] = u /\ \A p \in Obj : p # o => U[p] = T[p]
    BY <2>3, <2>6, <2>11
  <2>13. ~T[o].linked
    <3>1. ~NoThread.linked
      BY DEF NoThread
    <3> QED
      BY <2>3, <3>1
  <2>14. Keeps(T, U, {tid})
    BY <2>3, <2>10, <2>12, <2>13, KeepsOne
  <2>15. nn.mgs[g].maps = {}
    <3>1. mm.mgs \in [Obj -> MapGroup] /\ GroupForm(mm.mgs[g])
      BY <2>2, <2>4 DEF MachineType, GroupsOK
    <3>2. nn.mgs[g].maps = mm.mgs[g].maps
      BY <2>4, <2>6, <3>1, GetGroup
    <3>3. NoGroup.maps = {}
      BY DEF NoGroup
    <3> QED
      BY <2>4, <3>2, <3>3
  <2> DEFINE r == [m |-> nn, o |-> o]
  <2>16. r.m = nn /\ r.o = o
    OBVIOUS
  <2> HIDE DEF r
  <2>17. FoundOwn(mm, E, v, d, h, X, r, pid, tid)
    BY <2>3, <2>4, <2>9, <2>10, <2>12, <2>14, <2>15, <2>16 DEF FoundOwn, T, U
  <2> QED
    BY <2>1, <2>17 DEF r
<1> QED
  BY <1>2, <1>3

\* nn is mm with the thread o in the group of its leader q.
Joined(mm, nn, v, o, q, X, Y) ==
  LET T == mm.threads
  IN  /\ o \in UsedIn(T) /\ q \in UsedIn(T) /\ o # v /\ T[o].linked
      /\ T[o].pid # Unknown /\ T[q].pid # Unknown
      /\ T[q].mg \in Obj /\ T[o].mg # T[q].mg
      /\ DOMAIN nn = {"threads", "mgs", "strs", "last_match"}
      /\ nn.threads = [T EXCEPT ![o].mg = T[q].mg]
      /\ nn.strs = mm.strs /\ nn.last_match \in {mm.last_match, o}
      /\ T[o].mg = NULL => nn.mgs = map_groups__get(mm.mgs, T[q].mg)
      /\ T[o].mg # NULL =>
           nn.mgs = map_groups__get(map_groups__put(mm.mgs, T[o].mg), T[q].mg)
      /\ \A p \in Obj : p \in Y <=> p \in X /\ p # o

\* The group of a thread is counted.
LEMMA GroupCounted ==
  ASSUME NEW T, NEW G, GroupsOK(G, T), IsFiniteSet(UsedIn(T)), G \in [Obj -> MapGroup],
         NEW g \in Obj, NEW o \in UsedIn(T), T[o].mg = g
  PROVE  G[g].refcnt \in Nat /\ G[g].refcnt > 0
<1>1. G[g].refcnt = Cardinality(Members(T, g))
  BY DEF GroupsOK
<1>2. IsFiniteSet(Members(T, g)) /\ o \in Members(T, g)
  BY FS_Subset DEF Members
<1>3. Cardinality(Members(T, g)) \in Nat /\ Cardinality(Members(T, g)) # 0
  BY <1>2, FS_CardinalityType, FS_EmptySet
<1> QED
  BY <1>1, <1>3, SMTT(60)

\* A thread that joins its leader has its maps.
LEMMA JoinedOK ==
  ASSUME NEW mm, NEW E, NEW v, NEW d, NEW h, NEW X, MachineOK(mm, E, v, d, h, X),
         NEW nn, NEW o, NEW q, NEW Y, Joined(mm, nn, v, o, q, X, Y)
  PROVE  Follows(mm, nn, E, v, d, h, Y, {})
<1> DEFINE T == mm.threads
           U == nn.threads
           S == mm.strs
           G == mm.mgs
           H == nn.mgs
           f == T[o].mg
           g == T[q].mg
           u == [T[o] EXCEPT !.mg = g]
<1>1. /\ T \in [Obj -> Thread] /\ G \in [Obj -> MapGroup] /\ S \in [Obj -> Str]
      /\ ThreadsOK(T, E, v, h, X) /\ GroupsOK(G, T) /\ StrsOK(S, T, d)
      /\ h \in [Obj -> Nat] /\ StrsForm(S, d) /\ IsFiniteSet(UsedIn(T))
      /\ E \subseteq Obj /\ v \in Obj \cup {NULL}
  BY DEF MachineOK, MachineType, ThreadsOK, StrsOK, UsedIn
<1>2. /\ o \in UsedIn(T) /\ q \in UsedIn(T) /\ o # v /\ T[o].linked
      /\ T[o].pid # Unknown /\ T[q].pid # Unknown /\ g \in Obj /\ f # g
      /\ U = [T EXCEPT ![o] = u] /\ nn.strs = S
      /\ f = NULL => H = map_groups__get(G, g)
      /\ f # NULL => H = map_groups__get(map_groups__put(G, f), g)
      /\ \A p \in Obj : p \in Y <=> p \in X /\ p # o
  BY DEF Joined
<1>3. o \in Obj /\ q \in Obj /\ T[o].tid # NULL /\ T[o] \in Thread /\ f \in Obj \cup {NULL}
  BY <1>1, <1>2 DEF UsedIn, Thread
<1>4. g # NULL
  BY <1>2, Null
<1>5. /\ u \in Thread /\ u.tid = T[o].tid /\ u.pid = T[o].pid /\ u.mg = g
      /\ u.comms = T[o].comms /\ u.refcnt = T[o].refcnt /\ u.linked = T[o].linked
  BY <1>2, <1>3 DEF Thread
<1> HIDE DEF u, U, H, G, S, T
<1>6. U \in [Obj -> Thread] /\ U[o] = u /\ \A p \in Obj : p # o => U[p] = T[p]
  BY <1>1, <1>2, <1>3, <1>5
<1>7. ThreadsOK(U, E, v, h, Y)
  <2>1. /\ T[o].refcnt = Bit(T[o].linked) + Bit(o \in E) + h[o]
        /\ T[o].refcnt = 0 <=> o = v
        /\ o # v => T[o].comms # <<>>
        /\ \A p \in UsedIn(T) : /\ T[p].linked /\ T[o].linked /\ T[p].tid = T[o].tid => p = o
                                /\ T[p].pid = Unknown /\ T[p].mg # NULL /\ T[p].mg = T[q].mg
                                   => p = q
    BY <1>1, <1>2, <1>3 DEF ThreadsOK
  <2>2. u.linked => \A p \in Obj : p # o /\ T[p].linked => T[p].tid # u.tid
    <3>1. \A p \in Obj : T[p].linked => p \in UsedIn(T)
      BY <1>1, CountedIsUsed DEF Counted
    <3> QED
      BY <1>5, <2>1, <3>1
  <2>3. \A p \in UsedIn(T) : T[p].mg = g => T[p].pid # Unknown
    BY <1>2, <1>4, <2>1
  <2>4. u.refcnt = Bit(u.linked) + Bit(o \in E) + h[o]
    BY <1>5, <2>1
  <2>5. ThreadMay(T, E, v, h, X, o, u, E, v, h, Y)
    BY <1>1, <1>2, <1>3, <1>4, <1>5, <2>1, <2>2, <2>3, <2>4 DEF ThreadMay
  <2> QED
    BY <1>2, <2>5, ThreadStep
<1>8. GroupsOK(H, U) /\ H \in [Obj -> MapGroup]
  <2>1. \A x \in Obj : GroupForm(G[x]) /\ G[x].refcnt \in Nat
    BY <1>1 DEF GroupsOK, MapGroup
  <2>2. \A x : x # f => Refs(T, o, x) = 0
    BY DEF Refs, Members
  <2>3. \A x : x = f => Refs(T, o, x) = 1
    BY <1>2 DEF Refs, Members
  <2>4. \A x : x # g => Refs(U, o, x) = 0
    BY <1>5, <1>6 DEF Refs, Members
  <2>5. \A x : x = g => Refs(U, o, x) = 1
    BY <1>3, <1>5, <1>6 DEF Refs, Members, UsedIn
  <2> HIDE DEF f, g
  <2> DEFINE P == IF f = NULL THEN G ELSE map_groups__put(G, f)
  <2>6. /\ P \in [Obj -> MapGroup] /\ \A x \in Obj : x # f => P[x] = G[x]
        /\ f # NULL => P[f].refcnt = G[f].refcnt - 1 /\ GroupForm(P[f])
    <3>1. CASE f = NULL
      BY <1>1, <3>1
    <3>2. CASE f # NULL
      <4>1. f \in Obj
        BY <1>3, <3>2
      <4>2. G[f].refcnt \in Nat /\ G[f].refcnt > 0
        BY <1>1, <1>2, <4>1, GroupCounted DEF f
      <4>3. P = map_groups__put(G, f) /\ GroupForm(G[f])
        BY <2>1, <3>2, <4>1
      <4> HIDE DEF P
      <4>4. /\ P \in [Obj -> MapGroup] /\ \A x \in Obj : x # f => P[x] = G[x]
            /\ P[f].refcnt = G[f].refcnt - 1 /\ GroupForm(P[f])
        BY <1>1, <4>1, <4>2, <4>3, PutGroup
      <4> QED
        BY <4>4
    <3> QED
      BY <3>1, <3>2
  <2>7. H = map_groups__get(P, g)
    BY <1>2
  <2> HIDE DEF P
  <2>8. P[g] = G[g] /\ GroupForm(P[g])
    BY <1>2, <2>1, <2>6
  <2>9. /\ H \in [Obj -> MapGroup] /\ \A x \in Obj : x # g => H[x] = P[x]
        /\ H[g].refcnt = P[g].refcnt + 1 /\ GroupForm(H[g])
    BY <1>2, <2>6, <2>7, <2>8, GetGroup
  <2>10. ASSUME NEW x \in Obj
         PROVE  GroupForm(H[x]) /\ H[x].refcnt + Refs(T, o, x) = G[x].refcnt + Refs(U, o, x)
    <3>1. x # NULL /\ G[x].refcnt \in Nat
      BY <2>1, Null
    <3>2. CASE x = g
      <4>1. (G[x].refcnt + 1) + 0 = G[x].refcnt + 1
        BY <3>1, SMTT(60)
      <4> QED
        BY <1>2, <2>2, <2>5, <2>8, <2>9, <3>2, <4>1
    <3>3. CASE x = f
      <4>1. (G[x].refcnt - 1) + 1 = G[x].refcnt + 0
        BY <3>1, SMTT(60)
      <4>2. H[x] = P[x] /\ P[x].refcnt = G[x].refcnt - 1 /\ GroupForm(P[x])
        BY <1>2, <2>6, <2>9, <3>1, <3>3
      <4> QED
        BY <1>2, <2>3, <2>4, <3>3, <4>1, <4>2
    <3>4. CASE x # f /\ x # g
      <4>1. H[x] = G[x]
        BY <2>6, <2>9, <3>4
      <4> QED
        BY <2>1, <2>2, <2>4, <3>4, <4>1
    <3> QED
      BY <3>2, <3>3, <3>4
  <2>11. GroupMay(G, T, o, U, H)
    BY <1>1, <1>3, <1>6, <2>9, <2>10 DEF GroupMay
  <2> QED
    BY <2>9, <2>11, GroupStep
<1>9. StrsOK(S, U, d)
  <2>1. U[o].comms = T[o].comms /\ U[o].tid # NULL
    BY <1>3, <1>5, <1>6
  <2>2. \A i \in Obj : S[i].refcnt + Cardinality(Places(T[o].comms, i))
                         = S[i].refcnt + Cardinality(Places(U[o].comms, i))
    BY <2>1
  <2>3. StrMay(S, T, d, o, U, S, d)
    BY <1>1, <1>3, <1>6, <2>1, <2>2 DEF StrMay
  <2> QED
    BY <2>3, StrStep
<1>10. MachineType(nn)
  <2>1. nn.last_match \in Obj \cup {NULL}
    BY <1>3 DEF Joined, MachineOK, MachineType
  <2> QED
    BY <1>1, <1>2, <1>6, <1>8, <2>1 DEF MachineType, Joined, U, H, S
<1>11. Keeps(T, U, {})
  BY <1>3, <1>5, <1>6, KeepsOne
<1>12. LastOK(nn)
  <2>1. nn.last_match \in {mm.last_match, o} /\ LastOK(mm)
        /\ mm.last_match \in Obj \cup {NULL}
    BY DEF Joined, MachineOK, MachineType
  <2> QED
    BY <1>2, <1>3, <1>11, <2>1 DEF LastOK, Keeps, T, U
<1> QED
  BY <1>2, <1>7, <1>8, <1>9, <1>10, <1>11, <1>12 DEF Follows, MachineOK, U, H, S, T

\* Only last_match changes.
LEMMA LastSet ==
  ASSUME NEW mm, NEW E, NEW v, NEW d, NEW h, NEW X, MachineOK(mm, E, v, d, h, X),
         NEW o \in Obj \cup {NULL}, o # NULL => mm.threads[o].linked
  PROVE  Follows(mm, [mm EXCEPT !.last_match = o], E, v, d, h, X, {})
<1> DEFINE nn == [mm EXCEPT !.last_match = o]
<1>1. MachineType(mm)
  BY DEF MachineOK
<1>2. /\ nn.threads = mm.threads /\ nn.mgs = mm.mgs /\ nn.strs = mm.strs
      /\ nn.last_match = o /\ DOMAIN nn = {"threads", "mgs", "strs", "last_match"}
  BY <1>1 DEF MachineType
<1> HIDE DEF nn
<1>3. MachineType(nn) /\ LastOK(nn)
  BY <1>1, <1>2 DEF MachineType, LastOK
<1> QED
  BY <1>2, <1>3, KeepsSame DEF Follows, MachineOK, nn

\* The thread o of the tree may be u, in nn, where nothing else changes.
OneMay(mm, h, o, u, k, nn) ==
  /\ o \in Obj /\ mm.threads[o].linked
  /\ DOMAIN nn = {"threads", "mgs", "strs", "last_match"}
  /\ nn.threads = [mm.threads EXCEPT ![o] = u] /\ nn.mgs = mm.mgs /\ nn.strs = mm.strs
  /\ nn.last_match = mm.last_match
  /\ u \in Thread /\ u.linked /\ u.tid = mm.threads[o].tid /\ u.mg = mm.threads[o].mg
  /\ u.comms = mm.threads[o].comms
  /\ u.pid = mm.threads[o].pid \/ (u.pid # Unknown /\ mm.threads[o].pid = Unknown)
  /\ k \in [Obj -> Nat] /\ \A p \in Obj : p # o => k[p] = h[p]
  /\ u.refcnt + h[o] = mm.threads[o].refcnt + k[o]

Touched(mm, nn, E, v, d, k, X, o, u) ==
  /\ Follows(mm, nn, E, v, d, k, X, {}) /\ nn.threads[o] = u
  /\ \A p \in Obj : p # o => nn.threads[p] = mm.threads[p]

\* It is u from now on.
LEMMA TouchOne ==
  ASSUME NEW mm, NEW E, NEW v, NEW d, NEW h, NEW X, MachineOK(mm, E, v, d, h, X),
         NEW o, NEW u, NEW k, NEW nn, OneMay(mm, h, o, u, k, nn)
  PROVE  Touched(mm, nn, E, v, d, k, X, o, u)
<1> USE DEF OneMay
<1> DEFINE T == mm.threads
           U == nn.threads
<1>1. /\ MachineType(mm) /\ LastOK(mm) /\ T \in [Obj -> Thread] /\ h \in [Obj -> Nat]
  BY DEF MachineOK, MachineType, ThreadsOK
<1>2. IsHeld(mm, E, v, h, o)
  BY HeldIsUsed DEF Counted
<1>3. /\ o \in UsedIn(T) /\ o # v /\ T[o] \in Thread
      /\ T[o].refcnt \in Nat /\ T[o].refcnt = Bit(T[o].linked) + Bit(o \in E) + h[o]
  BY <1>2 DEF IsHeld
<1>4. U \in [Obj -> Thread] /\ U[o] = u /\ \A p \in Obj : p # o => U[p] = T[p]
  BY <1>1
<1>5. u.refcnt = Bit(u.linked) + Bit(o \in E) + k[o] /\ u.refcnt # 0
  <2> DEFINE a == T[o].refcnt
             b == Bit(o \in E)
             c == h[o]
             e == k[o]
             n == u.refcnt
  <2>1. Bit(u.linked) = 1 /\ Bit(T[o].linked) = 1
    BY DEF Bit
  <2>2. b \in Nat
    BY DEF Bit
  <2>3. a = 1 + b + c /\ n + c = a + e
    BY <1>3, <2>1
  <2>4. a \in Nat /\ c \in Nat /\ e \in Nat /\ n \in Nat
    BY <1>1, <1>3 DEF Thread
  <2> HIDE DEF a, b, c, e, n
  <2>5. n = 1 + b + e /\ n # 0
    BY <2>2, <2>3, <2>4, SMTT(60)
  <2> QED
    BY <2>1, <2>5 DEF b, e, n
<1>6. MachineType(nn) /\ LastOK(nn)
  BY <1>1, <1>4 DEF MachineType, LastOK
<1>7. TouchMay(mm, v, h, E, o, u, k, nn)
  BY <1>3, <1>5, <1>6 DEF TouchMay
<1>8. MachineOK(nn, E, v, d, k, X)
  BY <1>7, Touch
<1> HIDE DEF T, U
<1>9. Keeps(T, U, {})
  <2>1. U[o].linked /\ U[o].tid = T[o].tid /\ (T[o].pid # Unknown => U[o].pid = T[o].pid)
    BY <1>4 DEF T
  <2>2. T[o].linked
    BY DEF T
  <2> QED
    BY <1>4, <2>1, <2>2, KeepsOne
<1> QED
  BY <1>4, <1>8, <1>9 DEF T, U, Touched, Follows

\* thread__get takes a reference to a thread of the tree.
LEMMA GetOK ==
  ASSUME NEW mm, NEW E, NEW v, NEW d, NEW h, NEW X, MachineOK(mm, E, v, d, h, X),
         NEW o \in Obj, mm.threads[o].linked
  PROVE  Follows(mm, thread__get(mm, o), E, v, d, Hold(h, o), X, {})
<1> DEFINE nn == thread__get(mm, o)
           T == mm.threads
           u == [T[o] EXCEPT !.refcnt = @ + 1]
           k == Hold(h, o)
<1>1. MachineType(mm) /\ h \in [Obj -> Nat] /\ T \in [Obj -> Thread]
  BY DEF MachineOK, ThreadsOK, MachineType
<1>2. /\ DOMAIN nn = {"threads", "mgs", "strs", "last_match"}
      /\ nn.threads = [T EXCEPT ![o] = u] /\ nn.mgs = mm.mgs /\ nn.strs = mm.strs
      /\ nn.last_match = mm.last_match
  BY <1>1 DEF thread__get, MachineType
<1>3. k \in [Obj -> Nat] /\ k[o] = h[o] + 1 /\ \A p \in Obj : p # o => k[p] = h[p]
  BY <1>1, HoldDrop
<1>4. T[o] \in Thread /\ T[o].refcnt \in Nat /\ h[o] \in Nat
  BY <1>1 DEF Thread
<1> HIDE DEF nn, k
<1>5. T[o].refcnt + 1 \in Nat /\ (T[o].refcnt + 1) + h[o] = T[o].refcnt + k[o]
  BY <1>3, <1>4, SMTT(60)
<1>6. /\ u \in Thread /\ u.tid = T[o].tid /\ u.mg = T[o].mg /\ u.comms = T[o].comms
      /\ u.pid = T[o].pid /\ u.linked = T[o].linked /\ u.refcnt = T[o].refcnt + 1
  BY <1>4, <1>5 DEF Thread
<1> HIDE DEF u
<1>7. u.linked /\ u.refcnt + h[o] = T[o].refcnt + k[o]
  BY <1>5, <1>6
<1>8. OneMay(mm, h, o, u, k, nn)
  BY <1>2, <1>3, <1>6, <1>7 DEF OneMay
<1>9. Touched(mm, nn, E, v, d, k, X, o, u)
  BY <1>8, TouchOne
<1> QED
  BY <1>9 DEF nn, k, Touched

\* The pid of a thread of the tree is known from now on.
LEMMA SetPidOK ==
  ASSUME NEW mm, NEW E, NEW v, NEW d, NEW h, NEW X, MachineOK(mm, E, v, d, h, X),
         NEW o \in Obj, mm.threads[o].linked, mm.threads[o].pid = Unknown, NEW pid \in Tid
  PROVE  Touched(mm, [mm EXCEPT !.threads[o].pid = pid], E, v, d, h, X, o,
                 [mm.threads[o] EXCEPT !.pid = pid])
<1> DEFINE nn == [mm EXCEPT !.threads[o].pid = pid]
           T == mm.threads
           u == [T[o] EXCEPT !.pid = pid]
<1>1. MachineType(mm) /\ h \in [Obj -> Nat] /\ T \in [Obj -> Thread] /\ pid # Unknown
  BY Null DEF MachineOK, ThreadsOK, MachineType
<1>2. /\ DOMAIN nn = {"threads", "mgs", "strs", "last_match"}
      /\ nn.threads = [T EXCEPT ![o] = u] /\ nn.mgs = mm.mgs /\ nn.strs = mm.strs
      /\ nn.last_match = mm.last_match
  BY <1>1 DEF MachineType
<1> HIDE DEF nn
<1>3. T[o] \in Thread
  BY <1>1
<1>4. /\ u \in Thread /\ u.tid = T[o].tid /\ u.mg = T[o].mg /\ u.comms = T[o].comms
      /\ u.pid = pid /\ u.linked = T[o].linked /\ u.refcnt = T[o].refcnt
  BY <1>3 DEF Thread
<1> HIDE DEF u
<1>5. u.linked /\ u.refcnt + h[o] = T[o].refcnt + h[o]
  BY <1>4
<1>6. OneMay(mm, h, o, u, h, nn)
  BY <1>1, <1>2, <1>4, <1>5 DEF OneMay
<1>7. Touched(mm, nn, E, v, d, h, X, o, u)
  BY <1>6, TouchOne
<1> QED
  BY <1>7 DEF nn, u

\* A thread whose pid was not known has its maps for itself, so that it joins its
\* leader once, and the reference to the leader is dropped.
LEMMA UpdatePidOK ==
  ASSUME MemoryLasts, NEW mm, NEW E, NEW v, NEW d, NEW h, MachineOK(mm, E, v, d, h, {v}),
         NEW o \in Obj, mm.threads[o].linked, NEW pid \in Tid \cup {Unknown}
  PROVE  Follows(mm, update_thread_pid(mm, o, pid), E, v, d, h, {v}, {pid})
<1> DEFINE nn == update_thread_pid(mm, o, pid)
           T == mm.threads
<1>1. CASE pid = Unknown \/ T[o].pid # Unknown
  <2>1. nn = mm
    BY <1>1 DEF update_thread_pid
  <2> QED
    BY <2>1, KeepsSame DEF Follows
<1>2. CASE ~(pid = Unknown \/ T[o].pid # Unknown)
  <2> DEFINE m1 == [mm EXCEPT !.threads[o].pid = pid]
             T1 == m1.threads
             u == [T[o] EXCEPT !.pid = pid]
  <2>1. pid \in Tid /\ pid # Unknown /\ T[o].pid = Unknown
    BY <1>2
  <2>a. Touched(mm, m1, E, v, d, h, {v}, o, u)
    BY <2>1, SetPidOK
  <2>2. /\ Follows(mm, m1, E, v, d, h, {v}, {pid}) /\ MachineOK(m1, E, v, d, h, {v})
        /\ T1[o] = [T[o] EXCEPT !.pid = pid]
        /\ \A p \in Obj : p # o => T1[p] = T[p]
    <3> HIDE DEF m1, u
    <3>1. Follows(mm, m1, E, v, d, h, {v}, {})
      BY <2>a DEF Touched
    <3>2. Follows(mm, m1, E, v, d, h, {v}, {pid})
      BY <3>1, FollowsMore
    <3> QED
      BY <2>a, <3>1, <3>2 DEF Touched, Follows, u
  <2>3. CASE pid = T[o].tid
    <3>1. nn = m1
      BY <1>2, <2>3 DEF update_thread_pid
    <3> HIDE DEF m1
    <3> QED
      BY <2>2, <3>1 DEF nn
  <2>4. CASE pid # T[o].tid
    <3> DEFINE r == FindnewOwn(m1, pid, pid)
               l == r.o
               T2 == r.m.threads
    <3>1. nn = JoinLeader(r, o)
      BY <1>2, <2>4 DEF update_thread_pid
    <3> HIDE DEF m1, nn
    <3>2. FoundOwn(m1, E, v, d, h, {v}, r, pid, pid)
      BY <2>1, <2>2, FindnewOwnOK
    <3> HIDE DEF r
    <3>3. /\ l \in Obj /\ MachineOK(r.m, E, v, d, Hold(h, l), {v})
          /\ T2[l].linked /\ T2[l].tid = pid /\ T2[l].pid # Unknown
          /\ Keeps(T1, T2, {pid}) /\ \A p \in Obj : p # l => T2[p] = T1[p]
          /\ \/ T1[l].linked /\ T2[l].mg = T1[l].mg
             \/ T2[l].mg \in Obj /\ m1.mgs[T2[l].mg] = NoGroup
      BY <2>1, <3>2 DEF FoundOwn
    <3> HIDE DEF l, T1, T2, T
    <3>4. /\ T[o] \in Thread /\ T[o].linked
          /\ ThreadsOK(T, E, v, h, {v}) /\ T \in [Obj -> Thread]
      BY DEF MachineOK, MachineType, T
    <3>5. /\ T1[o].tid = T[o].tid /\ T1[o].pid = pid /\ T1[o].mg = T[o].mg
          /\ T1[o].linked = T[o].linked
      BY <2>2, <3>4 DEF Thread
    <3>6. o # l /\ T2[o] = T1[o]
      <4>1. T2[o].tid = T1[o].tid
        BY <3>3, <3>4, <3>5 DEF Keeps
      <4> QED
        BY <2>4, <3>3, <3>5, <4>1
    <3>7. o \in UsedIn(T) /\ o # v
      BY <3>4, CountedIsUsed DEF Counted
    <3>8. T[o].mg # NULL /\ T1[o].tid # NULL /\ o \in UsedIn(T1)
      BY <3>4, <3>5, <3>7 DEF ThreadsOK, UsedIn
    <3>9. T1[o].mg # T2[l].mg
      <4>1. CASE T1[l].linked /\ T2[l].mg = T1[l].mg
        <5>1. T1[l] = T[l]
          BY <2>2, <3>3, <3>6
        <5>2. l \in UsedIn(T)
          BY <3>3, <3>4, <4>1, <5>1, CountedIsUsed DEF Counted
        <5>3. T[o].mg # T[l].mg
          BY <2>1, <3>4, <3>6, <3>7, <3>8, <5>2 DEF ThreadsOK
        <5> QED
          BY <3>5, <4>1, <5>1, <5>3
      <4>2. CASE T2[l].mg \in Obj /\ m1.mgs[T2[l].mg] = NoGroup
        <5>1. GroupsOK(m1.mgs, T1) /\ IsFiniteSet(UsedIn(T1))
          BY <2>2 DEF MachineOK, ThreadsOK, T1
        <5> QED
          BY <3>8, <4>2, <5>1, NotAMember
      <4> QED
        BY <3>3, <4>1, <4>2
    <3> DEFINE s == ShareMaps(r.m, o, l)
    <3>10. nn = thread__put(s, l)
      BY <3>1, <3>6, <3>9 DEF JoinLeader, l, T2
    <3>11. IsHeld(r.m, E, v, Hold(h, l), l)
      BY <3>3, HeldIsUsed DEF Counted, T2
    <3>12. l \in UsedIn(T2) /\ l # v
      BY <3>11 DEF IsHeld, T2
    <3>13. /\ T2 \in [Obj -> Thread] /\ MachineType(r.m)
           /\ ThreadsOK(T2, E, v, Hold(h, l), {v})
      BY <3>3 DEF MachineOK, MachineType, T2
    <3>14. T2[l].mg \in Obj
      <4>1. T2[l].mg \in Obj \cup {NULL}
        BY <3>3, <3>13 DEF Thread
      <4>2. T2[l].mg # NULL
        BY <3>12, <3>13 DEF ThreadsOK
      <4> QED
        BY <4>1, <4>2
    <3>15. /\ DOMAIN s = {"threads", "mgs", "strs", "last_match"}
           /\ s.threads = [T2 EXCEPT ![o].mg = T2[l].mg]
           /\ s.mgs = map_groups__get(map_groups__put(r.m.mgs, T2[o].mg), T2[l].mg)
           /\ s.strs = r.m.strs /\ s.last_match = r.m.last_match
      BY <3>13 DEF ShareMaps, MachineType, T2
    <3> HIDE DEF s
    <3>16. /\ o \in UsedIn(T2) /\ T2[o].linked /\ T2[o].pid # Unknown
           /\ T2[o].mg # NULL /\ T2[o].mg # T2[l].mg
      BY <2>1, <3>4, <3>5, <3>6, <3>8, <3>9 DEF UsedIn
    <3>17. Joined(r.m, s, v, o, l, {v}, {v})
      BY <3>3, <3>7, <3>12, <3>14, <3>15, <3>16 DEF Joined, T2
    <3>18. Follows(r.m, s, E, v, d, Hold(h, l), {v}, {})
      BY <3>3, <3>17, JoinedOK
    <3>19. MachineOK(s, E, v, d, Hold(h, l), {v}) /\ h \in [Obj -> Nat]
      BY <3>4, <3>18 DEF ThreadsOK, Follows
    <3>20. Hold(h, l)[l] > 0 /\ Drop(Hold(h, l), l) = h
      BY <3>3, <3>19, HoldDrop
    <3>21. Follows(s, thread__put(s, l), E, v, d, Drop(Hold(h, l), l), {v}, {})
      BY <3>3, <3>12, <3>19, <3>20, PutOK
    <3>22. Follows(s, nn, E, v, d, h, {v}, {})
      BY <3>10, <3>20, <3>21
    <3>23. Follows(m1, r.m, E, v, d, Hold(h, l), {v}, {pid})
      BY <3>3 DEF Follows, T1, T2
    <3>24. Follows(r.m, s, E, v, d, Hold(h, l), {v}, {pid})
      BY <3>18, FollowsMore
    <3>25. Follows(s, nn, E, v, d, h, {v}, {pid})
      BY <3>22, FollowsMore
    <3>26. Follows(mm, r.m, E, v, d, Hold(h, l), {v}, {pid})
      BY <2>2, <3>23, FollowsTrans
    <3>27. Follows(mm, s, E, v, d, Hold(h, l), {v}, {pid})
      BY <3>24, <3>26, FollowsTrans
    <3> QED
      BY <3>25, <3>27, FollowsTrans DEF nn
  <2> QED
    BY <2>3, <2>4
<1> QED
  BY <1>1, <1>2

\* r.o is the thread tid of the tree of r.m, with a reference of the handler.
Found(mm, E, v, d, h, r, pid, tid) ==
  /\ r.o \in Obj /\ Follows(mm, r.m, E, v, d, Hold(h, r.o), {v}, {pid, tid})
  /\ r.m.threads[r.o].linked /\ r.m.threads[r.o].tid = tid
  /\ Absent(mm.threads, tid) =>
       /\ r.m.threads[r.o].pid = pid
       /\ pid = tid => r.m.mgs[r.m.threads[r.o].mg].maps = {}

\* machine__find_thread: the thread of the tree, whose pid may have come late.
LEMMA FindThreadOK ==
  ASSUME MemoryLasts, NEW mm, NEW E, NEW v, NEW d, NEW h, MachineOK(mm, E, v, d, h, {v}),
         NEW pid \in Tid \cup {Unknown}, NEW tid
  PROVE  LET r == find_thread(mm, pid, tid)
         IN  /\ r.o = Lookup(mm, tid)
             /\ r.o = NULL => /\ Follows(mm, r.m, E, v, d, h, {v}, {})
                              /\ Absent(mm.threads, tid)
             /\ r.o # NULL => Found(mm, E, v, d, h, r, pid, tid)
<1> DEFINE r == find_thread(mm, pid, tid)
           o == Lookup(mm, tid)
           T == mm.threads
<1>1. /\ o = NULL => Absent(T, tid)
      /\ o # NULL => o \in Obj /\ T[o].linked /\ T[o].tid = tid
  BY LookupOK DEF Absent
<1>2. r = FindThread(mm, o, pid)
  BY DEF find_thread
<1> HIDE DEF o, r
<1>3. CASE o = NULL
  <2>1. r.o = NULL /\ r.m = [mm EXCEPT !.last_match = NULL]
    BY <1>2, <1>3 DEF FindThread
  <2>2. Follows(mm, [mm EXCEPT !.last_match = NULL], E, v, d, h, {v}, {})
    BY LastSet
  <2> QED
    BY <1>1, <1>3, <2>1, <2>2 DEF r, o
<1>4. CASE o # NULL
  <2> DEFINE m0 == [mm EXCEPT !.last_match = o]
             m1 == update_thread_pid(m0, o, pid)
             m2 == thread__get(m1, o)
  <2>1. r.o = o /\ r.m = m2
    BY <1>2, <1>4 DEF FindThread
  <2>2. o \in Obj /\ T[o].linked /\ T[o].tid = tid
    BY <1>1, <1>4
  <2>3. Follows(mm, m0, E, v, d, h, {v}, {})
    BY <2>2, LastSet
  <2> HIDE DEF m0
  <2>4. MachineOK(m0, E, v, d, h, {v}) /\ m0.threads[o].linked
    BY <2>2, <2>3 DEF Follows, Keeps
  <2>5. Follows(m0, m1, E, v, d, h, {v}, {pid})
    BY <2>2, <2>4, UpdatePidOK
  <2> HIDE DEF m1
  <2>6. MachineOK(m1, E, v, d, h, {v}) /\ m1.threads[o].linked
    BY <2>2, <2>4, <2>5 DEF Follows, Keeps
  <2>7. Follows(m1, m2, E, v, d, Hold(h, o), {v}, {})
    BY <2>2, <2>6, GetOK
  <2> HIDE DEF m2
  <2> DEFINE P == {pid, tid}
  <2>8. Keeps(m0.threads, m1.threads, P)
    BY <2>5, KeepsPair DEF Follows
  <2> HIDE DEF P
  <2>9. /\ Follows(mm, m0, E, v, d, h, {v}, P)
        /\ Follows(m1, m2, E, v, d, Hold(h, o), {v}, P)
    BY <2>3, <2>7, FollowsMore
  <2>10. Follows(m0, m1, E, v, d, h, {v}, P)
    BY <2>5, <2>8 DEF Follows
  <2>11. Follows(mm, m1, E, v, d, h, {v}, P)
    BY <2>9, <2>10, FollowsTrans
  <2>12. Follows(mm, m2, E, v, d, Hold(h, o), {v}, P)
    BY <2>9, <2>11, FollowsTrans
  <2>13. m2.threads[o].linked /\ m2.threads[o].tid = tid
    BY <2>2, <2>12 DEF Follows, Keeps
  <2>14. ~Absent(T, tid)
    BY <2>2 DEF Absent
  <2>15. Found(mm, E, v, d, h, r, pid, tid)
    BY <2>1, <2>2, <2>12, <2>13, <2>14 DEF Found, P
  <2> QED
    BY <1>4, <2>1, <2>15 DEF r, o
<1> QED
  BY <1>3, <1>4

\* A new thread that is no leader is linked before its leader is found or made.
LEMMA CreateMemberOK ==
  ASSUME MemoryLasts, NEW mm, NEW E, NEW v, NEW d, NEW h, MachineOK(mm, E, v, d, h, {v}),
         NEW pid \in Tid, NEW tid \in Tid, pid # tid, Absent(mm.threads, tid)
  PROVE  Found(mm, E, v, d, h, CreateMember(mm, FreeObj(mm), pid, tid), pid, tid)
<1> DEFINE o == FreeObj(mm)
           cc == Create(mm, o, pid, tid, NULL)
           u == NewThread(mm, pid, tid, NULL)
           T == mm.threads
           T1 == cc.threads
           k == Hold(h, o)
           P == {pid, tid}
<1>1. MachineType(mm) /\ ThreadsOK(T, E, v, h, {v}) /\ h \in [Obj -> Nat]
      /\ T \in [Obj -> Thread]
  BY DEF MachineOK, ThreadsOK, MachineType
<1>2. o \in Obj /\ T[o] = NoThread
  BY <1>1, FreeObjOK
<1>3. /\ DOMAIN cc = {"threads", "mgs", "strs", "last_match"}
      /\ cc.threads = [T EXCEPT ![o] = u] /\ cc.mgs = mm.mgs
      /\ cc.strs = comm_str__findnew(mm.strs, tid) /\ cc.last_match = o
  BY <1>1, <1>2 DEF Create, NewThread, MachineType
<1> HIDE DEF cc, o, u
<1>4. Created(mm, cc, o, pid, tid, NULL, {v}, {v, o})
  BY <1>2, <1>3 DEF Created, u
<1>5. MachineOK(cc, E, v, d, k, {v, o})
  BY <1>4, CreatedOK
<1>6. u.linked = TRUE /\ u.tid = tid /\ u.pid = pid /\ u.mg = NULL
  BY DEF u, NewThread
<1> HIDE DEF T, T1
<1>7. T1[o] = u /\ \A p \in Obj : p # o => T1[p] = T[p]
  BY <1>1, <1>2, <1>3 DEF T1
<1>8. Keeps(T, T1, P)
  <2>1. ~NoThread.linked
    BY DEF NoThread
  <2>2. ~T[o].linked /\ T1[o].tid \in P
    BY <1>2, <1>6, <1>7, <2>1
  <2> QED
    BY <1>2, <1>7, <2>2, KeepsOne
<1> DEFINE r == FindnewOwn(cc, pid, pid)
           l == r.o
           T2 == r.m.threads
           j == Hold(k, l)
<1>9. CreateMember(mm, o, pid, tid) = JoinNew(r, o)
  BY DEF CreateMember, cc
<1>10. FoundOwn(cc, E, v, d, k, {v, o}, r, pid, pid)
  BY <1>5, FindnewOwnOK
<1> HIDE DEF r
<1>11. pid # Unknown
  BY Null
<1>12. /\ l \in Obj /\ MachineOK(r.m, E, v, d, j, {v, o})
       /\ T2[l].linked /\ T2[l].tid = pid /\ T2[l].pid # Unknown
       /\ Keeps(T1, T2, {pid}) /\ \A p \in Obj : p # l => T2[p] = T1[p]
  BY <1>10, <1>11 DEF FoundOwn, T1
<1> HIDE DEF l, T2, k
<1>13. o # l /\ T2[o] = u
  <2>1. T2[o].tid = tid
    BY <1>2, <1>6, <1>7, <1>12 DEF Keeps
  <2> QED
    BY <1>2, <1>7, <1>12, <2>1
<1>14. IsHeld(r.m, E, v, j, l) /\ IsHeld(r.m, E, v, j, o)
  <2>1. Counted(r.m.threads, E, j, l) /\ Counted(r.m.threads, E, j, o)
    BY <1>6, <1>12, <1>13 DEF Counted, T2
  <2> HIDE DEF j
  <2> QED
    BY <1>2, <1>12, <2>1, HeldIsUsed
<1>15. l \in UsedIn(T2) /\ l # v /\ o \in UsedIn(T2) /\ o # v
  BY <1>14 DEF IsHeld, T2
<1>16. T2 \in [Obj -> Thread] /\ MachineType(r.m) /\ ThreadsOK(T2, E, v, j, {v, o})
  BY <1>12 DEF MachineOK, MachineType, T2
<1> HIDE DEF j
<1>17. T2[l].mg \in Obj
  <2>1. T2[l].mg \in Obj \cup {NULL}
    BY <1>12, <1>16 DEF Thread
  <2>2. T2[l].mg # NULL
    BY <1>13, <1>15, <1>16 DEF ThreadsOK
  <2> QED
    BY <2>1, <2>2
<1> DEFINE g == r.m.threads[l].mg
           s == [r.m EXCEPT !.threads[o].mg = g, !.mgs = map_groups__get(@, g),
                            !.last_match = o]
           nn == thread__put(s, l)
<1>18. JoinNew(r, o) = [m |-> nn, o |-> o]
  BY DEF JoinNew, l
<1>19. /\ DOMAIN s = {"threads", "mgs", "strs", "last_match"}
       /\ s.threads = [T2 EXCEPT ![o].mg = T2[l].mg]
       /\ s.mgs = map_groups__get(r.m.mgs, T2[l].mg)
       /\ s.strs = r.m.strs /\ s.last_match = o
  BY <1>16 DEF MachineType, T2
<1> HIDE DEF s
<1>20. /\ T2[o].linked /\ T2[o].pid # Unknown /\ T2[o].mg = NULL
       /\ T2[o].mg # T2[l].mg
  BY <1>6, <1>11, <1>13, <1>17, Null
<1>21. Joined(r.m, s, v, o, l, {v, o}, {v})
  BY <1>12, <1>15, <1>17, <1>19, <1>20 DEF Joined, T2
<1>22. Follows(r.m, s, E, v, d, j, {v}, {})
  BY <1>12, <1>21, JoinedOK DEF j
<1>23. MachineOK(s, E, v, d, j, {v}) /\ k \in [Obj -> Nat]
  BY <1>1, <1>2, <1>22, HoldDrop DEF Follows, k
<1>24. j[l] > 0 /\ Drop(j, l) = k
  BY <1>12, <1>23, HoldDrop DEF j
<1>25. Follows(s, nn, E, v, d, k, {v}, {})
  <2>1. Follows(s, nn, E, v, d, Drop(j, l), {v}, {})
    BY <1>12, <1>15, <1>23, <1>24, PutOK
  <2> QED
    BY <1>24, <2>1
<1> HIDE DEF nn, P
<1>26. Follows(mm, cc, E, v, d, k, {v, o}, P)
  BY <1>5, <1>8 DEF Follows, T, T1, k
<1>27. Follows(cc, r.m, E, v, d, j, {v, o}, P)
  <2>1. Keeps(T1, T2, P)
    BY <1>12, KeepsPair DEF P
  <2> QED
    BY <1>12, <2>1 DEF Follows, T1, T2, j
<1>28. Follows(r.m, s, E, v, d, j, {v}, P) /\ Follows(s, nn, E, v, d, k, {v}, P)
  BY <1>22, <1>25, FollowsMore
<1>29. Follows(cc, s, E, v, d, j, {v}, P)
  BY <1>27, <1>28, FollowsTrans
<1>30. Follows(cc, nn, E, v, d, k, {v}, P)
  BY <1>28, <1>29, FollowsTrans
<1>31. Follows(mm, nn, E, v, d, k, {v}, P)
  BY <1>26, <1>30, FollowsTrans
<1>32. nn.threads[o].linked /\ nn.threads[o].tid = tid /\ nn.threads[o].pid = pid
  BY <1>2, <1>6, <1>7, <1>11, <1>30 DEF Follows, Keeps, T1
<1> DEFINE f == [m |-> nn, o |-> o]
<1>33. f.m = nn /\ f.o = o
  OBVIOUS
<1> HIDE DEF f
<1>34. Found(mm, E, v, d, h, f, pid, tid)
  BY <1>2, <1>31, <1>32, <1>33 DEF Found, P, k
<1> QED
  BY <1>9, <1>18, <1>34 DEF o, f

\* machine__findnew_thread.
LEMMA FindnewThreadOK ==
  ASSUME MemoryLasts, NEW mm, NEW E, NEW v, NEW d, NEW h, MachineOK(mm, E, v, d, h, {v}),
         NEW pid \in Tid \cup {Unknown}, NEW tid \in Tid
  PROVE  Found(mm, E, v, d, h, findnew_thread(mm, pid, tid), pid, tid)
<1> DEFINE r == findnew_thread(mm, pid, tid)
           l == Lookup(mm, tid)
<1>1. l = NULL => Absent(mm.threads, tid)
  BY LookupOK DEF Absent
<1>2. CASE l # NULL
  <2> DEFINE f == find_thread(mm, pid, tid)
  <2>1. r = f
    BY <1>2 DEF findnew_thread
  <2>2. f.o = l /\ (f.o # NULL => Found(mm, E, v, d, h, f, pid, tid))
    <3> HIDE DEF f, l
    <3> QED
      BY FindThreadOK DEF f, l
  <2> HIDE DEF f, l, r
  <2> QED
    BY <1>2, <2>1, <2>2 DEF r
<1>3. CASE l = NULL /\ pid \in {tid, Unknown}
  <2> DEFINE f == FindnewOwn(mm, pid, tid)
  <2>1. r = f
    BY <1>3 DEF findnew_thread
  <2>2. FoundOwn(mm, E, v, d, h, {v}, f, pid, tid)
    BY FindnewOwnOK
  <2> HIDE DEF f, l, r
  <2>3. Keeps(mm.threads, f.m.threads, {tid})
    BY <2>2 DEF FoundOwn
  <2>4. Keeps(mm.threads, f.m.threads, {tid, pid}) /\ {tid, pid} = {pid, tid}
    BY <2>3, KeepsPair
  <2>5. Found(mm, E, v, d, h, f, pid, tid)
    BY <2>2, <2>4 DEF FoundOwn, Found, Follows
  <2> QED
    BY <2>1, <2>5 DEF r
<1>4. CASE l = NULL /\ pid \notin {tid, Unknown}
  <2>1. r = CreateMember(mm, FreeObj(mm), pid, tid)
    BY <1>4 DEF findnew_thread
  <2>2. pid \in Tid /\ pid # tid
    BY <1>4
  <2> QED
    BY <1>1, <1>4, <2>1, <2>2, CreateMemberOK
<1> QED
  BY <1>2, <1>3, <1>4

\* nn is mm without the thread o in the tree.
Replaced(mm, nn, E, v, d, k, X, o) ==
  LET T == mm.threads
      U == nn.threads
  IN  /\ MachineOK(nn, E, v, d, k, X) /\ Absent(U, T[o].tid)
      /\ \A p \in Obj : /\ T[p].linked /\ p # o =>
                             /\ U[p].linked /\ U[p].tid = T[p].tid
                             /\ T[p].pid # Unknown => U[p].pid = T[p].pid
                        /\ U[p].linked => T[p].linked /\ U[p].tid = T[p].tid

\* machine__remove_thread, and the reference of the lookup is dropped.
LEMMA ReplaceOK ==
  ASSUME NEW mm, NEW E, NEW v, NEW d, NEW h, NEW X, MachineOK(mm, E, v, d, h, X),
         NEW o \in Obj, mm.threads[o].linked, h[o] > 0, o \notin X
  PROVE  Replaced(mm, Replace(mm, o), E, v, d, Drop(h, o), X, o)
<1> DEFINE T == mm.threads
           m1 == [mm EXCEPT !.threads[o].linked = FALSE,
                            !.last_match = IF @ = o THEN NULL ELSE @]
           T1 == m1.threads
           u == [T[o] EXCEPT !.linked = FALSE]
           k == Hold(h, o)
           m2 == thread__put(m1, o)
           nn == thread__put(m2, o)
<1>1. Replace(mm, o) = nn
  BY DEF Replace, remove_thread
<1>2. /\ MachineType(mm) /\ LastOK(mm) /\ T \in [Obj -> Thread] /\ h \in [Obj -> Nat]
      /\ ThreadsOK(T, E, v, h, X)
  BY DEF MachineOK, MachineType, ThreadsOK
<1>3. /\ DOMAIN m1 = {"threads", "mgs", "strs", "last_match"}
      /\ T1 = [T EXCEPT ![o] = u] /\ m1.mgs = mm.mgs /\ m1.strs = mm.strs
      /\ m1.last_match = IF mm.last_match = o THEN NULL ELSE mm.last_match
  BY <1>2 DEF MachineType
<1> HIDE DEF m1, m2, nn
<1>4. IsHeld(mm, E, v, h, o)
  BY HeldIsUsed DEF Counted
<1>5. /\ o \in UsedIn(T) /\ o # v /\ T[o] \in Thread /\ T[o].tid \in Tid
      /\ T[o].refcnt \in Nat /\ T[o].refcnt > 0
      /\ T[o].refcnt = Bit(T[o].linked) + Bit(o \in E) + h[o]
  BY <1>4 DEF IsHeld
<1>6. /\ u \in Thread /\ u.tid = T[o].tid /\ u.mg = T[o].mg /\ u.comms = T[o].comms
      /\ u.pid = T[o].pid /\ u.linked = FALSE /\ u.refcnt = T[o].refcnt
  BY <1>5 DEF Thread
<1>7. /\ k \in [Obj -> Nat] /\ k[o] = h[o] + 1 /\ Drop(k, o) = h /\ k[o] > 0
      /\ \A p \in Obj : p # o => k[p] = h[p]
  BY <1>2, HoldDrop
<1> HIDE DEF u, k
<1>8. u.refcnt = Bit(u.linked) + Bit(o \in E) + k[o] /\ u.refcnt # 0
  <2> DEFINE a == T[o].refcnt
             b == Bit(o \in E)
             c == h[o]
             e == k[o]
  <2>1. Bit(u.linked) = 0 /\ Bit(T[o].linked) = 1
    BY <1>6 DEF Bit
  <2>2. b \in Nat
    BY DEF Bit
  <2>3. a = 1 + b + c /\ e = c + 1 /\ a > 0 /\ u.refcnt = a
    BY <1>5, <1>6, <1>7, <2>1
  <2>4. a \in Nat /\ c \in Nat
    BY <1>2, <1>5
  <2> HIDE DEF a, b, c, e
  <2>5. a = 0 + b + e /\ a # 0
    BY <2>2, <2>3, <2>4, SMTT(60)
  <2> QED
    BY <2>1, <2>3, <2>5 DEF b, e
<1> HIDE DEF T, T1
<1>9. T1 \in [Obj -> Thread] /\ T1[o] = u /\ \A p \in Obj : p # o => T1[p] = T[p]
  BY <1>2, <1>3, <1>6
<1>10. MachineType(m1) /\ LastOK(m1)
  <2>1. m1.last_match \in Obj \cup {NULL} /\ m1.last_match # o
    BY <1>2, <1>3, Null DEF MachineType
  <2>2. m1.last_match # NULL => m1.last_match = mm.last_match
    BY <1>3
  <2>3. LastOK(m1)
    BY <1>2, <1>9, <2>1, <2>2 DEF LastOK, T, T1
  <2> QED
    BY <1>2, <1>3, <1>9, <2>1, <2>3 DEF MachineType, T1
<1>11. TouchMay(mm, v, h, E, o, u, k, m1)
  BY <1>3, <1>5, <1>6, <1>7, <1>8, <1>10 DEF TouchMay, T, T1
<1>12. MachineOK(m1, E, v, d, k, X)
  BY <1>11, Touch
<1>13. Follows(m1, m2, E, v, d, h, X, {})
  <2>1. Follows(m1, m2, E, v, d, Drop(k, o), X, {})
    BY <1>7, <1>12, PutOK DEF m2
  <2> QED
    BY <1>7, <2>1
<1>14. MachineOK(m2, E, v, d, h, X)
  BY <1>13 DEF Follows
<1>15. Follows(m2, nn, E, v, d, Drop(h, o), X, {})
  BY <1>14, PutOK DEF nn
<1>16. Follows(m1, nn, E, v, d, Drop(h, o), X, {})
  BY <1>13, <1>15, FollowsTrans
<1> DEFINE U == nn.threads
<1>17. MachineOK(nn, E, v, d, Drop(h, o), X) /\ Keeps(T1, U, {})
  BY <1>16 DEF Follows, T1
<1> HIDE DEF U
<1>18. ASSUME NEW p \in Obj, U[p].linked
       PROVE  T[p].linked /\ U[p].tid = T[p].tid /\ p # o
  <2>1. T1[p].linked /\ U[p].tid = T1[p].tid
    BY <1>17, <1>18 DEF Keeps
  <2> QED
    BY <1>6, <1>9, <2>1
<1>19. ASSUME NEW p \in Obj, T[p].linked, p # o
       PROVE  /\ U[p].linked /\ U[p].tid = T[p].tid
              /\ T[p].pid # Unknown => U[p].pid = T[p].pid
  BY <1>9, <1>17, <1>19 DEF Keeps
<1>20. Absent(U, T[o].tid)
  <2> SUFFICES ASSUME NEW p \in Obj, U[p].linked PROVE U[p].tid # T[o].tid
    BY DEF Absent
  <2>1. T[p].linked /\ U[p].tid = T[p].tid /\ p # o
    BY <1>18
  <2>2. p \in UsedIn(T)
    BY <1>2, <2>1, CountedIsUsed DEF Counted
  <2>3. T[o].linked
    BY DEF T
  <2> QED
    BY <1>2, <1>5, <2>1, <2>2, <2>3 DEF ThreadsOK
<1> QED
  BY <1>1, <1>17, <1>18, <1>19, <1>20 DEF Replaced, U, T
-----------------------------------------------------------------------------
(* Setting a name and inserting a map.                                     *)

\* The first name of a thread is counted.
LEMMA FirstName ==
  ASSUME NEW mm, NEW E, NEW v, NEW d, NEW h, NEW X, MachineOK(mm, E, v, d, h, X),
         NEW o \in Obj, mm.threads[o].linked
  PROVE  LET c == mm.threads[o].comms
         IN  /\ c \in Seq(Obj) /\ c # <<>> /\ c[1] \in Obj
             /\ mm.strs[c[1]].refcnt > 0 /\ mm.strs[c[1]].refcnt \in Nat
             /\ mm.strs[c[1]].name \in Int /\ mm.strs[c[1]].name # 0
<1> DEFINE T == mm.threads
           S == mm.strs
           c == T[o].comms
           i == c[1]
<1>1. /\ T \in [Obj -> Thread] /\ S \in [Obj -> Str] /\ StrsOK(S, T, d) /\ StrsForm(S, d)
      /\ ThreadsOK(T, E, v, h, X)
  BY DEF MachineOK, MachineType, StrsOK
<1>2. IsHeld(mm, E, v, h, o)
  BY HeldIsUsed DEF Counted
<1>3. o \in UsedIn(T) /\ o # v /\ T[o].tid # NULL
  BY <1>2 DEF IsHeld, UsedIn
<1>4. c \in Seq(Obj) /\ c # <<>>
  BY <1>1, <1>3 DEF Thread, ThreadsOK
<1> HIDE DEF c
<1>5. /\ i \in Obj /\ Tail(c) \in Seq(Obj)
      /\ Cardinality(Places(c, i)) = Cardinality(Places(Tail(c), i)) + 1
  BY <1>4, PlacesTail
<1> HIDE DEF i
<1>6. Cardinality(Places(Tail(c), i)) \in Nat
  BY <1>5, PlacesFinite
<1> HIDE DEF T, S
<1>7. IsFiniteSet(UsersIn(T, i)) /\ S[i].refcnt = Cardinality(UsersIn(T, i))
  BY <1>1, <1>5 DEF StrsOK
<1>8. Cardinality(Places(c, i)) <= Cardinality(UsersIn(T, i))
  BY <1>1, <1>3, <1>7, UsersStep DEF c
<1>9. S[i].refcnt \in Nat /\ S[i].name \in Int
  BY <1>1, <1>5 DEF Str
<1>10. S[i].refcnt > 0
  BY <1>5, <1>6, <1>7, <1>8, <1>9, SMTT(60)
<1>11. S[i].name # 0
  BY <1>1, <1>5, <1>10 DEF StrsForm
<1> QED
  BY <1>4, <1>5, <1>9, <1>10, <1>11 DEF T, S, c, i

\* nn is mm with other names of the thread o of the tree.
Renamed(mm, nn, d, o, u) ==
  LET T == mm.threads
  IN  /\ o \in Obj /\ T[o].linked /\ u \in Thread /\ u.comms # <<>>
      /\ u.tid = T[o].tid /\ u.pid = T[o].pid /\ u.mg = T[o].mg
      /\ u.refcnt = T[o].refcnt /\ u.linked = T[o].linked
      /\ DOMAIN nn = {"threads", "mgs", "strs", "last_match"}
      /\ nn.threads = [T EXCEPT ![o] = u] /\ nn.mgs = mm.mgs
      /\ nn.last_match = mm.last_match
      /\ nn.strs \in [Obj -> Str] /\ StrsForm(nn.strs, d)
      /\ \A i \in Obj : nn.strs[i].refcnt + Cardinality(Places(T[o].comms, i))
                          = mm.strs[i].refcnt + Cardinality(Places(u.comms, i))

\* The machine with the names changed, and the maps of the thread kept.
Commed(mm, nn, E, v, d, h, X, o) ==
  /\ Follows(mm, nn, E, v, d, h, X, {}) /\ nn.mgs = mm.mgs
  /\ nn.threads[o].mg = mm.threads[o].mg

\* __thread__set_comm changes the names of one thread and leaves all counts as they were.
LEMMA RenamedOK ==
  ASSUME NEW mm, NEW E, NEW v, NEW d, NEW h, NEW X, MachineOK(mm, E, v, d, h, X),
         NEW nn, NEW o, NEW u, Renamed(mm, nn, d, o, u)
  PROVE  Commed(mm, nn, E, v, d, h, X, o)
<1> DEFINE T == mm.threads
           U == nn.threads
           S == mm.strs
           Z == nn.strs
           G == mm.mgs
<1>1. /\ T \in [Obj -> Thread] /\ G \in [Obj -> MapGroup] /\ S \in [Obj -> Str]
      /\ ThreadsOK(T, E, v, h, X) /\ GroupsOK(G, T) /\ StrsOK(S, T, d)
      /\ h \in [Obj -> Nat] /\ IsFiniteSet(UsedIn(T))
      /\ E \subseteq Obj /\ v \in Obj \cup {NULL}
      /\ mm.last_match \in Obj \cup {NULL} /\ LastOK(mm)
  BY DEF MachineOK, MachineType, ThreadsOK, UsedIn
<1>2. /\ o \in Obj /\ T[o].linked /\ u \in Thread /\ u.comms # <<>>
      /\ u.tid = T[o].tid /\ u.pid = T[o].pid /\ u.mg = T[o].mg
      /\ u.refcnt = T[o].refcnt /\ u.linked = T[o].linked
      /\ U = [T EXCEPT ![o] = u] /\ nn.mgs = G /\ nn.last_match = mm.last_match
      /\ Z \in [Obj -> Str] /\ StrsForm(Z, d)
      /\ \A i \in Obj : Z[i].refcnt + Cardinality(Places(T[o].comms, i))
                          = S[i].refcnt + Cardinality(Places(u.comms, i))
  BY DEF Renamed
<1>3. IsHeld(mm, E, v, h, o)
  BY <1>2, HeldIsUsed DEF Counted
<1>4. o \in UsedIn(T) /\ o # v /\ T[o].tid # NULL
  BY <1>3 DEF IsHeld, UsedIn
<1> HIDE DEF T, U, S, Z, G
<1>5. U \in [Obj -> Thread] /\ U[o] = u /\ \A p \in Obj : p # o => U[p] = T[p]
  BY <1>1, <1>2
<1>6. ThreadsOK(U, E, v, h, X)
  <2>1. /\ T[o].refcnt = Bit(T[o].linked) + Bit(o \in E) + h[o]
        /\ T[o].refcnt = 0 <=> o = v
        /\ T[o].mg = NULL <=> o \in X
        /\ \A p \in UsedIn(T) : /\ T[p].linked /\ T[o].linked /\ T[p].tid = T[o].tid => p = o
                                /\ T[p].pid = Unknown /\ T[p].mg # NULL /\ T[p].mg = T[o].mg
                                   => p = o
                                /\ T[o].pid = Unknown /\ T[o].mg # NULL /\ T[o].mg = T[p].mg
                                   => p = o
    BY <1>1, <1>2, <1>4 DEF ThreadsOK
  <2>2. u.linked => \A p \in Obj : p # o /\ T[p].linked => T[p].tid # u.tid
    <3>1. \A p \in Obj : T[p].linked => p \in UsedIn(T)
      BY <1>1, CountedIsUsed DEF Counted
    <3> QED
      BY <1>2, <2>1, <3>1
  <2>3. u.mg # NULL => \A p \in UsedIn(T) : p # o /\ T[p].mg = u.mg =>
                         u.pid # Unknown /\ T[p].pid # Unknown
    BY <1>2, <2>1
  <2>4. u.refcnt = Bit(u.linked) + Bit(o \in E) + h[o]
    BY <1>2, <2>1
  <2>5. ThreadMay(T, E, v, h, X, o, u, E, v, h, X)
    BY <1>1, <1>2, <1>4, <2>1, <2>2, <2>3, <2>4 DEF ThreadMay
  <2> QED
    BY <1>2, <2>5, ThreadStep
<1>7. GroupsOK(G, U)
  <2>1. \A g : Refs(U, o, g) = Refs(T, o, g)
    BY <1>2, <1>4, <1>5 DEF Refs, Members, UsedIn
  <2>2. \A g \in Obj : /\ GroupForm(G[g])
                       /\ G[g].refcnt + Refs(T, o, g) = G[g].refcnt + Refs(U, o, g)
    BY <1>1, <2>1 DEF GroupsOK
  <2>3. GroupMay(G, T, o, U, G)
    BY <1>1, <1>2, <1>5, <2>2 DEF GroupMay
  <2> QED
    BY <2>3, GroupStep
<1>8. StrsOK(Z, U, d)
  <2>1. U[o].comms = u.comms /\ U[o].tid # NULL
    BY <1>2, <1>4, <1>5
  <2>2. \A i \in Obj : Z[i].refcnt + Cardinality(Places(T[o].comms, i))
                         = S[i].refcnt + Cardinality(Places(U[o].comms, i))
    BY <1>2, <2>1
  <2>3. StrMay(S, T, d, o, U, Z, d)
    BY <1>1, <1>2, <1>4, <1>5, <2>1, <2>2 DEF StrMay
  <2> QED
    BY <2>3, StrStep
<1>9. Keeps(T, U, {})
  BY <1>2, <1>5, KeepsOne
<1>10. LastOK(nn)
  BY <1>1, <1>2, <1>9 DEF LastOK, Keeps, T, U
<1>11. MachineType(nn)
  BY <1>1, <1>2, <1>5 DEF MachineType, Renamed, U, Z, G
<1>12. MachineOK(nn, E, v, d, h, X)
  BY <1>2, <1>6, <1>7, <1>8, <1>10, <1>11 DEF MachineOK, U, Z, G
<1>13. U[o].mg = T[o].mg
  BY <1>2, <1>5
<1> QED
  BY <1>2, <1>9, <1>12, <1>13 DEF Commed, Follows, T, U, G

\* __thread__set_comm: the string is counted before the old one is dropped.
LEMMA SetCommOK ==
  ASSUME MemoryLasts, NEW mm, NEW E, NEW v, NEW d, NEW h, NEW X,
         MachineOK(mm, E, v, d, h, X), NEW o \in Obj, mm.threads[o].linked,
         NEW name \in Int, name # 0
  PROVE  Commed(mm, set_comm(mm, o, name), E, v, d, h, X, o)
<1> DEFINE nn == set_comm(mm, o, name)
           T == mm.threads
           S == mm.strs
           i == StrOf(S, name)
           R == comm_str__findnew(S, name)
           c == T[o].comms
           m1 == [mm EXCEPT !.strs = R]
<1>1. /\ MachineType(mm) /\ T \in [Obj -> Thread] /\ S \in [Obj -> Str] /\ StrsForm(S, d)
  BY DEF MachineOK, MachineType, StrsOK
<1>2. nn = SetComm(m1, o, i)
  BY DEF set_comm
<1>3. /\ DOMAIN m1 = {"threads", "mgs", "strs", "last_match"} /\ m1.threads = T
      /\ m1.strs = R /\ m1.mgs = mm.mgs /\ m1.last_match = mm.last_match
  BY <1>1 DEF MachineType
<1>4. c \in Seq(Obj) /\ c # <<>> /\ c[1] \in Obj /\ S[c[1]].refcnt > 0
  BY FirstName
<1>5. T[o] \in Thread /\ T[o].linked
  BY <1>1
<1> HIDE DEF i, R, S, m1, nn
<1>6. /\ i \in Obj /\ R \in [Obj -> Str] /\ StrsForm(R, d)
      /\ R[i].refcnt = S[i].refcnt + 1 /\ \A j \in Obj : j # i => R[j] = S[j]
  BY <1>1, FindnewStr DEF i, R
<1>7. \A j \in Obj : S[j].refcnt \in Nat /\ R[j].refcnt \in Nat
  BY <1>1, <1>6 DEF Str
<1>8. \A j \in Obj : R[j].refcnt = S[j].refcnt + Same(i, j)
  <2> SUFFICES ASSUME NEW j \in Obj
               PROVE  R[j].refcnt = S[j].refcnt + Same(i, j)
    OBVIOUS
  <2>1. CASE i = j
    BY <1>6, <2>1 DEF Same
  <2>2. CASE i # j
    <3>1. R[j].refcnt = S[j].refcnt /\ S[j].refcnt \in Nat
      BY <1>6, <1>7, <2>2
    <3>2. S[j].refcnt + 0 = S[j].refcnt
      BY <3>1, SMTT(60)
    <3> QED
      BY <2>2, <3>1, <3>2 DEF Same
  <2> QED
    BY <2>1, <2>2
<1>9. CASE T[o].comm_set
  <2> DEFINE e == <<i>> \o c
             u == [T[o] EXCEPT !.comms = e]
  <2>1. nn = [m1 EXCEPT !.threads[o].comms = <<i>> \o @]
    BY <1>2, <1>3, <1>9 DEF SetComm
  <2>2. /\ DOMAIN nn = {"threads", "mgs", "strs", "last_match"}
        /\ nn.threads = [T EXCEPT ![o] = u] /\ nn.mgs = mm.mgs /\ nn.strs = R
        /\ nn.last_match = mm.last_match
    BY <1>3, <2>1
  <2>3. /\ e \in Seq(Obj) /\ e # <<>>
        /\ \A j : /\ i = j => Cardinality(Places(e, j)) = Cardinality(Places(c, j)) + 1
                  /\ i # j => Cardinality(Places(e, j)) = Cardinality(Places(c, j))
    <3> HIDE DEF c
    <3> QED
      BY <1>4, <1>6, PlacesCons
  <2> HIDE DEF e
  <2>4. /\ u \in Thread /\ u.comms = e /\ u.tid = T[o].tid /\ u.pid = T[o].pid
        /\ u.mg = T[o].mg /\ u.refcnt = T[o].refcnt /\ u.linked = T[o].linked
    BY <1>5, <2>3 DEF Thread
  <2> HIDE DEF u
  <2>5. ASSUME NEW j \in Obj
        PROVE  R[j].refcnt + Cardinality(Places(c, j))
                 = S[j].refcnt + Cardinality(Places(e, j))
    <3>1. Cardinality(Places(c, j)) \in Nat
      BY <1>4, PlacesFinite
    <3> DEFINE a == Cardinality(Places(c, j))
               b == Cardinality(Places(e, j))
    <3>2. /\ a \in Nat /\ (i = j => b = a + 1) /\ (i # j => b = a)
          /\ S[j].refcnt \in Nat /\ R[j].refcnt = S[j].refcnt + Same(i, j)
      BY <1>7, <1>8, <2>3, <3>1
    <3> HIDE DEF a, b
    <3>3. R[j].refcnt + a = S[j].refcnt + b
      BY <3>2, SMTT(60) DEF Same
    <3> QED
      BY <3>3 DEF a, b
  <2>6. \A j \in Obj : nn.strs[j].refcnt + Cardinality(Places(T[o].comms, j))
                         = S[j].refcnt + Cardinality(Places(u.comms, j))
    BY <2>2, <2>4, <2>5
  <2>7. Renamed(mm, nn, d, o, u)
    BY <1>5, <1>6, <2>2, <2>3, <2>4, <2>6 DEF Renamed, S
  <2> QED
    BY <2>7, RenamedOK DEF nn
<1>10. CASE ~T[o].comm_set
  <2> DEFINE e == [c EXCEPT ![1] = i]
             u == [T[o] EXCEPT !.comms = e, !.comm_set = TRUE]
             s == c[1]
             Z == comm_str__put(R, s)
  <2>1. nn = [m1 EXCEPT !.strs = Z, !.threads[o].comms[1] = i,
                        !.threads[o].comm_set = TRUE]
    BY <1>2, <1>3, <1>10 DEF SetComm
  <2> HIDE DEF Z
  <2>2. [T EXCEPT ![o].comms[1] = i, ![o].comm_set = TRUE] = [T EXCEPT ![o] = u]
    OBVIOUS
  <2>3. /\ DOMAIN nn = {"threads", "mgs", "strs", "last_match"}
        /\ nn.threads = [T EXCEPT ![o] = u] /\ nn.mgs = mm.mgs /\ nn.strs = Z
        /\ nn.last_match = mm.last_match
    <3>1. nn.threads = [T EXCEPT ![o].comms[1] = i, ![o].comm_set = TRUE]
      BY <1>3, <2>1
    <3> QED
      BY <1>3, <2>1, <2>2, <3>1
  <2> HIDE DEF e, s
  <2>4. /\ e \in Seq(Obj) /\ e # <<>>
        /\ \A j : Cardinality(Places(e, j)) + Same(s, j)
                    = Cardinality(Places(c, j)) + Same(i, j)
    <3> HIDE DEF c
    <3>1. WithFirst(c, i, e)
      BY <1>4, <1>6 DEF WithFirst, e
    <3>2. \A j : FirstMoved(c, i, e, j)
      BY <3>1, PlacesFirst
    <3> QED
      BY <3>2 DEF FirstMoved, s
  <2>5. /\ u \in Thread /\ u.comms = e /\ u.tid = T[o].tid /\ u.pid = T[o].pid
        /\ u.mg = T[o].mg /\ u.refcnt = T[o].refcnt /\ u.linked = T[o].linked
    BY <1>5, <2>4 DEF Thread
  <2> HIDE DEF u
  <2>6. s \in Obj /\ R[s].refcnt > 0
    <3>1. s \in Obj /\ S[s].refcnt > 0
      BY <1>4 DEF s
    <3>2. R[s].refcnt = S[s].refcnt + Same(i, s) /\ S[s].refcnt \in Nat
      BY <1>7, <1>8, <3>1
    <3> QED
      BY <3>1, <3>2, SMTT(60) DEF Same
  <2>7. /\ Z \in [Obj -> Str] /\ StrsForm(Z, d) /\ Z[s].refcnt = R[s].refcnt - 1
        /\ \A j \in Obj : j # s => Z[j] = R[j]
    BY <1>6, <2>6, PutStr DEF Z
  <2>8. ASSUME NEW j \in Obj
        PROVE  Z[j].refcnt + Cardinality(Places(c, j))
                 = S[j].refcnt + Cardinality(Places(e, j))
    <3>1. Cardinality(Places(c, j)) \in Nat /\ Cardinality(Places(e, j)) \in Nat
      BY <1>4, <2>4, PlacesFinite
    <3> DEFINE a == Cardinality(Places(c, j))
               b == Cardinality(Places(e, j))
               z == Z[j].refcnt
               r == R[j].refcnt
               t == S[j].refcnt
    <3>2. /\ b + Same(s, j) = a + Same(i, j)
          /\ r = t + Same(i, j)
      BY <1>8, <2>4
    <3>3. (s = j => z = r - 1) /\ (s # j => z = r)
      BY <2>7
    <3>4. a \in Nat /\ b \in Nat /\ r \in Nat /\ t \in Nat
      BY <1>7, <3>1
    <3> HIDE DEF a, b, z, r, t
    <3>5. z + a = t + b
      BY <3>2, <3>3, <3>4, SMTT(60) DEF Same
    <3> QED
      BY <3>5 DEF z, a, t, b
  <2>9. \A j \in Obj : nn.strs[j].refcnt + Cardinality(Places(T[o].comms, j))
                         = S[j].refcnt + Cardinality(Places(u.comms, j))
    BY <2>3, <2>5, <2>8
  <2>10. Renamed(mm, nn, d, o, u)
    BY <1>5, <2>3, <2>4, <2>5, <2>7, <2>9 DEF Renamed, S
  <2> QED
    BY <2>10, RenamedOK DEF nn
<1> QED
  BY <1>9, <1>10

\* The maps of a group in use change.
LEMMA MapsOK ==
  ASSUME NEW mm, NEW E, NEW v, NEW d, NEW h, NEW X, MachineOK(mm, E, v, d, h, X),
         NEW o \in Obj, mm.threads[o].linked, o \notin X,
         NEW M \in SUBSET MapOf(Int), Disjoint(M)
  PROVE  Follows(mm, [mm EXCEPT !.mgs[mm.threads[o].mg].maps = M], E, v, d, h, X, {})
<1> DEFINE T == mm.threads
           G == mm.mgs
           g == T[o].mg
           nn == [mm EXCEPT !.mgs[g].maps = M]
           H == nn.mgs
           r == [G[g] EXCEPT !.maps = M]
<1>1. /\ T \in [Obj -> Thread] /\ G \in [Obj -> MapGroup] /\ MachineType(mm) /\ LastOK(mm)
      /\ ThreadsOK(T, E, v, h, X) /\ GroupsOK(G, T) /\ StrsOK(mm.strs, T, d)
      /\ IsFiniteSet(UsedIn(T))
  BY DEF MachineOK, MachineType, ThreadsOK
<1>2. /\ DOMAIN nn = {"threads", "mgs", "strs", "last_match"} /\ nn.threads = T
      /\ H = [G EXCEPT ![g] = r] /\ nn.strs = mm.strs /\ nn.last_match = mm.last_match
  BY <1>1 DEF MachineType
<1> HIDE DEF nn
<1>3. IsHeld(mm, E, v, h, o)
  BY HeldIsUsed DEF Counted
<1>4. o \in UsedIn(T)
  BY <1>3 DEF IsHeld
<1>5. g \in Obj
  BY <1>1, <1>4 DEF Thread, ThreadsOK
<1> HIDE DEF g, T
<1>6. G[g].refcnt \in Nat /\ G[g].refcnt > 0
  BY <1>1, <1>4, <1>5, GroupCounted DEF g
<1>7. G[g] \in MapGroup /\ G[g].refcnt # 0
  BY <1>1, <1>5, <1>6, SMTT(60)
<1>8. r \in MapGroup /\ r.maps = M /\ r.refcnt = G[g].refcnt
  BY <1>7 DEF MapGroup
<1> HIDE DEF r, H
<1>9. H \in [Obj -> MapGroup] /\ H[g] = r /\ \A x \in Obj : x # g => H[x] = G[x]
  BY <1>1, <1>2, <1>5, <1>8
<1>10. GroupsOK(H, T)
  <2> SUFFICES ASSUME NEW x \in Obj
               PROVE  GroupForm(H[x]) /\ H[x].refcnt = Cardinality(Members(T, x))
    BY DEF GroupsOK
  <2>1. GroupForm(G[x]) /\ G[x].refcnt = Cardinality(Members(T, x))
    BY <1>1 DEF GroupsOK
  <2>2. CASE x = g
    BY <1>7, <1>8, <1>9, <2>1, <2>2 DEF GroupForm
  <2>3. CASE x # g
    BY <1>9, <2>1, <2>3
  <2> QED
    BY <2>2, <2>3
<1>11. MachineType(nn) /\ LastOK(nn)
  BY <1>1, <1>2, <1>9 DEF MachineType, LastOK, T, H
<1> QED
  BY <1>1, <1>2, <1>10, <1>11, KeepsSame DEF Follows, MachineOK, T, H, nn, g

=============================================================================
