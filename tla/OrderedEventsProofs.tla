------------------------ MODULE OrderedEventsProofs -------------------------
(***************************************************************************)
(* For any timestamps, buffer sizes, limits, faults and callers: the list  *)
(* that queue_event and do_flush (util/ordered-events.c) maintain is in    *)
(* time order, the queue implements EventQueue, no object is lost or       *)
(* linked twice, the search starts inside the list, a complete read        *)
(* delivers every event, and cur_alloc_size counts what is held.           *)
(***************************************************************************)
EXTENDS OrderedEvents, WellFoundedInduction, TLAPS

\* The provers: Zenon unless a step names the SMT solver.
USE ZenonT(60)

-----------------------------------------------------------------------------
(* Facts about sets of numbers and sequences.                              *)

\* A nonempty set of naturals has a least element, which Min is.
LEMMA MinIsLeast ==
  ASSUME NEW S, S \subseteq Nat, S # {}
  PROVE  Min(S) \in S /\ \A y \in S : Min(S) <= y
<1> DEFINE R == OpToRel(<, Nat)
<1>1. IsWellFoundedOn(R, Nat)
  BY NatLessThanWellFounded
<1>2. \A y, x \in S : <<y, x>> \in R <=> y < x
  BY DEF OpToRel
<1> HIDE DEF R
<1>3. PICK x \in S : \A y \in S : ~(<<y, x>> \in R)
  BY <1>1, WFMin
<1>4. \A y \in S : ~(y < x)
  BY <1>2, <1>3
<1>5. \A y \in S : x \in Nat /\ y \in Nat
  OBVIOUS
<1>6. \E z \in S : \A y \in S : z <= y
  BY <1>4, <1>5, SMTT(60)
<1> QED
  BY <1>6 DEF Min

\* A nonempty set of numbers up to n has a greatest element, which Max is.
LEMMA MaxIsGreatest ==
  ASSUME NEW n \in Nat, NEW S, S \subseteq 1..n, S # {}
  PROVE  Max(S) \in S /\ \A y \in S : Max(S) >= y
<1> DEFINE T == {n - x : x \in S}
<1>1. T \subseteq Nat /\ T # {}
  <2>1. \A x \in S : n - x \in Nat
    BY SMTT(60)
  <2> QED
    BY <2>1
<1>2. Min(T) \in T /\ \A y \in T : Min(T) <= y
  BY <1>1, MinIsLeast
<1>3. PICK x \in S : Min(T) = n - x
  BY <1>2
<1>4. ASSUME NEW y \in S PROVE x >= y
  <2>1. n - y \in T /\ x \in Nat /\ y \in Nat
    BY SMTT(60)
  <2>2. n - x <= n - y
    BY <1>2, <1>3, <2>1
  <2> QED
    BY <2>1, <2>2, SMTT(60)
<1>5. \E z \in S : \A y \in S : z >= y
  BY <1>4
<1> QED
  BY <1>5 DEF Max

\* One sequence after the other.
LEMMA SeqConcat ==
  ASSUME NEW S, NEW s \in Seq(S), NEW t \in Seq(S)
  PROVE  /\ s \o t \in Seq(S) /\ Len(s \o t) = Len(s) + Len(t)
         /\ \A i \in 1..(Len(s) + Len(t)) :
               (s \o t)[i] = IF i <= Len(s) THEN s[i] ELSE t[i - Len(s)]
BY SMTT(60)

\* Inserting at position p shifts the elements from p on by one.
LEMMA ListAddProperties ==
  ASSUME NEW S, NEW s \in Seq(S), NEW p \in 1..(Len(s) + 1), NEW e \in S
  PROVE  /\ list_add(s, p, e) \in Seq(S)
         /\ Len(list_add(s, p, e)) = Len(s) + 1
         /\ \A i \in 1..(Len(s) + 1) :
               list_add(s, p, e)[i] = IF i < p THEN s[i] ELSE IF i = p THEN e ELSE s[i - 1]
<1> DEFINE a == SubSeq(s, 1, p - 1)
           b == SubSeq(s, p, Len(s))
<1>1. Len(s) \in Nat /\ p \in Nat
  BY SMTT(60)
<1>2. \A i \in 1..(p - 1) : s[i] \in S
  BY <1>1, SMTT(60)
<1>3. \A i \in p..Len(s) : s[i] \in S
  BY <1>1, SMTT(60)
<1>4. a \in Seq(S) /\ Len(a) = p - 1 /\ \A i \in 1..(p - 1) : a[i] = s[i]
  BY <1>1, <1>2, SMTT(60)
<1>5. b \in Seq(S) /\ Len(b) = Len(s) - p + 1 /\ \A i \in 1..(Len(s) - p + 1) : b[i] = s[p + i - 1]
  BY <1>1, <1>3, SMTT(60)
<1>6. <<e>> \in Seq(S) /\ Len(<<e>>) = 1 /\ <<e>>[1] = e
  BY SMTT(60)
<1> DEFINE c == a \o <<e>>
<1> HIDE DEF a, b
<1>7. c \in Seq(S) /\ Len(c) = p /\ \A i \in 1..p : c[i] = IF i <= p - 1 THEN s[i] ELSE e
  BY <1>1, <1>4, <1>6, SMTT(60)
<1> HIDE DEF c
<1>8. /\ c \o b \in Seq(S)
      /\ Len(c \o b) = Len(c) + Len(b)
      /\ \A i \in 1..(Len(c) + Len(b)) : (c \o b)[i] = IF i <= Len(c) THEN c[i] ELSE b[i - Len(c)]
  BY <1>5, <1>7, SeqConcat
<1>9. list_add(s, p, e) = c \o b
  BY DEF list_add, a, b, c
<1> DEFINE d == c \o b
<1> HIDE DEF d
<1>10. d \in Seq(S) /\ Len(d) = Len(s) + 1
  BY <1>1, <1>5, <1>7, <1>8, SMTT(60) DEF d
<1>11. ASSUME NEW i \in 1..(Len(s) + 1)
       PROVE  d[i] = IF i < p THEN s[i] ELSE IF i = p THEN e ELSE s[i - 1]
  <2>1. i \in 1..(Len(c) + Len(b))
    BY <1>1, <1>5, <1>7, SMTT(60)
  <2>2. d[i] = IF i <= p THEN c[i] ELSE b[i - p]
    BY <2>1, <1>7, <1>8 DEF d
  <2>3. CASE i <= p
    BY <2>2, <2>3, <1>1, <1>7, SMTT(60)
  <2>4. CASE i > p
    <3>1. i - p \in 1..(Len(s) - p + 1) /\ p + (i - p) - 1 = i - 1
      BY <1>1, <2>4, SMTT(60)
    <3>2. b[i - p] = s[i - 1]
      BY <3>1, <1>5
    <3> QED
      BY <2>2, <2>4, <3>2, <1>1, SMTT(60)
  <2> QED
    BY <2>3, <2>4, <1>1, SMTT(60)
<1> QED
  BY <1>9, <1>10, <1>11 DEF d

-----------------------------------------------------------------------------
(* The inductive invariant.                                                *)

\* What the list operations rely on: an object is linked to one place of one of
\* the two lists and was taken out of a buffer, a queued event has an earlier
\* serial number than the next one, and there is a last event unless the list is
\* empty.
ListInv ==
  /\ events \in Seq(Objects) /\ cache \in Seq(Objects)
  /\ used \in Nat /\ accepted \in Nat
  /\ timestamp \in [Objects -> Nat] /\ serial \in [Objects -> Nat]
  /\ last \in Objects \cup {NULL}
  /\ last = NULL => events = <<>>
  /\ \A i \in 1..Len(events) : events[i] <= used /\ serial[events[i]] <= accepted
  /\ \A i \in 1..Len(cache) : cache[i] <= used
  /\ \A i, j \in 1..Len(cache) : cache[i] = cache[j] => i = j
  /\ \A i \in 1..Len(events), j \in 1..Len(cache) : events[i] # cache[j]

\* The event that waits for a second attempt has one of the timestamps.
RetryInv ==
  /\ pc = "retry" => call.retry \in Timestamps
  /\ pc = "flush" => call.retry \in Timestamps \cup {0}

\* The inductive invariant of the order.
QueueInv == ListInv /\ TimeOrdered /\ MaxTimestampIsTail /\ RetryInv

\* The events in list order, as the numbers of the positions.
LEMMA ListFacts ==
  ASSUME NEW S, NEW s \in Seq(S)
  PROVE  /\ Len(s) \in Nat /\ DOMAIN s = 1..Len(s)
         /\ \A i \in 1..Len(s) : s[i] \in S
         /\ Range(s) = {s[i] : i \in 1..Len(s)}
         /\ s # <<>> => Len(s) >= 1
<1>1. Len(s) \in Nat /\ DOMAIN s = 1..Len(s)
  BY SMTT(60)
<1>2. \A i \in 1..Len(s) : s[i] \in S
  BY <1>1, SMTT(60)
<1>3. s # <<>> => Len(s) >= 1
  BY <1>1, SMTT(60)
<1> QED
  BY <1>1, <1>2, <1>3 DEF Range

\* Wherever the search starts, it ends between the last event that is not later
\* than the new one and the first event that is later (queue_event).
LEMMA InsertPosition ==
  ASSUME ListInv, TimeOrdered, last \in Range(events), NEW ts \in Nat
  PROVE  /\ InsertIndex(ts) \in 1..(Len(events) + 1)
         /\ \A i \in 1..Len(events) : i < InsertIndex(ts) => timestamp[events[i]] <= ts
         /\ \A i \in 1..Len(events) : i >= InsertIndex(ts) => timestamp[events[i]] > ts
<1> DEFINE n == Len(events)
           t(i) == timestamp[events[i]]
<1>1. n \in Nat /\ DOMAIN events = 1..n /\ Range(events) = {events[i] : i \in 1..n}
  BY ListFacts, SMTT(60) DEF ListInv
<1>2. \A i \in 1..n : t(i) \in Nat
  BY ListFacts DEF ListInv
<1>3. \A i, j \in 1..n : i < j => t(i) <= t(j)
  BY <1>1, <1>2, SMTT(60) DEF TimeOrdered
<1>4. LastIndex \in 1..n /\ events[LastIndex] = last
  BY <1>1 DEF LastIndex
<1>5. t(LastIndex) = timestamp[last]
  BY <1>4
<1> HIDE DEF n, t
<1> DEFINE l == LastIndex
           later == {i \in l..n : t(i) > ts}
           earlier == {i \in 1..l : t(i) <= ts}
<1>6. InsertIndex(ts) = IF t(l) <= ts
                        THEN IF later = {} THEN n + 1 ELSE Min(later)
                        ELSE IF earlier = {} THEN 1 ELSE Max(earlier) + 1
  BY <1>5 DEF InsertIndex, n, t
<1> HIDE DEF l
<1>7. l \in 1..n
  BY <1>4 DEF l
<1>8. CASE t(l) <= ts /\ later = {}
  <2>1. InsertIndex(ts) = n + 1
    BY <1>6, <1>8
  <2>2. \A i \in 1..n : t(i) <= ts
    BY <1>1, <1>2, <1>3, <1>7, <1>8, SMTT(60)
  <2> QED
    BY <1>1, <2>1, <2>2, SMTT(60) DEF n, t
<1>9. CASE t(l) <= ts /\ later # {}
  <2>1. later \subseteq Nat
    BY <1>1, <1>7, SMTT(60)
  <2>2. Min(later) \in later /\ \A y \in later : Min(later) <= y
    BY <1>9, <2>1, MinIsLeast
  <2> DEFINE m == Min(later)
  <2> HIDE DEF m
  <2>3. m \in l..n /\ t(m) > ts /\ \A y \in l..n : t(y) > ts => m <= y
    BY <2>2 DEF m
  <2>4. InsertIndex(ts) = m
    BY <1>6, <1>9 DEF m
  <2>5. ASSUME NEW i \in 1..n, i < m PROVE t(i) <= ts
    <3>1. CASE i >= l
      BY <1>1, <1>2, <1>7, <2>3, <2>5, <3>1, SMTT(60)
    <3>2. CASE i < l
      BY <1>1, <1>2, <1>3, <1>7, <1>9, <3>2, SMTT(60)
    <3> QED
      BY <1>7, <3>1, <3>2, SMTT(60)
  <2>6. ASSUME NEW i \in 1..n, i >= m PROVE t(i) > ts
    BY <1>1, <1>2, <1>3, <1>7, <2>3, <2>6, SMTT(60)
  <2> QED
    BY <1>1, <1>7, <2>3, <2>4, <2>5, <2>6, SMTT(60) DEF n, t
<1>10. CASE ~(t(l) <= ts) /\ earlier = {}
  <2>1. InsertIndex(ts) = 1
    BY <1>6, <1>10
  <2>2. ASSUME NEW i \in 1..n PROVE t(i) > ts
    <3>1. CASE i <= l
      <4>1. i \in 1..l /\ i \notin earlier
        BY <1>7, <1>10, <3>1, SMTT(60)
      <4> QED
        BY <1>2, <4>1, SMTT(60)
    <3>2. CASE i > l
      BY <1>1, <1>2, <1>3, <1>7, <1>10, <3>2, SMTT(60)
    <3> QED
      BY <1>7, <3>1, <3>2, SMTT(60)
  <2> QED
    BY <1>1, <2>1, <2>2, SMTT(60) DEF n, t
<1>11. CASE ~(t(l) <= ts) /\ earlier # {}
  <2>1. earlier \subseteq 1..l /\ l \in Nat
    BY <1>7, SMTT(60)
  <2>2. Max(earlier) \in earlier /\ \A y \in earlier : Max(earlier) >= y
    BY <1>11, <2>1, MaxIsGreatest
  <2> DEFINE m == Max(earlier)
  <2> HIDE DEF m
  <2>3. m \in 1..l /\ t(m) <= ts /\ \A y \in 1..l : t(y) <= ts => m >= y
    BY <2>2 DEF m
  <2>4. InsertIndex(ts) = m + 1
    BY <1>6, <1>11 DEF m
  <2>5. ASSUME NEW i \in 1..n, i < m + 1 PROVE t(i) <= ts
    BY <1>1, <1>2, <1>3, <1>7, <2>3, <2>5, SMTT(60)
  <2>6. ASSUME NEW i \in 1..n, i >= m + 1 PROVE t(i) > ts
    <3>1. CASE i <= l
      BY <1>1, <1>2, <1>7, <2>3, <2>6, <3>1, SMTT(60)
    <3>2. CASE i > l
      BY <1>1, <1>2, <1>3, <1>7, <1>11, <3>2, SMTT(60)
    <3> QED
      BY <1>7, <3>1, <3>2, SMTT(60)
  <2> QED
    BY <1>1, <1>7, <2>3, <2>4, <2>5, <2>6, SMTT(60) DEF n, t
<1> QED
  BY <1>8, <1>9, <1>10, <1>11

-----------------------------------------------------------------------------
(* What the operations of the queue do to the lists.                       *)

\* Removing the head of a list shifts the other elements (list_del_init).
LEMMA TailFacts ==
  ASSUME NEW S, NEW s \in Seq(S), s # <<>>
  PROVE  /\ Tail(s) \in Seq(S) /\ Len(Tail(s)) = Len(s) - 1
         /\ Head(s) = s[1] /\ s[1] \in S
         /\ \A i \in 1..(Len(s) - 1) : Tail(s)[i] = s[i + 1]
BY ListFacts, SMTT(60)

\* Adding an element in front shifts the others (list_add, list_move).
LEMMA ConsFacts ==
  ASSUME NEW S, NEW s \in Seq(S), NEW e \in S
  PROVE  /\ <<e>> \o s \in Seq(S) /\ Len(<<e>> \o s) = Len(s) + 1
         /\ \A i \in 1..(Len(s) + 1) : (<<e>> \o s)[i] = IF i = 1 THEN e ELSE s[i - 1]
<1>1. <<e>> \in Seq(S) /\ Len(<<e>>) = 1 /\ <<e>>[1] = e
  BY SMTT(60)
<1>2. Len(s) \in Nat
  BY SMTT(60)
<1>3. /\ <<e>> \o s \in Seq(S) /\ Len(<<e>> \o s) = 1 + Len(s)
      /\ \A i \in 1..(1 + Len(s)) : (<<e>> \o s)[i] = IF i <= 1 THEN <<e>>[i] ELSE s[i - 1]
  BY <1>1, SMTT(60)
<1> QED
  BY <1>1, <1>2, <1>3, SMTT(60)

\* The object that alloc_event returns is linked nowhere any more, and what is
\* left in the cache is as it was.
LEMMA AllocEffect ==
  ASSUME ListInv, NEW new \in Objects, alloc_event(new)
  PROVE  /\ cache' \in Seq(Objects) /\ used' \in Nat /\ used <= used' /\ new <= used'
         /\ \A i \in 1..Len(events) : events[i] # new
         /\ \A i \in 1..Len(cache') : cache'[i] <= used' /\ cache'[i] # new
         /\ \A i, j \in 1..Len(cache') : cache'[i] = cache'[j] => i = j
         /\ \A i \in 1..Len(events), j \in 1..Len(cache') : events[i] # cache'[j]
<1>1. /\ Len(events) \in Nat /\ Len(cache) \in Nat
      /\ \A i \in 1..Len(events) : events[i] \in Nat
      /\ \A i \in 1..Len(cache) : cache[i] \in Nat
  <2>1. Objects \subseteq Nat
    BY SMTT(60) DEF Objects
  <2>2. events \in Seq(Objects) /\ cache \in Seq(Objects)
    BY DEF ListInv
  <2> QED
    BY <2>1, <2>2, ListFacts
<1>2. CASE cache # <<>>
  <2>1. cache' = Tail(cache) /\ new = Head(cache) /\ used' = used
    BY <1>2 DEF alloc_event
  <2>2. /\ Tail(cache) \in Seq(Objects) /\ Len(Tail(cache)) = Len(cache) - 1
        /\ Head(cache) = cache[1] /\ Len(cache) >= 1
        /\ \A i \in 1..(Len(cache) - 1) : Tail(cache)[i] = cache[i + 1]
    BY <1>2, TailFacts, ListFacts DEF ListInv
  <2>3. \A i \in 1..Len(cache') : i + 1 \in 1..Len(cache) /\ cache'[i] = cache[i + 1]
    BY <1>1, <2>1, <2>2, SMTT(60)
  <2>4. 1 \in 1..Len(cache) /\ new = cache[1]
    BY <1>1, <2>1, <2>2, SMTT(60)
  <2>5. cache' \in Seq(Objects) /\ used' \in Nat /\ used <= used' /\ new <= used'
    BY <2>1, <2>2, <2>4, SMTT(60) DEF ListInv
  <2>6. \A i \in 1..Len(events) : events[i] # new
    BY <2>4 DEF ListInv
  <2>7. \A i \in 1..Len(cache') : cache'[i] <= used' /\ cache'[i] # new
    BY <2>1, <2>3, <2>4, SMTT(60) DEF ListInv
  <2>8. \A i, j \in 1..Len(cache') : cache'[i] = cache'[j] => i = j
    BY <2>3, SMTT(60) DEF ListInv
  <2>9. \A i \in 1..Len(events), j \in 1..Len(cache') : events[i] # cache'[j]
    BY <2>3 DEF ListInv
  <2> QED
    BY <2>5, <2>6, <2>7, <2>8, <2>9
<1>3. CASE cache = <<>>
  <2>1. cache' = cache /\ new = used + 1 /\ used' = used + 1
    BY <1>3 DEF alloc_event
  <2> QED
    BY <1>1, <2>1, SMTT(60) DEF ListInv
<1> QED
  BY <1>2, <1>3

\* queue_event puts the new event between those that are not later and those that
\* are, and max_timestamp follows the events put at the tail.
LEMMA InsertEffect ==
  ASSUME ListInv, TimeOrdered, last # NULL => last \in Range(events),
         NEW new \in Objects, NEW ts \in Nat, queue_event(new, ts)
  PROVE  \E p \in 1..(Len(events) + 1) :
           /\ events' \in Seq(Objects) /\ Len(events') = Len(events) + 1
           /\ \A i \in 1..(Len(events) + 1) :
                events'[i] = IF i < p THEN events[i] ELSE IF i = p THEN new ELSE events[i - 1]
           /\ \A i \in 1..Len(events) : i < p => timestamp[events[i]] <= ts
           /\ \A i \in 1..Len(events) : i >= p => timestamp[events[i]] > ts
           /\ max_timestamp' = IF p > Len(events) THEN ts ELSE max_timestamp
<1>1. CASE last = NULL
  <2>1. events = <<>> /\ Len(events) = 0
    BY <1>1 DEF ListInv
  <2>2. events' = <<new>> \o events /\ max_timestamp' = ts
    BY <1>1 DEF queue_event
  <2>3. /\ <<new>> \o events \in Seq(Objects) /\ Len(<<new>> \o events) = Len(events) + 1
        /\ \A i \in 1..(Len(events) + 1) :
             (<<new>> \o events)[i] = IF i = 1 THEN new ELSE events[i - 1]
    BY ConsFacts, SMTT(60) DEF ListInv
  <2>4. 1 \in 1..(Len(events) + 1)
    <3>1. Len(events) \in Nat
      BY ListFacts DEF ListInv
    <3> QED
      BY <3>1, SMTT(60)
  <2> USE <2>4
  <2> WITNESS 1 \in 1..(Len(events) + 1)
  <2> QED
    BY <2>1, <2>2, <2>3, SMTT(60)
<1>2. CASE last # NULL
  <2> DEFINE p == InsertIndex(ts)
  <2>1. /\ p \in 1..(Len(events) + 1)
        /\ \A i \in 1..Len(events) : i < p => timestamp[events[i]] <= ts
        /\ \A i \in 1..Len(events) : i >= p => timestamp[events[i]] > ts
    BY <1>2, InsertPosition
  <2>2. events' = list_add(events, p, new)
    BY <1>2 DEF queue_event
  <2>3. max_timestamp' = IF timestamp[last] <= ts /\ p > Len(events) THEN ts ELSE max_timestamp
    BY <1>2 DEF queue_event, MaxAfterInsert
  <2> HIDE DEF p
  <2>4. /\ list_add(events, p, new) \in Seq(Objects)
        /\ Len(list_add(events, p, new)) = Len(events) + 1
        /\ \A i \in 1..(Len(events) + 1) : list_add(events, p, new)[i] =
             IF i < p THEN events[i] ELSE IF i = p THEN new ELSE events[i - 1]
    BY <2>1, ListAddProperties, SMTT(60) DEF ListInv
  <2>5. p > Len(events) => timestamp[last] <= ts
    <3>1. PICK i \in 1..Len(events) : events[i] = last
      <4>1. events \in Seq(Objects)
        BY DEF ListInv
      <4>2. Range(events) = {events[i] : i \in 1..Len(events)}
        BY <4>1, ListFacts
      <4> QED
        BY <1>2, <4>2
    <3>2. Len(events) \in Nat
      BY ListFacts DEF ListInv
    <3> QED
      BY <2>1, <3>1, <3>2, SMTT(60)
  <2> QED
    BY <2>1, <2>2, <2>3, <2>4, <2>5
<1> QED
  BY <1>1, <1>2

\* The events that wait, as the abstract queue sees them.
Pending == {<<timestamp[o], serial[o]>> : o \in Range(events)}

\* Queueing an event that the allocation found an object for keeps the list in
\* order, max_timestamp at its tail, and adds one event to the waiting ones.
LEMMA QueueEventEffect ==
  ASSUME ListInv, TimeOrdered, MaxTimestampIsTail, last # NULL => last \in Range(events),
         NEW new \in Objects, NEW ts \in Nat, alloc_event(new), queue_event(new, ts)
  PROVE  ListInv' /\ TimeOrdered' /\ MaxTimestampIsTail'
         /\ Pending' = Pending \cup {<<ts, accepted + 1>>} /\ accepted' = accepted + 1
<1> DEFINE n == Len(events)
<1>1. n \in Nat /\ DOMAIN events = 1..n /\ \A i \in 1..n : events[i] \in Objects
  BY ListFacts DEF ListInv
<1>2. PICK p \in 1..(n + 1) :
        /\ events' \in Seq(Objects) /\ Len(events') = n + 1
        /\ \A i \in 1..(n + 1) :
             events'[i] = IF i < p THEN events[i] ELSE IF i = p THEN new ELSE events[i - 1]
        /\ \A i \in 1..n : i < p => timestamp[events[i]] <= ts
        /\ \A i \in 1..n : i >= p => timestamp[events[i]] > ts
        /\ max_timestamp' = IF p > n THEN ts ELSE max_timestamp
  BY InsertEffect
<1>3. /\ cache' \in Seq(Objects) /\ used' \in Nat /\ used <= used' /\ new <= used'
      /\ \A i \in 1..n : events[i] # new
      /\ \A i \in 1..Len(cache') : cache'[i] <= used' /\ cache'[i] # new
      /\ \A i, j \in 1..Len(cache') : cache'[i] = cache'[j] => i = j
      /\ \A i \in 1..n, j \in 1..Len(cache') : events[i] # cache'[j]
  BY AllocEffect
<1>4. /\ timestamp \in [Objects -> Nat] /\ serial \in [Objects -> Nat]
      /\ accepted \in Nat /\ used \in Nat
      /\ \A i \in 1..n : events[i] <= used /\ serial[events[i]] <= accepted
  BY DEF ListInv
<1>5. /\ timestamp' = [timestamp EXCEPT ![new] = ts]
      /\ serial' = [serial EXCEPT ![new] = accepted + 1]
      /\ accepted' = accepted + 1 /\ last' = new
  BY DEF queue_event
<1>6. /\ timestamp' \in [Objects -> Nat] /\ serial' \in [Objects -> Nat] /\ accepted' \in Nat
      /\ timestamp'[new] = ts /\ serial'[new] = accepted + 1
  BY <1>4, <1>5, SMTT(60)
<1>7. \A i \in 1..n : /\ timestamp'[events[i]] = timestamp[events[i]]
                      /\ serial'[events[i]] = serial[events[i]]
  BY <1>1, <1>3, <1>4, <1>5
<1>8. /\ \A i \in 1..(n + 1) : i < p => i \in 1..n /\ events'[i] = events[i]
      /\ events'[p] = new
      /\ \A i \in 1..(n + 1) : i > p => i - 1 \in 1..n /\ i - 1 >= p /\ events'[i] = events[i - 1]
  <2>1. /\ p \in 1..(n + 1)
        /\ \A i \in 1..(n + 1) : i < p => i \in 1..n
        /\ \A i \in 1..(n + 1) : i > p => i # p /\ ~(i < p) /\ i - 1 \in 1..n /\ i - 1 >= p
    BY <1>1, SMTT(60)
  <2>2. ~(p < p)
    BY <1>1, SMTT(60)
  <2> QED
    BY <1>2, <2>1, <2>2
<1>9. DOMAIN events' = 1..(n + 1) /\ Range(events') = {events'[i] : i \in 1..(n + 1)}
  BY <1>2, ListFacts, SMTT(60)
<1> HIDE DEF n
<1>10. ListInv'
  <2>1. last' \in Objects \cup {NULL} /\ last' # NULL
    BY <1>5, SMTT(60) DEF Objects, NULL
  <2>2. ASSUME NEW i \in 1..(n + 1)
        PROVE  events'[i] <= used' /\ serial'[events'[i]] <= accepted'
    <3>0. ASSUME NEW k \in 1..n
          PROVE  events[k] <= used' /\ serial'[events[k]] <= accepted'
      <4>1. events[k] \in Nat /\ serial[events[k]] \in Nat
        BY <1>1, <1>4, SMTT(60) DEF Objects
      <4>2. events[k] <= used /\ serial[events[k]] <= accepted
        BY <1>4
      <4>3. events[k] <= used'
        BY <1>3, <1>4, <4>1, <4>2, SMTT(60)
      <4> QED
        BY <1>4, <1>5, <1>7, <4>1, <4>2, <4>3, SMTT(60)
    <3>1. CASE i < p
      BY <1>8, <3>0, <3>1
    <3>2. CASE i = p
      BY <1>3, <1>4, <1>5, <1>6, <1>8, <3>2, SMTT(60)
    <3>3. CASE i > p
      BY <1>8, <3>0, <3>3
    <3> QED
      BY <1>1, <1>2, <3>1, <3>2, <3>3, SMTT(60)
  <2>3. \A i \in 1..(n + 1), j \in 1..Len(cache') : events'[i] # cache'[j]
    BY <1>1, <1>2, <1>3, <1>8, SMTT(60)
  <2> QED
    BY <1>2, <1>3, <1>6, <2>1, <2>2, <2>3 DEF ListInv
<1>11. TimeOrdered'
  <2> DEFINE Less(a, b) == \/ timestamp'[a] < timestamp'[b]
                           \/ timestamp'[a] = timestamp'[b] /\ serial'[a] < serial'[b]
  <2>1. \A i, j \in 1..n : i < j => Less(events[i], events[j])
    BY <1>1, <1>7 DEF TimeOrdered
  <2>2. \A i \in 1..n : i < p => Less(events[i], new)
    <3>1. ASSUME NEW i \in 1..n, i < p PROVE Less(events[i], new)
      <4>1. /\ timestamp[events[i]] <= ts /\ serial[events[i]] < accepted + 1
            /\ timestamp[events[i]] \in Nat
        <5>1. timestamp[events[i]] \in Nat /\ serial[events[i]] \in Nat
          BY <1>1, <1>4
        <5>2. timestamp[events[i]] <= ts
          BY <1>2, <3>1
        <5>3. serial[events[i]] <= accepted
          BY <1>4
        <5> QED
          BY <1>4, <5>1, <5>2, <5>3, SMTT(60)
      <4> QED
        BY <1>6, <1>7, <4>1, SMTT(60)
    <3> QED
      BY <3>1
  <2>3. \A i \in 1..n : i >= p => Less(new, events[i])
    BY <1>2, <1>6, <1>7
  <2> HIDE DEF Less
  <2>4. ASSUME NEW i \in 1..(n + 1), NEW j \in 1..(n + 1), i < j
        PROVE  Less(events'[i], events'[j])
    <3>1. CASE j < p
      BY <1>1, <1>2, <1>8, <2>1, <2>4, <3>1, SMTT(60)
    <3>2. CASE j = p
      BY <1>1, <1>2, <1>8, <2>2, <2>4, <3>2
    <3>3. CASE j > p /\ i < p
      <4>1. i \in 1..n /\ j - 1 \in 1..n /\ i < j - 1
        BY <1>1, <1>2, <1>8, <3>3, SMTT(60)
      <4> QED
        BY <1>8, <2>1, <3>3, <4>1
    <3>4. CASE j > p /\ i = p
      BY <1>8, <2>3, <3>4
    <3>5. CASE j > p /\ i > p
      <4>1. i - 1 \in 1..n /\ j - 1 \in 1..n /\ i - 1 < j - 1
        BY <1>1, <1>8, <2>4, <3>5, SMTT(60)
      <4> QED
        BY <1>8, <2>1, <3>5, <4>1
    <3> QED
      BY <1>1, <1>2, <3>1, <3>2, <3>3, <3>4, <3>5, SMTT(60)
  <2> QED
    BY <1>9, <2>4 DEF TimeOrdered, Less
<1>12. MaxTimestampIsTail'
  <2>1. Last(events') = events'[n + 1]
    BY <1>2 DEF Last
  <2>2. CASE p > n
    BY <1>1, <1>2, <1>6, <1>8, <2>1, <2>2, SMTT(60) DEF MaxTimestampIsTail
  <2>3. CASE p <= n
    <3>1. events # <<>> /\ Last(events) = events[n] /\ n \in 1..n
      BY <1>1, <1>2, <2>3, SMTT(60) DEF Last, n
    <3>2. events'[n + 1] = events[n]
      BY <1>1, <1>2, <2>3, SMTT(60)
    <3>3. max_timestamp' = max_timestamp /\ max_timestamp = timestamp[events[n]]
      BY <1>1, <1>2, <2>3, <3>1, SMTT(60) DEF MaxTimestampIsTail
    <3> QED
      BY <1>7, <2>1, <3>1, <3>2, <3>3 DEF MaxTimestampIsTail
  <2> QED
    BY <1>1, <1>2, <2>2, <2>3, SMTT(60)
<1>13. Pending' = Pending \cup {<<ts, accepted + 1>>}
  <2> DEFINE old == {<<timestamp[events[i]], serial[events[i]]>> : i \in 1..n}
             now == {<<timestamp'[events'[i]], serial'[events'[i]]>> : i \in 1..(n + 1)}
  <2>1. Pending = old
    <3>1. Range(events) = {events[i] : i \in 1..n}
      BY ListFacts, SMTT(60) DEF ListInv, n
    <3> QED
      BY <3>1 DEF Pending
  <2>2. Pending' = now
    BY <1>9 DEF Pending
  <2>3. ASSUME NEW i \in 1..(n + 1)
        PROVE  <<timestamp'[events'[i]], serial'[events'[i]]>> \in old \cup {<<ts, accepted + 1>>}
    <3>1. CASE i < p
      BY <1>7, <1>8, <3>1, SMTT(60)
    <3>2. CASE i = p
      BY <1>6, <1>8, <3>2
    <3>3. CASE i > p
      BY <1>7, <1>8, <3>3, SMTT(60)
    <3> QED
      BY <1>1, <1>2, <3>1, <3>2, <3>3, SMTT(60)
  <2>4. ASSUME NEW i \in 1..n
        PROVE  <<timestamp[events[i]], serial[events[i]]>> \in now
    <3>1. PICK k \in 1..(n + 1) : events'[k] = events[i]
      <4>1. CASE i < p
        BY <1>1, <1>8, <4>1, SMTT(60)
      <4>2. CASE i >= p
        <5>1. i + 1 \in 1..(n + 1) /\ i + 1 > p
          BY <1>1, <1>2, <4>2, SMTT(60)
        <5>2. events'[i + 1] = events[i]
          BY <1>8, <5>1, SMTT(60)
        <5> QED
          BY <5>1, <5>2
      <4> QED
        BY <1>1, <1>2, <4>1, <4>2, SMTT(60)
    <3> QED
      BY <1>7, <3>1
  <2>5. <<ts, accepted + 1>> \in now
    BY <1>2, <1>6, <1>8
  <2> QED
    BY <2>1, <2>2, <2>3, <2>4, <2>5, SMTT(60)
<1> QED
  BY <1>5, <1>10, <1>11, <1>12, <1>13

-----------------------------------------------------------------------------
(* The steps of the program.                                               *)

\* The part of the invariant that is about the lists.
OrderInv == ListInv /\ TimeOrdered /\ MaxTimestampIsTail

\* The timestamps that are queued are numbers.
LEMMA TimestampIsNat == Timestamps \subseteq Nat
BY OrderedEventsAssumption, SMTT(60) DEF ULLONG_MAX

\* A step that leaves the lists alone may move oe->last within them.
LEMMA SameLists ==
  ASSUME OrderInv, last' \in Objects \cup {NULL}, last' = NULL => events = <<>>,
         UNCHANGED <<events, cache, used, timestamp, serial, accepted, max_timestamp>>
  PROVE  OrderInv' /\ Pending' = Pending
<1>1. ListInv'
  BY DEF OrderInv, ListInv
<1>2. TimeOrdered'
  BY DEF OrderInv, TimeOrdered
<1>3. MaxTimestampIsTail'
  BY DEF OrderInv, MaxTimestampIsTail
<1>4. Pending' = Pending
  BY DEF Pending
<1> QED
  BY <1>1, <1>2, <1>3, <1>4 DEF OrderInv

\* ordered_events__new_event queues the event, or its search leaves the list.
LEMMA NewEventEffect ==
  ASSUME OrderInv, NEW ts \in Timestamps, ordered_events__new_event(ts)
  PROVE  /\ OrderInv' /\ RetryInv'
         /\ \/ Pending' = Pending /\ accepted' = accepted
            \/ Pending' = Pending \cup {<<ts, accepted + 1>>} /\ accepted' = accepted + 1
<1>1. PICK new \in Objects :
        /\ alloc_event(new)
        /\ IF last # NULL /\ last \notin Range(events)
           THEN /\ pc' = "wild"
                /\ UNCHANGED <<events, timestamp, last, max_timestamp, serial, accepted>>
           ELSE queue_event(new, ts) /\ pc' = "idle"
  BY DEF ordered_events__new_event, Return
<1>2. RetryInv'
  BY <1>1 DEF RetryInv
<1>3. ts \in Nat
  BY TimestampIsNat
<1>4. CASE last # NULL /\ last \notin Range(events)
  <2>1. UNCHANGED <<events, timestamp, last, max_timestamp, serial, accepted>>
    BY <1>1, <1>4
  <2>2. /\ cache' \in Seq(Objects) /\ used' \in Nat /\ used <= used'
        /\ \A i \in 1..Len(cache') : cache'[i] <= used'
        /\ \A i, j \in 1..Len(cache') : cache'[i] = cache'[j] => i = j
        /\ \A i \in 1..Len(events), j \in 1..Len(cache') : events[i] # cache'[j]
    BY <1>1, AllocEffect DEF OrderInv
  <2>3. \A i \in 1..Len(events) : events[i] <= used'
    <3>1. \A i \in 1..Len(events) : events[i] \in Nat /\ events[i] <= used
      <4>1. Objects \subseteq Nat
        BY SMTT(60) DEF Objects
      <4>2. events \in Seq(Objects) /\ \A i \in 1..Len(events) : events[i] <= used
        BY DEF OrderInv, ListInv
      <4> QED
        BY <4>1, <4>2, ListFacts
    <3>2. used \in Nat
      BY DEF OrderInv, ListInv
    <3> QED
      BY <2>2, <3>1, <3>2, SMTT(60)
  <2>4. ListInv'
    BY <2>1, <2>2, <2>3 DEF OrderInv, ListInv
  <2>5. TimeOrdered' /\ MaxTimestampIsTail' /\ Pending' = Pending
    BY <2>1, SMTT(60) DEF OrderInv, TimeOrdered, MaxTimestampIsTail, Pending
  <2> QED
    BY <1>2, <2>1, <2>4, <2>5 DEF OrderInv
<1>5. CASE ~(last # NULL /\ last \notin Range(events))
  <2>1. queue_event(new, ts)
    BY <1>1, <1>5
  <2> QED
    BY <1>1, <1>2, <1>3, <1>5, <2>1, QueueEventEffect DEF OrderInv
<1> QED
  BY <1>4, <1>5

\* A call of __ordered_events__flush starts, or returns since the list is empty.
LEMMA FlushEffect ==
  ASSUME OrderInv, NEW how, NEW time, NEW retry \in Timestamps \cup {0},
         Flush(how, time, retry)
  PROVE  OrderInv' /\ RetryInv' /\ Pending' = Pending /\ UNCHANGED <<accepted, handed>>
<1>1. UNCHANGED <<events, cache, used, timestamp, last, max_timestamp, serial, accepted, handed>>
  BY DEF Flush
<1>2. OrderInv' /\ Pending' = Pending
  BY <1>1, SameLists DEF OrderInv, ListInv
<1>3. RetryInv'
  <2>1. CASE events = <<>>
    <3>1. pc' = (IF retry # 0 THEN "retry" ELSE "idle") /\ call' = [NoCall EXCEPT !.retry = retry]
      BY <2>1 DEF Flush
    <3> QED
      BY <3>1 DEF RetryInv, NoCall
  <2>2. CASE events # <<>>
    <3>1. pc' = "flush" /\ call'.retry = retry
      BY <2>2, SMTT(60) DEF Flush
    <3> QED
      BY <3>1 DEF RetryInv
  <2> QED
    BY <2>1, <2>2
<1> QED
  BY <1>1, <1>2, <1>3

\* do_flush returns: the queue is as it was, with oe->last NULL only if it is empty.
LEMMA FlushReturnEffect ==
  ASSUME OrderInv, RetryInv, pc = "flush", NEW err, FlushReturn(err),
         UNCHANGED <<events, cache, handed>>,
         last' \in Objects \cup {NULL}, last' = NULL => events = <<>>
  PROVE  OrderInv' /\ RetryInv' /\ Pending' = Pending /\ UNCHANGED <<accepted, handed>>
<1>1. UNCHANGED <<events, cache, used, timestamp, max_timestamp, serial, accepted, handed>>
  BY DEF FlushReturn
<1>2. OrderInv' /\ Pending' = Pending
  BY <1>1, SameLists
<1>3. RetryInv'
  <2>1. CASE call.retry # 0
    BY <2>1 DEF FlushReturn, RetryInv
  <2>2. CASE call.retry = 0
    BY <2>2 DEF FlushReturn, Return, RetryInv
  <2> QED
    BY <2>1, <2>2
<1> QED
  BY <1>1, <1>2, <1>3

\* One turn of the loop of do_flush: the head of the list is delivered, it is the
\* first of the waiting events, and it is the only one that stops waiting.
LEMMA FlushDeliverEffect ==
  ASSUME OrderInv, RetryInv, FlushDeliver
  PROVE  /\ OrderInv' /\ RetryInv'
         /\ \E e \in Pending : /\ \A f \in Pending \ {e} : Q!Before(e, f)
                               /\ Pending' = Pending \ {e}
                               /\ handed' = Append(handed, e[2])
         /\ accepted' = accepted
<1> DEFINE n == Len(events)
           ev(o) == <<timestamp[o], serial[o]>>
<1>1. /\ events \in Seq(Objects) /\ events # <<>> /\ cache \in Seq(Objects)
      /\ events' = Tail(events) /\ cache' = <<Head(events)>> \o cache
      /\ UNCHANGED <<used, timestamp, last, max_timestamp, pc, call, serial, accepted>>
      /\ handed' = Append(handed, serial[Head(events)])
  BY DEF FlushDeliver, Due, OrderInv, ListInv
<1>2. /\ n \in Nat /\ n >= 1 /\ DOMAIN events = 1..n
      /\ Range(events) = {events[i] : i \in 1..n}
      /\ \A i \in 1..n : events[i] \in Objects
  BY <1>1, ListFacts
<1>3. /\ events' \in Seq(Objects) /\ Len(events') = n - 1
      /\ Head(events) = events[1]
      /\ \A i \in 1..(n - 1) : events'[i] = events[i + 1]
  BY <1>1, TailFacts
<1>4. /\ DOMAIN events' = 1..(n - 1)
      /\ Range(events') = {events'[i] : i \in 1..(n - 1)}
  BY <1>3, ListFacts, SMTT(60)
<1>5. /\ cache' \in Seq(Objects) /\ Len(cache) \in Nat /\ Len(cache') = Len(cache) + 1
      /\ \A i \in 1..(Len(cache) + 1) : cache'[i] = IF i = 1 THEN events[1] ELSE cache[i - 1]
  BY <1>1, <1>2, <1>3, ConsFacts, ListFacts, SMTT(60)
<1>6. \A i, j \in 1..n : i < j =>
        \/ timestamp[events[i]] < timestamp[events[j]]
        \/ timestamp[events[i]] = timestamp[events[j]] /\ serial[events[i]] < serial[events[j]]
  BY <1>2 DEF OrderInv, TimeOrdered
<1>7. /\ \A i \in 1..n : events[i] <= used /\ serial[events[i]] <= accepted
      /\ \A i \in 1..Len(cache) : cache[i] <= used
      /\ \A i, j \in 1..Len(cache) : cache[i] = cache[j] => i = j
      /\ \A i \in 1..n, j \in 1..Len(cache) : events[i] # cache[j]
      /\ timestamp \in [Objects -> Nat] /\ serial \in [Objects -> Nat]
  BY DEF OrderInv, ListInv
<1>8. \A i \in 1..n : timestamp[events[i]] \in Nat /\ serial[events[i]] \in Nat
  BY <1>2, <1>7
<1>9. \A i, j \in 1..n : i < j => events[i] # events[j]
  BY <1>6, <1>8, SMTT(60)
<1> HIDE DEF n
<1>10. \A i \in 1..(n - 1) : i + 1 \in 1..n /\ 1 < i + 1 /\ events'[i] = events[i + 1]
  BY <1>2, <1>3, SMTT(60)
<1>11. ListInv'
  <2>1. /\ events' \in Seq(Objects) /\ cache' \in Seq(Objects)
        /\ used' \in Nat /\ accepted' \in Nat
        /\ timestamp' \in [Objects -> Nat] /\ serial' \in [Objects -> Nat]
        /\ last' \in Objects \cup {NULL}
        /\ last' = NULL => events' = <<>>
    BY <1>1, <1>3, <1>5 DEF OrderInv, ListInv
  <2>2. \A i \in 1..(n - 1) : events'[i] <= used' /\ serial'[events'[i]] <= accepted'
    BY <1>1, <1>7, <1>10
  <2>3. \A i \in 1..(Len(cache) + 1) : i # 1 => i - 1 \in 1..Len(cache) /\ cache'[i] = cache[i - 1]
    BY <1>5, SMTT(60)
  <2>4. cache'[1] = events[1] /\ 1 \in 1..n
    BY <1>2, <1>5, SMTT(60)
  <2>5. \A i \in 1..(Len(cache) + 1) : cache'[i] <= used'
    BY <1>1, <1>7, <2>3, <2>4
  <2>6. \A i, j \in 1..(Len(cache) + 1) : cache'[i] = cache'[j] => i = j
    <3>1. ASSUME NEW i \in 1..(Len(cache) + 1), NEW j \in 1..(Len(cache) + 1),
                 cache'[i] = cache'[j], i # 1, j # 1
          PROVE  i = j
      <4>1. i - 1 = j - 1
        BY <1>7, <2>3, <3>1, SMTT(60)
      <4> QED
        BY <1>5, <4>1, SMTT(60)
    <3>2. \A i \in 1..(Len(cache) + 1) : i # 1 => cache'[i] # cache'[1]
      BY <1>7, <2>3, <2>4, SMTT(60)
    <3> QED
      BY <3>1, <3>2
  <2>7. \A i \in 1..(n - 1), j \in 1..(Len(cache) + 1) : events'[i] # cache'[j]
    <3>1. \A i \in 1..(n - 1) : events'[i] # cache'[1]
      BY <1>9, <1>10, <2>4
    <3>2. \A i \in 1..(n - 1), j \in 1..(Len(cache) + 1) : j # 1 => events'[i] # cache'[j]
      BY <1>7, <1>10, <2>3, SMTT(60)
    <3> QED
      BY <3>1, <3>2
  <2> QED
    BY <1>3, <1>5, <2>1, <2>2, <2>5, <2>6, <2>7 DEF ListInv
<1>12. TimeOrdered'
  <2>1. ASSUME NEW i \in 1..(n - 1), NEW j \in 1..(n - 1), i < j
        PROVE  \/ timestamp'[events'[i]] < timestamp'[events'[j]]
               \/ /\ timestamp'[events'[i]] = timestamp'[events'[j]]
                  /\ serial'[events'[i]] < serial'[events'[j]]
    <3>1. i + 1 \in 1..n /\ j + 1 \in 1..n /\ i + 1 < j + 1
      BY <1>2, <2>1, SMTT(60)
    <3>2. QED
      <4>1. events'[i] = events[i + 1] /\ events'[j] = events[j + 1]
        BY <1>10
      <4>2. timestamp' = timestamp /\ serial' = serial
        BY <1>1
      <4> QED
        BY <1>6, <3>1, <4>1, <4>2
  <2> QED
    BY <1>4, <2>1 DEF TimeOrdered
<1>13. MaxTimestampIsTail'
  <2>1. SUFFICES ASSUME events' # <<>> PROVE max_timestamp' = timestamp'[Last(events')]
    BY DEF MaxTimestampIsTail
  <2>2. n - 1 >= 1
    BY <1>2, <1>3, <2>1, ListFacts
  <2>3. Last(events') = events[n]
    <3>1. Last(events') = events'[n - 1] /\ n - 1 \in 1..(n - 1) /\ (n - 1) + 1 = n
      BY <1>2, <1>3, <2>2, SMTT(60) DEF Last
    <3> QED
      BY <1>10, <3>1
  <2>4. Last(events) = events[n]
    BY DEF Last, n
  <2> QED
    BY <1>1, <2>3, <2>4 DEF OrderInv, MaxTimestampIsTail
<1>14. RetryInv'
  BY <1>1 DEF RetryInv
<1>15. \E e \in Pending : /\ \A f \in Pending \ {e} : Q!Before(e, f)
                          /\ Pending' = Pending \ {e}
                          /\ handed' = Append(handed, e[2])
  <2> DEFINE e == ev(events[1])
  <2>1. Pending = {ev(events[i]) : i \in 1..n}
    BY <1>2 DEF Pending
  <2>2. Pending' = {ev(events[i + 1]) : i \in 1..(n - 1)}
    <3>1. Pending' = {<<timestamp'[events'[i]], serial'[events'[i]]>> : i \in 1..(n - 1)}
      BY <1>4 DEF Pending
    <3>2. \A i \in 1..(n - 1) :
            <<timestamp'[events'[i]], serial'[events'[i]]>> = ev(events[i + 1])
      BY <1>1, <1>10
    <3> QED
      BY <3>1, <3>2, SMTT(60)
  <2>3. 1 \in 1..n
    BY <1>2, SMTT(60)
  <2>4. e \in Pending
    BY <2>1, <2>3
  <2>5. \A i \in 1..n : i # 1 => Q!Before(e, ev(events[i])) /\ ev(events[i]) # e
    <3>1. ASSUME NEW i \in 1..n, i # 1
          PROVE  Q!Before(e, ev(events[i])) /\ ev(events[i]) # e
      <4>1. 1 < i
        BY <1>2, <3>1, SMTT(60)
      <4>2. \/ timestamp[events[1]] < timestamp[events[i]]
            \/ timestamp[events[1]] = timestamp[events[i]] /\ serial[events[1]] < serial[events[i]]
        BY <1>6, <2>3, <4>1
      <4>3. Q!Before(e, ev(events[i]))
        BY <4>2 DEF Q!Before
      <4>4. ev(events[i]) # e
        BY <1>8, <2>3, <4>2, SMTT(60)
      <4> QED
        BY <4>3, <4>4
    <3> QED
      BY <3>1
  <2>6. \A f \in Pending \ {e} : Q!Before(e, f)
    BY <2>1, <2>5
  <2>7. Pending' = Pending \ {e}
    <3>1. \A i \in 1..(n - 1) : ev(events[i + 1]) \in Pending \ {e}
      BY <1>10, <2>1, <2>5, SMTT(60)
    <3>2. \A i \in 1..n : i # 1 => i - 1 \in 1..(n - 1) /\ (i - 1) + 1 = i
      BY <1>2, SMTT(60)
    <3>3. \A i \in 1..n : ev(events[i]) # e => ev(events[i]) \in Pending'
      BY <2>2, <3>2
    <3> QED
      BY <2>1, <2>2, <3>1, <3>3, SMTT(60)
  <2>8. e[2] = serial[events[1]]
    OBVIOUS
  <2>9. handed' = Append(handed, e[2])
    BY <1>1, <1>3, <2>8
  <2> QED
    BY <2>4, <2>6, <2>7, <2>9
<1> QED
  BY <1>1, <1>11, <1>12, <1>13, <1>14, <1>15 DEF OrderInv

-----------------------------------------------------------------------------
(* The theorems.                                                           *)

\* What one step may do to the waiting and the delivered events.
QueueStep ==
  \/ UNCHANGED <<Pending, accepted, handed>>
  \/ \E ts \in Timestamps : /\ Pending' = Pending \cup {<<ts, accepted + 1>>}
                            /\ accepted' = accepted + 1
                            /\ handed' = handed
  \/ \E e \in Pending : /\ \A f \in Pending \ {e} : Q!Before(e, f)
                        /\ Pending' = Pending \ {e}
                        /\ handed' = Append(handed, e[2])
                        /\ accepted' = accepted
  \/ Pending' = {} /\ UNCHANGED <<accepted, handed>>

\* Init satisfies the invariant (ordered_events__init).
LEMMA QueueInvInit == Init => QueueInv
<1> SUFFICES ASSUME Init PROVE QueueInv
  OBVIOUS
<1>1. Len(events) = 0 /\ Len(cache) = 0 /\ DOMAIN events = {}
  BY SMTT(60) DEF Init
<1>2. ListInv
  BY <1>1, SMTT(60) DEF Init, ListInv, NULL
<1> QED
  BY <1>1, <1>2 DEF Init, QueueInv, TimeOrdered, MaxTimestampIsTail, RetryInv

\* Every step of the program and of the signal handler keeps the invariant, and is
\* a step of the abstract queue or none.
LEMMA QueueInvNext == QueueInv /\ [Next]_vars => QueueInv' /\ QueueStep
<1> SUFFICES ASSUME QueueInv, [Next]_vars PROVE QueueInv' /\ QueueStep
  OBVIOUS
<1>0. OrderInv /\ RetryInv /\ last \in Objects \cup {NULL} /\ (last = NULL => events = <<>>)
  BY DEF QueueInv, OrderInv, ListInv
<1>a. SUFFICES OrderInv' /\ RetryInv' /\ QueueStep
  BY DEF QueueInv, OrderInv
<1>b. ASSUME UNCHANGED <<oe_vars, pc, call, hist_vars>>
      PROVE  OrderInv' /\ RetryInv' /\ QueueStep
  <2>1. UNCHANGED <<events, cache, used, timestamp, serial, accepted, max_timestamp, last,
                    handed, pc, call>>
    BY <1>b DEF oe_vars, hist_vars
  <2>2. OrderInv' /\ Pending' = Pending
    BY <1>0, <2>1, SameLists
  <2>3. RetryInv'
    BY <1>0, <2>1 DEF RetryInv
  <2> QED
    BY <2>1, <2>2, <2>3 DEF QueueStep
<1>1. ASSUME NEW ts \in Timestamps, ordered_events__queue(ts)
      PROVE  OrderInv' /\ RetryInv' /\ QueueStep
  <2>1. CASE QueueNoTime(ts)
    <3>1. /\ UNCHANGED <<events, cache, used, timestamp, serial, accepted, max_timestamp, last,
                         handed>>
          /\ pc' = "idle"
      BY <2>1 DEF QueueNoTime, Return, oe_vars
    <3>2. OrderInv' /\ Pending' = Pending
      BY <1>0, <3>1, SameLists
    <3> QED
      BY <3>1, <3>2 DEF QueueStep, RetryInv
  <2>2. CASE QueueTimed(ts) /\ ordered_events__new_event(ts)
    <3>1. handed' = handed
      BY <2>2 DEF QueueTimed
    <3> QED
      BY <1>0, <2>2, <3>1, NewEventEffect DEF QueueStep
  <2>3. CASE QueueTimed(ts) /\ Flush("HALF", 0, ts)
    BY <1>0, <2>3, FlushEffect DEF QueueStep
  <2> QED
    BY <1>1, <2>1, <2>2, <2>3 DEF ordered_events__queue, QueueTimed
<1>2. CASE QueueRetry
  <2>1. call.retry \in Timestamps /\ handed' = handed
    BY <1>0, <1>2 DEF QueueRetry, RetryInv
  <2>2. CASE ordered_events__new_event(call.retry)
    BY <1>0, <2>1, <2>2, NewEventEffect DEF QueueStep
  <2>3. CASE /\ alloc_event_fails /\ Return(TRUE)
             /\ UNCHANGED <<events, timestamp, last, next_flush, last_flush, max_timestamp,
                            serial, accepted>>
    <3>1. UNCHANGED <<events, cache, used, timestamp, serial, accepted, max_timestamp, last>>
          /\ pc' = "idle"
      BY <2>3 DEF alloc_event_fails, Return
    <3>2. OrderInv' /\ Pending' = Pending
      BY <1>0, <3>1, SameLists
    <3> QED
      BY <2>1, <3>1, <3>2 DEF QueueStep, RetryInv
  <2> QED
    BY <1>2, <2>2, <2>3 DEF QueueRetry
<1>3. CASE FlushWhileReading
  <2>1. PICK how \in Hows :
           \E time \in (IF how = "TIME" THEN Timestamps ELSE {0}) : Flush(how, time, 0)
    BY <1>3 DEF FlushWhileReading
  <2>2. PICK time \in (IF how = "TIME" THEN Timestamps ELSE {0}) : Flush(how, time, 0)
    BY <2>1
  <2> QED
    BY <1>0, <2>2, FlushEffect DEF QueueStep
<1>4. CASE FlushDeliver
  BY <1>0, <1>4, FlushDeliverEffect DEF QueueStep
<1>5. CASE FlushBreakOff
  <2>1. UNCHANGED <<events, cache, last, handed>> /\ pc = "flush"
    BY <1>5 DEF FlushBreakOff
  <2>2. PICK err \in BOOLEAN : FlushReturn(err)
    BY <1>5 DEF FlushBreakOff
  <2> QED
    BY <1>0, <2>1, <2>2, FlushReturnEffect DEF QueueStep
<1>6. CASE FlushEnd
  <2>1. /\ UNCHANGED <<events, cache, handed>>
        /\ pc = "flush" /\ FlushReturn(FALSE) /\ last' = RefreshLast
    BY <1>6 DEF FlushEnd
  <2>2. events # <<>> => Last(events) \in Objects /\ Last(events) # NULL
    <3>1. events \in Seq(Objects)
      BY <1>0 DEF OrderInv, ListInv
    <3>2. events # <<>> => Len(events) \in 1..Len(events) /\ Last(events) = events[Len(events)]
      BY <3>1, ListFacts, SMTT(60) DEF Last
    <3>3. events # <<>> => Last(events) \in Objects
      BY <3>1, <3>2, ListFacts, SMTT(60)
    <3> QED
      BY <3>3, SMTT(60) DEF Objects, NULL
  <2>3. last' \in Objects \cup {NULL} /\ (last' = NULL => events = <<>>)
    BY <1>0, <2>1, <2>2 DEF RefreshLast
  <2> QED
    BY <1>0, <2>1, <2>3, FlushReturnEffect DEF QueueStep
<1>7. CASE EndOfData
  BY <1>b, <1>7 DEF EndOfData
<1>8. CASE FinalFlush
  BY <1>0, <1>8, FlushEffect DEF FinalFlush, QueueStep
<1>9. CASE ordered_events__reinit
  <2>1. /\ events' = <<>> /\ cache' = <<>> /\ used' = 0 /\ last' = NULL
        /\ timestamp' = [n \in Objects |-> 0] /\ serial' = [n \in Objects |-> 0]
        /\ UNCHANGED <<pc, call, accepted, handed>>
    BY <1>9 DEF ordered_events__reinit
  <2>2. Len(events') = 0 /\ Len(cache') = 0 /\ DOMAIN events' = {} /\ accepted \in Nat
    BY <1>0, <2>1, SMTT(60) DEF OrderInv, ListInv
  <2>3. ListInv'
    BY <2>1, <2>2, SMTT(60) DEF ListInv, NULL
  <2>4. TimeOrdered' /\ MaxTimestampIsTail' /\ RetryInv'
    BY <1>0, <2>1, <2>2 DEF TimeOrdered, MaxTimestampIsTail, RetryInv
  <2>5. Pending' = {}
    BY <2>1, <2>2 DEF Pending, Range
  <2> QED
    BY <2>1, <2>3, <2>4, <2>5 DEF OrderInv, QueueStep
<1>10. CASE SigInt
  BY <1>b, <1>10 DEF SigInt
<1>11. CASE Finished \/ UNCHANGED vars
  BY <1>b, <1>11 DEF Finished, vars, ctl_vars
<1> QED
  BY <1>1, <1>2, <1>3, <1>4, <1>5, <1>6, <1>7, <1>8, <1>9, <1>10, <1>11 DEF Next

\* The step of QueueStep is a step of EventQueue.
LEMMA QueueStepRefines == QueueStep => [Q!QueueNext]_(Q!queue_vars)
<1> SUFFICES ASSUME QueueStep PROVE [Q!QueueNext]_(Q!queue_vars)
  OBVIOUS
<1>1. CASE UNCHANGED <<Pending, accepted, handed>>
  BY <1>1 DEF Q!queue_vars, Pending
<1>2. CASE \E ts \in Timestamps : /\ Pending' = Pending \cup {<<ts, accepted + 1>>}
                                  /\ accepted' = accepted + 1
                                  /\ handed' = handed
  BY <1>2 DEF Q!QueueNext, Q!Queue, Pending
<1>3. CASE \E e \in Pending : /\ \A f \in Pending \ {e} : Q!Before(e, f)
                              /\ Pending' = Pending \ {e}
                              /\ handed' = Append(handed, e[2])
                              /\ accepted' = accepted
  BY <1>3 DEF Q!QueueNext, Q!Deliver, Q!IsFirst, Pending
<1>4. CASE Pending' = {} /\ UNCHANGED <<accepted, handed>>
  BY <1>4 DEF Q!QueueNext, Q!Discard, Pending
<1> QED
  BY <1>1, <1>2, <1>3, <1>4 DEF QueueStep

\* The list is in time order, and in the order of queueing for one time, in every
\* state of every caller: queue_event's search, do_flush's removals and reuse of
\* removed objects keep it so, even when the search started from a stale 'last'.
THEOREM TimeOrderedCorrect == Spec => []TimeOrdered
<1>1. QueueInv => TimeOrdered
  BY DEF QueueInv
<1> QED
  BY QueueInvInit, QueueInvNext, <1>1, PTL DEF Spec

\* max_timestamp, the limit of the next ROUND flush, is the time of the tail of a
\* list that has events (queue_event sets it, do_flush relies on it).
THEOREM MaxTimestampCorrect == Spec => []MaxTimestampIsTail
<1>1. QueueInv => MaxTimestampIsTail
  BY DEF QueueInv
<1> QED
  BY QueueInvInit, QueueInvNext, <1>1, PTL DEF Spec

\* The queue of util/ordered-events.c implements EventQueue: each delivery is of
\* the earliest waiting event, and each queued event waits until it is delivered
\* or the queue is freed.
THEOREM ImplementsEventQueueCorrect == Spec => ImplementsEventQueue
<1>1. Init => Q!QueueInit
  BY SMTT(60) DEF Init, Q!QueueInit, Range
<1> QED
  BY QueueInvInit, QueueInvNext, QueueStepRefines, <1>1, PTL
  DEF Spec, ImplementsEventQueue, Q!QueueSpec

-----------------------------------------------------------------------------
(* The invariant of the objects and of oe->last.                           *)

\* The callers give up a queue whose flush failed, or no callback fails.
CallerStops == StopOnError \/ "deliver" \notin Faults

\* Every object of the buffers is on one of the two lists, and they hold no other.
LinkInv ==
  pc # "wild" =>
    /\ Len(events) + Len(cache) = used
    /\ \A o \in 1..used : (\E i \in 1..Len(events) : events[i] = o)
                          \/ (\E i \in 1..Len(cache) : cache[i] = o)

\* The events after oe->last are later than it: queue_event puts an event behind
\* those of its time, and do_flush replaces a removed one by the tail.
LastHigh ==
  \A i, j \in 1..Len(events) :
    i < j /\ events[i] = last => timestamp[events[j]] > timestamp[last]

\* oe->last is an object of the list.
InList == \E i \in 1..Len(events) : events[i] = last

\* Where oe->last is.  In the loop of do_flush it may be an object that was just
\* delivered: then all events of its time were, the limit is at least its time,
\* and the lines after the loop set it to the tail.  The limit of a HALF flush is
\* never later than the time of oe->last.
LastInv ==
  ~session_done /\ client = "reading" =>
    /\ pc \in {"idle", "retry"} => IF events = <<>> THEN last = NULL ELSE InList
    /\ pc = "flush" =>
         /\ last # NULL /\ call.last_ts = timestamp[last]
         /\ InList \/ /\ next_flush # 0 /\ call.last_ts <= next_flush
                      /\ \A i \in 1..Len(events) : timestamp[events[i]] > timestamp[last]
         /\ call.retry # 0 => next_flush <= call.last_ts

\* Where the caller is during a call of the queue.
CallInv ==
  /\ pc = "retry" => client = "reading" /\ accepted < queued
  /\ pc = "flush" => /\ client \in {"reading", "closing"}
                     /\ client = "closing" => next_flush = ULLONG_MAX
                     /\ call.retry # 0 => client = "reading" /\ accepted < queued

\* What was delivered and what waits is what was queued.
CountInv ==
  /\ client # "closed" => Len(handed) + Len(events) = accepted
  /\ \A i \in 1..Len(events) : serial[events[i]] >= 1

\* After the final flush nothing waits, unless a signal stopped it.
DoneInv == client = "flushed" /\ ~session_done => events = <<>>

\* The copies of the events that wait are accounted for.
HeldInv == CopyOnQueue => cur_alloc_size >= HeaderSize * Len(events)

-----------------------------------------------------------------------------
(* The objects and oe->last.                                               *)

\* The object that alloc_event returns leaves the cache, or is a new one, and the
\* other objects stay where they are.
LEMMA AllocLinks ==
  ASSUME ListInv, NEW new \in Objects, alloc_event(new)
  PROVE  /\ Len(cache') + used = Len(cache) + used' - 1
         /\ \A o \in 1..used' : o # new => o \in 1..used
         /\ \A i \in 1..Len(cache) :
               cache[i] # new => \E j \in 1..Len(cache') : cache'[j] = cache[i]
<1>1. Len(cache) \in Nat /\ used \in Nat /\ cache \in Seq(Objects)
  BY ListFacts DEF ListInv
<1>2. CASE cache # <<>>
  <2>1. cache' = Tail(cache) /\ new = Head(cache) /\ used' = used
    BY <1>2 DEF alloc_event
  <2>2. /\ Len(Tail(cache)) = Len(cache) - 1 /\ Head(cache) = cache[1]
        /\ \A i \in 1..(Len(cache) - 1) : Tail(cache)[i] = cache[i + 1]
    BY <1>1, <1>2, TailFacts
  <2>3. \A i \in 1..Len(cache) : cache[i] # new =>
          i - 1 \in 1..(Len(cache) - 1) /\ (i - 1) + 1 = i
    BY <1>1, <2>1, <2>2, SMTT(60)
  <2>4. \A i \in 1..Len(cache) : cache[i] # new => \E j \in 1..Len(cache') : cache'[j] = cache[i]
    BY <2>1, <2>2, <2>3, SMTT(60)
  <2> QED
    BY <1>1, <2>1, <2>2, <2>4, SMTT(60)
<1>3. CASE cache = <<>>
  <2>1. cache' = cache /\ new = used + 1 /\ used' = used + 1
    BY <1>3 DEF alloc_event
  <2> QED
    BY <1>1, <2>1, SMTT(60)
<1> QED
  BY <1>2, <1>3

\* Queueing an event links its object to one place of the list and makes it
\* oe->last, with later events behind it only.
LEMMA QueueLinks ==
  ASSUME QueueInv, LinkInv, pc # "wild", last # NULL => last \in Range(events),
         NEW new \in Objects, NEW ts \in Nat, alloc_event(new), queue_event(new, ts)
  PROVE  /\ Len(events') + Len(cache') = used'
         /\ \A o \in 1..used' : (\E i \in 1..Len(events') : events'[i] = o)
                                \/ (\E i \in 1..Len(cache') : cache'[i] = o)
         /\ LastHigh' /\ InList'
         /\ Len(events') = Len(events) + 1
         /\ \A i \in 1..Len(events') : \/ events'[i] = new
                                       \/ \E k \in 1..Len(events) : events'[i] = events[k]
<1> DEFINE n == Len(events)
<1>0. ListInv /\ TimeOrdered /\ MaxTimestampIsTail
  BY DEF QueueInv
<1>1. n \in Nat /\ \A i \in 1..n : events[i] \in Objects
  BY <1>0, ListFacts DEF ListInv
<1>2. PICK p \in 1..(n + 1) :
        /\ events' \in Seq(Objects) /\ Len(events') = n + 1
        /\ \A i \in 1..(n + 1) :
             events'[i] = IF i < p THEN events[i] ELSE IF i = p THEN new ELSE events[i - 1]
        /\ \A i \in 1..n : i < p => timestamp[events[i]] <= ts
        /\ \A i \in 1..n : i >= p => timestamp[events[i]] > ts
        /\ max_timestamp' = IF p > n THEN ts ELSE max_timestamp
  BY <1>0, InsertEffect
<1>3. \A i \in 1..n : events[i] # new
  BY <1>0, AllocEffect
<1>4. used' \in Nat /\ Len(cache') \in Nat
  BY <1>0, AllocEffect, ListFacts
<1>5. Len(cache) \in Nat /\ used \in Nat /\ timestamp \in [Objects -> Nat]
  BY <1>0, ListFacts DEF ListInv
<1>6. last' = new /\ timestamp' = [timestamp EXCEPT ![new] = ts]
  BY DEF queue_event
<1>7. n + Len(cache) = used
  BY DEF LinkInv
<1> HIDE DEF n
<1>8. /\ \A i \in 1..(n + 1) : i < p => i \in 1..n /\ events'[i] = events[i]
      /\ events'[p] = new
      /\ \A i \in 1..(n + 1) : i > p => i - 1 \in 1..n /\ i - 1 >= p /\ events'[i] = events[i - 1]
  BY <1>1, <1>2, SMTT(60)
<1>9. \A i \in 1..n : \E j \in 1..(n + 1) : events'[j] = events[i]
  <2>1. ASSUME NEW i \in 1..n PROVE \E j \in 1..(n + 1) : events'[j] = events[i]
    <3>1. CASE i < p
      BY <1>1, <1>2, <3>1, SMTT(60)
    <3>2. CASE i >= p
      <4>1. i + 1 \in 1..(n + 1) /\ i + 1 > p /\ (i + 1) - 1 = i
        BY <1>1, <3>2, SMTT(60)
      <4> QED
        BY <1>8, <4>1
    <3> QED
      BY <3>1, <3>2, SMTT(60)
  <2> QED
    BY <2>1
<1>10. n + 1 + Len(cache') = used'
  <2>1. Len(cache') + used = Len(cache) + used' - 1
    BY <1>0, AllocLinks
  <2> QED
    BY <1>1, <1>4, <1>5, <1>7, <2>1, SMTT(60)
<1>11. ASSUME NEW o \in 1..used'
       PROVE  (\E i \in 1..(n + 1) : events'[i] = o) \/ (\E i \in 1..Len(cache') : cache'[i] = o)
  <2>1. CASE o = new
    BY <1>8, <2>1
  <2>2. CASE o # new
    <3>1. o \in 1..used
      BY <1>0, <2>2, AllocLinks
    <3>2. (\E i \in 1..n : events[i] = o) \/ (\E i \in 1..Len(cache) : cache[i] = o)
      BY <3>1 DEF LinkInv, n
    <3>3. CASE \E i \in 1..n : events[i] = o
      BY <1>9, <3>3
    <3>4. CASE \E i \in 1..Len(cache) : cache[i] = o
      BY <1>0, <2>2, <3>4, AllocLinks
    <3> QED
      BY <3>2, <3>3, <3>4
  <2> QED
    BY <2>1, <2>2
<1>12. ASSUME NEW i \in 1..(n + 1), NEW j \in 1..(n + 1), i < j, events'[i] = new
       PROVE  timestamp'[events'[j]] > timestamp'[new]
  <2>1. i = p
    <3>1. i < p \/ i = p \/ i > p
      BY <1>1, SMTT(60)
    <3> QED
      BY <1>3, <1>8, <1>12, <3>1
  <2>2. j - 1 \in 1..n /\ j - 1 >= p /\ events'[j] = events[j - 1]
    BY <1>8, <1>12, <2>1
  <2>3. timestamp[events[j - 1]] > ts /\ events[j - 1] # new /\ events[j - 1] \in Objects
    BY <1>1, <1>2, <1>3, <2>2
  <2>4. timestamp'[new] = ts /\ timestamp'[events[j - 1]] = timestamp[events[j - 1]]
    BY <1>5, <1>6, <2>3
  <2> QED
    BY <2>2, <2>3, <2>4
<1>13. LastHigh'
  BY <1>2, <1>6, <1>12 DEF LastHigh
<1>14. InList'
  BY <1>2, <1>6, <1>8 DEF InList
<1>15. ASSUME NEW i \in 1..(n + 1)
       PROVE  events'[i] = new \/ \E k \in 1..n : events'[i] = events[k]
  <2>1. i < p \/ i = p \/ i > p
    BY <1>1, SMTT(60)
  <2> QED
    BY <1>8, <2>1
<1> QED
  BY <1>2, <1>10, <1>11, <1>13, <1>14, <1>15 DEF n

\* A delivery moves the head of the list to the front of the cache.  If the head was
\* oe->last, only later events are left.
LEMMA DeliverLinks ==
  ASSUME QueueInv, LinkInv, LastHigh, FlushDeliver
  PROVE  /\ LinkInv' /\ LastHigh'
         /\ Len(events) \in Nat /\ Len(events) >= 1 /\ Len(events') = Len(events) - 1
         /\ Head(events) = events[1]
         /\ \A i \in 1..Len(events') : \E k \in 1..Len(events) : events'[i] = events[k]
         /\ InList => \/ InList'
                      \/ /\ timestamp[last] <= next_flush
                         /\ \A i \in 1..Len(events') : timestamp[events'[i]] > timestamp[last]
<1> DEFINE n == Len(events)
           m == Len(cache)
<1>1. /\ events \in Seq(Objects) /\ events # <<>> /\ cache \in Seq(Objects)
      /\ events' = Tail(events) /\ cache' = <<Head(events)>> \o cache
      /\ timestamp[Head(events)] <= next_flush
      /\ UNCHANGED <<used, timestamp, last, pc>> /\ pc # "wild"
  BY DEF FlushDeliver, Due, QueueInv, ListInv
<1>2. n \in Nat /\ n >= 1 /\ m \in Nat /\ events[1] \in Objects
  BY <1>1, ListFacts, SMTT(60)
<1>3. /\ Len(events') = n - 1 /\ Head(events) = events[1]
      /\ \A i \in 1..(n - 1) : events'[i] = events[i + 1]
  BY <1>1, TailFacts
<1>4. /\ Len(cache') = m + 1
      /\ \A i \in 1..(m + 1) : cache'[i] = IF i = 1 THEN events[1] ELSE cache[i - 1]
  BY <1>1, <1>2, <1>3, ConsFacts, SMTT(60)
<1>5. /\ n + m = used
      /\ \A o \in 1..used : (\E i \in 1..n : events[i] = o) \/ (\E i \in 1..m : cache[i] = o)
  BY <1>1 DEF LinkInv
<1>6. \A i, j \in 1..n : i < j /\ events[i] = last => timestamp[events[j]] > timestamp[last]
  BY DEF LastHigh
<1> HIDE DEF n, m
<1>7. \A i \in 1..(n - 1) : i + 1 \in 1..n /\ 1 < i + 1 /\ events'[i] = events[i + 1]
  BY <1>2, <1>3, SMTT(60)
<1>8. \A i \in 1..n : i # 1 => i - 1 \in 1..(n - 1) /\ events'[i - 1] = events[i]
  <2>1. \A i \in 1..n : i # 1 => i - 1 \in 1..(n - 1) /\ (i - 1) + 1 = i
    BY <1>2, SMTT(60)
  <2> QED
    BY <1>3, <2>1
<1>9. \A i \in 1..m : i + 1 \in 1..(m + 1) /\ cache'[i + 1] = cache[i]
  BY <1>2, <1>4, SMTT(60)
<1>10. ASSUME NEW o \in 1..used
       PROVE  (\E i \in 1..(n - 1) : events'[i] = o) \/ (\E i \in 1..(m + 1) : cache'[i] = o)
  <2>1. CASE \E i \in 1..m : cache[i] = o
    BY <1>9, <2>1
  <2>2. CASE \E i \in 1..n : events[i] = o
    <3>1. PICK i \in 1..n : events[i] = o
      BY <2>2
    <3>2. CASE i = 1
      BY <1>2, <1>4, <3>1, <3>2, SMTT(60)
    <3>3. CASE i # 1
      BY <1>8, <3>1, <3>3
    <3> QED
      BY <3>2, <3>3
  <2> QED
    BY <1>5, <2>1, <2>2
<1>11. LinkInv'
  <2>1. (n - 1) + (m + 1) = used
    BY <1>2, <1>5, SMTT(60)
  <2> QED
    BY <1>1, <1>3, <1>4, <1>10, <2>1 DEF LinkInv
<1>12. LastHigh'
  <2>1. ASSUME NEW i \in 1..(n - 1), NEW j \in 1..(n - 1), i < j, events'[i] = last
        PROVE  timestamp[events'[j]] > timestamp[last]
    <3>1. i + 1 \in 1..n /\ j + 1 \in 1..n /\ i + 1 < j + 1
      BY <1>2, <2>1, SMTT(60)
    <3>2. events[i + 1] = last /\ events'[j] = events[j + 1]
      BY <1>7, <2>1
    <3> QED
      BY <1>6, <3>1, <3>2
  <2> QED
    BY <1>1, <1>3, <2>1 DEF LastHigh
<1>13. ASSUME InList
       PROVE  \/ InList'
              \/ /\ timestamp[last] <= next_flush
                 /\ \A i \in 1..(n - 1) : timestamp[events'[i]] > timestamp[last]
  <2>1. PICK k \in 1..n : events[k] = last
    BY <1>13 DEF InList, n
  <2>2. CASE k = 1
    <3>1. \A i \in 1..(n - 1) : timestamp[events'[i]] > timestamp[last]
      BY <1>6, <1>7, <2>1, <2>2
    <3>2. timestamp[last] <= next_flush
      BY <1>1, <1>3, <2>1, <2>2
    <3> QED
      BY <3>1, <3>2
  <2>3. CASE k # 1
    BY <1>1, <1>3, <1>8, <2>1, <2>3 DEF InList
  <2> QED
    BY <2>2, <2>3
<1>14. \A i \in 1..(n - 1) : \E k \in 1..n : events'[i] = events[k]
  BY <1>7
<1> QED
  BY <1>2, <1>3, <1>11, <1>12, <1>13, <1>14 DEF n

\* A step that moves neither an object nor oe->last, and does not go wild.
LEMMA SameLinks ==
  ASSUME LinkInv, LastHigh, pc # "wild", UNCHANGED <<events, cache, used, timestamp, last>>
  PROVE  LinkInv' /\ LastHigh' /\ InList' = InList
BY DEF LinkInv, LastHigh, InList

\* ordered_events__new_event links the object it takes, or its search leaves the list.
LEMMA NewEventLinks ==
  ASSUME QueueInv, LinkInv, LastHigh, pc # "wild", NEW ts \in Timestamps,
         ordered_events__new_event(ts)
  PROVE  LinkInv' /\ LastHigh' /\ (pc' # "wild" => InList')
<1>1. PICK new \in Objects :
        /\ alloc_event(new)
        /\ IF last # NULL /\ last \notin Range(events)
           THEN /\ pc' = "wild"
                /\ UNCHANGED <<events, timestamp, last>>
           ELSE queue_event(new, ts) /\ pc' = "idle"
  BY DEF ordered_events__new_event, Return
<1>2. CASE last # NULL /\ last \notin Range(events)
  <2>1. pc' = "wild" /\ UNCHANGED <<events, timestamp, last>>
    BY <1>1, <1>2
  <2> QED
    BY <2>1 DEF LinkInv, LastHigh
<1>3. CASE ~(last # NULL /\ last \notin Range(events))
  <2>1. queue_event(new, ts) /\ ts \in Nat /\ (last # NULL => last \in Range(events))
    BY <1>1, <1>3, TimestampIsNat
  <2> QED
    BY <1>1, <2>1, QueueLinks DEF LinkInv
<1> QED
  BY <1>2, <1>3

\* The tail of the list is last in it, and nothing is NULL in it.
LEMMA TailIsHigh ==
  ASSUME QueueInv, events # <<>>
  PROVE  /\ Last(events) \in Objects /\ Last(events) # NULL
         /\ \E i \in 1..Len(events) : events[i] = Last(events)
         /\ \A i, j \in 1..Len(events) : i < j => events[i] # Last(events)
<1> DEFINE n == Len(events)
<1>1. events \in Seq(Objects) /\ serial \in [Objects -> Nat] /\ timestamp \in [Objects -> Nat]
  BY DEF QueueInv, ListInv
<1>2. n \in Nat /\ n >= 1 /\ DOMAIN events = 1..n /\ \A i \in 1..n : events[i] \in Objects
  BY <1>1, ListFacts
<1>3. Last(events) = events[n]
  BY DEF Last
<1>4. \A i, j \in 1..n : i < j => events[i] # events[j]
  <2>1. \A i, j \in 1..n : i < j =>
          \/ timestamp[events[i]] < timestamp[events[j]]
          \/ timestamp[events[i]] = timestamp[events[j]] /\ serial[events[i]] < serial[events[j]]
    BY <1>2 DEF QueueInv, TimeOrdered
  <2>2. \A i \in 1..n : timestamp[events[i]] \in Nat /\ serial[events[i]] \in Nat
    BY <1>1, <1>2
  <2> QED
    BY <2>1, <2>2, SMTT(60)
<1> HIDE DEF n
<1>5. \A i, j \in 1..n : i < j => i < n /\ n \in 1..n
  BY <1>2, SMTT(60)
<1>6. n \in 1..n
  BY <1>2, SMTT(60)
<1>7. \A i, j \in 1..n : i < j => events[i] # Last(events)
  BY <1>3, <1>4, <1>5
<1> QED
  BY <1>2, <1>3, <1>6, <1>7, SMTT(60) DEF n, Objects, NULL

\* The lines after the loop of do_flush leave oe->last with later events behind it.
LEMMA RefreshHigh ==
  ASSUME QueueInv, LastHigh, last' = RefreshLast, UNCHANGED <<events, timestamp>>
  PROVE  LastHigh'
<1>1. CASE last' = last
  BY <1>1 DEF LastHigh
<1>2. CASE last' = NULL /\ events = <<>>
  BY <1>2, SMTT(60) DEF LastHigh
<1>3. CASE last' = Last(events) /\ events # <<>>
  BY <1>3, TailIsHigh DEF LastHigh
<1> QED
  BY <1>1, <1>2, <1>3 DEF RefreshLast

\* Each step keeps the objects on the lists, and the order behind oe->last.
LEMMA LinkStep == QueueInv /\ LinkInv /\ LastHigh /\ [Next]_vars => LinkInv' /\ LastHigh'
<1> SUFFICES ASSUME QueueInv, LinkInv, LastHigh, [Next]_vars PROVE LinkInv' /\ LastHigh'
  OBVIOUS
<1>a. ASSUME UNCHANGED <<oe_vars, pc>> PROVE LinkInv' /\ LastHigh'
  BY <1>a DEF oe_vars, LinkInv, LastHigh
<1>b. ASSUME UNCHANGED <<events, cache, used, timestamp, last>>, pc # "wild"
      PROVE  LinkInv' /\ LastHigh'
  BY <1>b, SameLinks
<1>1. ASSUME NEW ts \in Timestamps, ordered_events__queue(ts) PROVE LinkInv' /\ LastHigh'
  <2>0. pc # "wild"
    BY <1>1 DEF ordered_events__queue
  <2>1. CASE QueueNoTime(ts)
    BY <1>b, <2>0, <2>1 DEF QueueNoTime, oe_vars
  <2>2. CASE ordered_events__new_event(ts)
    BY <2>0, <2>2, NewEventLinks
  <2>3. CASE alloc_event_fails /\ Flush("HALF", 0, ts)
    BY <1>b, <2>0, <2>3 DEF Flush
  <2> QED
    BY <1>1, <2>1, <2>2, <2>3 DEF ordered_events__queue, QueueTimed
<1>2. CASE QueueRetry
  <2>0. pc # "wild" /\ call.retry \in Timestamps
    BY <1>2 DEF QueueRetry, QueueInv, RetryInv
  <2>1. CASE ordered_events__new_event(call.retry)
    BY <2>0, <2>1, NewEventLinks
  <2>2. CASE alloc_event_fails /\ UNCHANGED <<events, timestamp, last>>
    BY <1>b, <2>0, <2>2 DEF alloc_event_fails
  <2> QED
    BY <1>2, <2>1, <2>2 DEF QueueRetry
<1>3. CASE FlushWhileReading
  BY <1>b, <1>3 DEF FlushWhileReading, Flush
<1>4. CASE FlushDeliver
  BY <1>4, DeliverLinks
<1>5. CASE FlushBreakOff
  BY <1>b, <1>5 DEF FlushBreakOff, FlushReturn
<1>6. CASE FlushEnd
  <2>1. UNCHANGED <<events, cache, used, timestamp>> /\ last' = RefreshLast /\ pc # "wild"
    BY <1>6 DEF FlushEnd, FlushReturn
  <2> QED
    BY <2>1, RefreshHigh DEF LinkInv
<1>7. CASE EndOfData
  BY <1>a, <1>7 DEF EndOfData
<1>8. CASE FinalFlush
  BY <1>b, <1>8 DEF FinalFlush, Flush
<1>9. CASE ordered_events__reinit
  <2>1. Len(events') = 0 /\ Len(cache') = 0 /\ used' = 0
    BY <1>9 DEF ordered_events__reinit
  <2> QED
    BY <2>1, SMTT(60) DEF LinkInv, LastHigh
<1>10. CASE SigInt
  BY <1>a, <1>10 DEF SigInt
<1>11. CASE Finished \/ UNCHANGED vars
  BY <1>a, <1>11 DEF Finished, vars, ctl_vars
<1> QED
  BY <1>1, <1>2, <1>3, <1>4, <1>5, <1>6, <1>7, <1>8, <1>9, <1>10, <1>11 DEF Next

-----------------------------------------------------------------------------
(* Types.                                                                  *)

\* The type invariant is proved in parts.  The times:
TimeType ==
  /\ timestamp \in [Objects -> 0..ULLONG_MAX]
  /\ next_flush \in 0..ULLONG_MAX /\ last_flush \in 0..ULLONG_MAX
  /\ max_timestamp \in 0..ULLONG_MAX

\* The place of the program, and the call in progress.
CtlType ==
  /\ pc \in {"idle", "retry", "flush", "wild"}
  /\ call.retry \in 0..ULLONG_MAX /\ call.last_ts \in 0..ULLONG_MAX
  /\ call.how \in {"NONE", "FINAL", "ROUND", "HALF", "TOP", "TIME"}
  /\ session_done \in BOOLEAN
  /\ client \in {"reading", "closing", "flushed", "failed", "closed"}

\* The sizes.
SizeType ==
  used \in 0..MaxQueued /\ cur_alloc_size \in Nat /\ nr_unordered_events \in Nat

\* The numbers of the events.
HistType ==
  /\ queued \in 0..MaxQueued /\ accepted \in 0..queued
  /\ serial \in [Objects -> 0..accepted]
  /\ handed \in Seq(1..accepted)

\* TypeOK is what the queue's invariant and the parts say.
LEMMA TypeParts ==
  QueueInv /\ TimeType /\ CtlType /\ SizeType /\ HistType => TypeOK
<1> SUFFICES ASSUME QueueInv, TimeType, CtlType, SizeType, HistType PROVE TypeOK
  OBVIOUS
<1>1. events \in Seq(Objects) /\ cache \in Seq(Objects) /\ last \in Objects \cup {NULL}
  BY DEF QueueInv, ListInv
<1>2. {next_flush, last_flush, max_timestamp} \subseteq 0..ULLONG_MAX
  BY DEF TimeType
<1> QED
  BY <1>1, <1>2 DEF TypeOK, TimeType, CtlType, SizeType, HistType

\* A u64 sum stays below 2^64, and wraps only from there on.
LEMMA ModFacts ==
  ASSUME NEW a \in Int, NEW b \in Nat, b > 0
  PROVE  a % b \in 0..(b - 1) /\ (0 <= a /\ a < b => a % b = a)
BY SMTT(60)

\* The limit of a flush is a u64, and that of a HALF flush, half way from the first
\* event to oe->last, is not later than oe->last.
LEMMA FlushLimitType ==
  ASSUME QueueInv, TimeType, events # <<>>, NEW time \in 0..ULLONG_MAX,
         NEW how \in {"FINAL", "TOP", "HALF", "TIME", "ROUND"}
  PROVE  /\ FlushLimit(how, time) \in 0..ULLONG_MAX
         /\ how = "HALF" /\ InList => FlushLimit(how, time) <= timestamp[last]
<1>0. U64 \in Nat /\ U64 > 1 /\ ULLONG_MAX = U64 - 1
  BY OrderedEventsAssumption, SMTT(60) DEF ULLONG_MAX
<1>1. CASE how # "HALF"
  BY <1>0, <1>1, SMTT(60) DEF FlushLimit, TimeType
<1>2. CASE how = "HALF"
  <2>1. events \in Seq(Objects) /\ last \in Objects
    BY DEF QueueInv, ListInv
  <2>2. Len(events) \in Nat /\ Len(events) >= 1 /\ events[1] \in Objects /\ Head(events) = events[1]
        /\ DOMAIN events = 1..Len(events)
    BY <2>1, ListFacts, TailFacts
  <2> DEFINE f == timestamp[Head(events)]
             l == timestamp[last]
             d == (l - f) % U64
  <2>3. f \in 0..ULLONG_MAX /\ l \in 0..ULLONG_MAX
    BY <2>1, <2>2 DEF TimeType
  <2>4. FlushLimit(how, time) = (f + d \div 2) % U64
    BY <1>2 DEF FlushLimit
  <2>5. InList => f <= l
    <3>1. SUFFICES ASSUME InList PROVE f <= l
      OBVIOUS
    <3>2. PICK i \in 1..Len(events) : events[i] = last
      BY <3>1 DEF InList
    <3>3. CASE i = 1
      BY <2>2, <2>3, <3>2, <3>3, SMTT(60)
    <3>4. CASE i # 1
      <4>1. 1 \in 1..Len(events) /\ 1 < i
        BY <2>2, <3>4, SMTT(60)
      <4>2. \/ timestamp[events[1]] < timestamp[events[i]]
            \/ timestamp[events[1]] = timestamp[events[i]]
        BY <2>2, <4>1 DEF QueueInv, TimeOrdered
      <4> QED
        BY <2>2, <2>3, <3>2, <4>2, SMTT(60)
    <3> QED
      BY <3>3, <3>4
  <2> HIDE DEF f, l
  <2>6. d \in 0..(U64 - 1) /\ (f <= l => d = l - f)
    BY <1>0, <2>3, ModFacts, SMTT(60)
  <2> HIDE DEF d
  <2>7. d \div 2 \in Nat /\ d \div 2 <= d
    BY <2>6, SMTT(60)
  <2>8. (f + d \div 2) % U64 \in 0..(U64 - 1)
        /\ (f + d \div 2 < U64 => (f + d \div 2) % U64 = f + d \div 2)
    BY <1>0, <2>3, <2>7, ModFacts, SMTT(60)
  <2>9. f <= l => (f + d \div 2) % U64 <= l
    BY <1>0, <2>3, <2>6, <2>7, <2>8, SMTT(60)
  <2> QED
    BY <1>0, <2>4, <2>5, <2>8, <2>9 DEF l
<1> QED
  BY <1>1, <1>2

\* A call of __ordered_events__flush keeps the times u64.
LEMMA FlushTimes ==
  ASSUME QueueInv, TimeType, NEW time \in 0..ULLONG_MAX, NEW retry,
         NEW how \in {"FINAL", "TOP", "HALF", "TIME", "ROUND"}, Flush(how, time, retry)
  PROVE  TimeType'
<1>1. next_flush' \in 0..ULLONG_MAX
  BY FlushLimitType DEF Flush, TimeType
<1> QED
  BY <1>1 DEF Flush, TimeType

\* ordered_events__new_event keeps the times u64.
LEMMA NewEventTimes ==
  ASSUME TimeType, NEW ts \in Timestamps, ordered_events__new_event(ts)
  PROVE  TimeType'
<1>1. PICK new \in Objects :
        IF last # NULL /\ last \notin Range(events)
        THEN UNCHANGED <<timestamp, max_timestamp>>
        ELSE queue_event(new, ts)
  BY DEF ordered_events__new_event
<1>2. next_flush' = next_flush /\ last_flush' = last_flush
  BY DEF ordered_events__new_event
<1>3. ts \in 0..ULLONG_MAX
  BY OrderedEventsAssumption
<1>4. CASE UNCHANGED <<timestamp, max_timestamp>>
  BY <1>2, <1>4 DEF TimeType
<1>5. CASE queue_event(new, ts)
  <2>1. timestamp' = [timestamp EXCEPT ![new] = ts]
    BY <1>5 DEF queue_event
  <2>2. max_timestamp' = ts \/ max_timestamp' = max_timestamp
    BY <1>5 DEF queue_event, MaxAfterInsert
  <2> QED
    BY <1>2, <1>3, <2>1, <2>2 DEF TimeType
<1> QED
  BY <1>1, <1>4, <1>5

\* Each step keeps the times u64.
LEMMA TimeStep == QueueInv /\ TimeType /\ [Next]_vars => TimeType'
<1> SUFFICES ASSUME QueueInv, TimeType, [Next]_vars PROVE TimeType'
  OBVIOUS
<1>0. Timestamps \subseteq 0..ULLONG_MAX /\ 0 \in 0..ULLONG_MAX
  BY OrderedEventsAssumption, SMTT(60) DEF ULLONG_MAX
<1>a. ASSUME UNCHANGED oe_vars PROVE TimeType'
  BY <1>a DEF oe_vars, TimeType
<1>b. ASSUME NEW err, FlushReturn(err), last_flush' = last_flush PROVE TimeType'
  BY <1>b DEF FlushReturn, TimeType
<1>1. ASSUME NEW ts \in Timestamps, ordered_events__queue(ts) PROVE TimeType'
  <2>1. CASE QueueNoTime(ts)
    BY <1>a, <2>1 DEF QueueNoTime
  <2>2. CASE ordered_events__new_event(ts)
    BY <2>2, NewEventTimes
  <2>3. CASE Flush("HALF", 0, ts)
    BY <1>0, <2>3, FlushTimes
  <2> QED
    BY <1>1, <2>1, <2>2, <2>3 DEF ordered_events__queue, QueueTimed
<1>2. CASE QueueRetry
  <2>0. call.retry \in Timestamps
    BY <1>2 DEF QueueRetry, QueueInv, RetryInv
  <2>1. CASE ordered_events__new_event(call.retry)
    BY <2>0, <2>1, NewEventTimes
  <2>2. CASE UNCHANGED <<timestamp, next_flush, last_flush, max_timestamp>>
    BY <2>2 DEF TimeType
  <2> QED
    BY <1>2, <2>1, <2>2 DEF QueueRetry
<1>3. CASE FlushWhileReading
  <2>1. PICK how \in Hows, time \in 0..ULLONG_MAX : Flush(how, time, 0)
    BY <1>0, <1>3 DEF FlushWhileReading
  <2>2. how \in {"FINAL", "TOP", "HALF", "TIME", "ROUND"}
    BY OrderedEventsAssumption
  <2> QED
    BY <2>1, <2>2, FlushTimes
<1>4. CASE FlushDeliver
  <2>1. events \in Seq(Objects) /\ events # <<>>
    BY <1>4 DEF FlushDeliver, Due, QueueInv, ListInv
  <2>2. Head(events) \in Objects
    BY <2>1, TailFacts
  <2> QED
    BY <1>4, <2>2 DEF FlushDeliver, TimeType
<1>5. CASE FlushBreakOff
  <2>1. PICK err \in BOOLEAN : FlushReturn(err)
    BY <1>5 DEF FlushBreakOff
  <2>2. last_flush' = last_flush
    BY <1>5 DEF FlushBreakOff
  <2> QED
    BY <1>b, <2>1, <2>2
<1>6. CASE FlushEnd
  BY <1>b, <1>6 DEF FlushEnd
<1>7. CASE EndOfData
  BY <1>a, <1>7 DEF EndOfData
<1>8. CASE FinalFlush
  BY <1>0, <1>8, FlushTimes DEF FinalFlush
<1>9. CASE ordered_events__reinit
  BY <1>0, <1>9 DEF ordered_events__reinit, TimeType
<1>10. CASE SigInt
  BY <1>a, <1>10 DEF SigInt
<1>11. CASE Finished \/ UNCHANGED vars
  BY <1>a, <1>11 DEF Finished, vars
<1> QED
  BY <1>1, <1>2, <1>3, <1>4, <1>5, <1>6, <1>7, <1>8, <1>9, <1>10, <1>11 DEF Next

\* What a call that returns leaves of the caller's state.
LEMMA ReturnCtl ==
  ASSUME CtlType, NEW err, Return(err), session_done' = session_done
  PROVE  CtlType'
<1>1. pc' = "idle" /\ call' = NoCall
  BY DEF Return
<1>2. call'.retry = 0 /\ call'.last_ts = 0 /\ call'.how = "NONE" /\ 0 \in 0..ULLONG_MAX
  BY <1>1, OrderedEventsAssumption, SMTT(60) DEF NoCall, ULLONG_MAX
<1>3. client' \in {"failed", "flushed", "closing", client}
  BY DEF Return
<1> QED
  BY <1>1, <1>2, <1>3 DEF CtlType

\* What a call of __ordered_events__flush leaves of the caller's state.
LEMMA FlushCtl ==
  ASSUME QueueInv, TimeType, CtlType, NEW how \in {"FINAL", "TOP", "HALF", "TIME", "ROUND"},
         NEW time, NEW retry \in 0..ULLONG_MAX, Flush(how, time, retry),
         session_done' = session_done
  PROVE  CtlType'
<1>0. 0 \in 0..ULLONG_MAX
  BY OrderedEventsAssumption, SMTT(60) DEF ULLONG_MAX
<1>1. CASE events = <<>>
  <2>1. /\ pc' = (IF retry # 0 THEN "retry" ELSE "idle")
        /\ call' = [NoCall EXCEPT !.retry = retry]
        /\ client' \in {"flushed", "closing", client}
    BY <1>1 DEF Flush
  <2>2. call'.retry = retry /\ call'.last_ts = 0 /\ call'.how = "NONE"
    BY <2>1 DEF NoCall
  <2> QED
    BY <1>0, <2>1, <2>2 DEF CtlType
<1>2. CASE events # <<>>
  <2>1. /\ pc' = "flush" /\ client' = client
        /\ call' = [retry |-> retry, how |-> how,
                    last_ts |-> IF last = NULL THEN 0 ELSE timestamp[last]]
    BY <1>2 DEF Flush
  <2>2. (IF last = NULL THEN 0 ELSE timestamp[last]) \in 0..ULLONG_MAX
    BY <1>0 DEF QueueInv, ListInv, TimeType
  <2> QED
    BY <2>1, <2>2 DEF CtlType
<1> QED
  BY <1>1, <1>2

\* Each step leaves the program at one of its places.
LEMMA CtlStep == QueueInv /\ TimeType /\ CtlType /\ [Next]_vars => CtlType'
<1> SUFFICES ASSUME QueueInv, TimeType, CtlType, [Next]_vars PROVE CtlType'
  OBVIOUS
<1>0. Timestamps \subseteq 0..ULLONG_MAX /\ 0 \in 0..ULLONG_MAX
  BY OrderedEventsAssumption, SMTT(60) DEF ULLONG_MAX
<1>a. ASSUME NEW ts, ordered_events__new_event(ts), session_done' = session_done PROVE CtlType'
  <2>1. Return(FALSE) \/ (pc' = "wild" /\ call' = call /\ client' = client)
    BY <1>a DEF ordered_events__new_event
  <2> QED
    BY <1>a, <2>1, ReturnCtl DEF CtlType
<1>b. ASSUME NEW err, FlushReturn(err) PROVE CtlType'
  <2>1. session_done' = session_done
    BY <1>b DEF FlushReturn
  <2>2. CASE call.retry # 0
    BY <1>b, <2>1, <2>2 DEF FlushReturn, CtlType
  <2>3. CASE call.retry = 0
    BY <1>b, <2>1, <2>3, ReturnCtl DEF FlushReturn
  <2> QED
    BY <2>2, <2>3
<1>1. ASSUME NEW ts \in Timestamps, ordered_events__queue(ts) PROVE CtlType'
  <2>0. session_done' = session_done
    BY <1>1 DEF ordered_events__queue, QueueNoTime, QueueTimed
  <2>1. CASE QueueNoTime(ts)
    BY <2>0, <2>1, ReturnCtl DEF QueueNoTime
  <2>2. CASE ordered_events__new_event(ts)
    BY <1>a, <2>0, <2>2
  <2>3. CASE Flush("HALF", 0, ts)
    BY <1>0, <2>0, <2>3, FlushCtl
  <2> QED
    BY <1>1, <2>1, <2>2, <2>3 DEF ordered_events__queue, QueueTimed
<1>2. CASE QueueRetry
  <2>0. session_done' = session_done
    BY <1>2 DEF QueueRetry
  <2>1. CASE ordered_events__new_event(call.retry)
    BY <1>a, <2>0, <2>1
  <2>2. CASE Return(TRUE)
    BY <2>0, <2>2, ReturnCtl
  <2> QED
    BY <1>2, <2>1, <2>2 DEF QueueRetry
<1>3. CASE FlushWhileReading
  <2>1. PICK how \in Hows, time \in 0..ULLONG_MAX : Flush(how, time, 0)
    BY <1>0, <1>3 DEF FlushWhileReading
  <2>2. how \in {"FINAL", "TOP", "HALF", "TIME", "ROUND"}
    BY OrderedEventsAssumption
  <2> QED
    BY <1>0, <1>3, <2>1, <2>2, FlushCtl DEF FlushWhileReading
<1>4. CASE FlushDeliver
  BY <1>4 DEF FlushDeliver, CtlType
<1>5. CASE FlushBreakOff
  <2>1. PICK err \in BOOLEAN : FlushReturn(err)
    BY <1>5 DEF FlushBreakOff
  <2> QED
    BY <1>b, <2>1
<1>6. CASE FlushEnd
  BY <1>b, <1>6 DEF FlushEnd
<1>7. CASE EndOfData
  BY <1>7 DEF EndOfData, CtlType
<1>8. CASE FinalFlush
  BY <1>0, <1>8, FlushCtl DEF FinalFlush
<1>9. CASE ordered_events__reinit
  BY <1>9 DEF ordered_events__reinit, CtlType
<1>10. CASE SigInt
  BY <1>10 DEF SigInt, CtlType
<1>11. CASE Finished \/ UNCHANGED vars
  BY <1>11 DEF Finished, vars, ctl_vars, CtlType
<1> QED
  BY <1>1, <1>2, <1>3, <1>4, <1>5, <1>6, <1>7, <1>8, <1>9, <1>10, <1>11 DEF Next

-----------------------------------------------------------------------------
(* Sizes, and the numbers of events.                                       *)

\* alloc_event adds the copy of the event, if there is one, and perhaps a buffer.
LEMMA AllocGrows ==
  ASSUME cur_alloc_size \in Nat, NEW new, alloc_event(new)
  PROVE  cur_alloc_size' \in Nat /\ cur_alloc_size' >= AfterDup
<1>1. HeaderSize \in Nat /\ BufferSize \in Nat
  BY OrderedEventsAssumption
<1>2. AfterDup \in Nat
  BY <1>1, SMTT(60) DEF AfterDup
<1>3. \/ cur_alloc_size' = AfterDup \/ cur_alloc_size' = AfterDup + 0
      \/ cur_alloc_size' = AfterDup + BufferSize
  BY DEF alloc_event
<1> QED
  BY <1>1, <1>2, <1>3, SMTT(60)

\* One event more, or less, is one copy more or less.
LEMMA OneCopy ==
  ASSUME NEW h \in Nat, NEW n \in Nat
  PROVE  h * n \in Nat /\ h * (n + 1) = h * n + h /\ (n >= 1 => h * n = h * (n - 1) + h)
BY SMTT(60)

\* The sizes are numbers, and count at least the copies of the events that wait.
SizeInv == SizeType /\ HeldInv

\* ordered_events__new_event takes an object of the buffers and adds the copy it
\* queues to cur_alloc_size.
LEMMA NewEventSize ==
  ASSUME QueueInv, LinkInv, SizeInv, pc # "wild", NEW ts \in Timestamps,
         ordered_events__new_event(ts)
  PROVE  used' \in 0..MaxQueued /\ cur_alloc_size' \in Nat /\ HeldInv'
<1>1. PICK new \in Objects :
        /\ alloc_event(new)
        /\ \/ events' = events
           \/ queue_event(new, ts) /\ (last # NULL => last \in Range(events))
  BY DEF ordered_events__new_event
<1>2. /\ cur_alloc_size \in Nat /\ used \in 0..MaxQueued /\ HeaderSize \in Nat
      /\ MaxQueued \in Nat /\ CopyOnQueue \in BOOLEAN
  BY OrderedEventsAssumption DEF SizeInv, SizeType
<1>3. cur_alloc_size' \in Nat /\ cur_alloc_size' >= AfterDup
  BY <1>1, <1>2, AllocGrows
<1>4. used' \in 0..MaxQueued
  BY <1>1, <1>2, SMTT(60) DEF alloc_event, Objects
<1>5. Len(events) \in Nat /\ (Len(events') = Len(events) \/ Len(events') = Len(events) + 1)
  <2>1. Len(events) \in Nat
    BY ListFacts DEF QueueInv, ListInv
  <2>2. CASE events' = events
    BY <2>1, <2>2
  <2>3. CASE queue_event(new, ts) /\ (last # NULL => last \in Range(events))
    BY <1>1, <2>1, <2>3, QueueLinks, TimestampIsNat
  <2> QED
    BY <1>1, <2>1, <2>2, <2>3
<1>6. HeldInv'
  <2>1. SUFFICES ASSUME CopyOnQueue PROVE cur_alloc_size' >= HeaderSize * Len(events')
    BY DEF HeldInv
  <2>2. AfterDup = cur_alloc_size + HeaderSize /\ cur_alloc_size >= HeaderSize * Len(events)
    BY <2>1 DEF AfterDup, SizeInv, HeldInv
  <2>3. /\ HeaderSize * Len(events) \in Nat
        /\ HeaderSize * (Len(events) + 1) = HeaderSize * Len(events) + HeaderSize
    BY <1>2, <1>5, OneCopy
  <2> DEFINE c == HeaderSize * Len(events)
  <2>4. HeaderSize * Len(events') \in {c, c + HeaderSize}
    BY <1>5, <2>3
  <2>5. c \in Nat /\ cur_alloc_size >= c
    BY <2>2, <2>3
  <2> HIDE DEF c
  <2> QED
    BY <1>2, <1>3, <2>2, <2>4, <2>5, SMTT(60)
<1> QED
  BY <1>3, <1>4, <1>6

\* Each step accounts for the copies of the events that wait.
LEMMA SizeStep ==
  QueueInv /\ LinkInv /\ LastHigh /\ SizeInv /\ [Next]_vars => SizeInv'
<1> SUFFICES ASSUME QueueInv, LinkInv, LastHigh, SizeInv, [Next]_vars PROVE SizeInv'
  OBVIOUS
<1>0. /\ used \in 0..MaxQueued /\ cur_alloc_size \in Nat /\ nr_unordered_events \in Nat
      /\ HeldInv /\ HeaderSize \in Nat /\ CopyOnQueue \in BOOLEAN
  BY OrderedEventsAssumption DEF SizeInv, SizeType
<1>a. ASSUME UNCHANGED <<events, used, cur_alloc_size>>, nr_unordered_events' \in Nat
      PROVE  SizeInv'
  BY <1>0, <1>a DEF SizeInv, SizeType, HeldInv
<1>b. ASSUME alloc_event_fails, events' = events, nr_unordered_events' \in Nat PROVE SizeInv'
  <2>1. used' = used /\ (cur_alloc_size' = cur_alloc_size \/ cur_alloc_size' = AfterDup)
    BY <1>b DEF alloc_event_fails
  <2>2. AfterDup \in Nat /\ AfterDup >= cur_alloc_size
    BY <1>0, SMTT(60) DEF AfterDup
  <2>3. cur_alloc_size' \in Nat /\ cur_alloc_size' >= cur_alloc_size
    BY <1>0, <2>1, <2>2, SMTT(60)
  <2>4. HeldInv'
    <3>1. Len(events) \in Nat
      BY ListFacts DEF QueueInv, ListInv
    <3>2. HeaderSize * Len(events) \in Nat
      BY <1>0, <3>1, OneCopy
    <3> QED
      BY <1>0, <1>b, <2>3, <3>2, SMTT(60) DEF HeldInv
  <2> QED
    BY <1>0, <1>b, <2>1, <2>3, <2>4 DEF SizeInv, SizeType
<1>c. ASSUME NEW ts \in Timestamps, pc # "wild", ordered_events__new_event(ts),
             nr_unordered_events' \in Nat
      PROVE  SizeInv'
  BY <1>c, NewEventSize DEF SizeInv, SizeType
<1>1. ASSUME NEW ts \in Timestamps, ordered_events__queue(ts) PROVE SizeInv'
  <2>1. CASE QueueNoTime(ts)
    BY <1>0, <1>a, <2>1 DEF QueueNoTime, oe_vars
  <2>2. CASE QueueTimed(ts)
    <3>1. nr_unordered_events' \in Nat
      BY <1>0, <2>2, SMTT(60) DEF QueueTimed
    <3>2. CASE ordered_events__new_event(ts)
      BY <1>1, <1>c, <3>1, <3>2 DEF ordered_events__queue
    <3>3. CASE alloc_event_fails /\ Flush("HALF", 0, ts)
      BY <1>b, <3>1, <3>3 DEF Flush
    <3> QED
      BY <2>2, <3>2, <3>3 DEF QueueTimed
  <2> QED
    BY <1>1, <2>1, <2>2 DEF ordered_events__queue
<1>2. CASE QueueRetry
  <2>1. pc # "wild" /\ call.retry \in Timestamps /\ nr_unordered_events' \in Nat
    BY <1>0, <1>2 DEF QueueRetry, QueueInv, RetryInv
  <2>2. CASE ordered_events__new_event(call.retry)
    BY <1>c, <2>1, <2>2
  <2>3. CASE alloc_event_fails /\ events' = events
    BY <1>b, <2>1, <2>3
  <2> QED
    BY <1>2, <2>2, <2>3 DEF QueueRetry
<1>3. CASE FlushWhileReading
  BY <1>0, <1>3, <1>a DEF FlushWhileReading, Flush
<1>4. CASE FlushDeliver
  <2>1. UNCHANGED <<used, nr_unordered_events>> /\ cur_alloc_size' = FreeDup
    BY <1>4 DEF FlushDeliver
  <2> DEFINE n == Len(events)
  <2>2. n \in Nat /\ n >= 1 /\ Len(events') = n - 1
    BY <1>4, DeliverLinks
  <2> HIDE DEF n
  <2>3. CASE CopyOnQueue
    <3> DEFINE c == HeaderSize * n
               d == HeaderSize * (n - 1)
    <3>1. c = d + HeaderSize /\ d \in Nat
      BY <1>0, <2>2, OneCopy, SMTT(60)
    <3>2. cur_alloc_size >= c
      BY <1>0, <2>3 DEF HeldInv, n
    <3>3. cur_alloc_size' = cur_alloc_size - HeaderSize
      BY <2>1, <2>3 DEF FreeDup
    <3> HIDE DEF c, d
    <3>4. cur_alloc_size' \in Nat /\ cur_alloc_size' >= d
      BY <1>0, <3>1, <3>2, <3>3, SMTT(60)
    <3>5. HeldInv'
      BY <2>2, <3>4 DEF HeldInv, d
    <3> QED
      BY <1>0, <2>1, <3>4, <3>5 DEF SizeInv, SizeType
  <2>4. CASE ~CopyOnQueue
    <3>1. cur_alloc_size' = cur_alloc_size
      BY <1>0, <2>1, <2>4, SMTT(60) DEF FreeDup
    <3> QED
      BY <1>0, <2>1, <2>4, <3>1 DEF SizeInv, SizeType, HeldInv
  <2> QED
    BY <2>3, <2>4
<1>5. CASE FlushBreakOff
  BY <1>0, <1>5, <1>a DEF FlushBreakOff, FlushReturn
<1>6. CASE FlushEnd
  BY <1>0, <1>6, <1>a DEF FlushEnd, FlushReturn
<1>7. CASE EndOfData
  BY <1>0, <1>7, <1>a DEF EndOfData, oe_vars
<1>8. CASE FinalFlush
  BY <1>0, <1>8, <1>a DEF FinalFlush, Flush
<1>9. CASE ordered_events__reinit
  <2>1. used' = 0 /\ cur_alloc_size' = 0 /\ nr_unordered_events' = 0 /\ Len(events') = 0
    BY <1>9 DEF ordered_events__reinit
  <2>2. HeldInv'
    BY <1>0, <2>1, SMTT(60) DEF HeldInv
  <2> QED
    BY <2>1, <2>2, OrderedEventsAssumption, SMTT(60) DEF SizeInv, SizeType
<1>10. CASE SigInt
  BY <1>0, <1>10, <1>a DEF SigInt, oe_vars
<1>11. CASE Finished \/ UNCHANGED vars
  BY <1>0, <1>11, <1>a DEF Finished, vars, oe_vars
<1> QED
  BY <1>1, <1>2, <1>3, <1>4, <1>5, <1>6, <1>7, <1>8, <1>9, <1>10, <1>11 DEF Next

\* Each step leaves the caller where the calls in progress expect it.
LEMMA CallStep ==
  HistType /\ CallInv /\ [Next]_vars => CallInv'
<1> SUFFICES ASSUME HistType, CallInv, [Next]_vars PROVE CallInv'
  OBVIOUS
<1>0. queued \in Nat /\ accepted \in Nat /\ accepted <= queued
  BY OrderedEventsAssumption, SMTT(60) DEF HistType
<1>a. ASSUME pc' \in {"idle", "wild"} PROVE CallInv'
  BY <1>a DEF CallInv
<1>b. ASSUME NEW err, FlushReturn(err), pc = "flush" PROVE CallInv'
  <2>1. CASE call.retry # 0
    <3>1. pc' = "retry" /\ UNCHANGED <<client, accepted, queued>>
      BY <1>b, <2>1 DEF FlushReturn
    <3> QED
      BY <1>b, <2>1, <3>1 DEF CallInv
  <2>2. CASE call.retry = 0
    BY <1>a, <1>b, <2>2 DEF FlushReturn, Return
  <2> QED
    BY <2>1, <2>2
<1>c. ASSUME NEW ts, ordered_events__new_event(ts) PROVE CallInv'
  BY <1>a, <1>c DEF ordered_events__new_event, Return
<1>d. ASSUME UNCHANGED <<pc, call, client, next_flush, accepted, queued>> PROVE CallInv'
  BY <1>d DEF CallInv
<1>1. ASSUME NEW ts \in Timestamps, ordered_events__queue(ts) PROVE CallInv'
  <2>0. client = "reading" /\ queued' = queued + 1
    BY <1>1 DEF ordered_events__queue
  <2>1. CASE QueueNoTime(ts)
    BY <1>a, <2>1 DEF QueueNoTime, Return
  <2>2. CASE ordered_events__new_event(ts)
    BY <1>c, <2>2
  <2>3. CASE QueueTimed(ts) /\ Flush("HALF", 0, ts)
    <3>1. accepted' = accepted /\ accepted < queued'
      BY <1>0, <2>0, <2>3, SMTT(60) DEF Flush
    <3>2. ts # 0
      BY <2>3 DEF QueueTimed
    <3>3. client' = "reading"
      BY <2>0, <2>3, <3>2 DEF Flush
    <3> QED
      BY <3>1, <3>3 DEF CallInv
  <2> QED
    BY <1>1, <2>1, <2>2, <2>3 DEF ordered_events__queue, QueueTimed
<1>2. CASE QueueRetry
  <2>1. CASE ordered_events__new_event(call.retry)
    BY <1>c, <2>1
  <2>2. CASE Return(TRUE)
    BY <1>a, <2>2 DEF Return
  <2> QED
    BY <1>2, <2>1, <2>2 DEF QueueRetry
<1>3. CASE FlushWhileReading
  <2>1. PICK how \in Hows :
           \E time \in (IF how = "TIME" THEN Timestamps ELSE {0}) : Flush(how, time, 0)
    BY <1>3 DEF FlushWhileReading
  <2>2. PICK time \in (IF how = "TIME" THEN Timestamps ELSE {0}) : Flush(how, time, 0)
    BY <2>1
  <2>3. CASE events = <<>>
    BY <1>a, <2>2, <2>3 DEF Flush
  <2>4. CASE events # <<>>
    <3>1. pc' = "flush" /\ client' = "reading" /\ call'.retry = 0
      BY <1>3, <2>2, <2>4, SMTT(60) DEF Flush, FlushWhileReading
    <3> QED
      BY <3>1 DEF CallInv
  <2> QED
    BY <2>3, <2>4
<1>4. CASE FlushDeliver
  BY <1>4, <1>d DEF FlushDeliver
<1>5. CASE FlushBreakOff
  <2>1. PICK err \in BOOLEAN : FlushReturn(err)
    BY <1>5 DEF FlushBreakOff
  <2> QED
    BY <1>5, <1>b, <2>1 DEF FlushBreakOff
<1>6. CASE FlushEnd
  BY <1>6, <1>b DEF FlushEnd
<1>7. CASE EndOfData
  BY <1>7, <1>a DEF EndOfData
<1>8. CASE FinalFlush
  <2>1. CASE events = <<>>
    BY <1>8, <1>a, <2>1 DEF FinalFlush, Flush
  <2>2. CASE events # <<>>
    <3>1. pc' = "flush" /\ client' = "closing" /\ call'.retry = 0 /\ next_flush' = ULLONG_MAX
      BY <1>8, <2>2, SMTT(60) DEF Flush, FinalFlush, FlushLimit
    <3> QED
      BY <3>1 DEF CallInv
  <2> QED
    BY <2>1, <2>2
<1>9. CASE ordered_events__reinit
  BY <1>9, <1>a DEF ordered_events__reinit
<1>10. CASE SigInt
  BY <1>10, <1>d DEF SigInt, oe_vars, hist_vars
<1>11. CASE Finished \/ UNCHANGED vars
  BY <1>11, <1>d DEF Finished, vars, oe_vars, ctl_vars, hist_vars
<1> QED
  BY <1>1, <1>2, <1>3, <1>4, <1>5, <1>6, <1>7, <1>8, <1>9, <1>10, <1>11 DEF Next

\* A sequence of some numbers is one of more numbers.
LEMMA WiderSeq ==
  ASSUME NEW S, NEW T, S \subseteq T, NEW s \in Seq(S)
  PROVE  s \in Seq(T)
<1>1. Len(s) \in Nat /\ \A i \in 1..Len(s) : s[i] \in S
  BY ListFacts
<1>2. s = [i \in 1..Len(s) |-> s[i]]
  BY SMTT(60)
<1> DEFINE n == Len(s)
           f == [i \in 1..n |-> s[i]]
<1>3. n \in Nat /\ \A i \in 1..n : s[i] \in T
  BY <1>1
<1> HIDE DEF n
<1>4. f \in Seq(T)
  BY <1>3, SMTT(60)
<1> QED
  BY <1>2, <1>4 DEF n

\* What was delivered and what waits is counted, and numbered from 1.
NumberInv == HistType /\ CountInv

\* Queueing an event gives it the next number.
LEMMA NewEventNumbers ==
  ASSUME QueueInv, LinkInv, NumberInv, pc # "wild", client = "reading",
         NEW ts \in Timestamps, ordered_events__new_event(ts),
         queued' \in 0..MaxQueued, accepted < queued', handed' = handed
  PROVE  NumberInv'
<1>1. PICK new \in Objects :
        /\ alloc_event(new)
        /\ \/ UNCHANGED <<events, serial, accepted>>
           \/ queue_event(new, ts) /\ (last # NULL => last \in Range(events))
  BY DEF ordered_events__new_event
<1>2. /\ accepted \in Nat /\ serial \in [Objects -> 0..accepted] /\ handed \in Seq(1..accepted)
      /\ Len(handed) + Len(events) = accepted
      /\ \A i \in 1..Len(events) : serial[events[i]] >= 1
  BY OrderedEventsAssumption, SMTT(60) DEF NumberInv, HistType, CountInv
<1>3. Len(events) \in Nat /\ \A i \in 1..Len(events) : events[i] \in Objects
  BY ListFacts DEF QueueInv, ListInv
<1>4. Len(handed) \in Nat
  BY <1>2, SMTT(60)
<1>5. queued' \in Nat
  BY OrderedEventsAssumption, SMTT(60)
<1>6. CASE UNCHANGED <<events, serial, accepted>>
  BY <1>2, <1>5, <1>6, SMTT(60) DEF NumberInv, HistType, CountInv
<1>7. CASE queue_event(new, ts) /\ (last # NULL => last \in Range(events))
  <2>1. accepted' = accepted + 1 /\ serial' = [serial EXCEPT ![new] = accepted + 1]
    BY <1>7 DEF queue_event
  <2>2. /\ Len(events') = Len(events) + 1
        /\ \A i \in 1..Len(events') : \/ events'[i] = new
                                      \/ \E k \in 1..Len(events) : events'[i] = events[k]
    BY <1>1, <1>7, QueueLinks, TimestampIsNat
  <2>3. accepted' \in 0..queued'
    BY <1>2, <1>5, <2>1, SMTT(60)
  <2>4. serial' \in [Objects -> 0..accepted']
    BY <1>2, <2>1, SMTT(60)
  <2>5. handed' \in Seq(1..accepted')
    <3>1. 1..accepted \subseteq 1..accepted'
      BY <1>2, <2>1, SMTT(60)
    <3> QED
      BY <1>2, <3>1, WiderSeq
  <2>6. Len(handed') + Len(events') = accepted'
    BY <1>2, <1>3, <1>4, <2>1, <2>2, SMTT(60)
  <2>7. \A i \in 1..Len(events') : serial'[events'[i]] >= 1
    <3>1. serial'[new] >= 1
      BY <1>2, <2>1, SMTT(60)
    <3>2. \A k \in 1..Len(events) : serial'[events[k]] >= 1
      BY <1>2, <1>3, <2>1, SMTT(60)
    <3> QED
      BY <2>2, <3>1, <3>2
  <2> QED
    BY <2>3, <2>4, <2>5, <2>6, <2>7 DEF NumberInv, HistType, CountInv
<1> QED
  BY <1>1, <1>6, <1>7

\* Each step counts the events it queues and delivers.
LEMMA NumberStep ==
  QueueInv /\ LinkInv /\ LastHigh /\ CallInv /\ NumberInv /\ [Next]_vars => NumberInv'
<1> SUFFICES ASSUME QueueInv, LinkInv, LastHigh, CallInv, NumberInv, [Next]_vars
             PROVE  NumberInv'
  OBVIOUS
<1>0. /\ queued \in 0..MaxQueued /\ accepted \in 0..queued /\ MaxQueued \in Nat
      /\ serial \in [Objects -> 0..accepted] /\ handed \in Seq(1..accepted)
      /\ client # "closed" => Len(handed) + Len(events) = accepted
      /\ \A i \in 1..Len(events) : serial[events[i]] >= 1
  BY OrderedEventsAssumption DEF NumberInv, HistType, CountInv
<1>1. queued \in Nat /\ accepted \in Nat /\ accepted <= queued
  BY <1>0, SMTT(60)
<1>a. ASSUME UNCHANGED <<events, serial, accepted, handed>>, client # "closed",
             queued' \in 0..MaxQueued, queued <= queued'
      PROVE  NumberInv'
  <2>1. accepted' \in 0..queued'
    BY <1>0, <1>1, <1>a, SMTT(60)
  <2> QED
    BY <1>0, <1>a, <2>1 DEF NumberInv, HistType, CountInv
<1>b. ASSUME UNCHANGED <<events, hist_vars, client>> PROVE NumberInv'
  BY <1>0, <1>b DEF hist_vars, NumberInv, HistType, CountInv
<1>2. ASSUME NEW ts \in Timestamps, ordered_events__queue(ts) PROVE NumberInv'
  <2>0. queued' \in 0..MaxQueued /\ queued <= queued' /\ accepted < queued'
        /\ client = "reading" /\ pc # "wild"
    BY <1>0, <1>1, <1>2, SMTT(60) DEF ordered_events__queue
  <2>1. CASE QueueNoTime(ts)
    BY <1>a, <2>0, <2>1 DEF QueueNoTime, oe_vars
  <2>2. CASE QueueTimed(ts) /\ ordered_events__new_event(ts)
    <3>1. handed' = handed
      BY <2>2 DEF QueueTimed
    <3> QED
      BY <2>0, <2>2, <3>1, NewEventNumbers
  <2>3. CASE Flush("HALF", 0, ts)
    BY <1>a, <2>0, <2>3 DEF Flush
  <2> QED
    BY <1>2, <2>1, <2>2, <2>3 DEF ordered_events__queue, QueueTimed
<1>3. CASE QueueRetry
  <2>1. /\ queued' \in 0..MaxQueued /\ queued <= queued' /\ accepted < queued'
        /\ client = "reading" /\ pc # "wild" /\ handed' = handed /\ call.retry \in Timestamps
    BY <1>0, <1>1, <1>3, SMTT(60) DEF QueueRetry, CallInv, QueueInv, RetryInv
  <2>2. CASE ordered_events__new_event(call.retry)
    BY <2>1, <2>2, NewEventNumbers
  <2>3. CASE UNCHANGED <<events, serial, accepted>>
    BY <1>a, <2>1, <2>3
  <2> QED
    BY <1>3, <2>2, <2>3 DEF QueueRetry
<1>4. CASE FlushWhileReading
  <2>1. UNCHANGED <<events, serial, accepted, handed, queued>> /\ client # "closed"
    BY <1>4 DEF FlushWhileReading, Flush
  <2> QED
    BY <1>0, <1>1, <1>a, <2>1, SMTT(60)
<1>5. CASE FlushDeliver
  <2>1. /\ UNCHANGED <<queued, serial, accepted, client>> /\ client # "closed"
        /\ handed' = Append(handed, serial[Head(events)])
    BY <1>5 DEF FlushDeliver, CallInv
  <2>2. /\ Len(events) \in Nat /\ Len(events) >= 1 /\ Len(events') = Len(events) - 1
        /\ Head(events) = events[1]
        /\ \A i \in 1..Len(events') : \E k \in 1..Len(events) : events'[i] = events[k]
    BY <1>5, DeliverLinks
  <2>3. 1 \in 1..Len(events) /\ serial[events[1]] \in 1..accepted
    <3>1. 1 \in 1..Len(events) /\ events \in Seq(Objects)
      BY <2>2, SMTT(60) DEF QueueInv, ListInv
    <3>2. events[1] \in Objects
      BY <3>1, ListFacts
    <3>3. serial[events[1]] \in 0..accepted /\ serial[events[1]] >= 1
      BY <1>0, <3>1, <3>2
    <3> QED
      BY <3>1, <3>3, SMTT(60)
  <2>4. /\ handed' \in Seq(1..accepted) /\ Len(handed') = Len(handed) + 1
        /\ Len(handed) \in Nat
    BY <1>0, <2>1, <2>2, <2>3, SMTT(60)
  <2>5. Len(handed') + Len(events') = accepted'
    <3>1. Len(handed) + Len(events) = accepted /\ accepted' = accepted
      BY <1>0, <2>1
    <3>2. Len(handed') = Len(handed) + 1 /\ Len(handed) \in Nat
      BY <2>4
    <3>3. Len(events') = Len(events) - 1 /\ Len(events) \in Nat
      BY <2>2
    <3> QED
      BY <3>1, <3>2, <3>3, SMTT(60)
  <2>6. \A i \in 1..Len(events') : serial'[events'[i]] >= 1
    BY <1>0, <2>1, <2>2
  <2> QED
    BY <1>0, <2>1, <2>4, <2>5, <2>6 DEF NumberInv, HistType, CountInv
<1>6. CASE FlushBreakOff
  <2>1. UNCHANGED <<events, serial, accepted, handed, queued>> /\ client # "closed"
    BY <1>6 DEF FlushBreakOff, FlushReturn, CallInv
  <2> QED
    BY <1>0, <1>1, <1>a, <2>1, SMTT(60)
<1>7. CASE FlushEnd
  <2>1. UNCHANGED <<events, serial, accepted, handed, queued>> /\ client # "closed"
    BY <1>7 DEF FlushEnd, FlushReturn, CallInv
  <2> QED
    BY <1>0, <1>1, <1>a, <2>1, SMTT(60)
<1>8. CASE EndOfData
  <2>1. UNCHANGED <<events, serial, accepted, handed, queued>> /\ client # "closed"
    BY <1>8 DEF EndOfData, oe_vars, hist_vars
  <2> QED
    BY <1>0, <1>1, <1>a, <2>1, SMTT(60)
<1>9. CASE FinalFlush
  <2>1. UNCHANGED <<events, serial, accepted, handed, queued>> /\ client # "closed"
    BY <1>9 DEF FinalFlush, Flush
  <2> QED
    BY <1>0, <1>1, <1>a, <2>1, SMTT(60)
<1>10. CASE ordered_events__reinit
  <2>1. /\ UNCHANGED <<queued, accepted, handed>> /\ Len(events') = 0 /\ client' = "closed"
        /\ serial' = [n \in Objects |-> 0]
    BY <1>10 DEF ordered_events__reinit
  <2>2. serial' \in [Objects -> 0..accepted]
    BY <1>1, <2>1, SMTT(60)
  <2> QED
    BY <1>0, <2>1, <2>2, SMTT(60) DEF NumberInv, HistType, CountInv
<1>11. CASE SigInt
  BY <1>11, <1>b DEF SigInt, oe_vars
<1>12. CASE Finished \/ UNCHANGED vars
  BY <1>12, <1>b DEF Finished, vars, oe_vars, ctl_vars
<1> QED
  BY <1>2, <1>3, <1>4, <1>5, <1>6, <1>7, <1>8, <1>9, <1>10, <1>11, <1>12 DEF Next

\* The final flush ends with an empty list: its limit is the latest time there is.
LEMMA DoneStep ==
  CallerStops /\ QueueInv /\ TimeType /\ CallInv /\ DoneInv /\ [Next]_vars => DoneInv'
<1> SUFFICES ASSUME CallerStops, QueueInv, TimeType, CallInv, DoneInv, [Next]_vars,
                    client' = "flushed", ~session_done'
             PROVE  events' = <<>>
  BY DEF DoneInv
<1>a. ASSUME UNCHANGED <<events, client, session_done>> PROVE events' = <<>>
  BY <1>a DEF DoneInv
<1>b. ASSUME NEW err, Return(err), client = "reading" PROVE FALSE
  BY <1>b DEF Return
<1>c. ASSUME NEW how, NEW time, NEW retry, Flush(how, time, retry),
             client \in {"reading", "closing"}
      PROVE  events' = <<>>
  BY <1>c DEF Flush
<1>1. ASSUME NEW ts \in Timestamps, ordered_events__queue(ts) PROVE events' = <<>>
  <2>0. client = "reading"
    BY <1>1 DEF ordered_events__queue
  <2>1. CASE QueueNoTime(ts)
    BY <1>b, <2>0, <2>1 DEF QueueNoTime
  <2>2. CASE ordered_events__new_event(ts)
    BY <1>b, <2>0, <2>2 DEF ordered_events__new_event
  <2>3. CASE Flush("HALF", 0, ts)
    BY <1>c, <2>0, <2>3
  <2> QED
    BY <1>1, <2>1, <2>2, <2>3 DEF ordered_events__queue, QueueTimed
<1>2. CASE QueueRetry
  <2>0. client = "reading"
    BY <1>2 DEF QueueRetry, CallInv
  <2>1. CASE ordered_events__new_event(call.retry)
    BY <1>b, <2>0, <2>1 DEF ordered_events__new_event
  <2>2. CASE Return(TRUE)
    BY <1>b, <2>0, <2>2
  <2> QED
    BY <1>2, <2>1, <2>2 DEF QueueRetry
<1>3. CASE FlushWhileReading
  BY <1>3, <1>c DEF FlushWhileReading
<1>4. CASE FlushDeliver
  BY <1>4 DEF FlushDeliver, CallInv
<1>5. CASE FlushBreakOff
  <2>1. session_done' = session_done
    BY <1>5 DEF FlushBreakOff, FlushReturn
  <2>2. FlushReturn(TRUE) /\ "deliver" \in Faults /\ pc = "flush"
    BY <1>5, <2>1 DEF FlushBreakOff
  <2>3. StopOnError
    BY <2>2 DEF CallerStops
  <2>4. CASE call.retry # 0
    BY <2>2, <2>4 DEF FlushReturn, CallInv
  <2>5. CASE call.retry = 0
    <3>1. client' = "failed"
      BY <2>2, <2>3, <2>5 DEF FlushReturn, Return
    <3> QED
      BY <3>1
  <2> QED
    BY <2>4, <2>5
<1>6. CASE FlushEnd
  <2>1. events' = events /\ FlushReturn(FALSE) /\ pc = "flush" /\ ~Due
    BY <1>6 DEF FlushEnd
  <2>2. CASE client = "closing"
    <3>1. next_flush = ULLONG_MAX /\ ULLONG_MAX \in Nat /\ ULLONG_MAX # 0
      BY <2>1, <2>2, OrderedEventsAssumption, SMTT(60) DEF CallInv, ULLONG_MAX
    <3>2. SUFFICES ASSUME events # <<>> PROVE FALSE
      BY <2>1
    <3>3. events \in Seq(Objects)
      BY DEF QueueInv, ListInv
    <3>4. Head(events) \in Objects
      BY <3>2, <3>3, TailFacts
    <3>5. timestamp[Head(events)] \in 0..ULLONG_MAX
      BY <3>4 DEF TimeType
    <3> QED
      BY <2>1, <3>1, <3>2, <3>5, SMTT(60) DEF Due
  <2>3. CASE client = "reading"
    BY <1>b, <2>1, <2>3 DEF FlushReturn
  <2> QED
    BY <2>1, <2>2, <2>3 DEF CallInv
<1>7. CASE EndOfData
  BY <1>7 DEF EndOfData
<1>8. CASE FinalFlush
  BY <1>8, <1>c DEF FinalFlush
<1>9. CASE ordered_events__reinit
  BY <1>9 DEF ordered_events__reinit
<1>10. CASE SigInt
  BY <1>10 DEF SigInt
<1>11. CASE Finished \/ UNCHANGED vars
  BY <1>11, <1>a DEF Finished, vars, oe_vars, ctl_vars
<1> QED
  BY <1>1, <1>2, <1>3, <1>4, <1>5, <1>6, <1>7, <1>8, <1>9, <1>10, <1>11 DEF Next

\* While no signal came, a call of __ordered_events__flush starts with oe->last in
\* the list, and with its time in last_ts.
LEMMA FlushLast ==
  ASSUME QueueInv, TimeType, LinkInv, LastHigh, LastInv, pc = "idle",
         NEW how \in {"FINAL", "TOP", "HALF", "TIME", "ROUND"}, NEW time \in 0..ULLONG_MAX,
         NEW retry, retry # 0 => how = "HALF", Flush(how, time, retry),
         session_done' = session_done, ~session_done, client = "reading"
  PROVE  LastInv'
<1>1. UNCHANGED <<events, cache, used, timestamp, last>>
  BY DEF Flush
<1>2. InList' = InList
  BY <1>1 DEF InList
<1>3. CASE events = <<>>
  <2>1. pc' \in {"idle", "retry"} /\ last = NULL
    BY <1>3 DEF Flush, LastInv
  <2> QED
    BY <1>1, <1>3, <2>1 DEF LastInv
<1>4. CASE events # <<>>
  <2>1. /\ pc' = "flush" /\ next_flush' = FlushLimit(how, time)
        /\ call'.retry = retry
        /\ call'.last_ts = IF last = NULL THEN 0 ELSE timestamp[last]
    BY <1>4, SMTT(60) DEF Flush
  <2>2. InList /\ last # NULL
    BY <1>4 DEF LastInv, QueueInv, ListInv
  <2>3. how = "HALF" => FlushLimit(how, time) <= timestamp[last]
    BY <1>4, <2>2, FlushLimitType
  <2> QED
    BY <1>1, <1>2, <2>1, <2>2, <2>3 DEF LastInv
<1> QED
  BY <1>3, <1>4

\* Each step leaves oe->last where the next search may start, while no signal came
\* and the caller gives up a queue whose flush failed.
LEMMA LastStep ==
  CallerStops /\ QueueInv /\ TimeType /\ LinkInv /\ LastHigh /\ CallInv /\ LastInv
    /\ [Next]_vars => LastInv'
<1> SUFFICES ASSUME CallerStops, QueueInv, TimeType, LinkInv, LastHigh, CallInv, LastInv,
                    [Next]_vars, ~session_done', client' = "reading"
             PROVE  LastInv'
  BY DEF LastInv
<1>0. Timestamps \subseteq 0..ULLONG_MAX /\ 0 \in 0..ULLONG_MAX
  BY OrderedEventsAssumption, SMTT(60) DEF ULLONG_MAX
<1>a. ASSUME UNCHANGED <<oe_vars, pc, call, client, session_done>> PROVE LastInv'
  BY <1>a DEF oe_vars, LastInv, InList
<1>b. ASSUME NEW ts \in Timestamps, ordered_events__new_event(ts), pc # "wild" PROVE LastInv'
  <2>1. LinkInv' /\ LastHigh' /\ (pc' # "wild" => InList')
    BY <1>b, NewEventLinks
  <2>2. pc' \in {"idle", "wild"}
    BY <1>b DEF ordered_events__new_event, Return
  <2>3. InList' => events' # <<>>
    BY SMTT(60) DEF InList
  <2> QED
    BY <2>1, <2>2, <2>3 DEF LastInv
<1>c. ASSUME UNCHANGED <<events, last, client, session_done>>, pc' = "idle",
             pc \in {"idle", "retry"}
      PROVE  LastInv'
  BY <1>c DEF LastInv, InList
<1>1. ASSUME NEW ts \in Timestamps, ordered_events__queue(ts) PROVE LastInv'
  <2>0. client = "reading" /\ pc = "idle" /\ session_done' = session_done
    BY <1>1 DEF ordered_events__queue, QueueNoTime, QueueTimed
  <2>1. CASE QueueNoTime(ts)
    <3>1. UNCHANGED <<events, last>> /\ pc' = "idle"
      BY <2>1 DEF QueueNoTime, oe_vars, Return
    <3> QED
      BY <1>c, <2>0, <3>1
  <2>2. CASE ordered_events__new_event(ts)
    BY <1>b, <2>0, <2>2
  <2>3. CASE Flush("HALF", 0, ts)
    BY <1>0, <2>0, <2>3, FlushLast
  <2> QED
    BY <1>1, <2>1, <2>2, <2>3 DEF ordered_events__queue, QueueTimed
<1>2. CASE QueueRetry
  <2>0. /\ client = "reading" /\ pc = "retry" /\ session_done' = session_done
        /\ call.retry \in Timestamps
    BY <1>2 DEF QueueRetry, CallInv, QueueInv, RetryInv
  <2>1. CASE ordered_events__new_event(call.retry)
    BY <1>b, <2>0, <2>1
  <2>2. CASE Return(TRUE) /\ UNCHANGED <<events, last>>
    BY <1>c, <2>0, <2>2 DEF Return
  <2> QED
    BY <1>2, <2>1, <2>2 DEF QueueRetry
<1>3. CASE FlushWhileReading
  <2>1. PICK how \in Hows, time \in 0..ULLONG_MAX : Flush(how, time, 0)
    BY <1>0, <1>3 DEF FlushWhileReading
  <2>2. how \in {"FINAL", "TOP", "HALF", "TIME", "ROUND"}
    BY OrderedEventsAssumption
  <2>3. client = "reading" /\ pc = "idle" /\ session_done' = session_done
    BY <1>3 DEF FlushWhileReading
  <2> QED
    BY <2>1, <2>2, <2>3, FlushLast
<1>4. CASE FlushDeliver
  <2>1. /\ UNCHANGED <<timestamp, last, next_flush, pc, call, session_done, client>>
        /\ pc = "flush" /\ next_flush # 0
    BY <1>4 DEF FlushDeliver, Due
  <2>2. /\ \A i \in 1..Len(events') : \E k \in 1..Len(events) : events'[i] = events[k]
        /\ InList => \/ InList'
                     \/ /\ timestamp[last] <= next_flush
                        /\ \A i \in 1..Len(events') : timestamp[events'[i]] > timestamp[last]
    BY <1>4, DeliverLinks
  <2>3. /\ last # NULL /\ call.last_ts = timestamp[last]
        /\ call.retry # 0 => next_flush <= call.last_ts
        /\ InList \/ /\ next_flush # 0 /\ call.last_ts <= next_flush
                     /\ \A i \in 1..Len(events) : timestamp[events[i]] > timestamp[last]
    BY <2>1 DEF LastInv
  <2>4. InList' \/ /\ next_flush # 0 /\ call.last_ts <= next_flush
                   /\ \A i \in 1..Len(events') : timestamp[events'[i]] > timestamp[last]
    BY <2>1, <2>2, <2>3
  <2> QED
    BY <2>1, <2>3, <2>4 DEF LastInv
<1>5. CASE FlushBreakOff
  <2>1. session_done' = session_done /\ UNCHANGED <<events, last>>
    BY <1>5 DEF FlushBreakOff, FlushReturn
  <2>2. FlushReturn(TRUE) /\ "deliver" \in Faults /\ pc = "flush" /\ Due
    BY <1>5, <2>1 DEF FlushBreakOff
  <2>3. StopOnError
    BY <2>2 DEF CallerStops
  <2>4. call.retry # 0
    BY <2>2, <2>3 DEF FlushReturn, Return
  <2>5. client = "reading" /\ pc' = "retry"
    BY <2>2, <2>4 DEF FlushReturn
  <2>6. /\ next_flush <= timestamp[last] /\ last # NULL
        /\ InList \/ \A i \in 1..Len(events) : timestamp[events[i]] > timestamp[last]
    BY <2>1, <2>2, <2>4, <2>5 DEF LastInv
  <2>7. events \in Seq(Objects) /\ events # <<>> /\ timestamp[Head(events)] <= next_flush
    BY <2>2 DEF Due, QueueInv, ListInv
  <2>8. Len(events) >= 1 /\ Len(events) \in Nat /\ Head(events) = events[1] /\ events[1] \in Objects
    BY <2>7, ListFacts, TailFacts
  <2>9. /\ timestamp[events[1]] \in Nat /\ timestamp[last] \in Nat /\ next_flush \in Nat
        /\ 1 \in 1..Len(events)
    BY <2>6, <2>8, SMTT(60) DEF QueueInv, ListInv, TimeType
  <2>10. InList
    BY <2>6, <2>7, <2>8, <2>9, SMTT(60)
  <2>11. InList'
    BY <2>1, <2>10 DEF InList
  <2> QED
    BY <2>1, <2>5, <2>7, <2>11 DEF LastInv
<1>6. CASE FlushEnd
  <2>1. /\ UNCHANGED <<events, timestamp, session_done>> /\ last' = RefreshLast /\ pc = "flush"
        /\ pc' \in {"idle", "retry"}
    BY <1>6 DEF FlushEnd, FlushReturn, Return
  <2>2. client = "reading"
    <3>1. CASE client = "closing"
      BY <1>6, <3>1 DEF FlushEnd, FlushReturn, Return
    <3> QED
      BY <2>1, <3>1 DEF CallInv
  <2>0. ~session_done
    BY <2>1
  <2>3. InList \/ (next_flush # 0 /\ call.last_ts <= next_flush)
    BY <2>0, <2>1, <2>2 DEF LastInv
  <2>4. InList => events # <<>>
    BY SMTT(60) DEF InList
  <2>5. CASE next_flush # 0 /\ events = <<>>
    <3>1. last' = NULL
      BY <2>1, <2>5 DEF RefreshLast
    <3> QED
      BY <2>1, <2>5, <3>1 DEF LastInv
  <2>6. CASE next_flush # 0 /\ events # <<>> /\ call.last_ts <= next_flush
    <3>1. last' = Last(events)
      BY <2>1, <2>6 DEF RefreshLast
    <3>2. InList'
      BY <2>1, <2>6, <3>1, TailIsHigh DEF InList
    <3> QED
      BY <2>1, <2>6, <3>2 DEF LastInv
  <2>7. CASE next_flush = 0 \/ (events # <<>> /\ ~(call.last_ts <= next_flush))
    <3>1. last' = last /\ InList
      BY <2>1, <2>3, <2>7 DEF RefreshLast
    <3>2. InList'
      BY <2>1, <3>1 DEF InList
    <3> QED
      BY <2>1, <2>4, <3>1, <3>2 DEF LastInv
  <2> QED
    BY <2>5, <2>6, <2>7
<1>7. CASE EndOfData
  BY <1>7 DEF EndOfData
<1>8. CASE FinalFlush
  BY <1>8 DEF FinalFlush, Flush
<1>9. CASE ordered_events__reinit
  BY <1>9 DEF ordered_events__reinit
<1>10. CASE SigInt
  BY <1>10 DEF SigInt
<1>11. CASE Finished \/ UNCHANGED vars
  BY <1>11, <1>a DEF Finished, vars, ctl_vars
<1> QED
  BY <1>1, <1>2, <1>3, <1>4, <1>5, <1>6, <1>7, <1>8, <1>9, <1>10, <1>11 DEF Next

-----------------------------------------------------------------------------
(* What cur_alloc_size counts.                                             *)

\* The quotient and the remainder are the only ones.
LEMMA DivUnique ==
  ASSUME NEW m \in Nat, m > 0, NEW a \in Nat, NEW q \in Nat, NEW r \in Nat,
         a = m * q + r, r < m
  PROVE  a \div m = q /\ a % m = r
BY SMTT(60)

\* Every number has a quotient and a remainder.
LEMMA DivMod ==
  ASSUME NEW m \in Nat, m > 0, NEW a \in Nat
  PROVE  a \div m \in Nat /\ \E q, r \in Nat : a = m * q + r /\ r < m
<1>1. a \div m \in Nat /\ a % m \in 0..(m - 1) /\ a = m * (a \div m) + (a % m)
  BY SMTT(60)
<1> QED
  BY <1>1, SMTT(60)

\* One object more takes one buffer more when the buffers are full.
LEMMA OneObject ==
  ASSUME NEW m \in Nat, m > 1, NEW u \in Nat
  PROVE  (u + 1 + m - 1) \div m = (u + m - 1) \div m + (IF u % m # 0 THEN 0 ELSE 1)
<1>1. PICK q \in Nat, r \in Nat : u = m * q + r /\ r < m
  BY DivMod, SMTT(60)
<1>2. u % m = r
  BY <1>1, DivUnique, SMTT(60)
<1>3. m * (q + 1) = m * q + m /\ m * q \in Nat
  BY SMTT(60)
<1>4. (u + 1 + m - 1) \div m = q + 1
  BY <1>1, <1>3, DivUnique, SMTT(60)
<1>5. CASE r = 0
  <2>1. (u + m - 1) \div m = q
    BY <1>1, <1>5, DivUnique, SMTT(60)
  <2> QED
    BY <1>2, <1>4, <1>5, <2>1
<1>6. CASE r # 0
  <2>1. u + m - 1 = m * (q + 1) + (r - 1) /\ r - 1 \in Nat /\ u + m - 1 \in Nat
    BY <1>1, <1>3, <1>6, SMTT(60)
  <2>2. (u + m - 1) \div m = q + 1
    BY <1>1, <2>1, DivUnique, SMTT(60)
  <2> QED
    BY <1>2, <1>4, <1>6, <2>2, SMTT(60)
<1> QED
  BY <1>5, <1>6

\* The size of the buffers that the first u objects take.
Buffers(u) == BufferSize * ((u + MAX_SAMPLE_BUFFER - 1) \div MAX_SAMPLE_BUFFER)

\* The size of the copies of n events, and of one.
Copies(n) == IF CopyOnQueue THEN HeaderSize * n ELSE 0
CopySize == IF CopyOnQueue THEN HeaderSize ELSE 0

\* How the buffers and the copies grow.
LEMMA HeldSizes ==
  ASSUME NEW u \in Nat, NEW n \in Nat
  PROVE  /\ Buffers(u) \in Nat /\ Copies(n) \in Nat /\ CopySize \in Nat
         /\ Buffers(u + 1) = Buffers(u) + (IF u % MAX_SAMPLE_BUFFER # 0 THEN 0 ELSE BufferSize)
         /\ Copies(n + 1) = Copies(n) + CopySize
         /\ n >= 1 => Copies(n) = Copies(n - 1) + CopySize
<1>0. /\ BufferSize \in Nat /\ HeaderSize \in Nat /\ CopyOnQueue \in BOOLEAN
      /\ MAX_SAMPLE_BUFFER \in Nat /\ MAX_SAMPLE_BUFFER > 1
  BY OrderedEventsAssumption, SMTT(60)
<1> DEFINE b(x) == (x + MAX_SAMPLE_BUFFER - 1) \div MAX_SAMPLE_BUFFER
<1>1. b(u) \in Nat
  <2> DEFINE a == u + MAX_SAMPLE_BUFFER - 1
  <2>1. a \in Nat
    BY <1>0, SMTT(60)
  <2> HIDE DEF a
  <2>2. a \div MAX_SAMPLE_BUFFER \in Nat
    BY <1>0, <2>1, DivMod, SMTT(60)
  <2> QED
    BY <2>2 DEF a
<1>2. b(u + 1) = b(u) + (IF u % MAX_SAMPLE_BUFFER # 0 THEN 0 ELSE 1)
  BY <1>0, OneObject
<1>3. Buffers(u) = BufferSize * b(u) /\ Buffers(u + 1) = BufferSize * b(u + 1)
  BY DEF Buffers
<1> HIDE DEF b
<1>4. BufferSize * b(u) \in Nat /\ BufferSize * (b(u) + 1) = BufferSize * b(u) + BufferSize
  BY <1>0, <1>1, OneCopy
<1>5. Buffers(u) \in Nat
      /\ Buffers(u + 1) = Buffers(u) + (IF u % MAX_SAMPLE_BUFFER # 0 THEN 0 ELSE BufferSize)
  <2>1. CASE u % MAX_SAMPLE_BUFFER # 0
    BY <1>1, <1>2, <1>3, <1>4, <2>1, SMTT(60)
  <2>2. CASE ~(u % MAX_SAMPLE_BUFFER # 0)
    BY <1>1, <1>2, <1>3, <1>4, <2>2
  <2> QED
    BY <2>1, <2>2
<1>6. /\ HeaderSize * n \in Nat /\ HeaderSize * (n + 1) = HeaderSize * n + HeaderSize
      /\ n >= 1 => HeaderSize * n = HeaderSize * (n - 1) + HeaderSize
  BY <1>0, OneCopy
<1>7. /\ Copies(n) \in Nat /\ Copies(n + 1) = Copies(n) + CopySize
      /\ n >= 1 => Copies(n) = Copies(n - 1) + CopySize
  BY <1>0, <1>6, SMTT(60) DEF Copies, CopySize
<1> QED
  BY <1>0, <1>5, <1>7 DEF CopySize

\* The excess is what the size exceeds buffers and copies by.
LEMMA ExcessIs == Excess = cur_alloc_size - Buffers(used) - Copies(Len(events))
                  /\ Excess' = cur_alloc_size' - Buffers(used') - Copies(Len(events'))
BY DEF Excess, Buffers, Copies

\* The limit of the size, with the copy that __dup_event does not count.
SizeLimit == MaxAlloc + CopySize

\* cur_alloc_size stays below the limit.
LimitInv == cur_alloc_size < SizeLimit

\* What the steps may do to the excess.
ExcessStep ==
  \/ Excess' = Excess
  \/ client' = "closed" \/ pc' = "wild"
  \/ BufferRefused /\ UNCHANGED <<used, cache>> /\ Excess' = Excess + HeaderSize

\* Queueing an event adds what the event and its object need.
LEMMA NewEventExcess ==
  ASSUME QueueInv, LinkInv, SizeType, LimitInv, pc # "wild", NEW ts \in Timestamps,
         ordered_events__new_event(ts)
  PROVE  LimitInv' /\ ExcessStep
<1>1. PICK new \in Objects :
        /\ alloc_event(new)
        /\ \/ pc' = "wild"
           \/ queue_event(new, ts) /\ (last # NULL => last \in Range(events))
  BY DEF ordered_events__new_event
<1>2. /\ cur_alloc_size \in Nat /\ used \in Nat /\ MaxAlloc \in Nat /\ BufferSize \in Nat
      /\ CopyOnQueue \in BOOLEAN /\ HeaderSize \in Nat
  BY OrderedEventsAssumption, SMTT(60) DEF SizeType
<1>3. Len(events) \in Nat
  BY ListFacts DEF QueueInv, ListInv
<1> DEFINE n == Len(events)
<1>4. /\ Buffers(used) \in Nat /\ Copies(n) \in Nat /\ CopySize \in Nat
      /\ Buffers(used + 1)
           = Buffers(used) + (IF used % MAX_SAMPLE_BUFFER # 0 THEN 0 ELSE BufferSize)
      /\ Copies(n + 1) = Copies(n) + CopySize
  BY <1>2, <1>3, HeldSizes
<1>5. AfterDup = cur_alloc_size + CopySize /\ ~DupRefused /\ ~BufferRefused
  BY <1>1 DEF AfterDup, CopySize, alloc_event
<1>6. AfterDup < SizeLimit
  <2>1. CASE CopyOnQueue
    BY <1>2, <1>4, <1>5, <2>1, SMTT(60) DEF DupRefused, SizeLimit
  <2>2. CASE ~CopyOnQueue
    <3>1. CopySize = 0
      BY <2>2 DEF CopySize
    <3> QED
      BY <1>2, <1>5, <3>1, SMTT(60) DEF LimitInv, SizeLimit
  <2> QED
    BY <2>1, <2>2
<1>7. CASE cache # <<>>
  <2>1. cur_alloc_size' = AfterDup /\ used' = used
    BY <1>1, <1>7 DEF alloc_event
  <2>2. ASSUME queue_event(new, ts), last # NULL => last \in Range(events)
        PROVE  Excess' = Excess
    <3>1. Len(events') = n + 1
      BY <1>1, <2>2, QueueLinks, TimestampIsNat
    <3>2. Excess' = cur_alloc_size + CopySize - Buffers(used) - (Copies(n) + CopySize)
      <4>1. Excess' = cur_alloc_size' - Buffers(used') - Copies(Len(events'))
        BY ExcessIs
      <4>2. Copies(Len(events')) = Copies(n) + CopySize
        BY <1>4, <3>1
      <4>3. Buffers(used') = Buffers(used) /\ cur_alloc_size' = cur_alloc_size + CopySize
        BY <1>5, <2>1
      <4> QED
        BY <1>2, <1>4, <4>1, <4>2, <4>3, SMTT(60)
    <3>3. Excess = cur_alloc_size - Buffers(used) - Copies(n)
      BY ExcessIs
    <3> QED
      BY <1>2, <1>4, <3>2, <3>3, SMTT(60)
  <2>3. LimitInv'
    BY <1>6, <2>1 DEF LimitInv, SizeLimit, CopySize
  <2> QED
    BY <1>1, <2>2, <2>3 DEF ExcessStep
<1>8. CASE cache = <<>>
  <2> DEFINE b == IF buffer THEN 0 ELSE BufferSize
  <2>1. cur_alloc_size' = AfterDup + b /\ used' = used + 1
    BY <1>1, <1>8 DEF alloc_event
  <2>2. b = IF used % MAX_SAMPLE_BUFFER # 0 THEN 0 ELSE BufferSize
    BY DEF buffer
  <2>3. b \in Nat
    BY <1>2
  <2>4. ASSUME queue_event(new, ts), last # NULL => last \in Range(events)
        PROVE  Excess' = Excess
    <3>1. Len(events') = n + 1
      BY <1>1, <2>4, QueueLinks, TimestampIsNat
    <3>2. Buffers(used') = Buffers(used) + b
      BY <1>4, <2>1, <2>2
    <3>3. Excess' = cur_alloc_size + CopySize + b - (Buffers(used) + b) - (Copies(n) + CopySize)
      <4>1. Excess' = cur_alloc_size' - Buffers(used') - Copies(Len(events'))
        BY ExcessIs
      <4>2. Copies(Len(events')) = Copies(n) + CopySize
        BY <1>4, <3>1
      <4>3. cur_alloc_size' = cur_alloc_size + CopySize + b
        BY <1>5, <2>1
      <4> QED
        BY <1>2, <1>4, <2>3, <3>2, <4>1, <4>2, <4>3, SMTT(60)
    <3>4. Excess = cur_alloc_size - Buffers(used) - Copies(n)
      BY ExcessIs
    <3> HIDE DEF b
    <3> QED
      BY <1>2, <1>4, <2>3, <3>3, <3>4, SMTT(60)
  <2>5. LimitInv'
    <3>1. AfterDup \in Nat /\ SizeLimit \in Nat /\ SizeLimit >= MaxAlloc
      BY <1>2, <1>4, <1>5, SMTT(60) DEF SizeLimit
    <3>2. CASE buffer
      BY <1>6, <2>1, <3>1, <3>2, SMTT(60) DEF LimitInv, SizeLimit, CopySize
    <3>3. CASE ~buffer
      <4>1. AfterDup + BufferSize < MaxAlloc /\ cur_alloc_size' = AfterDup + BufferSize
        BY <1>2, <1>5, <1>8, <2>1, <3>1, <3>3, SMTT(60) DEF BufferRefused
      <4>2. cur_alloc_size' < SizeLimit
        BY <1>2, <3>1, <4>1, SMTT(60)
      <4> QED
        BY <4>2 DEF LimitInv, SizeLimit, CopySize
    <3> QED
      BY <3>2, <3>3
  <2> QED
    BY <1>1, <2>4, <2>5 DEF ExcessStep
<1> QED
  BY <1>7, <1>8

\* An allocation that the limit refuses keeps the copy; no other failure keeps one.
LEMMA AllocFailsExcess ==
  ASSUME QueueInv, SizeType, LimitInv, alloc_event_fails, events' = events
  PROVE  LimitInv' /\ ExcessStep
<1>1. /\ cur_alloc_size \in Nat /\ used \in Nat /\ MaxAlloc \in Nat
      /\ CopyOnQueue \in BOOLEAN /\ HeaderSize \in Nat /\ CopySize \in Nat
  BY OrderedEventsAssumption, SMTT(60) DEF SizeType, CopySize
<1>2. Len(events) \in Nat
  BY ListFacts DEF QueueInv, ListInv
<1>3. Buffers(used) \in Nat /\ Copies(Len(events)) \in Nat
  BY <1>1, <1>2, HeldSizes
<1>4. used' = used /\ cache' = cache
  BY DEF alloc_event_fails
<1>5. /\ Excess = cur_alloc_size - Buffers(used) - Copies(Len(events))
      /\ Excess' = cur_alloc_size' - Buffers(used) - Copies(Len(events))
  BY <1>4, ExcessIs
<1>6. CASE cur_alloc_size' = cur_alloc_size
  BY <1>5, <1>6 DEF ExcessStep, LimitInv, SizeLimit, CopySize
<1>7. CASE ~DupRefused /\ BufferRefused /\ cur_alloc_size' = AfterDup
  <2>1. cur_alloc_size' = cur_alloc_size + CopySize
    BY <1>7 DEF AfterDup, CopySize
  <2>2. CASE CopyOnQueue
    <3>1. CopySize = HeaderSize /\ cur_alloc_size < MaxAlloc
      BY <1>1, <1>7, <2>2, SMTT(60) DEF CopySize, DupRefused
    <3>2. Excess' = Excess + HeaderSize
      BY <1>1, <1>3, <1>5, <2>1, <3>1, SMTT(60)
    <3>3. cur_alloc_size' < MaxAlloc + CopySize
      BY <1>1, <2>1, <3>1, SMTT(60)
    <3> QED
      BY <1>4, <1>7, <3>2, <3>3 DEF ExcessStep, LimitInv, SizeLimit, CopySize
  <2>3. CASE ~CopyOnQueue
    <3>1. cur_alloc_size' = cur_alloc_size
      BY <1>1, <2>1, <2>3, SMTT(60) DEF CopySize
    <3> QED
      BY <1>6, <3>1
  <2> QED
    BY <2>2, <2>3
<1> QED
  BY <1>6, <1>7 DEF alloc_event_fails

\* Each step keeps the size below its limit, and changes the excess only as said.
LEMMA SizesStep ==
  QueueInv /\ LinkInv /\ LastHigh /\ SizeType /\ LimitInv /\ [Next]_vars
    => LimitInv' /\ ExcessStep
<1> SUFFICES ASSUME QueueInv, LinkInv, LastHigh, SizeType, LimitInv, [Next]_vars
             PROVE  LimitInv' /\ ExcessStep
  OBVIOUS
<1>a. ASSUME UNCHANGED <<events, used, cur_alloc_size>> PROVE LimitInv' /\ ExcessStep
  BY <1>a DEF LimitInv, SizeLimit, CopySize, ExcessStep, Excess
<1>1. ASSUME NEW ts \in Timestamps, ordered_events__queue(ts) PROVE LimitInv' /\ ExcessStep
  <2>1. CASE QueueNoTime(ts)
    BY <1>a, <2>1 DEF QueueNoTime, oe_vars
  <2>2. CASE ordered_events__new_event(ts)
    BY <1>1, <2>2, NewEventExcess DEF ordered_events__queue
  <2>3. CASE alloc_event_fails /\ Flush("HALF", 0, ts)
    BY <2>3, AllocFailsExcess DEF Flush
  <2> QED
    BY <1>1, <2>1, <2>2, <2>3 DEF ordered_events__queue, QueueTimed
<1>2. CASE QueueRetry
  <2>1. pc # "wild" /\ call.retry \in Timestamps
    BY <1>2 DEF QueueRetry, QueueInv, RetryInv
  <2>2. CASE ordered_events__new_event(call.retry)
    BY <2>1, <2>2, NewEventExcess
  <2>3. CASE alloc_event_fails /\ events' = events
    BY <2>3, AllocFailsExcess
  <2> QED
    BY <1>2, <2>2, <2>3 DEF QueueRetry
<1>3. CASE FlushWhileReading
  BY <1>3, <1>a DEF FlushWhileReading, Flush
<1>4. CASE FlushDeliver
  <2> DEFINE n == Len(events)
  <2>1. used' = used /\ cur_alloc_size' = FreeDup
    BY <1>4 DEF FlushDeliver
  <2>2. n \in Nat /\ n >= 1 /\ Len(events') = n - 1
    BY <1>4, DeliverLinks
  <2>3. cur_alloc_size \in Nat /\ used \in Nat /\ CopySize \in Nat /\ MaxAlloc \in Nat
    BY OrderedEventsAssumption, SMTT(60) DEF SizeType, CopySize
  <2>4. cur_alloc_size' = cur_alloc_size - CopySize
    BY <2>1 DEF FreeDup, CopySize
  <2>5. /\ Buffers(used) \in Nat /\ Copies(n) = Copies(n - 1) + CopySize
    BY <2>2, <2>3, HeldSizes
  <2>6. n - 1 \in Nat
    BY <2>2, SMTT(60)
  <2>7. Copies(n - 1) \in Nat
    BY <2>3, <2>6, HeldSizes
  <2>8. Excess' = cur_alloc_size - CopySize - Buffers(used) - Copies(n - 1)
    <3>1. Excess' = cur_alloc_size' - Buffers(used') - Copies(Len(events'))
      BY ExcessIs
    <3>2. Copies(Len(events')) = Copies(n - 1) /\ Buffers(used') = Buffers(used)
      BY <2>1, <2>2
    <3> QED
      BY <2>4, <3>1, <3>2
  <2>9. Excess = cur_alloc_size - Buffers(used) - (Copies(n - 1) + CopySize)
    BY <2>5, ExcessIs
  <2>10. Excess' = Excess
    BY <2>3, <2>5, <2>7, <2>8, <2>9, SMTT(60)
  <2>11. cur_alloc_size' < MaxAlloc + CopySize
    BY <2>3, <2>4, SMTT(60) DEF LimitInv, SizeLimit
  <2> QED
    BY <2>10, <2>11 DEF ExcessStep, LimitInv, SizeLimit, CopySize
<1>5. CASE FlushBreakOff
  BY <1>5, <1>a DEF FlushBreakOff, FlushReturn
<1>6. CASE FlushEnd
  BY <1>6, <1>a DEF FlushEnd, FlushReturn
<1>7. CASE EndOfData
  BY <1>7, <1>a DEF EndOfData, oe_vars
<1>8. CASE FinalFlush
  BY <1>8, <1>a DEF FinalFlush, Flush
<1>9. CASE ordered_events__reinit
  <2>1. cur_alloc_size' = 0 /\ client' = "closed"
    BY <1>9 DEF ordered_events__reinit
  <2>2. SizeLimit \in Nat /\ cur_alloc_size \in Nat /\ cur_alloc_size < SizeLimit
    BY OrderedEventsAssumption, SMTT(60) DEF SizeLimit, CopySize, LimitInv, SizeType
  <2>3. 0 < SizeLimit
    BY <2>2, SMTT(60)
  <2> QED
    BY <2>1, <2>3 DEF ExcessStep, LimitInv, SizeLimit, CopySize
<1>10. CASE SigInt
  BY <1>10, <1>a DEF SigInt, oe_vars
<1>11. CASE Finished \/ UNCHANGED vars
  BY <1>11, <1>a DEF Finished, vars, oe_vars
<1> QED
  BY <1>1, <1>2, <1>3, <1>4, <1>5, <1>6, <1>7, <1>8, <1>9, <1>10, <1>11 DEF Next

-----------------------------------------------------------------------------
(* The theorems about the objects.                                         *)

\* What holds whatever the caller does with an error.
ObjectInv ==
  /\ QueueInv /\ LinkInv /\ LastHigh /\ CallInv
  /\ TimeType /\ CtlType /\ SizeInv /\ NumberInv

\* ordered_events__init makes it hold.
LEMMA ObjectInvInit == Init => ObjectInv /\ DoneInv /\ LastInv
<1> SUFFICES ASSUME Init PROVE ObjectInv /\ DoneInv /\ LastInv
  OBVIOUS
<1>1. QueueInv
  BY QueueInvInit
<1>2. Len(events) = 0 /\ Len(cache) = 0 /\ Len(handed) = 0
  BY DEF Init
<1>3. 0 \in 0..ULLONG_MAX /\ MaxQueued \in Nat /\ HeaderSize \in Nat
  BY OrderedEventsAssumption, SMTT(60) DEF ULLONG_MAX
<1>4. LinkInv /\ LastHigh
  BY <1>2, SMTT(60) DEF Init, LinkInv, LastHigh
<1>5. CallInv /\ DoneInv
  BY DEF Init, CallInv, DoneInv
<1>6. LastInv
  BY DEF Init, LastInv
<1>7. TimeType
  BY <1>3 DEF Init, TimeType
<1>8. CtlType
  <2>1. call.retry = 0 /\ call.last_ts = 0 /\ call.how = "NONE"
    BY DEF Init, NoCall
  <2> QED
    BY <1>3, <2>1 DEF Init, CtlType
<1>9. SizeInv
  BY <1>2, <1>3, SMTT(60) DEF Init, SizeInv, SizeType, HeldInv
<1>10. NumberInv
  BY <1>2, <1>3, SMTT(60) DEF Init, NumberInv, HistType, CountInv
<1> QED
  BY <1>1, <1>4, <1>5, <1>6, <1>7, <1>8, <1>9, <1>10 DEF ObjectInv

\* Every step keeps it.
LEMMA ObjectInvNext == ObjectInv /\ [Next]_vars => ObjectInv'
BY QueueInvNext, LinkStep, CallStep, TimeStep, CtlStep, SizeStep, NumberStep
DEF ObjectInv, NumberInv

\* The types hold in every state of the queue and of its callers.
THEOREM TypeCorrect == Spec => []TypeOK
<1>1. ObjectInv => TypeOK
  BY TypeParts DEF ObjectInv, SizeInv, NumberInv
<1>2. Init => ObjectInv
  BY ObjectInvInit
<1> QED
  BY ObjectInvNext, <1>1, <1>2, PTL DEF Spec

\* An object of the buffers is on exactly one of the lists and at one place of it.
LEMMA LinkedOnceHolds == ObjectInv /\ LastInv => LinkedOnce
<1> SUFFICES ASSUME ObjectInv, LastInv PROVE LinkedOnce
  OBVIOUS
<1>1. TypeOK
  BY TypeParts DEF ObjectInv, SizeInv, NumberInv
<1>2. /\ events \in Seq(Objects) /\ cache \in Seq(Objects) /\ used \in Nat
      /\ \A i \in 1..Len(events) : events[i] <= used
      /\ \A i \in 1..Len(cache) : cache[i] <= used
  BY DEF ObjectInv, QueueInv, ListInv
<1> DEFINE n == Len(events)
           m == Len(cache)
           l == events \o cache
<1>3. /\ n \in Nat /\ m \in Nat
      /\ \A i \in 1..n : events[i] \in Objects
      /\ \A i \in 1..m : cache[i] \in Objects
      /\ Range(events) = {events[i] : i \in 1..n}
  BY <1>2, ListFacts
<1>4. /\ l \in Seq(Objects) /\ Len(l) = n + m
      /\ \A i \in 1..(n + m) : l[i] = IF i <= n THEN events[i] ELSE cache[i - n]
  BY <1>2, SMTT(60)
<1>5. Range(l) = {l[i] : i \in 1..(n + m)}
  BY <1>4, ListFacts
<1> HIDE DEF l
<1>6. ASSUME pc # "wild" PROVE Len(l) = used /\ Range(l) = 1..used
  <2>1. /\ n + m = used
        /\ \A o \in 1..used : (\E i \in 1..n : events[i] = o) \/ (\E i \in 1..m : cache[i] = o)
    BY <1>6 DEF ObjectInv, LinkInv
  <2>2. \A i \in 1..n : i \in 1..(n + m) /\ l[i] = events[i]
    BY <1>3, <1>4, SMTT(60)
  <2>3. \A i \in 1..m : i + n \in 1..(n + m) /\ l[i + n] = cache[i]
    BY <1>3, <1>4, SMTT(60)
  <2>4. ASSUME NEW o \in 1..used PROVE o \in Range(l)
    BY <1>5, <2>1, <2>2, <2>3, <2>4
  <2>5. ASSUME NEW i \in 1..(n + m) PROVE l[i] \in 1..used
    <3>1. CASE i <= n
      <4>1. i \in 1..n /\ l[i] = events[i]
        BY <1>3, <1>4, <3>1, SMTT(60)
      <4> QED
        BY <1>2, <1>3, <4>1, SMTT(60) DEF Objects
    <3>2. CASE ~(i <= n)
      <4>1. i - n \in 1..m /\ l[i] = cache[i - n]
        BY <1>3, <1>4, <3>2, SMTT(60)
      <4> QED
        BY <1>2, <1>3, <4>1, SMTT(60) DEF Objects
    <3> QED
      BY <3>1, <3>2
  <2>6. Range(l) = 1..used
    BY <1>5, <2>4, <2>5
  <2> QED
    BY <1>4, <2>1, <2>6
<1>7. InList => last \in Range(events)
  BY <1>3 DEF InList
<1> QED
  BY <1>1, <1>6, <1>7 DEF LinkedOnce, LastInv, l

\* No object is lost or linked twice, and each search of queue_event starts inside
\* the list (or in an empty one), for every caller that gives up a queue whose flush
\* failed, as long as no signal arrived.
THEOREM LinkedOnceCorrect == CallerStops => (Spec => []LinkedOnce)
<1> SUFFICES ASSUME CallerStops PROVE Spec => []LinkedOnce
  OBVIOUS
<1>1. Init => ObjectInv /\ LastInv
  BY ObjectInvInit
<1>2. ObjectInv /\ LastInv /\ [Next]_vars => ObjectInv' /\ LastInv'
  BY ObjectInvNext, LastStep DEF ObjectInv
<1> QED
  BY <1>1, <1>2, LinkedOnceHolds, PTL DEF Spec

\* A reader that reaches the end without an error and without a signal has delivered
\* every event it queued: the final flush has the latest time as its limit, and what
\* was delivered and what waits is always what was queued.
THEOREM AllDeliveredCorrect == CallerStops => (Spec => []AllDelivered)
<1> SUFFICES ASSUME CallerStops PROVE Spec => []AllDelivered
  OBVIOUS
<1>1. Init => ObjectInv /\ DoneInv
  BY ObjectInvInit
<1>2. ObjectInv /\ DoneInv /\ [Next]_vars => ObjectInv' /\ DoneInv'
  BY ObjectInvNext, DoneStep DEF ObjectInv
<1>3. ObjectInv /\ DoneInv => AllDelivered
  <2> SUFFICES ASSUME ObjectInv, DoneInv, client = "flushed", ~session_done
               PROVE  Len(handed) = accepted
    BY DEF AllDelivered
  <2>1. Len(events) = 0 /\ Len(handed) + Len(events) = accepted /\ handed \in Seq(1..accepted)
    BY DEF ObjectInv, DoneInv, NumberInv, HistType, CountInv
  <2>2. Len(handed) \in Nat
    BY <2>1, SMTT(60)
  <2> QED
    BY <2>1, <2>2, SMTT(60)
<1> QED
  BY <1>1, <1>2, <1>3, PTL DEF Spec

\* cur_alloc_size is what the buffers and the copies take but for the copies that a
\* refused buffer loses, and goes over a limit that is not 0 by less than one copy.
THEOREM AllocAccountingCorrect == MaxAlloc > 0 => (Spec => AllocAccounting)
<1> SUFFICES ASSUME MaxAlloc > 0 PROVE Spec => AllocAccounting
  OBVIOUS
<1>1. Init => ObjectInv /\ LimitInv
  <2>1. SizeLimit > 0
    BY OrderedEventsAssumption, SMTT(60) DEF SizeLimit, CopySize
  <2>2. Init => LimitInv
    BY <2>1 DEF Init, LimitInv
  <2> QED
    BY <2>2, ObjectInvInit
<1>2. ObjectInv /\ LimitInv /\ [Next]_vars => ObjectInv' /\ LimitInv' /\ ExcessStep
  BY ObjectInvNext, SizesStep DEF ObjectInv, SizeInv
<1>3. LimitInv => cur_alloc_size < MaxAlloc + (IF CopyOnQueue THEN HeaderSize ELSE 0)
  BY DEF LimitInv, SizeLimit, CopySize
<1>4. ExcessStep => \/ Excess' = Excess
                    \/ client' = "closed" \/ pc' = "wild"
                    \/ /\ BufferRefused /\ UNCHANGED <<used, cache>>
                       /\ Excess' = Excess + HeaderSize
  BY DEF ExcessStep
<1> QED
  BY <1>1, <1>2, <1>3, <1>4, PTL DEF Spec, AllocAccounting
=============================================================================
