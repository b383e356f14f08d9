------------------------- MODULE RecordReportProofs -------------------------
(***************************************************************************)
(* Proofs about the way of an event from a ring buffer to the report: a    *)
(* forward ring buffer, for every size of the buffer and of the events,    *)
(* any number of descriptors and both ways to read it; the order of the    *)
(* FINISHED_ROUND pseudo events that process_finished_round                *)
(* (util/session.c) flushes on, for any number of ring buffers, any times  *)
(* and any number of events; and that recording and reading together merge *)
(* the buffers by time.                                                    *)
(***************************************************************************)
EXTENDS PerfMmap, RecordReport, FiniteSetTheorems, TLAPS

\* The provers: Zenon unless a step names the SMT solver.
USE ZenonT(60)

-----------------------------------------------------------------------------
(* Sequences.                                                              *)

\* What a sequence is: its length, its domain and its elements.
LEMMA SeqFacts ==
  ASSUME NEW S, NEW s \in Seq(S)
  PROVE  /\ Len(s) \in Nat /\ DOMAIN s = 1..Len(s)
         /\ \A i \in DOMAIN s : s[i] \in S
BY SMTT(60)

\* One sequence after the other.
LEMMA SeqConcat ==
  ASSUME NEW S, NEW s \in Seq(S), NEW t \in Seq(S)
  PROVE  /\ s \o t \in Seq(S) /\ Len(s \o t) = Len(s) + Len(t)
         /\ \A i \in 1..(Len(s) + Len(t)) :
               (s \o t)[i] = IF i <= Len(s) THEN s[i] ELSE t[i - Len(s)]
BY SMTT(60)

-----------------------------------------------------------------------------
(* Positions and the units they are stored in.                             *)

\* The buffer has units.
LEMMA SizeFact == Size \in Nat \ {0}
BY PerfMmapAssumption

\* Division with remainder.
LEMMA DivMod ==
  ASSUME NEW p \in Nat
  PROVE  /\ p % Size \in 0..(Size - 1) /\ p \div Size \in Nat
         /\ p = Size * (p \div Size) + (p % Size)
BY SizeFact, SMTT(60)

\* The only multiple of Size nearer to 0 than Size is 0.
LEMMA SmallMultiple ==
  ASSUME NEW k \in Int, NEW d \in Int, Size * k = d, d < Size, -Size < d
  PROVE  d = 0
BY SizeFact, SMTT(60)

\* Two positions less than Size apart are stored in different units.
LEMMA SameUnit ==
  ASSUME NEW p \in Nat, NEW q \in Nat, p % Size = q % Size, p <= q, q - p < Size
  PROVE  p = q
<1>1. q - p = Size * (q \div Size - p \div Size)
  BY SizeFact, DivMod, SMTT(60)
<1> QED
  BY <1>1, SizeFact, DivMod, SmallMultiple, SMTT(60)

\* The unit of a position d further on, if that is not behind the end.
LEMMA UnitBehind ==
  ASSUME NEW p \in Nat, NEW d \in Nat, (p % Size) + d < Size
  PROVE  (p + d) % Size = (p % Size) + d
<1> DEFINE k == p \div Size
           l == (p + d) \div Size
           m == p % Size
           r == (p + d) % Size
<1>1. k \in Nat /\ m \in 0..(Size - 1) /\ p = Size * k + m
  BY DivMod
<1>2. l \in Nat /\ r \in 0..(Size - 1) /\ p + d = Size * l + r
  <2>1. p + d \in Nat
    BY SMTT(60)
  <2> QED
    BY <2>1, DivMod
<1>3. m + d < Size
  OBVIOUS
<1> HIDE DEF k, l, m, r
<1>4. Size * (l - k) = m + d - r
  BY <1>1, <1>2, SizeFact, SMTT(60)
<1>5. /\ l - k \in Int /\ m + d - r \in Int
      /\ m + d - r < Size /\ -Size < m + d - r
  BY <1>1, <1>2, <1>3, SizeFact, SMTT(60)
<1>6. m + d - r = 0
  BY <1>4, <1>5, SmallMultiple
<1>7. r = m + d
  BY <1>1, <1>2, <1>6, SizeFact, SMTT(60)
<1> QED
  BY <1>7 DEF r, m

\* The first part of perf_mmap__push ends at the end of the buffer or before the
\* end of the data.
LEMMA FirstPartFits ==
  ASSUME start \in Nat, end \in Nat, start <= end, end - start <= Size, Straddles
  PROVE  /\ Size - (start % Size) \in Nat
         /\ start + (Size - (start % Size)) <= end
<1>1. start % Size \in 0..(Size - 1)
  BY DivMod
<1>2. ~((start % Size) + (end - start) < Size)
  <2> SUFFICES ASSUME (start % Size) + (end - start) < Size PROVE FALSE
    OBVIOUS
  <2>1. (start + (end - start)) % Size = (start % Size) + (end - start)
    BY UnitBehind, SMTT(60)
  <2>2. start + (end - start) = end
    BY SMTT(60)
  <2> QED
    BY <2>1, <2>2 DEF Straddles
<1> QED
  BY <1>1, <1>2, SizeFact, SMTT(60)

-----------------------------------------------------------------------------
(* The inductive invariant.                                                *)

\* The places of perf_mmap__push, and of the loop that reads by event.
Pushing == {"push_init", "push_first", "push_second", "push_done"}
Reading == {"read_event", "consume", "read_done"}

\* How the positions lie to each other: perf_mmap__push gives back what it found
\* at its first look at the head, and writes out what it found at its second.
PosInv ==
  /\ head - tail <= Size
  /\ pc \in Pushing => reader = "push" /\ prev <= pushed_head /\ pushed_head <= head
  /\ pc \in Pushing \ {"push_init"} => pushed_head <= end /\ end <= head
  /\ pc = "push_first" => start = prev
  /\ pc = "push_second" => prev <= start /\ start <= end
  /\ pc \in Reading => reader = "read"
  /\ pc \in {"read_event", "consume"} => start = prev

\* The last Size positions are in the buffer.
DataInv == \A p \in 0..(head - 1) : p >= head - Size => data[p % Size] = p

\* Every event but the last is followed by another, and the next event of
\* perf_mmap__read_event starts at prev.
EventsInv ==
  /\ \A p \in 0..MaxHead :
       /\ p >= head => sizes[p] = NoSize
       /\ sizes[p] # NoSize =>
            /\ p + sizes[p] <= head
            /\ p + sizes[p] < head => sizes[p + sizes[p]] # NoSize
  /\ reader = "read" /\ prev < head => sizes[prev] # NoSize

\* What was written out or returned.
OutInv ==
  /\ reader = "push" => \A p \in 0..(prev - 1) : p \in Written
  /\ pc = "push_second" => \A p \in prev..(start - 1) : p \in Written
  /\ pc = "push_done" => \A p \in prev..(end - 1) : p \in Written
  /\ reader = "read" => \A i \in DOMAIN out : out[i] < prev

\* One reference for each descriptor that has not hung up, and one for the last
\* events.
RefInv ==
  /\ open_fds + hups <= NrFds
  /\ base => refcnt = 1 + open_fds + hups
  /\ ~base => refcnt = 0 /\ open_fds = 0 /\ hups = 0
  /\ ~base /\ reader = "push" => pc = "idle" /\ prev = head

\* The inductive invariant.
Inv == TypeOK /\ PosInv /\ DataInv /\ EventsInv /\ OutInv /\ RefInv

-----------------------------------------------------------------------------
(* What is stored, and what is written out.                                *)

\* An event that fits behind the tail overwrites none of the positions that
\* count, and its own positions are stored.
LEMMA WriteKeepsData ==
  ASSUME Inv, NEW size \in EventSizes, KernelWrite(size)
  PROVE  DataInv'
<1>1. /\ head \in Nat /\ size \in 1..Size /\ Size \in Nat \ {0} /\ head' = head + size
      /\ DOMAIN data = 0..(Size - 1)
  BY PerfMmapAssumption, SMTT(60) DEF Inv, TypeOK, KernelWrite
<1> SUFFICES ASSUME NEW p \in 0..(head + size - 1), p >= head + size - Size
             PROVE  data'[p % Size] = p
  BY <1>1, SMTT(60) DEF DataInv
<1>2. p \in Nat /\ p % Size \in 0..(Size - 1)
  <2>1. p \in Nat
    BY <1>1, SMTT(60)
  <2> QED
    BY <2>1, DivMod
<1>3. data'[p % Size] =
        IF \E i \in 0..(size - 1) : (head + i) % Size = p % Size
        THEN CHOOSE q \in head..(head + size - 1) : q % Size = p % Size
        ELSE data[p % Size]
  BY <1>1, <1>2 DEF KernelWrite
<1>4. CASE p >= head
  <2>1. p - head \in 0..(size - 1) /\ head + (p - head) = p
    BY <1>1, <1>4, SMTT(60)
  <2>2. \E i \in 0..(size - 1) : (head + i) % Size = p % Size
    BY <2>1
  <2>3. ASSUME NEW q \in head..(head + size - 1), q % Size = p % Size
        PROVE  q = p
    <3>1. q \in Nat /\ q - p < Size /\ p - q < Size
      BY <1>1, <1>2, <1>4, SMTT(60)
    <3> QED
      BY <1>2, <2>3, <3>1, SameUnit, SMTT(60)
  <2>4. p \in head..(head + size - 1)
    BY <1>1, <1>4, SMTT(60)
  <2> QED
    BY <1>3, <2>2, <2>3, <2>4
<1>5. CASE p < head
  <2>1. ASSUME NEW i \in 0..(size - 1), (head + i) % Size = p % Size
        PROVE  FALSE
    <3> DEFINE q == head + i
    <3>1. q \in Nat /\ p <= q /\ q - p < Size /\ q # p
      BY <1>1, <1>2, <1>5, SMTT(60)
    <3>2. p % Size = q % Size
      BY <2>1
    <3> HIDE DEF q
    <3> QED
      BY <1>2, <3>1, <3>2, SameUnit
  <2>2. p \in 0..(head - 1) /\ p >= head - Size
    BY <1>1, <1>5, SMTT(60)
  <2> QED
    BY <1>3, <2>1, <2>2 DEF Inv, DataInv
<1> QED
  BY <1>1, <1>2, <1>4, <1>5, SMTT(60)

\* The units from one position up to another hold these positions, as long as
\* the reader did not hand them back.
LEMMA UnitsIntact ==
  ASSUME Inv, NEW from \in Nat, NEW to \in Nat, prev <= from, from <= to, to <= head
  PROVE  /\ Units(from, to) = [i \in 1..(to - from) |-> from + i - 1]
         /\ Units(from, to) \in Seq(0..MaxHead)
         /\ Len(Units(from, to)) = to - from
<1>1. head \in 0..MaxHead /\ prev \in 0..MaxHead /\ head - prev <= Size /\ MaxHead \in Nat
  BY PerfMmapAssumption DEF Inv, TypeOK
<1>2. ASSUME NEW i \in 1..(to - from)
      PROVE  data[(from + i - 1) % Size] = from + i - 1 /\ from + i - 1 \in 0..MaxHead
  <2>1. from + i - 1 \in 0..(head - 1) /\ from + i - 1 >= head - Size
    BY <1>1, SizeFact, SMTT(60)
  <2> QED
    BY <1>1, <2>1, SMTT(60) DEF Inv, DataInv
<1>3. Units(from, to) = [i \in 1..(to - from) |-> from + i - 1]
  BY <1>2 DEF Units
<1>4. to - from \in Nat
  BY SMTT(60)
<1>5. [i \in 1..(to - from) |-> from + i - 1] \in [1..(to - from) -> 0..MaxHead]
  BY <1>2
<1>6. [i \in 1..(to - from) |-> from + i - 1] \in Seq(0..MaxHead)
  BY <1>4, <1>5, SMTT(60)
<1>7. DOMAIN [i \in 1..(to - from) |-> from + i - 1] = 1..(to - from)
  OBVIOUS
<1>8. Len([i \in 1..(to - from) |-> from + i - 1]) = to - from
  BY <1>4, <1>6, <1>7, SMTT(60)
<1> QED
  BY <1>3, <1>6, <1>8

\* Writing out a part of the buffer adds its positions to what was written.
LEMMA WrittenGrows ==
  ASSUME Inv, NEW from \in Nat, NEW to \in Nat, prev <= from, from <= to, to <= head,
         out' = out \o Units(from, to)
  PROVE  /\ out' \in Seq(0..MaxHead)
         /\ Written' = Written \cup from..(to - 1)
         /\ Len(out') - Len(out) = to - from
         /\ out' = out \o [i \in 1..(Len(out') - Len(out)) |-> from + i - 1]
<1> DEFINE part == [i \in 1..(to - from) |-> from + i - 1]
<1>1. out \in Seq(0..MaxHead)
  BY DEF Inv, TypeOK
<1>2. Units(from, to) = part /\ part \in Seq(0..MaxHead) /\ Len(part) = to - from
  BY UnitsIntact
<1>3. \A i \in 1..(to - from) : part[i] = from + i - 1
  OBVIOUS
<1> HIDE DEF part
<1>4. /\ out' = out \o part /\ out' \in Seq(0..MaxHead)
      /\ Len(out') = Len(out) + (to - from)
  BY <1>1, <1>2, SeqConcat
<1>5. /\ \A i \in 1..Len(out) : out'[i] = out[i]
      /\ \A i \in (Len(out) + 1)..Len(out') : out'[i] = part[i - Len(out)]
  BY <1>1, <1>2, <1>4, SMTT(60)
<1>6. /\ DOMAIN out = 1..Len(out) /\ DOMAIN out' = 1..Len(out')
      /\ Len(out) \in Nat
  BY <1>1, <1>4, SMTT(60)
<1>7. ASSUME NEW p \in Written'
      PROVE  p \in Written \cup from..(to - 1)
  <2>1. PICK i \in DOMAIN out' : p = out'[i]
    BY <1>7 DEF Written
  <2>2. CASE i <= Len(out)
    <3>1. i \in 1..Len(out)
      BY <1>6, <2>1, <2>2, SMTT(60)
    <3> QED
      BY <1>5, <1>6, <2>1, <3>1 DEF Written
  <2>3. CASE i > Len(out)
    <3>1. i \in (Len(out) + 1)..Len(out') /\ i - Len(out) \in 1..(to - from)
      BY <1>4, <1>6, <2>1, <2>3, SMTT(60)
    <3>2. p = from + (i - Len(out)) - 1
      BY <1>3, <1>5, <2>1, <3>1
    <3> QED
      BY <1>6, <3>1, <3>2, SMTT(60)
  <2> QED
    BY <1>6, <2>2, <2>3, SMTT(60)
<1>8. ASSUME NEW p \in Written
      PROVE  p \in Written'
  <2>1. PICK i \in 1..Len(out) : p = out[i]
    BY <1>6, <1>8 DEF Written
  <2>2. i \in DOMAIN out' /\ out'[i] = p
    BY <1>4, <1>5, <1>6, <2>1, SMTT(60)
  <2> QED
    BY <2>2 DEF Written
<1>9. ASSUME NEW p \in from..(to - 1)
      PROVE  p \in Written'
  <2> DEFINE j == p - from + 1
             i == Len(out) + j
  <2>1. j \in 1..(to - from) /\ from + j - 1 = p
    BY SMTT(60)
  <2> HIDE DEF j
  <2>2. i \in (Len(out) + 1)..Len(out') /\ i - Len(out) = j /\ i \in 1..Len(out')
    BY <1>4, <1>6, <2>1, SMTT(60)
  <2>3. out'[i] = p
    BY <1>3, <1>5, <2>1, <2>2
  <2> QED
    BY <1>6, <2>2, <2>3 DEF Written
<1>10. Len(out') - Len(out) = to - from
  BY <1>4, <1>6, SMTT(60)
<1> QED
  BY <1>4, <1>7, <1>8, <1>9, <1>10 DEF part
-----------------------------------------------------------------------------
(* Every step preserves the invariant.                                     *)

\* The types, in the form the steps use them.
LEMMA Types ==
  ASSUME Inv
  PROVE  /\ Size \in Nat \ {0} /\ MaxHead \in Nat /\ NrFds \in Nat \ {0}
         /\ head \in 0..MaxHead /\ tail \in 0..MaxHead /\ prev \in 0..MaxHead
         /\ start \in 0..MaxHead /\ end \in 0..MaxHead /\ pushed_head \in 0..MaxHead
         /\ open_fds \in 0..NrFds /\ hups \in 0..NrFds /\ refcnt \in 0..(1 + NrFds)
         /\ tail <= prev /\ prev <= head /\ head - prev <= Size
BY PerfMmapAssumption DEF Inv, TypeOK

\* The type invariant is proved in three parts.  The positions:
PosType ==
  /\ head \in 0..MaxHead /\ tail \in 0..MaxHead
  /\ prev \in 0..MaxHead /\ start \in 0..MaxHead /\ end \in 0..MaxHead
  /\ pushed_head \in 0..MaxHead
  /\ tail <= prev /\ prev <= head /\ head - prev <= Size

\* What is stored and was written out.
MemType ==
  /\ data \in [0..(Size - 1) -> NoUnit..MaxHead]
  /\ sizes \in [0..MaxHead -> 0..Size]
  /\ out \in Seq(0..MaxHead)

\* The references and the place of the reader.
RefType ==
  /\ reader \in Readers /\ auxtrace \in BOOLEAN
  /\ open_fds \in 0..NrFds /\ hups \in 0..NrFds
  /\ base \in BOOLEAN /\ refcnt \in 0..(1 + NrFds)
  /\ pc \in {"idle", "push_init", "push_first", "push_second", "push_done",
             "failed", "read_event", "consume", "read_done"}

\* They are the type invariant.
LEMMA TypeParts ==
  /\ TypeOK <=> PosType /\ MemType /\ RefType
  /\ TypeOK' <=> PosType' /\ MemType' /\ RefType'
BY DEF TypeOK, PosType, MemType, RefType

\* perf_mmap__consume of all there is drops the last reference.
LEMMA ConsumeRef ==
  ASSUME Inv, NEW p, NEW h, perf_mmap__consume(p, h)
  PROVE  /\ base' \in BOOLEAN /\ refcnt' \in 0..(1 + NrFds)
         /\ \/ base' = base /\ refcnt' = refcnt
            \/ ~base' /\ refcnt' = 0 /\ refcnt = 1 /\ h = p
<1>1. base \in BOOLEAN /\ refcnt \in 0..(1 + NrFds)
  BY DEF Inv, TypeOK
<1>2. CASE refcnt = 1 /\ h = p /\ ~auxtrace
  <2>1. refcnt' = 1 - 1 /\ base' = (1 > 1)
    BY <1>2 DEF perf_mmap__consume, perf_mmap__put
  <2>2. ~(1 > 1) /\ 1 - 1 = 0 /\ 0 \in 0..(1 + NrFds)
    BY Types, SMTT(60)
  <2>3. ~base'
    BY <2>1, <2>2
  <2>4. base' \in BOOLEAN
    BY <2>1, SMTT(60)
  <2> QED
    BY <1>2, <2>1, <2>2, <2>3, <2>4
<1>3. CASE ~(refcnt = 1 /\ h = p /\ ~auxtrace)
  BY <1>1, <1>3 DEF perf_mmap__consume
<1> QED
  BY <1>2, <1>3

\* The kernel stores an event.
LEMMA KernelWriteStep ==
  ASSUME Inv, NEW size \in EventSizes, KernelWrite(size)
  PROVE  Inv'
<1>0. /\ size \in 1..Size /\ head + size \in 0..MaxHead /\ head' = head + size
      /\ head' - tail <= Size /\ head' - prev <= Size
  BY Types, PerfMmapAssumption, SMTT(60) DEF KernelWrite
<1>1. TypeOK'
  <2>1. data' \in [0..(Size - 1) -> NoUnit..MaxHead]
    <3>1. DOMAIN data = 0..(Size - 1) /\ \A u \in 0..(Size - 1) : data[u] \in NoUnit..MaxHead
      BY DEF Inv, TypeOK
    <3>2. ASSUME NEW u \in 0..(Size - 1)
          PROVE  (IF \E i \in 0..(size - 1) : (head + i) % Size = u
                  THEN CHOOSE p \in head..(head + size - 1) : p % Size = u
                  ELSE data[u]) \in NoUnit..MaxHead
      <4>1. CASE \E i \in 0..(size - 1) : (head + i) % Size = u
        <5>1. PICK i \in 0..(size - 1) : (head + i) % Size = u
          BY <4>1
        <5>2. head + i \in head..(head + size - 1)
          BY <1>0, Types, SMTT(60)
        <5>3. (CHOOSE p \in head..(head + size - 1) : p % Size = u) \in head..(head + size - 1)
          BY <5>1, <5>2
        <5> QED
          BY <1>0, <4>1, <5>3, Types, SMTT(60) DEF NoUnit
      <4> QED
        BY <3>1, <4>1
    <3> QED
      BY <3>1, <3>2 DEF KernelWrite
  <2>2. sizes' \in [0..MaxHead -> 0..Size]
    BY <1>0, Types, SMTT(60) DEF Inv, TypeOK, KernelWrite
  <2>3. PosType'
    BY <1>0, TypeParts, Types, SMTT(60) DEF Inv, PosType, KernelWrite
  <2>4. MemType'
    BY <2>1, <2>2, TypeParts DEF Inv, MemType, KernelWrite
  <2>5. RefType'
    BY <1>0, TypeParts, Types DEF Inv, RefType, KernelWrite
  <2> QED
    BY <2>3, <2>4, <2>5, TypeParts
<1>2. PosInv'
  BY <1>0, Types, SMTT(60) DEF Inv, PosInv, Pushing, Reading, KernelWrite
<1>3. DataInv'
  BY WriteKeepsData
<1>4. EventsInv'
  <2>1. /\ sizes'[head] = size
        /\ \A p \in 0..MaxHead : p # head => sizes'[p] = sizes[p]
    BY Types DEF Inv, TypeOK, KernelWrite
  <2>2. ASSUME NEW p \in 0..MaxHead
        PROVE  /\ p >= head' => sizes'[p] = NoSize
               /\ sizes'[p] # NoSize =>
                    /\ p + sizes'[p] <= head'
                    /\ p + sizes'[p] < head' => sizes'[p + sizes'[p]] # NoSize
    <3>1. CASE p = head
      BY <1>0, <2>1, <3>1, Types, SMTT(60)
    <3>2. CASE p # head
      <4>1. sizes[p] \in 0..Size
        BY DEF Inv, TypeOK
      <4>2. /\ p >= head => sizes[p] = NoSize
            /\ sizes[p] # NoSize =>
                 /\ p + sizes[p] <= head
                 /\ p + sizes[p] < head => sizes[p + sizes[p]] # NoSize
        BY DEF Inv, EventsInv
      <4>3. CASE sizes[p] # NoSize
        <5>1. p + sizes[p] \in 0..MaxHead /\ p < head
          BY <4>1, <4>2, <4>3, Types, SMTT(60)
        <5>2. sizes'[p + sizes[p]] # NoSize
          BY <1>0, <2>1, <4>2, <4>3, <5>1, Types, SMTT(60) DEF NoSize
        <5> QED
          BY <1>0, <2>1, <3>2, <4>1, <4>2, <4>3, <5>1, <5>2, Types, SMTT(60)
      <4> QED
        BY <2>1, <3>2, <4>3
    <3> QED
      BY <3>1, <3>2
  <2>3. reader' = "read" /\ prev' < head' => sizes'[prev'] # NoSize
    BY <1>0, <2>1, Types, SMTT(60) DEF Inv, EventsInv, KernelWrite, NoSize
  <2> QED
    BY <2>2, <2>3 DEF EventsInv
<1>5. OutInv'
  BY Types, PerfMmapAssumption DEF Inv, OutInv, Written, KernelWrite
<1>6. RefInv'
  BY Types, PerfMmapAssumption, SMTT(60) DEF Inv, RefInv, KernelWrite
<1> QED
  BY <1>1, <1>2, <1>3, <1>4, <1>5, <1>6 DEF Inv

\* A monitored task exits.
LEMMA TaskExitStep ==
  ASSUME Inv, TaskExit
  PROVE  Inv'
<1>1. TypeOK'
  <2>1. PosType'
    BY TypeParts, Types DEF Inv, PosType, TaskExit, RefInv
  <2>2. MemType'
    BY TypeParts DEF Inv, MemType, TaskExit, RefInv
  <2>3. RefType'
    BY TypeParts, Types, SMTT(60) DEF Inv, RefType, TaskExit, RefInv
  <2> QED
    BY <2>1, <2>2, <2>3, TypeParts
<1>2. PosInv'
  BY Types DEF Inv, TypeOK, PosInv, Pushing, Reading, TaskExit
<1>3. DataInv'
  BY Types DEF Inv, DataInv, TaskExit
<1>4. EventsInv'
  BY Types DEF Inv, EventsInv, TaskExit
<1>5. OutInv'
  BY Types DEF Inv, OutInv, Written, TaskExit
<1>6. RefInv'
  BY Types, SMTT(60) DEF Inv, RefInv, TaskExit
<1> QED
  BY <1>1, <1>2, <1>3, <1>4, <1>5, <1>6 DEF Inv

\* The tool sees a POLLHUP.
LEMMA FilterPollfdStep ==
  ASSUME Inv, FilterPollfd
  PROVE  Inv'
<1>0. /\ base /\ base' /\ refcnt' = 1 + open_fds + hups' /\ refcnt' \in 0..(1 + NrFds)
      /\ hups' \in 0..NrFds /\ open_fds + hups' <= NrFds
  <2>1. hups > 0 /\ hups' = hups - 1 /\ refcnt' = refcnt - 1 /\ base' = (refcnt > 1)
    BY DEF FilterPollfd, perf_mmap__put
  <2>2. base /\ refcnt = 1 + open_fds + hups /\ open_fds + hups <= NrFds
    BY <2>1, Types, SMTT(60) DEF Inv, RefInv, TypeOK
  <2>3. refcnt > 1
    BY <2>1, <2>2, Types, SMTT(60)
  <2>4. base'
    BY <2>1, <2>3
  <2> QED
    BY <2>1, <2>2, <2>4, Types, SMTT(60)
<1>1. TypeOK'
  <2>1. PosType'
    BY <1>0, TypeParts, Types DEF Inv, PosType, FilterPollfd
  <2>2. MemType'
    BY <1>0, TypeParts DEF Inv, MemType, FilterPollfd
  <2>3. RefType'
    BY <1>0, TypeParts, Types DEF Inv, RefType, FilterPollfd
  <2> QED
    BY <2>1, <2>2, <2>3, TypeParts
<1>2. PosInv'
  BY Types DEF Inv, TypeOK, PosInv, Pushing, Reading, FilterPollfd, perf_mmap__put
<1>3. DataInv'
  BY Types DEF Inv, DataInv, FilterPollfd, perf_mmap__put
<1>4. EventsInv'
  BY Types DEF Inv, EventsInv, FilterPollfd, perf_mmap__put
<1>5. OutInv'
  BY Types DEF Inv, OutInv, Written, FilterPollfd, perf_mmap__put
<1>6. RefInv'
  BY <1>0 DEF Inv, RefInv, FilterPollfd
<1> QED
  BY <1>1, <1>2, <1>3, <1>4, <1>5, <1>6 DEF Inv

\* perf_mmap__push looks at the head.
LEMMA PushHeadStep ==
  ASSUME Inv, PushHead
  PROVE  Inv'
<1>1. TypeOK'
  BY Types DEF Inv, TypeOK, PushHead, kernel
<1>2. PosInv'
  BY Types, SMTT(60) DEF Inv, TypeOK, PosInv, Pushing, Reading, PushHead, kernel
<1>3. DataInv'
  BY Types DEF Inv, DataInv, PushHead, kernel
<1>4. EventsInv'
  BY Types DEF Inv, EventsInv, PushHead, kernel
<1>5. OutInv'
  BY Types DEF Inv, OutInv, Written, PushHead, kernel
<1>6. RefInv'
  BY Types DEF Inv, RefInv, PushHead, kernel
<1> QED
  BY <1>1, <1>2, <1>3, <1>4, <1>5, <1>6 DEF Inv

\* read_init, called by perf_mmap__push or by one of the tools that read events.
LEMMA ReadInitStep ==
  ASSUME Inv, PushInit \/ ReadInit
  PROVE  Inv'
<1>0. /\ start' = prev /\ end' = head /\ prev' = prev
      /\ UNCHANGED <<reader, auxtrace, kernel, tail, base, refcnt, pushed_head, out>>
      /\ \/ pc = "push_init" /\ pc' \in {"push_first", "idle"}
         \/ reader = "read" /\ pc = "idle" /\ pc' \in {"read_event", "idle"}
      /\ pc' = "idle" => prev = head
  BY Types, SMTT(60) DEF PushInit, ReadInit, ReadInitOk, ReadInitAgain
<1>1. TypeOK'
  <2>1. PosType'
    BY <1>0, TypeParts, Types DEF Inv, PosType, kernel
  <2>2. MemType'
    BY <1>0, TypeParts DEF Inv, MemType, kernel
  <2>3. RefType'
    BY <1>0, TypeParts, Types DEF Inv, RefType, kernel
  <2> QED
    BY <2>1, <2>2, <2>3, TypeParts
<1>2. PosInv'
  BY <1>0, Types, SMTT(60) DEF Inv, PosInv, Pushing, Reading, kernel
<1>3. DataInv'
  BY <1>0 DEF Inv, DataInv, kernel
<1>4. EventsInv'
  BY <1>0 DEF Inv, EventsInv, kernel
<1>5. OutInv'
  BY <1>0 DEF Inv, OutInv, Written
<1>6. RefInv'
  BY <1>0 DEF Inv, RefInv, kernel
<1> QED
  BY <1>1, <1>2, <1>3, <1>4, <1>5, <1>6 DEF Inv

\* perf_mmap__push hands the room back; the last reference goes only when nothing is
\* left to write out.
LEMMA PushDoneStep ==
  ASSUME Inv, PushDone
  PROVE  Inv'
<1>0. /\ pc = "push_done" /\ pc' = "idle" /\ reader = "push"
      /\ prev' = pushed_head /\ tail' = pushed_head
      /\ prev <= pushed_head /\ pushed_head <= end /\ end <= head
      /\ UNCHANGED <<reader, auxtrace, kernel, start, end, pushed_head, out>>
  BY Types DEF Inv, PosInv, Pushing, PushDone, perf_mmap__consume
<1>a. base /\ refcnt = 1 + open_fds + hups
  BY <1>0 DEF Inv, RefInv
<1>b. /\ base' \in BOOLEAN /\ refcnt' \in 0..(1 + NrFds)
      /\ \/ base' = base /\ refcnt' = refcnt
         \/ ~base' /\ refcnt' = 0 /\ refcnt = 1 /\ head = pushed_head
  BY ConsumeRef DEF PushDone
<1>1. TypeOK'
  <2>1. PosType'
    BY <1>0, TypeParts, Types, SMTT(60) DEF Inv, PosType, kernel
  <2>2. MemType'
    BY <1>0, TypeParts DEF Inv, MemType, kernel
  <2>3. RefType'
    BY <1>0, <1>b, TypeParts, Types DEF Inv, RefType, kernel
  <2> QED
    BY <2>1, <2>2, <2>3, TypeParts
<1>2. PosInv'
  BY <1>0, Types, SMTT(60) DEF Inv, PosInv, Pushing, Reading, kernel
<1>3. DataInv'
  BY <1>0 DEF Inv, DataInv, kernel
<1>4. EventsInv'
  BY <1>0 DEF Inv, EventsInv, kernel
<1>5. OutInv'
  <2>1. ASSUME NEW p \in 0..(pushed_head - 1)
        PROVE  p \in Written
    <3>1. p \in 0..(prev - 1) \/ p \in prev..(end - 1)
      BY <1>0, Types, SMTT(60)
    <3> QED
      BY <1>0, <3>1 DEF Inv, OutInv
  <2> QED
    BY <1>0, <2>1 DEF OutInv, Written
<1>6. RefInv'
  <2>1. UNCHANGED <<reader, head, open_fds, hups>> /\ open_fds + hups <= NrFds
    BY <1>0 DEF Inv, RefInv, kernel
  <2>2. CASE base' = base /\ refcnt' = refcnt
    BY <1>a, <2>1, <2>2 DEF RefInv
  <2>3. CASE ~base' /\ refcnt' = 0 /\ refcnt = 1 /\ head = pushed_head
    <3>1. open_fds = 0 /\ hups = 0
      BY <1>a, <2>3, Types, SMTT(60)
    <3> QED
      BY <1>0, <2>1, <2>3, <3>1 DEF RefInv
  <2> QED
    BY <1>b, <2>2, <2>3
<1> QED
  BY <1>1, <1>2, <1>3, <1>4, <1>5, <1>6 DEF Inv

\* read_event returns NULL, or read_done gives up the rest.
LEMMA ReadDoneStep ==
  ASSUME Inv, ReadEventNull \/ ReadDone
  PROVE  Inv'
<1>0. /\ reader = "read" /\ prev' \in {prev, head} /\ prev <= prev'
      /\ start' = start /\ end' \in {end, head} /\ pc' \in {"read_done", "idle"}
      /\ UNCHANGED <<reader, auxtrace, kernel, tail, base, refcnt, pushed_head, out>>
  BY Types, SMTT(60) DEF Inv, PosInv, Reading, ReadEventNull, ReadDone
<1>1. TypeOK'
  <2>1. PosType'
    BY <1>0, TypeParts, Types, SMTT(60) DEF Inv, PosType, kernel
  <2>2. MemType'
    BY <1>0, TypeParts DEF Inv, MemType, kernel
  <2>3. RefType'
    BY <1>0, TypeParts, Types DEF Inv, RefType, kernel
  <2> QED
    BY <2>1, <2>2, <2>3, TypeParts
<1>2. PosInv'
  BY <1>0, Types DEF Inv, PosInv, Pushing, Reading, kernel
<1>3. DataInv'
  BY <1>0 DEF Inv, DataInv, kernel
<1>4. EventsInv'
  BY <1>0, Types, SMTT(60) DEF Inv, EventsInv, kernel
<1>5. OutInv'
  <2>1. ASSUME NEW i \in DOMAIN out
        PROVE  out[i] < prev'
    <3>1. out[i] \in 0..MaxHead /\ out[i] < prev
      <4>1. out \in Seq(0..MaxHead)
        BY DEF Inv, TypeOK
      <4>2. out[i] < prev
        BY <1>0 DEF Inv, OutInv
      <4>3. out[i] \in 0..MaxHead
        BY <4>1, SeqFacts
      <4> QED
        BY <4>2, <4>3
    <3> QED
      BY <1>0, <3>1, Types, SMTT(60)
  <2> QED
    BY <1>0, <2>1 DEF OutInv, Written
<1>6. RefInv'
  BY <1>0, Types DEF Inv, RefInv, kernel
<1> QED
  BY <1>1, <1>2, <1>3, <1>4, <1>5, <1>6 DEF Inv

\* consume hands an event back.
LEMMA ConsumeStep ==
  ASSUME Inv, Consume
  PROVE  Inv'
<1>0. /\ reader = "read" /\ pc = "consume" /\ pc' = "read_event" /\ tail' = prev
      /\ UNCHANGED <<reader, auxtrace, kernel, prev, start, end, pushed_head, out>>
  BY DEF Inv, PosInv, Reading, Consume, perf_mmap__consume
<1>a. /\ base' \in BOOLEAN /\ refcnt' \in 0..(1 + NrFds)
      /\ \/ base' = base /\ refcnt' = refcnt
         \/ ~base' /\ refcnt' = 0 /\ refcnt = 1 /\ head = prev
  BY ConsumeRef DEF Consume
<1>1. TypeOK'
  <2>1. PosType'
    BY <1>0, TypeParts, Types, SMTT(60) DEF Inv, PosType, kernel
  <2>2. MemType'
    BY <1>0, TypeParts DEF Inv, MemType, kernel
  <2>3. RefType'
    BY <1>0, <1>a, TypeParts, Types DEF Inv, RefType, kernel
  <2> QED
    BY <2>1, <2>2, <2>3, TypeParts
<1>2. PosInv'
  BY <1>0, Types DEF Inv, PosInv, Pushing, Reading, kernel
<1>3. DataInv'
  BY <1>0 DEF Inv, DataInv, kernel
<1>4. EventsInv'
  BY <1>0 DEF Inv, EventsInv, kernel
<1>5. OutInv'
  BY <1>0 DEF Inv, OutInv, Written
<1>6. RefInv'
  BY <1>0, <1>a, Types, SMTT(60) DEF Inv, RefInv, kernel
<1> QED
  BY <1>1, <1>2, <1>3, <1>4, <1>5, <1>6 DEF Inv

\* The first part perf_mmap__push writes out ends before the end of the data.
LEMMA PushFirstPart ==
  ASSUME Inv, PushFirst
  PROVE  \E to \in Nat : /\ start = prev /\ start <= to /\ to <= end /\ end <= head
                         /\ out' = out \o Units(start, to) /\ start' = to
<1> DEFINE size == IF Straddles THEN Size - (start % Size) ELSE 0
<1>1. start = prev /\ start <= end /\ end <= head /\ end - start <= Size
  <2>1. start = prev /\ prev <= pushed_head /\ pushed_head <= end /\ end <= head
    BY DEF Inv, PosInv, Pushing, PushFirst
  <2> QED
    BY <2>1, Types, SMTT(60)
<1>2. size \in Nat /\ start + size <= end
  <2>1. CASE Straddles
    BY <1>1, <2>1, FirstPartFits, Types, SMTT(60)
  <2>2. CASE ~Straddles
    BY <1>1, <2>2, Types, SMTT(60)
  <2> QED
    BY <2>1, <2>2
<1>3. out' = out \o Units(start, start + size) /\ start' = start + size
  BY DEF PushFirst
<1> HIDE DEF size
<1>4. start + size \in Nat /\ start <= start + size
  BY <1>2, Types, SMTT(60)
<1> QED
  BY <1>1, <1>2, <1>3, <1>4

\* The second part is the rest of the data.
LEMMA PushSecondPart ==
  ASSUME Inv, PushSecond
  PROVE  /\ prev <= start /\ start <= end /\ end <= head
         /\ out' = out \o Units(start, end) /\ start' = end
BY DEF Inv, PosInv, Pushing, PushSecond

\* Where the event that perf_mmap__read_event returns ends.
NextEvent == start + sizes[start]

\* The event that perf_mmap__read_event returns ends where the next one starts.
LEMMA ReadEventPart ==
  ASSUME Inv, ReadEvent
  PROVE  /\ reader = "read" /\ start = prev /\ NextEvent \in 0..MaxHead
         /\ start < NextEvent /\ NextEvent <= head
         /\ NextEvent < head => sizes[NextEvent] # NoSize
         /\ out' = out \o Units(start, NextEvent)
         /\ start' = NextEvent /\ prev' = NextEvent
<1>1. reader = "read" /\ start = prev /\ start < head
  BY DEF Inv, PosInv, Reading, ReadEvent
<1>2. sizes[start] \in 0..Size /\ sizes[start] # NoSize
  BY <1>1, Types DEF Inv, TypeOK, EventsInv
<1>3. NextEvent <= head /\ (NextEvent < head => sizes[NextEvent] # NoSize)
  BY <1>1, <1>2, Types DEF Inv, EventsInv, NextEvent
<1>4. NextEvent \in 0..MaxHead /\ start < NextEvent
  BY <1>2, <1>3, Types, SMTT(60) DEF NoSize, NextEvent
<1>5. out' = out \o Units(start, NextEvent) /\ start' = NextEvent /\ prev' = NextEvent
  BY DEF ReadEvent, NextEvent
<1> QED
  BY <1>1, <1>3, <1>4, <1>5

\* perf_mmap__push writes out the part up to the end of the buffer.
LEMMA PushFirstStep ==
  ASSUME Inv, PushFirst
  PROVE  Inv'
<1>1. PICK to \in Nat : /\ start = prev /\ start <= to /\ to <= end /\ end <= head
                        /\ out' = out \o Units(start, to) /\ start' = to
  BY PushFirstPart
<1>2. /\ pc = "push_first" /\ pc' = "push_second" /\ reader = "push"
      /\ UNCHANGED <<reader, auxtrace, kernel, tail, base, refcnt, prev, end, pushed_head>>
  BY DEF Inv, PosInv, Pushing, PushFirst
<1>a. start \in Nat /\ prev <= start /\ start <= to /\ to <= head /\ to \in 0..MaxHead
  BY <1>1, Types, SMTT(60)
<1>3. out' \in Seq(0..MaxHead) /\ Written' = Written \cup prev..(to - 1)
  BY <1>1, <1>a, WrittenGrows
<1>4. TypeOK'
  <2>1. PosType'
    BY <1>1, <1>2, <1>a, TypeParts, Types DEF Inv, PosType, kernel
  <2>2. MemType'
    BY <1>2, <1>3, TypeParts DEF Inv, MemType, kernel
  <2>3. RefType'
    BY <1>2, TypeParts DEF Inv, RefType, kernel
  <2> QED
    BY <2>1, <2>2, <2>3, TypeParts
<1>5. PosInv'
  BY <1>1, <1>2, Types DEF Inv, PosInv, Pushing, Reading, kernel
<1>6. DataInv' /\ EventsInv' /\ RefInv'
  BY <1>2 DEF Inv, DataInv, EventsInv, RefInv, kernel
<1>7. OutInv'
  BY <1>1, <1>2, <1>3 DEF Inv, OutInv
<1> QED
  BY <1>4, <1>5, <1>6, <1>7 DEF Inv

\* perf_mmap__push writes out the rest.
LEMMA PushSecondStep ==
  ASSUME Inv, PushSecond
  PROVE  Inv'
<1>1. /\ prev <= start /\ start <= end /\ end <= head
      /\ out' = out \o Units(start, end) /\ start' = end
  BY PushSecondPart
<1>2. /\ pc = "push_second" /\ pc' = "push_done" /\ reader = "push"
      /\ UNCHANGED <<reader, auxtrace, kernel, tail, base, refcnt, prev, end, pushed_head>>
  BY DEF Inv, PosInv, Pushing, PushSecond
<1>3. out' \in Seq(0..MaxHead) /\ Written' = Written \cup start..(end - 1)
  <2>1. start \in Nat /\ end \in Nat
    BY Types, SMTT(60)
  <2> QED
    BY <1>1, <2>1, WrittenGrows
<1>4. TypeOK'
  <2>1. PosType'
    BY <1>1, <1>2, TypeParts, Types DEF Inv, PosType, kernel
  <2>2. MemType'
    BY <1>2, <1>3, TypeParts DEF Inv, MemType, kernel
  <2>3. RefType'
    BY <1>2, TypeParts DEF Inv, RefType, kernel
  <2> QED
    BY <2>1, <2>2, <2>3, TypeParts
<1>5. PosInv'
  BY <1>1, <1>2, Types DEF Inv, PosInv, Pushing, Reading, kernel
<1>6. DataInv' /\ EventsInv' /\ RefInv'
  BY <1>2 DEF Inv, DataInv, EventsInv, RefInv, kernel
<1>7. OutInv'
  <2>1. ASSUME NEW p \in prev..(end - 1)
        PROVE  p \in Written'
    <3>1. p \in prev..(start - 1) \/ p \in start..(end - 1)
      BY <1>1, Types, SMTT(60)
    <3> QED
      BY <1>2, <1>3, <3>1 DEF Inv, OutInv
  <2> QED
    BY <1>2, <1>3, <2>1 DEF Inv, OutInv
<1> QED
  BY <1>4, <1>5, <1>6, <1>7 DEF Inv

\* What a push() that fails has written is a part of the data.
LEMMA PushFailsPart ==
  ASSUME Inv, PushFails
  PROVE  \E to \in Nat : /\ prev <= start /\ start <= to /\ to <= head
                         /\ out' = out \o Units(start, to)
                         /\ start' \in 0..MaxHead
<1>1. prev <= start /\ start <= end /\ end <= head
  <2>1. CASE pc = "push_first"
    <3>1. start = prev /\ prev <= pushed_head /\ pushed_head <= end /\ end <= head
      BY <2>1 DEF Inv, PosInv, Pushing
    <3> QED
      BY <3>1, Types, SMTT(60)
  <2>2. CASE pc = "push_second"
    BY <2>2 DEF Inv, PosInv, Pushing
  <2> QED
    BY <2>1, <2>2 DEF PushFails
<1>2. start' <= end /\ start' \in Nat
  <2>1. CASE pc = "push_first"
    <3>0. Straddles
      BY <2>1, SMTT(60) DEF PushFails
    <3>1. start' = start + (Size - (start % Size))
      BY <2>1, SMTT(60) DEF PushFails
    <3>2. start \in Nat /\ end \in Nat /\ end - start <= Size
      BY <1>1, Types, SMTT(60)
    <3>3. Size - (start % Size) \in Nat /\ start + (Size - (start % Size)) <= end
      BY <1>1, <3>0, <3>2, FirstPartFits
    <3>4. ASSUME NEW n \in Nat PROVE start + n \in Nat
      BY <3>2, SMTT(60)
    <3> QED
      BY <3>1, <3>3, <3>4
  <2>2. CASE pc = "push_second"
    <3>1. start' = end
      BY <2>2, SMTT(60) DEF PushFails
    <3> QED
      BY <3>1, Types, SMTT(60)
  <2> QED
    BY <2>1, <2>2 DEF PushFails
<1>3. PICK to \in start..(start' - 1) : out' = out \o Units(start, to)
  BY DEF PushFails
<1>4. to \in Nat /\ start <= to /\ to <= head /\ start' \in 0..MaxHead
  <2>1. ASSUME NEW q \in Nat, q <= end, NEW m \in start..(q - 1)
        PROVE  m \in Nat /\ start <= m /\ m <= head /\ q \in 0..MaxHead
    BY <1>1, <2>1, Types, SMTT(60)
  <2> QED
    BY <1>2, <2>1
<1> QED
  BY <1>1, <1>3, <1>4

\* A push() that fails keeps what is not written in the buffer.
LEMMA PushFailsStep ==
  ASSUME Inv, PushFails
  PROVE  Inv'
<1>1. PICK to \in Nat : /\ prev <= start /\ start <= to /\ to <= head
                        /\ out' = out \o Units(start, to) /\ start' \in 0..MaxHead
  BY PushFailsPart
<1>2. /\ pc \in {"push_first", "push_second"} /\ pc' = "failed" /\ reader = "push"
      /\ UNCHANGED <<reader, auxtrace, kernel, tail, base, refcnt, prev, end, pushed_head>>
  BY DEF Inv, PosInv, Pushing, PushFails
<1>3. out' \in Seq(0..MaxHead) /\ Written' = Written \cup start..(to - 1)
  <2>1. start \in Nat
    BY Types, SMTT(60)
  <2> QED
    BY <1>1, <2>1, WrittenGrows
<1>4. TypeOK'
  <2>1. PosType'
    BY <1>1, <1>2, TypeParts, Types DEF Inv, PosType, kernel
  <2>2. MemType'
    BY <1>2, <1>3, TypeParts DEF Inv, MemType, kernel
  <2>3. RefType'
    BY <1>2, TypeParts DEF Inv, RefType, kernel
  <2> QED
    BY <2>1, <2>2, <2>3, TypeParts
<1>5. PosInv'
  BY <1>2, Types DEF Inv, PosInv, Pushing, Reading, kernel
<1>6. DataInv' /\ EventsInv'
  BY <1>2 DEF Inv, DataInv, EventsInv, kernel
<1>7. RefInv'
  BY <1>2 DEF Inv, RefInv, kernel
<1>8. OutInv'
  BY <1>2, <1>3 DEF Inv, OutInv
<1> QED
  BY <1>4, <1>5, <1>6, <1>7, <1>8 DEF Inv

\* perf_mmap__read_event returns the event at prev.
LEMMA ReadEventStep ==
  ASSUME Inv, ReadEvent
  PROVE  Inv'
<1>1. /\ start = prev /\ start' = NextEvent /\ prev' = NextEvent
      /\ out' = out \o Units(start, NextEvent)
      /\ NextEvent < head => sizes[NextEvent] # NoSize
  BY ReadEventPart
<1>2. /\ pc = "read_event" /\ pc' = "consume" /\ reader = "read" /\ end' = head
      /\ UNCHANGED <<reader, auxtrace, kernel, tail, base, refcnt, pushed_head>>
  BY DEF Inv, PosInv, Reading, ReadEvent
<1>a. /\ start \in Nat /\ NextEvent \in Nat /\ NextEvent \in 0..MaxHead
      /\ prev <= start /\ start <= NextEvent /\ NextEvent <= head
  BY ReadEventPart, Types, SMTT(60)
<1>3. out' \in Seq(0..MaxHead) /\ Written' = Written \cup prev..(NextEvent - 1)
  BY <1>1, <1>a, WrittenGrows
<1>4. TypeOK'
  <2>1. PosType'
    BY <1>1, <1>2, <1>a, TypeParts, Types, SMTT(60) DEF Inv, PosType, kernel
  <2>2. MemType'
    BY <1>2, <1>3, TypeParts DEF Inv, MemType, kernel
  <2>3. RefType'
    BY <1>2, TypeParts DEF Inv, RefType, kernel
  <2> QED
    BY <2>1, <2>2, <2>3, TypeParts
<1>5. PosInv'
  BY <1>1, <1>2, <1>a, Types DEF Inv, PosInv, Pushing, Reading, kernel
<1>6. DataInv' /\ EventsInv' /\ RefInv'
  BY <1>1, <1>2 DEF Inv, DataInv, EventsInv, RefInv, kernel
<1>7. OutInv'
  <2>1. ASSUME NEW i \in DOMAIN out'
        PROVE  out'[i] < NextEvent
    <3>1. out'[i] \in Written' /\ out'[i] \in 0..MaxHead
      BY <1>3, SeqFacts DEF Written
    <3>2. CASE out'[i] \in Written
      <4>1. PICK j \in DOMAIN out : out'[i] = out[j]
        BY <3>2 DEF Written
      <4>2. out[j] < prev
        BY <1>2 DEF Inv, OutInv
      <4> QED
        BY <1>a, <3>1, <4>1, <4>2, Types, SMTT(60)
    <3>3. CASE out'[i] \in prev..(NextEvent - 1)
      BY <1>a, <3>3, Types, SMTT(60)
    <3> QED
      BY <1>3, <3>1, <3>2, <3>3
  <2> QED
    BY <1>1, <1>2, <2>1 DEF OutInv
<1> QED
  BY <1>4, <1>5, <1>6, <1>7 DEF Inv

\* Every step preserves the invariant.
LEMMA InvStep ==
  ASSUME Inv, [Next]_vars
  PROVE  Inv'
<1>1. CASE UNCHANGED vars
  <2>1. TypeOK' /\ PosInv'
    BY <1>1 DEF vars, Inv, TypeOK, PosInv
  <2>2. DataInv' /\ RefInv'
    BY <1>1 DEF vars, Inv, DataInv, RefInv
  <2>3. EventsInv'
    BY <1>1 DEF vars, Inv, EventsInv, Written
  <2>4. OutInv'
    BY <1>1 DEF vars, Inv, OutInv, Written
  <2> QED
    BY <2>1, <2>2, <2>3, <2>4 DEF Inv
<1>2. CASE \E size \in EventSizes : KernelWrite(size)
  BY <1>2, KernelWriteStep
<1>3. CASE TaskExit
  BY <1>3, TaskExitStep
<1>4. CASE Tool
  BY <1>4, PushHeadStep, ReadInitStep, PushFirstStep, PushSecondStep, PushFailsStep,
     PushDoneStep, ReadEventStep, ReadDoneStep, ConsumeStep, FilterPollfdStep DEF Tool
<1> QED
  BY <1>1, <1>2, <1>3, <1>4 DEF Next

-----------------------------------------------------------------------------
(* The theorems.                                                           *)

\* The inductive invariant holds in every reachable state of the buffer and of
\* the two readers of util/mmap.c.
THEOREM Invariant == Spec => []Inv
<1>1. Init => Inv
  <2> SUFFICES ASSUME Init PROVE Inv
    OBVIOUS
  <2>1. out \in Seq(0..MaxHead) /\ DOMAIN out = {}
    BY SMTT(60) DEF Init
  <2>2. TypeOK
    BY <2>1, PerfMmapAssumption, SMTT(60) DEF Init, TypeOK, InitialRefcnt, NoUnit, NoSize
  <2>3. PosInv /\ DataInv /\ EventsInv /\ RefInv
    BY PerfMmapAssumption, SMTT(60) DEF Init, PosInv, DataInv, EventsInv, RefInv, Pushing,
       Reading, InitialRefcnt, NoSize
  <2>4. OutInv
    BY <2>1, SMTT(60) DEF Init, OutInv
  <2> QED
    BY <2>2, <2>3, <2>4 DEF Inv
<1>2. Inv /\ [Next]_vars => Inv'
  BY InvStep
<1> QED
  BY <1>1, <1>2, PTL DEF Spec

\* perf_mmap__push gives no room back that it did not write out, the reader is
\* never overrun, and the buffer is unmapped only after every descriptor hung up
\* and the last event was written out.
THEOREM KeptUntilOutputCorrect == Spec => []KeptUntilOutput
<1>1. Inv => KeptUntilOutput
  <2> SUFFICES ASSUME Inv PROVE KeptUntilOutput
    OBVIOUS
  <2>1. 0..(tail - 1) \subseteq 0..(prev - 1)
    BY Types, SMTT(60)
  <2>2. reader = "push" => 0..(prev - 1) \subseteq Written
    BY DEF Inv, OutInv
  <2>3. reader = "push" /\ ~base => open_fds = 0 /\ hups = 0 /\ prev = head
    BY DEF Inv, RefInv
  <2> QED
    BY <2>1, <2>2, <2>3 DEF KeptUntilOutput, Inv
<1> QED
  BY <1>1, Invariant, PTL

\* What perf_mmap__push writes out and perf_mmap__read_event returns is what the
\* kernel stored at these positions, and no event is returned again, for every
\* interleaving with the kernel and across the wrap of the buffer.
THEOREM ReadsIntactCorrect == Spec => ReadsIntact
<1> DEFINE Intact ==
      out' # out =>
        \E from \in 0..head :
          /\ out' = out \o [i \in 1..(Len(out') - Len(out)) |-> from + i - 1]
          /\ reader = "read" => \A i \in DOMAIN out : out[i] < from
<1>1. ASSUME Inv, [Next]_vars
      PROVE  [Intact]_vars
  <2>1. ASSUME NEW to \in Nat, prev <= start, start <= to, to <= head,
               out' = out \o Units(start, to), reader = "read" => start = prev
        PROVE  Intact
    <3>1. start \in 0..head /\ start \in Nat
      BY <1>1, <2>1, Types, SMTT(60)
    <3>2. out' = out \o [i \in 1..(Len(out') - Len(out)) |-> start + i - 1]
      BY <1>1, <2>1, <3>1, WrittenGrows
    <3>3. reader = "read" => \A i \in DOMAIN out : out[i] < start
      BY <1>1, <2>1 DEF Inv, OutInv
    <3> QED
      BY <3>1, <3>2, <3>3
  <2> HIDE DEF Intact
  <2>2. CASE PushFirst
    <3>1. reader = "push"
      BY <1>1, <2>2 DEF Inv, PosInv, Pushing, PushFirst
    <3>2. PICK to \in Nat : /\ start = prev /\ start <= to /\ to <= end /\ end <= head
                            /\ out' = out \o Units(start, to)
      BY <1>1, <2>2, PushFirstPart
    <3>3. prev <= start /\ to <= head
      BY <1>1, <3>2, Types, SMTT(60)
    <3> QED
      BY <2>1, <3>1, <3>2, <3>3
  <2>3. CASE PushSecond
    <3>1. reader = "push" /\ end \in Nat
      BY <1>1, <2>3, Types, SMTT(60) DEF Inv, PosInv, Pushing, PushSecond
    <3> QED
      BY <1>1, <2>1, <2>3, <3>1, PushSecondPart
  <2>4. CASE PushFails
    <3>1. reader = "push"
      BY <1>1, <2>4 DEF Inv, PosInv, Pushing, PushFails
    <3>2. PICK to \in Nat : /\ prev <= start /\ start <= to /\ to <= head
                            /\ out' = out \o Units(start, to)
      BY <1>1, <2>4, PushFailsPart
    <3> QED
      BY <2>1, <3>1, <3>2
  <2>5. CASE ReadEvent
    <3>1. start = prev /\ out' = out \o Units(start, NextEvent)
      BY <1>1, <2>5, ReadEventPart
    <3>2. NextEvent \in Nat /\ prev <= start /\ start <= NextEvent /\ NextEvent <= head
      BY <1>1, <2>5, ReadEventPart, Types, SMTT(60)
    <3> QED
      BY <2>1, <3>1, <3>2
  <2>6. CASE UNCHANGED out
    BY <2>6 DEF Intact
  <2>7. PushFirst \/ PushSecond \/ PushFails \/ ReadEvent \/ UNCHANGED out
    BY <1>1 DEF Next, Tool, vars, KernelWrite, TaskExit, PushHead, PushInit, ReadInit,
       ReadInitOk, ReadInitAgain, PushDone, ReadEventNull, Consume, ReadDone, FilterPollfd
  <2> QED
    BY <2>2, <2>3, <2>4, <2>5, <2>6, <2>7
<1>2. Inv /\ [Next]_vars => [Intact]_vars
  BY <1>1
<1> QED
  BY <1>2, Invariant, PTL DEF Spec, ReadsIntact

-----------------------------------------------------------------------------
(* Rounds.  The inductive invariant is PassInv, which relates the times in *)
(* the file and in the forward buffers to the moments the last two forward *)
(* passes wrote their FINISHED_ROUND; a dump of the overwritable buffers   *)
(* adds items that are of no concern to it.                                *)

USE DEF Mmaps, NotRead

\* The items of a file: their times, and how they are told apart.
LEMMA ItemFacts ==
  /\ \A e \in Items : e.time \in Nat
  /\ \A e \in Events : e.type = "SAMPLE" /\ e.from = "mmap"
  /\ \A e \in BackwardEvents : e.type = "SAMPLE" /\ e.from = "overwrite_mmap"
  /\ FINISHED_ROUND("mmap").type = "FINISHED_ROUND" /\ FINISHED_ROUND("mmap").from = "mmap"
  /\ FINISHED_ROUND("overwrite_mmap").type = "FINISHED_ROUND"
  /\ \A e \in Dumpable : e.from = "overwrite_mmap"
  /\ "SAMPLE" # "FINISHED_ROUND" /\ "mmap" # "overwrite_mmap"
<1>1. \A from : \A e \in EventsOf(from) : e.type = "SAMPLE" /\ e.from = from /\ e.time \in Nat
  BY RecordRoundsAssumption, SMTT(60) DEF EventsOf
<1>2. \A from : /\ FINISHED_ROUND(from).type = "FINISHED_ROUND" /\ FINISHED_ROUND(from).from = from
                /\ FINISHED_ROUND(from).time \in Nat
  BY SMTT(60) DEF FINISHED_ROUND
<1>3. "SAMPLE" # "FINISHED_ROUND" /\ "mmap" # "overwrite_mmap"
  BY SMTT(60)
<1> QED
  BY <1>1, <1>2, <1>3 DEF Items, Dumpable, Events, BackwardEvents

\* The types are an invariant: the first conjunct of the inductive invariant.
LEMMA TypeInit == RoundsInit => RoundsTypeOK
<1> SUFFICES ASSUME RoundsInit PROVE RoundsTypeOK
  OBVIOUS
<1>1. /\ <<>> \in Seq(Events) /\ <<>> \in Seq(BackwardEvents) /\ file \in Seq(Items)
  BY SMTT(60) DEF RoundsInit
<1>2. ring \in [Mmaps -> Seq(Events)] /\ overwrite_mmap \in [OverwriteMmaps -> Seq(BackwardEvents)]
  BY <1>1 DEF RoundsInit
<1>3. /\ ktime \in 1..MaxTime /\ sampled \in 0..MaxSamples
      /\ idx \in 1..(NrMmaps + 1) /\ oidx \in 1..(NrOverwrite + 1)
      /\ first_head \in Nat \cup {NotRead}
      /\ round_at \in 0..ktime /\ round_before \in 0..round_at
  BY RecordRoundsAssumption, SMTT(60) DEF RoundsInit
<1>4. /\ wrote \in BOOLEAN /\ samples \in BOOLEAN /\ stopped \in BOOLEAN
      /\ at \in {"top", "forward", "overwrite"}
      /\ bkw_mmap_state \in {"NOTREADY", "RUNNING", "DATA_PENDING", "EMPTY"}
  BY DEF RoundsInit
<1> QED
  BY <1>1, <1>2, <1>3, <1>4 DEF RoundsTypeOK

\* What the types say of the items of a file and of the events of the buffers.
LEMMA FileFacts ==
  ASSUME NEW f \in Seq(Items)
  PROVE  /\ Len(f) \in Nat /\ DOMAIN f = 1..Len(f)
         /\ \A k \in 1..Len(f) : f[k].time \in Nat /\ f[k] \in Items
<1>1. /\ Len(f) \in Nat /\ DOMAIN f = 1..Len(f)
      /\ \A k \in 1..Len(f) : f[k] \in Items
  BY SMTT(60)
<1> QED
  BY <1>1, ItemFacts

\* What the types say of the events that wait in a ring buffer.
LEMMA RingFacts ==
  ASSUME NEW g \in [Mmaps -> Seq(Events)], NEW m \in Mmaps
  PROVE  /\ Len(g[m]) \in Nat /\ DOMAIN g[m] = 1..Len(g[m])
         /\ \A k \in 1..Len(g[m]) : /\ g[m][k].time \in Nat /\ g[m][k] \in Events
                                    /\ g[m][k].type = "SAMPLE" /\ g[m][k].from = "mmap"
<1>1. g[m] \in Seq(Events)
  OBVIOUS
<1>2. /\ Len(g[m]) \in Nat /\ DOMAIN g[m] = 1..Len(g[m])
      /\ \A k \in 1..Len(g[m]) : g[m][k] \in Events
  BY <1>1, SMTT(60)
<1> QED
  BY <1>2, ItemFacts DEF Items

\* What Push does to the file and to its buffer, element by element.
LEMMA PushEffect ==
  ASSUME RoundsTypeOK, PassInv, Push
  PROVE  /\ file' \in Seq(Items)
         /\ Len(file') = Len(file) + Len(ring[idx])
         /\ \A k \in 1..Len(file) : file'[k] = file[k]
         /\ \A k \in (Len(file) + 1)..Len(file') : file'[k] = ring[idx][k - Len(file)]
         /\ ring' \in [Mmaps -> Seq(Events)]
         /\ \A m \in Mmaps \ {idx} : ring'[m] = ring[m]
         /\ Len(ring'[idx]) = Len(ring[idx]) - first_head
         /\ \A k \in 1..Len(ring'[idx]) : ring'[idx][k] = ring[idx][first_head + k]
<1> DEFINE r == ring[idx]
           s == SubSeq(r, first_head + 1, Len(r))
<1>1. r \in Seq(Events) /\ idx \in Mmaps /\ Len(r) \in Nat
  <2>1. r \in Seq(Events) /\ idx \in Mmaps
    BY DEF Push, RoundsTypeOK
  <2> QED
    BY <2>1, SMTT(60)
<1>2. file \in Seq(Items) /\ r \in Seq(Items)
  BY <1>1, SMTT(60) DEF RoundsTypeOK, Items
<1>3. first_head \in 0..Len(r)
  BY <1>1, SMTT(60) DEF Push, PassInv, RoundsTypeOK
<1>4. \A i \in (first_head + 1)..Len(r) : r[i] \in Events
  <2> HIDE DEF r
  <2> SUFFICES ASSUME NEW i \in (first_head + 1)..Len(r) PROVE r[i] \in Events
    OBVIOUS
  <2>1. i \in 1..Len(r)
    BY <1>1, <1>3, SMTT(60)
  <2> QED
    BY <1>1, <2>1, SMTT(60)
<1>5. /\ s \in Seq(Events)
      /\ Len(s) = Len(r) - first_head
      /\ \A i \in 1..(Len(r) - first_head) : s[i] = r[first_head + i]
  <2>1. first_head + 1 \in Int /\ Len(r) \in Int
    BY <1>1, <1>3, SMTT(60)
  <2> HIDE DEF r
  <2>2. /\ s \in Seq(Events)
        /\ Len(s) = IF first_head + 1 <= Len(r) THEN Len(r) - (first_head + 1) + 1 ELSE 0
        /\ \A i \in 1..(Len(r) - (first_head + 1) + 1) : s[i] = r[(first_head + 1) + i - 1]
    BY <2>1, <1>4, SMTT(60)
  <2> QED
    BY <2>1, <2>2, <1>3, SMTT(60)
<1>6. /\ file \o r \in Seq(Items)
      /\ Len(file \o r) = Len(file) + Len(r)
      /\ \A i \in 1..(Len(file) + Len(r)) :
            (file \o r)[i] = IF i <= Len(file) THEN file[i] ELSE r[i - Len(file)]
  BY <1>2, SMTT(60)
<1>7. Len(file) \in Nat
  BY <1>2, SMTT(60)
<1>8. file' = file \o r /\ ring' = [ring EXCEPT ![idx] = s]
  BY DEF Push
<1>9. /\ ring' \in [Mmaps -> Seq(Events)] /\ ring'[idx] = s
      /\ \A m \in Mmaps \ {idx} : ring'[m] = ring[m]
  BY <1>1, <1>5, <1>8 DEF RoundsTypeOK
<1> HIDE DEF r, s
<1>10. /\ Len(file') = Len(file) + Len(r)
       /\ \A k \in 1..Len(file) : file'[k] = file[k]
       /\ \A k \in (Len(file) + 1)..Len(file') : file'[k] = r[k - Len(file)]
  BY <1>1, <1>6, <1>7, <1>8, SMTT(60)
<1>11. /\ Len(ring'[idx]) = Len(r) - first_head
       /\ \A k \in 1..Len(ring'[idx]) : ring'[idx][k] = r[first_head + k]
  BY <1>5, <1>9
<1>12. file' \in Seq(Items)
  BY <1>6, <1>8
<1> QED
  BY <1>9, <1>10, <1>11, <1>12 DEF r

\* What FinishRound does to the file when the pass wrote something.
LEMMA FinishRoundEffect ==
  ASSUME RoundsTypeOK, FinishRound, wrote
  PROVE  /\ file' \in Seq(Items)
         /\ Len(file') = Len(file) + 1
         /\ \A k \in 1..Len(file) : file'[k] = file[k]
         /\ file'[Len(file')] = FINISHED_ROUND("mmap")
<1> DEFINE x == FINISHED_ROUND("mmap")
<1>1. x \in Items
  BY DEF Items
<1>2. file \in Seq(Items) /\ file' = Append(file, x)
  BY DEF RoundsTypeOK, FinishRound
<1> HIDE DEF x
<1>3. /\ file' \in Seq(Items)
      /\ Len(file') = Len(file) + 1
      /\ \A k \in 1..Len(file) : file'[k] = file[k]
      /\ file'[Len(file')] = x
  BY <1>1, <1>2, FileFacts, SMTT(60)
<1> QED
  BY <1>3 DEF x

\* What the kernel does to a buffer.
LEMMA SampleEffect ==
  ASSUME RoundsTypeOK, NEW i \in Mmaps, NEW t \in ktime..MaxTime, Sample(i, t)
  PROVE  /\ ring' \in [Mmaps -> Seq(Events)]
         /\ \A m \in Mmaps \ {i} : ring'[m] = ring[m]
         /\ Len(ring'[i]) = Len(ring[i]) + 1
         /\ \A k \in 1..Len(ring[i]) : ring'[i][k] = ring[i][k]
         /\ ring'[i][Len(ring[i]) + 1].time = t
         /\ ktime \in Nat /\ t \in Nat /\ ktime <= t /\ t \in 1..MaxTime
<1> DEFINE e == Event("mmap", t, sampled + 1)
<1>1. ktime \in Nat /\ t \in Nat /\ ktime <= t /\ t \in 1..MaxTime /\ sampled + 1 \in 1..MaxSamples
  BY RecordRoundsAssumption, SMTT(60) DEF Sample, RoundsTypeOK
<1>2. e \in Events /\ e.time = t
  BY <1>1 DEF Event, Events, EventsOf
<1>3. ring[i] \in Seq(Events) /\ ring' = [ring EXCEPT ![i] = Append(ring[i], e)]
  BY DEF RoundsTypeOK, Sample
<1> HIDE DEF e
<1>4. /\ Append(ring[i], e) \in Seq(Events)
      /\ Len(Append(ring[i], e)) = Len(ring[i]) + 1
      /\ \A k \in 1..Len(ring[i]) : Append(ring[i], e)[k] = ring[i][k]
      /\ Append(ring[i], e)[Len(ring[i]) + 1] = e
  BY <1>2, <1>3, SMTT(60)
<1>5. /\ ring' \in [Mmaps -> Seq(Events)]
      /\ \A m \in Mmaps \ {i} : ring'[m] = ring[m]
      /\ ring'[i] = Append(ring[i], e)
  BY <1>3, <1>4 DEF RoundsTypeOK
<1> QED
  BY <1>1, <1>2, <1>4, <1>5

\* What the kernel does to an overwritable buffer.
LEMMA SampleBackwardEffect ==
  ASSUME RoundsTypeOK, NEW i \in OverwriteMmaps, NEW t \in ktime..MaxTime, SampleBackward(i, t)
  PROVE  /\ overwrite_mmap' \in [OverwriteMmaps -> Seq(BackwardEvents)]
         /\ ktime \in Nat /\ t \in Nat /\ ktime <= t /\ t \in 1..MaxTime
<1> DEFINE e == Event("overwrite_mmap", t, sampled + 1)
           b == overwrite_mmap[i]
<1>1. ktime \in Nat /\ t \in Nat /\ ktime <= t /\ t \in 1..MaxTime /\ sampled + 1 \in 1..MaxSamples
  BY RecordRoundsAssumption, SMTT(60) DEF SampleBackward, RoundsTypeOK
<1>2. e \in BackwardEvents
  BY <1>1 DEF Event, BackwardEvents, EventsOf
<1>3. b \in Seq(BackwardEvents)
  BY DEF RoundsTypeOK
<1>4. PICK kept \in 0..Len(b) :
         overwrite_mmap' = [overwrite_mmap EXCEPT ![i] = <<e>> \o SubSeq(b, 1, kept)]
  BY DEF SampleBackward
<1> HIDE DEF e, b
<1>5. Len(b) \in Nat /\ \A k \in 1..Len(b) : b[k] \in BackwardEvents
  BY <1>3, SMTT(60)
<1>6. SubSeq(b, 1, kept) \in Seq(BackwardEvents)
  <2>1. kept \in Int /\ \A k \in 1..kept : b[k] \in BackwardEvents
    BY <1>5, SMTT(60)
  <2> QED
    BY <2>1, SMTT(60)
<1>7. <<e>> \o SubSeq(b, 1, kept) \in Seq(BackwardEvents)
  <2>1. <<e>> \in Seq(BackwardEvents)
    BY <1>2, SMTT(60)
  <2> QED
    BY <1>6, <2>1, SeqConcat
<1> QED
  BY <1>1, <1>4, <1>7 DEF RoundsTypeOK

-----------------------------------------------------------------------------
(* A dump of the overwritable buffers                                      *)

\* The file grows by what an overwrite pass writes, if at all.
Dumping == \E s \in Seq(Dumpable) : file' = file \o s

\* A step that leaves the file alone is one of them.
LEMMA NoDump ==
  ASSUME RoundsTypeOK, UNCHANGED file
  PROVE  Dumping
<1>1. file \in Seq(Items)
  BY DEF RoundsTypeOK
<1>2. <<>> \in Seq(Dumpable) /\ file \o <<>> = file
  BY <1>1, SMTT(60)
<1> QED
  BY <1>2 DEF Dumping

\* The steps of an overwrite pass are.
LEMMA BackwardDumps ==
  ASSUME RoundsTypeOK, PushBackward \/ FinishBackward
  PROVE  Dumping
<1>1. CASE PushBackward
  <2>1. overwrite_mmap[oidx] \in Seq(BackwardEvents) /\ file' = file \o overwrite_mmap[oidx]
    BY <1>1 DEF PushBackward, RoundsTypeOK
  <2>2. overwrite_mmap[oidx] \in Seq(Dumpable)
    BY <2>1, SMTT(60) DEF Dumpable
  <2> QED
    BY <2>1, <2>2 DEF Dumping
<1>2. CASE FinishBackward /\ ~wrote
  BY <1>2, NoDump DEF FinishBackward
<1>3. CASE FinishBackward /\ wrote
  <2> DEFINE x == FINISHED_ROUND("overwrite_mmap")
  <2>1. x \in Dumpable /\ file \in Seq(Items) /\ file' = Append(file, x)
    BY <1>3 DEF Dumpable, FinishBackward, RoundsTypeOK
  <2> HIDE DEF x
  <2>2. <<x>> \in Seq(Dumpable) /\ Append(file, x) = file \o <<x>>
    BY <2>1, SMTT(60)
  <2> QED
    BY <2>1, <2>2 DEF Dumping
<1> QED
  BY <1>1, <1>2, <1>3

\* A dump leaves the rounds of the forward passes and the events of the forward buffers
\* where they are.
LEMMA DumpingEffect ==
  ASSUME RoundsTypeOK, Dumping
  PROVE  /\ file' \in Seq(Items) /\ Len(file) <= Len(file')
         /\ \A k \in 1..Len(file) : file'[k] = file[k]
         /\ \A k \in DOMAIN file' : k > Len(file) => k \in Dumps'
         /\ Rounds' = Rounds
         /\ \A a \in Nat : Samples(a, Len(file))' = Samples(a, Len(file))
         /\ \A r \in Rounds : Samples(1, r)' = Samples(1, r)
<1>1. PICK s \in Seq(Dumpable) : file' = file \o s
  BY DEF Dumping
<1> DEFINE n == Len(file)
           l == Len(file')
<1>2. file \in Seq(Items) /\ s \in Seq(Items)
  <2>1. \A k \in 1..Len(s) : s[k] \in Items
    BY SMTT(60) DEF Items
  <2> QED
    BY <2>1, SMTT(60) DEF RoundsTypeOK
<1>3. /\ file' \in Seq(Items) /\ l = n + Len(s)
      /\ \A i \in 1..(n + Len(s)) : file'[i] = IF i <= n THEN file[i] ELSE s[i - n]
  BY <1>1, <1>2, SeqConcat
<1>4. /\ n \in Nat /\ DOMAIN file = 1..n /\ l \in Nat /\ DOMAIN file' = 1..l
      /\ Len(s) \in Nat /\ \A k \in 1..Len(s) : s[k] \in Dumpable
  BY <1>2, <1>3, FileFacts, SMTT(60)
<1> HIDE DEF n, l
<1>5. n <= l /\ \A k \in 1..n : file'[k] = file[k] /\ k \in 1..l
  BY <1>3, <1>4, SMTT(60)
<1>6. ASSUME NEW k \in DOMAIN file', k > n PROVE k \in Dumps'
  <2>1. k - n \in 1..Len(s) /\ k \in 1..(n + Len(s)) /\ ~(k <= n)
    BY <1>3, <1>4, <1>6, SMTT(60)
  <2>2. file'[k] = s[k - n]
    BY <1>3, <2>1
  <2> QED
    BY <1>4, <2>1, <2>2, ItemFacts DEF Dumps
<1>7. \A k \in 1..l : k \in 1..n \/ k > n
  BY <1>4, SMTT(60)
<1>8. \A k \in 1..n : (k \in Marks' <=> k \in Marks) /\ (k \in Dumps' <=> k \in Dumps)
  BY <1>4, <1>5 DEF Marks, Dumps
<1>9. Rounds' = Rounds
  <2>1. \A k : k \in Rounds' => k \in 1..n
    BY <1>4, <1>6, <1>7 DEF Rounds, Marks
  <2>2. \A k : k \in Rounds => k \in 1..n
    BY <1>4 DEF Rounds, Marks
  <2> QED
    BY <1>8, <2>1, <2>2 DEF Rounds
<1>10. ASSUME NEW a \in Nat PROVE Samples(a, Len(file))' = Samples(a, Len(file))
  <2>1. \A k \in 1..n : k \in a..l <=> k \in a..n
    BY <1>4, <1>5, SMTT(60)
  <2>2. \A k : k \in Samples(a, Len(file))' <=>
                 k \in a..l /\ k \in 1..l /\ k \notin Marks' /\ k \notin Dumps'
    BY <1>4 DEF Samples, l
  <2>3. \A k : k \in Samples(a, Len(file)) <=>
                 k \in a..n /\ k \in 1..n /\ k \notin Marks /\ k \notin Dumps
    BY <1>4 DEF Samples, n
  <2>4. \A k : k \in Samples(a, Len(file))' => k \in 1..n
    BY <1>4, <1>6, <1>7, <2>2
  <2>5. \A k : k \in Samples(a, Len(file))' <=> k \in Samples(a, Len(file))
    BY <1>5, <1>8, <2>1, <2>2, <2>3, <2>4
  <2>6. Samples(a, Len(file))' \subseteq Samples(a, Len(file))
    BY <2>5
  <2>7. Samples(a, Len(file)) \subseteq Samples(a, Len(file))'
    BY <2>5
  <2> QED
    BY <2>6, <2>7
<1>11. ASSUME NEW r \in Rounds PROVE Samples(1, r)' = Samples(1, r)
  <2>1. r \in 1..n
    BY <1>4 DEF Rounds, Marks
  <2>2. \A k \in 1..r : k \in 1..n /\ k \in 1..l
    BY <1>4, <1>5, <2>1, SMTT(60)
  <2> QED
    BY <1>4, <1>8, <2>2 DEF Samples
<1> QED
  BY <1>3, <1>5, <1>6, <1>9, <1>10, <1>11 DEF n, l

-----------------------------------------------------------------------------
(* Types                                                                   *)

\* Every step keeps the types; Push needs PassInv for the part it cuts off.
LEMMA TypeNext == RoundsTypeOK /\ PassInv /\ [RoundsNext]_rounds_vars => RoundsTypeOK'
<1> SUFFICES ASSUME RoundsTypeOK, PassInv, [RoundsNext]_rounds_vars PROVE RoundsTypeOK'
  OBVIOUS
<1> USE RecordRoundsAssumption DEF forward_vars, backward_vars
<1>1. ASSUME NEW i \in OverwriteMmaps, NEW t \in ktime..MaxTime, SampleBackward(i, t)
      PROVE  RoundsTypeOK'
  <2>1. overwrite_mmap' \in [OverwriteMmaps -> Seq(BackwardEvents)] /\ t \in 1..MaxTime
    BY <1>1, SampleBackwardEffect
  <2>2. ktime' \in 1..MaxTime /\ sampled' \in 0..MaxSamples /\ round_at' \in 0..ktime'
    BY <1>1, SMTT(60) DEF SampleBackward, RoundsTypeOK
  <2> QED
    BY <1>1, <2>1, <2>2 DEF SampleBackward, RoundsTypeOK
<1>2. ASSUME NEW i \in Mmaps, NEW t \in ktime..MaxTime, Sample(i, t) PROVE RoundsTypeOK'
  <2>1. ring' \in [Mmaps -> Seq(Events)]
    BY <1>2, SampleEffect
  <2>2. ktime' \in 1..MaxTime /\ sampled' \in 0..MaxSamples /\ round_at' \in 0..ktime'
    BY <1>2, SMTT(60) DEF Sample, RoundsTypeOK
  <2> QED
    BY <1>2, <2>1, <2>2 DEF Sample, RoundsTypeOK
<1>3. CASE PushReadHead
  <2>1. first_head' \in Nat
    BY <1>3, RingFacts DEF PushReadHead, RoundsTypeOK
  <2> QED
    BY <1>3, <2>1 DEF PushReadHead, RoundsTypeOK
<1>4. CASE Push
  <2>1. file' \in Seq(Items) /\ ring' \in [Mmaps -> Seq(Events)]
    BY <1>4, PushEffect
  <2>2. wrote' \in BOOLEAN /\ samples' \in BOOLEAN
    BY <1>4 DEF Push, RoundsTypeOK
  <2>3. idx' \in 1..(NrMmaps + 1) /\ first_head' \in Nat \cup {NotRead}
    BY <1>4, SMTT(60) DEF Push, RoundsTypeOK
  <2> QED
    BY <1>4, <2>1, <2>2, <2>3 DEF Push, RoundsTypeOK
<1>5. CASE FinishRound
  <2>1. file' \in Seq(Items)
    BY <1>5, FinishRoundEffect DEF FinishRound, RoundsTypeOK
  <2>2. wrote' \in BOOLEAN /\ at' \in {"top", "forward", "overwrite"}
    BY <1>5 DEF FinishRound, RoundsTypeOK
  <2>3. round_at' \in 0..ktime' /\ round_before' \in 0..round_at'
    BY <1>5, SMTT(60) DEF FinishRound, RoundsTypeOK
  <2>4. idx' \in 1..(NrMmaps + 1)
    BY <1>5, SMTT(60) DEF FinishRound, RoundsTypeOK
  <2> QED
    BY <1>5, <2>1, <2>2, <2>3, <2>4 DEF FinishRound, RoundsTypeOK
<1>6. CASE LoopTop
  <2>1. /\ bkw_mmap_state' \in {"NOTREADY", "RUNNING", "DATA_PENDING", "EMPTY"}
        /\ at' \in {"top", "forward", "overwrite"}
    BY <1>6 DEF LoopTop, RoundsTypeOK
  <2> QED
    BY <1>6, <2>1 DEF LoopTop, RoundsTypeOK
<1>7. CASE PushBackward
  <2>1. file' \in Seq(Items)
    BY <1>7, BackwardDumps, DumpingEffect
  <2>2. wrote' \in BOOLEAN /\ samples' \in BOOLEAN
    BY <1>7 DEF PushBackward, RoundsTypeOK
  <2>3. oidx' \in 1..(NrOverwrite + 1)
    BY <1>7, SMTT(60) DEF PushBackward, RoundsTypeOK, OverwriteMmaps
  <2>4. overwrite_mmap' \in [OverwriteMmaps -> Seq(BackwardEvents)]
    <3>1. <<>> \in Seq(BackwardEvents)
      BY SMTT(60)
    <3> QED
      BY <1>7, <3>1 DEF PushBackward, RoundsTypeOK
  <2> QED
    BY <1>7, <2>1, <2>2, <2>3, <2>4 DEF PushBackward, RoundsTypeOK
<1>8. CASE FinishBackward
  <2>1. file' \in Seq(Items)
    BY <1>8, BackwardDumps, DumpingEffect
  <2>2. wrote' \in BOOLEAN /\ samples' \in BOOLEAN /\ stopped' \in BOOLEAN
    BY <1>8 DEF FinishBackward, RoundsTypeOK
  <2>3. oidx' \in 1..(NrOverwrite + 1)
    BY <1>8, SMTT(60) DEF FinishBackward
  <2>4. /\ bkw_mmap_state' \in {"NOTREADY", "RUNNING", "DATA_PENDING", "EMPTY"}
        /\ at' \in {"top", "forward", "overwrite"}
    BY <1>8 DEF FinishBackward, RoundsTypeOK
  <2> QED
    BY <1>8, <2>1, <2>2, <2>3, <2>4 DEF FinishBackward, RoundsTypeOK
<1>9. CASE UNCHANGED rounds_vars
  BY <1>9 DEF rounds_vars, RoundsTypeOK
<1> QED
  BY <1>1, <1>2, <1>3, <1>4, <1>5, <1>6, <1>7, <1>8, <1>9 DEF RoundsNext

-----------------------------------------------------------------------------
(* The times of a pass                                                     *)

\* The conjuncts of PassInv: of the read in progress, of the file and the
\* clock, of the file and the last two rounds, of the buffers.
ReadInv == first_head # NotRead => idx \in Mmaps /\ first_head <= Len(ring[idx])
FileInv == \A i \in Samples(1, Len(file)) : file[i].time <= ktime
LastInv == \A r \in Rounds : \A i \in Samples(1, r) : file[i].time <= round_at
BeforeInv ==
  \A r1, r2 \in Rounds : r1 < r2 =>
     \A i \in Samples(1, r1) : file[i].time <= round_before
BufferInv ==
  \A m \in Mmaps : \A k \in DOMAIN ring[m] :
     /\ ring[m][k].time <= ktime
     /\ ring[m][k].time >= round_before
     /\ m < idx \/ (m = idx /\ first_head # NotRead /\ k > first_head)
          => ring[m][k].time >= round_at

\* PassInv is its five parts, each of which some step can disturb.
LEMMA PassParts == PassInv <=> ReadInv /\ FileInv /\ LastInv /\ BeforeInv /\ BufferInv
  BY DEF PassInv, ReadInv, FileInv, LastInv, BeforeInv, BufferInv

\* An action that leaves the file alone, or dumps overwritable buffers to it, keeps what
\* is said of the forward events of the file.
LEMMA SameFile ==
  ASSUME RoundsTypeOK, FileInv, LastInv, BeforeInv, TwoRoundsApart,
         Dumping, UNCHANGED <<round_at, round_before>>, ktime' \in Nat, ktime' >= ktime
  PROVE  FileInv' /\ LastInv' /\ BeforeInv' /\ TwoRoundsApart'
<1>1. /\ Len(file) \in Nat /\ DOMAIN file = 1..Len(file)
      /\ \A k \in 1..Len(file) : file[k].time \in Nat
  BY FileFacts DEF RoundsTypeOK
<1>2. /\ \A k \in 1..Len(file) : file'[k] = file[k]
      /\ Rounds' = Rounds
      /\ \A a \in Nat : Samples(a, Len(file))' = Samples(a, Len(file))
      /\ \A r \in Rounds : Samples(1, r)' = Samples(1, r)
  BY DumpingEffect
<1>3. \A a, b : \A k \in Samples(a, b) : k \in 1..Len(file) /\ file'[k] = file[k]
  BY <1>1, <1>2 DEF Samples
<1>4. 1 \in Nat /\ \A r \in Rounds : r \in Nat
  <2>1. 1 \in Nat /\ \A r \in 1..Len(file) : r \in Nat
    BY <1>1, SMTT(60)
  <2> QED
    BY <1>1, <2>1 DEF Rounds, Marks
<1>5. FileInv'
  <2> SUFFICES ASSUME NEW i \in Samples(1, Len(file)) PROVE file'[i].time <= ktime'
    BY <1>2, <1>4 DEF FileInv
  <2>1. file'[i] = file[i] /\ file[i].time \in Nat /\ file[i].time <= ktime
    BY <1>1, <1>3 DEF FileInv
  <2>2. ktime \in Nat
    BY RecordRoundsAssumption, SMTT(60) DEF RoundsTypeOK
  <2> QED
    BY <2>1, <2>2, SMTT(60)
<1>6. LastInv' /\ BeforeInv'
  <2>1. round_at' = round_at /\ round_before' = round_before
    OBVIOUS
  <2>2. ASSUME NEW r \in Rounds, NEW i \in Samples(1, r)'
        PROVE  i \in Samples(1, r) /\ file'[i] = file[i]
    <3>1. i \in Samples(1, r)
      BY <1>2
    <3> QED
      BY <1>3, <3>1
  <2>3. LastInv'
    BY <1>2, <2>1, <2>2 DEF LastInv
  <2>4. BeforeInv'
    BY <1>2, <2>1, <2>2 DEF BeforeInv
  <2> QED
    BY <2>3, <2>4
<1>7. TwoRoundsApart'
  <2> SUFFICES ASSUME NEW r1 \in Rounds', NEW r2 \in Rounds', r1 < r2,
                      NEW i \in Samples(1, r1)', NEW k \in Samples(r2, Len(file))'
               PROVE  file'[i].time <= file'[k].time
    BY DEF TwoRoundsApart
  <2>1. r1 \in Rounds /\ r2 \in Rounds /\ r2 \in Nat
    BY <1>2, <1>4
  <2>2. i \in Samples(1, r1)
    BY <1>2, <2>1
  <2>3. k \in Samples(r2, Len(file))
    BY <1>2, <2>1
  <2>4. file'[i] = file[i] /\ file'[k] = file[k]
    BY <1>3, <2>2, <2>3
  <2>5. file[i].time <= file[k].time
    BY <2>1, <2>2, <2>3 DEF TwoRoundsApart
  <2> QED
    BY <2>4, <2>5
<1> QED
  BY <1>5, <1>6, <1>7

\* Time passes, overwritable buffers are written, paused or dumped: the forward buffers
\* stay, and times that were not later than the clock are not.
LEMMA PassDump ==
  ASSUME RoundsTypeOK, PassInv, TwoRoundsApart, Dumping,
         UNCHANGED <<ring, idx, first_head, round_at, round_before>>,
         ktime' \in Nat, ktime' >= ktime
  PROVE  (PassInv /\ TwoRoundsApart)'
<1>1. FileInv' /\ LastInv' /\ BeforeInv' /\ TwoRoundsApart'
  BY PassParts, SameFile
<1>2. ReadInv'
  BY PassParts DEF ReadInv
<1>3. BufferInv'
  <2> SUFFICES ASSUME NEW m \in Mmaps, NEW k \in DOMAIN ring[m]
               PROVE  /\ ring[m][k].time <= ktime'
                      /\ ring[m][k].time >= round_before
                      /\ m < idx \/ (m = idx /\ first_head # NotRead /\ k > first_head)
                           => ring[m][k].time >= round_at
    BY DEF BufferInv
  <2>1. /\ ring[m][k].time <= ktime
        /\ ring[m][k].time >= round_before
        /\ m < idx \/ (m = idx /\ first_head # NotRead /\ k > first_head)
             => ring[m][k].time >= round_at
    BY PassParts DEF BufferInv
  <2>2. ring[m][k].time \in Nat
    BY RingFacts DEF RoundsTypeOK
  <2>3. ktime \in Nat
    BY RecordRoundsAssumption, SMTT(60) DEF RoundsTypeOK
  <2>4. ring[m][k].time <= ktime'
    BY <2>1, <2>2, <2>3, SMTT(60)
  <2> QED
    BY <2>1, <2>4
<1> QED
  BY <1>1, <1>2, <1>3 DEF PassInv, ReadInv, FileInv, LastInv, BeforeInv, BufferInv

\* The kernel writes an event of the present, which no round is later than.
LEMMA PassSample ==
  ASSUME RoundsTypeOK, PassInv, TwoRoundsApart,
         NEW i \in Mmaps, NEW t \in ktime..MaxTime, Sample(i, t)
  PROVE  (PassInv /\ TwoRoundsApart)'
<1> DEFINE n == Len(ring[i]) + 1
<1>1. /\ ktime' = t /\ UNCHANGED <<file, idx, first_head, round_at, round_before>>
      /\ ktime \in Nat /\ t \in Nat /\ ktime <= t
  BY SampleEffect DEF Sample
<1>2. FileInv' /\ LastInv' /\ BeforeInv' /\ TwoRoundsApart'
  <2>1. ktime' >= ktime
    BY <1>1, SMTT(60)
  <2> QED
    BY <1>1, <2>1, PassParts, NoDump, SameFile
<1>3. ReadInv'
  <2> SUFFICES ASSUME first_head # NotRead PROVE idx \in Mmaps /\ first_head <= Len(ring'[idx])
    BY <1>1 DEF ReadInv
  <2>1. /\ idx \in Mmaps /\ first_head <= Len(ring[idx])
        /\ Len(ring[idx]) \in Nat /\ first_head \in Nat
    BY PassParts, RingFacts DEF ReadInv, RoundsTypeOK
  <2>2. Len(ring'[idx]) = Len(ring[idx]) \/ Len(ring'[idx]) = Len(ring[idx]) + 1
    BY <2>1, SampleEffect
  <2> QED
    BY <2>1, <2>2, SMTT(60)
<1>4. BufferInv'
  <2> SUFFICES ASSUME NEW m \in Mmaps, NEW k \in DOMAIN ring'[m]
               PROVE  /\ ring'[m][k].time <= t
                      /\ ring'[m][k].time >= round_before
                      /\ m < idx \/ (m = idx /\ first_head # NotRead /\ k > first_head)
                           => ring'[m][k].time >= round_at
    BY <1>1 DEF BufferInv
  <2>1. CASE m # i \/ k # n
    <3>1. k \in DOMAIN ring[m] /\ ring'[m][k] = ring[m][k]
      <4>1. ring' \in [Mmaps -> Seq(Events)] /\ ring \in [Mmaps -> Seq(Events)]
        BY SampleEffect DEF RoundsTypeOK
      <4>2. /\ DOMAIN ring'[m] = 1..Len(ring'[m]) /\ DOMAIN ring[m] = 1..Len(ring[m])
            /\ Len(ring[m]) \in Nat
        BY <4>1, RingFacts
      <4>3. CASE m # i
        BY <4>3, SampleEffect
      <4>4. CASE m = i
        <5>1. Len(ring'[m]) = Len(ring[m]) + 1 /\ k # Len(ring[m]) + 1
          BY <2>1, <4>4, SampleEffect
        <5>2. k \in 1..Len(ring[m])
          BY <4>2, <5>1, SMTT(60)
        <5> QED
          BY <4>2, <4>4, <5>2, SampleEffect
      <4> QED
        BY <4>3, <4>4
    <3>2. /\ ring[m][k].time <= ktime
          /\ ring[m][k].time >= round_before
          /\ m < idx \/ (m = idx /\ first_head # NotRead /\ k > first_head)
               => ring[m][k].time >= round_at
      BY <3>1, PassParts DEF BufferInv
    <3>3. ring[m][k].time \in Nat
      BY <3>1, RingFacts DEF RoundsTypeOK
    <3>4. ring[m][k].time <= t
      BY <1>1, <3>2, <3>3, SMTT(60)
    <3> QED
      BY <3>1, <3>2, <3>4
  <2>2. CASE m = i /\ k = n
    <3>1. ring'[m][k].time = t
      BY <2>2, SampleEffect
    <3>2. t <= t /\ t >= round_before /\ t >= round_at
      BY <1>1, SMTT(60) DEF RoundsTypeOK
    <3> QED
      BY <3>1, <3>2
  <2> QED
    BY <2>1, <2>2
<1> QED
  BY <1>2, <1>3, <1>4 DEF PassInv, ReadInv, FileInv, LastInv, BeforeInv, BufferInv

\* perf_mmap__push reads the head: what comes after it comes after the last round.
LEMMA PassPushReadHead ==
  ASSUME RoundsTypeOK, PassInv, TwoRoundsApart, PushReadHead
  PROVE  (PassInv /\ TwoRoundsApart)'
<1>1. FileInv' /\ LastInv' /\ BeforeInv' /\ TwoRoundsApart'
  <2>1. ktime \in Nat /\ ktime >= ktime
    BY RecordRoundsAssumption, SMTT(60) DEF RoundsTypeOK
  <2> QED
    BY <2>1, PassParts, NoDump, SameFile DEF PushReadHead
<1>2. idx \in Mmaps /\ Len(ring[idx]) \in Nat /\ DOMAIN ring[idx] = 1..Len(ring[idx])
  BY RingFacts DEF PushReadHead, RoundsTypeOK
<1>3. ReadInv'
  BY <1>2, SMTT(60) DEF PushReadHead, ReadInv
<1>4. BufferInv'
  <2> SUFFICES ASSUME NEW m \in Mmaps, NEW k \in DOMAIN ring[m]
               PROVE  /\ ring[m][k].time <= ktime
                      /\ ring[m][k].time >= round_before
                      /\ m < idx \/ (m = idx /\ first_head' # NotRead /\ k > first_head')
                           => ring[m][k].time >= round_at
    BY DEF PushReadHead, BufferInv
  <2>1. ~(m = idx /\ k > first_head')
    BY <1>2, SMTT(60) DEF PushReadHead
  <2> QED
    BY <2>1, PassParts DEF BufferInv
<1> QED
  BY <1>1, <1>3, <1>4 DEF PassInv, ReadInv, FileInv, LastInv, BeforeInv, BufferInv

\* Push appends events only: the rounds stay, and so do the samples before them.
LEMMA PushSamples ==
  ASSUME RoundsTypeOK, PassInv, Push
  PROVE  /\ Marks' = Marks /\ Dumps' = Dumps /\ Rounds' = Rounds
         /\ \A r \in Rounds : Samples(1, r)' = Samples(1, r)
         /\ \A k \in DOMAIN file' : k \notin Marks /\ k \notin Dumps =>
               \/ k \in Samples(1, Len(file)) /\ file'[k] = file[k]
               \/ /\ k > Len(file) /\ k - Len(file) \in DOMAIN ring[idx]
                  /\ file'[k] = ring[idx][k - Len(file)]
<1> DEFINE n == Len(file)
           l == Len(ring[idx])
           W == (n + 1)..(n + l)
<1>1. n \in Nat /\ DOMAIN file = 1..n /\ DOMAIN file' = 1..Len(file')
  BY PushEffect, FileFacts DEF RoundsTypeOK
<1>2. /\ l \in Nat /\ DOMAIN ring[idx] = 1..l
      /\ \A k \in 1..l : ring[idx][k].type = "SAMPLE" /\ ring[idx][k].from = "mmap"
  BY RingFacts DEF Push, RoundsTypeOK
<1>3. /\ DOMAIN file' = 1..(n + l)
      /\ \A k \in 1..n : file'[k] = file[k]
      /\ \A k \in W : file'[k] = ring[idx][k - n]
  BY <1>1, PushEffect
<1> HIDE DEF n, l
<1>4. /\ 1..(n + l) = (1..n) \cup W
      /\ \A k \in W : k - n \in 1..l /\ k > n
  BY <1>1, <1>2, SMTT(60)
<1> HIDE DEF W
<1>5. \A k \in W : file'[k].type = "SAMPLE" /\ file'[k].from = "mmap"
  BY <1>2, <1>3, <1>4
<1>6. Marks' = Marks
  BY <1>1, <1>3, <1>4, <1>5, ItemFacts DEF Marks
<1>7. Dumps' = Dumps
  BY <1>1, <1>3, <1>4, <1>5, ItemFacts DEF Dumps
<1>8. ASSUME NEW r \in Rounds PROVE Samples(1, r)' = Samples(1, r)
  <2>1. r \in 1..n
    BY <1>1 DEF Rounds, Marks
  <2>2. \A k \in 1..r : k \in 1..n /\ k \in 1..(n + l)
    BY <1>1, <1>2, <2>1, SMTT(60)
  <2> QED
    BY <1>1, <1>3, <1>6, <1>7, <2>2 DEF Samples
<1>9. ASSUME NEW k \in DOMAIN file', k \notin Marks, k \notin Dumps
      PROVE  \/ k \in Samples(1, Len(file)) /\ file'[k] = file[k]
             \/ /\ k > Len(file) /\ k - Len(file) \in DOMAIN ring[idx]
                /\ file'[k] = ring[idx][k - Len(file)]
  <2>1. CASE k \in 1..n
    BY <1>1, <1>3, <1>9, <2>1 DEF Samples, n
  <2>2. CASE k \in W
    BY <1>2, <1>3, <1>4, <2>2 DEF n
  <2> QED
    BY <1>3, <1>4, <2>1, <2>2
<1> QED
  BY <1>6, <1>7, <1>8, <1>9 DEF Rounds

\* A buffer is written out: its events are not later than the clock, and those it keeps
\* came after the head was read.
LEMMA PassPush ==
  ASSUME RoundsTypeOK, PassInv, TwoRoundsApart, Push
  PROVE  (PassInv /\ TwoRoundsApart)'
<1>1. UNCHANGED <<ktime, round_at, round_before>> /\ first_head' = NotRead /\ idx' = idx + 1
      /\ idx \in Mmaps /\ first_head # NotRead
  BY DEF Push
<1>2. \A k \in DOMAIN file' : k \notin Marks' /\ k \notin Dumps' =>
         \/ k \in Samples(1, Len(file)) /\ file'[k] = file[k]
         \/ /\ k > Len(file) /\ k - Len(file) \in DOMAIN ring[idx]
            /\ file'[k] = ring[idx][k - Len(file)]
  BY PushSamples
<1>3. /\ Marks' = Marks /\ Dumps' = Dumps /\ Rounds' = Rounds
      /\ \A r \in Rounds : Samples(1, r)' = Samples(1, r)
  BY PushSamples
<1>4. /\ Len(file) \in Nat /\ DOMAIN file = 1..Len(file)
      /\ \A k \in 1..Len(file) : file'[k] = file[k]
  BY PushEffect, FileFacts DEF RoundsTypeOK
<1>5. ReadInv'
  BY <1>1 DEF ReadInv
<1>6. FileInv'
  <2> SUFFICES ASSUME NEW i \in Samples(1, Len(file))' PROVE file'[i].time <= ktime
    BY <1>1 DEF FileInv
  <2>1. i \in DOMAIN file' /\ i \notin Marks' /\ i \notin Dumps'
    BY DEF Samples
  <2> QED
    BY <1>2, <2>1, PassParts DEF FileInv, BufferInv, Push
<1>7. \A r \in Rounds : \A i \in Samples(1, r) : file'[i] = file[i]
  BY <1>4 DEF Samples
<1>8. LastInv'
  BY <1>1, <1>3, <1>7, PassParts DEF LastInv
<1>9. BeforeInv'
  BY <1>1, <1>3, <1>7, PassParts DEF BeforeInv
<1>10. BufferInv'
  <2> SUFFICES ASSUME NEW m \in Mmaps, NEW k \in DOMAIN ring'[m]
               PROVE  /\ ring'[m][k].time <= ktime
                      /\ ring'[m][k].time >= round_before
                      /\ m < idx + 1 => ring'[m][k].time >= round_at
    BY <1>1 DEF BufferInv
  <2>1. CASE m # idx
    <3>1. ring'[m] = ring[m]
      BY <2>1, PushEffect
    <3>2. m < idx + 1 => m < idx
      BY <1>1, <2>1, SMTT(60)
    <3> QED
      BY <3>1, <3>2, PassParts DEF BufferInv
  <2>2. CASE m = idx
    <3>1. /\ first_head \in Nat /\ first_head <= Len(ring[idx])
          /\ Len(ring[idx]) \in Nat /\ DOMAIN ring[idx] = 1..Len(ring[idx])
      BY <1>1, PassParts, RingFacts DEF ReadInv, RoundsTypeOK
    <3>2. DOMAIN ring'[idx] = 1..Len(ring'[idx]) /\ Len(ring'[idx]) = Len(ring[idx]) - first_head
      BY <1>1, PushEffect, RingFacts
    <3>3. ring'[idx][k] = ring[idx][first_head + k]
      BY <2>2, <3>2, PushEffect
    <3>4. first_head + k \in DOMAIN ring[idx] /\ first_head + k > first_head
      BY <2>2, <3>1, <3>2, SMTT(60)
    <3> QED
      BY <1>1, <2>2, <3>3, <3>4, PassParts DEF BufferInv
  <2> QED
    BY <2>1, <2>2
<1>11. TwoRoundsApart'
  <2> SUFFICES ASSUME NEW r1 \in Rounds, NEW r2 \in Rounds, r1 < r2,
                      NEW i \in Samples(1, r1), NEW k \in Samples(r2, Len(file))'
               PROVE  file'[i].time <= file'[k].time
    BY <1>3, SMTT(60) DEF TwoRoundsApart
  <2>1. file'[i] = file[i]
    BY <1>7
  <2>2. k \in r2..Len(file') /\ k \in DOMAIN file' /\ k \notin Marks' /\ k \notin Dumps'
    BY DEF Samples
  <2>3. CASE k \in Samples(1, Len(file)) /\ file'[k] = file[k]
    <3>1. k \in 1..Len(file) /\ r2 \in 1..Len(file) /\ k \notin Marks /\ k \notin Dumps
      BY <1>4, <2>3 DEF Samples, Rounds, Marks
    <3>2. k \in r2..Len(file)
      BY <1>4, <2>2, <3>1, SMTT(60)
    <3>3. k \in Samples(r2, Len(file))
      BY <1>4, <3>1, <3>2 DEF Samples
    <3> QED
      BY <2>1, <2>3, <3>3 DEF TwoRoundsApart
  <2>4. CASE k - Len(file) \in DOMAIN ring[idx] /\ file'[k] = ring[idx][k - Len(file)]
    <3>1. file[i].time <= round_before
      BY PassParts DEF BeforeInv
    <3>2. ring[idx][k - Len(file)].time >= round_before
      BY <1>1, <2>4, PassParts DEF BufferInv
    <3>3. ring[idx][k - Len(file)].time \in Nat
      BY <1>1, <2>4, RingFacts DEF RoundsTypeOK
    <3>4. file[i].time \in Nat
      BY <1>4, FileFacts DEF RoundsTypeOK, Samples
    <3>5. round_before \in Nat
      BY SMTT(60) DEF RoundsTypeOK
    <3> QED
      BY <2>1, <2>4, <3>1, <3>2, <3>3, <3>4, <3>5, SMTT(60)
  <2> QED
    BY <1>2, <2>2, <2>3, <2>4
<1> QED
  BY <1>5, <1>6, <1>8, <1>9, <1>10, <1>11
     DEF PassInv, ReadInv, FileInv, LastInv, BeforeInv, BufferInv

\* The pass ends with a FINISHED_ROUND at the end of the file.
LEMMA RoundAdded ==
  ASSUME RoundsTypeOK, FinishRound, wrote
  PROVE  /\ Marks' = Marks \cup {Len(file')} /\ Dumps' = Dumps
         /\ Rounds' = Rounds \cup {Len(file')}
<1> DEFINE n == Len(file)
           q == Len(file')
<1>1. n \in Nat /\ DOMAIN file = 1..n /\ DOMAIN file' = 1..q /\ q = n + 1
  BY FinishRoundEffect, FileFacts DEF RoundsTypeOK
<1>2. \A k \in 1..n : file'[k] = file[k]
  BY FinishRoundEffect
<1>3. file'[q].type = "FINISHED_ROUND" /\ file'[q].from # "overwrite_mmap"
  BY FinishRoundEffect, ItemFacts
<1> HIDE DEF n, q
<1>4. 1..q = (1..n) \cup {q} /\ q \notin 1..n
  BY <1>1, SMTT(60)
<1>5. Marks' = Marks \cup {q}
  BY <1>1, <1>2, <1>3, <1>4 DEF Marks
<1>6. Dumps' = Dumps
  BY <1>1, <1>2, <1>3, <1>4 DEF Dumps
<1>7. q \notin Dumps
  BY <1>1, <1>4 DEF Dumps
<1> QED
  BY <1>5, <1>6, <1>7 DEF Rounds, q

\* The pass ends: every buffer was read after the last round, so the new round may
\* take its place.
LEMMA PassFinishRound ==
  ASSUME RoundsTypeOK, PassInv, TwoRoundsApart, FinishRound
  PROVE  (PassInv /\ TwoRoundsApart)'
<1>1. /\ idx = NrMmaps + 1 /\ idx' = 1 /\ first_head' = first_head
      /\ UNCHANGED <<ktime, ring>>
  BY DEF FinishRound
<1>2. first_head = NotRead
  BY <1>1, PassParts, RecordRoundsAssumption, SMTT(60) DEF ReadInv
<1>3. ReadInv'
  BY <1>1, <1>2 DEF ReadInv
<1>4. \A m \in Mmaps : \A k \in DOMAIN ring[m] :
         /\ ring[m][k].time <= ktime
         /\ ring[m][k].time >= round_before
         /\ ring[m][k].time >= round_at
  BY <1>1, PassParts, RecordRoundsAssumption, SMTT(60) DEF BufferInv
<1>5. BufferInv'
  BY <1>1, <1>2, <1>4, SMTT(60) DEF BufferInv, FinishRound
<1>6. CASE ~wrote
  <2>1. UNCHANGED <<file, round_at, round_before>> /\ ktime \in Nat /\ ktime >= ktime
    BY <1>6, RecordRoundsAssumption, SMTT(60) DEF FinishRound, RoundsTypeOK
  <2>2. FileInv' /\ LastInv' /\ BeforeInv' /\ TwoRoundsApart'
    BY <1>1, <2>1, PassParts, NoDump, SameFile
  <2> QED
    BY <2>2, <1>3, <1>5 DEF PassInv, ReadInv, FileInv, LastInv, BeforeInv, BufferInv
<1>7. CASE wrote
  <2>1. /\ Len(file) \in Nat /\ DOMAIN file = 1..Len(file)
        /\ Len(file') = Len(file) + 1 /\ DOMAIN file' = 1..Len(file')
        /\ \A k \in 1..Len(file) : file'[k] = file[k]
    BY <1>7, FinishRoundEffect, FileFacts DEF RoundsTypeOK
  <2>2. /\ Marks' = Marks \cup {Len(file')} /\ Dumps' = Dumps
        /\ Rounds' = Rounds \cup {Len(file')}
    BY <1>7, RoundAdded
  <2>3. \A a \in 1..Len(file') : \A b \in 1..Len(file') :
           \A k \in Samples(a, b)' : k \in Samples(a, Len(file)) /\ file'[k] = file[k]
    <3>1. \A a \in 1..Len(file') : \A b \in 1..Len(file') : \A k \in a..b :
             k \in 1..Len(file') /\ k # Len(file') => k \in a..Len(file) /\ k \in 1..Len(file)
      BY <2>1, SMTT(60)
    <3>2. Len(file') \in Marks'
      BY <2>2
    <3> QED
      BY <2>1, <2>2, <3>1, <3>2 DEF Samples
  <2>4. \A r \in Rounds : \A k \in Samples(1, r)' : k \in Samples(1, r)
    <3>1. \A r \in 1..Len(file) : \A k \in 1..r : k \in 1..Len(file)
      BY <2>1, SMTT(60)
    <3> QED
      BY <2>1, <2>2, <3>1 DEF Samples, Rounds, Marks
  <2>5. round_at' = ktime /\ round_before' = round_at
    BY <1>7 DEF FinishRound
  <2>6. \A r \in Rounds' : r \in 1..Len(file')
    BY <2>1 DEF Rounds, Marks
  <2>7. 1 \in 1..Len(file') /\ Len(file') \in 1..Len(file')
    BY <2>1, SMTT(60)
  <2>8. \A r \in 1..Len(file') : \A i \in Samples(1, r)' : file'[i].time <= ktime
    BY <2>3, <2>7, PassParts DEF FileInv
  <2>9. FileInv'
    BY <1>1, <2>7, <2>8 DEF FileInv
  <2>10. LastInv'
    BY <2>5, <2>6, <2>8 DEF LastInv
  <2>11. BeforeInv'
    <3> SUFFICES ASSUME NEW r1 \in Rounds', NEW r2 \in Rounds', r1 < r2,
                        NEW i \in Samples(1, r1)'
                 PROVE  file'[i].time <= round_at
      BY <2>5 DEF BeforeInv
    <3>1. r1 \in Rounds
      BY <2>1, <2>2, <2>6, SMTT(60)
    <3> QED
      BY <2>3, <2>4, <2>6, <2>7, <3>1, PassParts DEF LastInv
  <2>12. TwoRoundsApart'
    <3> SUFFICES ASSUME NEW r1 \in Rounds', NEW r2 \in Rounds', r1 < r2,
                        NEW i \in Samples(1, r1)', NEW k \in Samples(r2, Len(file))'
                 PROVE  file'[i].time <= file'[k].time
      BY DEF TwoRoundsApart
    <3>1. k \in Samples(r2, Len(file)) /\ file'[k] = file[k] /\ file'[i] = file[i]
      BY <2>3, <2>6, <2>7
    <3>2. r1 \in Rounds /\ r2 \in Rounds
      BY <2>1, <2>2, <2>6, <3>1, SMTT(60) DEF Samples
    <3>3. i \in Samples(1, r1)
      BY <2>4, <3>2
    <3> QED
      BY <3>1, <3>2, <3>3 DEF TwoRoundsApart
  <2> QED
    BY <1>3, <1>5, <2>9, <2>10, <2>11, <2>12
       DEF PassInv, ReadInv, FileInv, LastInv, BeforeInv, BufferInv
<1> QED
  BY <1>6, <1>7

-----------------------------------------------------------------------------
(* The theorems                                                            *)

\* The inductive invariant.
IInv == RoundsTypeOK /\ PassInv /\ TwoRoundsApart

\* The recording starts with an empty file and empty buffers.
LEMMA InvInit == RoundsInit => IInv
<1> SUFFICES ASSUME RoundsInit PROVE IInv
  OBVIOUS
<1>1. RoundsTypeOK
  BY TypeInit
<1>2. DOMAIN file = {} /\ \A m \in Mmaps : DOMAIN ring[m] = {}
  BY SMTT(60) DEF RoundsInit
<1>3. PassInv
  BY <1>2 DEF RoundsInit, PassInv, Rounds, Marks, Samples
<1>4. TwoRoundsApart
  BY <1>2 DEF TwoRoundsApart, Rounds, Marks
<1> QED
  BY <1>1, <1>3, <1>4 DEF IInv

\* One step per action keeps the invariant.
LEMMA InvNext == IInv /\ [RoundsNext]_rounds_vars => IInv'
<1> SUFFICES ASSUME RoundsTypeOK, PassInv, TwoRoundsApart, [RoundsNext]_rounds_vars
             PROVE  (PassInv /\ TwoRoundsApart)'
  BY TypeNext DEF IInv
<1> USE DEF forward_vars, backward_vars
<1>1. ASSUME Dumping, UNCHANGED <<ktime, ring, idx, first_head, round_at, round_before>>
      PROVE  (PassInv /\ TwoRoundsApart)'
  <2>1. ktime \in Nat /\ ktime >= ktime
    BY RecordRoundsAssumption, SMTT(60) DEF RoundsTypeOK
  <2> QED
    BY <1>1, <2>1, PassDump
<1>2. ASSUME NEW i \in Mmaps, NEW t \in ktime..MaxTime, Sample(i, t)
      PROVE  (PassInv /\ TwoRoundsApart)'
  BY <1>2, PassSample
<1>3. ASSUME NEW i \in OverwriteMmaps, NEW t \in ktime..MaxTime, SampleBackward(i, t)
      PROVE  (PassInv /\ TwoRoundsApart)'
  <2>1. /\ ktime' = t /\ UNCHANGED <<file, ring, idx, first_head, round_at, round_before>>
        /\ ktime \in Nat /\ t \in Nat /\ ktime <= t
    BY <1>3, SampleBackwardEffect DEF SampleBackward
  <2>2. ktime' >= ktime
    BY <2>1, SMTT(60)
  <2> QED
    BY <2>1, <2>2, NoDump, PassDump
<1>4. CASE LoopTop
  BY <1>1, <1>4, NoDump DEF LoopTop
<1>5. CASE PushReadHead
  BY <1>5, PassPushReadHead
<1>6. CASE Push
  BY <1>6, PassPush
<1>7. CASE FinishRound
  BY <1>7, PassFinishRound
<1>8. CASE PushBackward
  BY <1>1, <1>8, BackwardDumps DEF PushBackward
<1>9. CASE FinishBackward
  BY <1>1, <1>9, BackwardDumps DEF FinishBackward
<1>10. CASE UNCHANGED rounds_vars
  BY <1>1, <1>10, NoDump DEF rounds_vars
<1> QED
  BY <1>2, <1>3, <1>4, <1>5, <1>6, <1>7, <1>8, <1>9, <1>10 DEF RoundsNext

\* The types, and the inductive invariant of the passes (builtin-record.c,
\* record__mmap_read_evlist), hold for every number of forward and overwritable buffers
\* and of events, with the last dump of the overwritable ones.
THEOREM PassCorrect == RoundsSpec => [](RoundsTypeOK /\ PassInv)
<1>1. IInv => RoundsTypeOK /\ PassInv
  BY DEF IInv
<1> QED
  BY InvInit, InvNext, <1>1, PTL DEF RoundsSpec

\* process_finished_round may rely on it: the FINISHED_ROUND of two forward passes
\* between two events of forward buffers in the file put their times in order, also
\* where overwritable buffers are dumped in between.
THEOREM TwoRoundsCorrect == RoundsSpec => []TwoRoundsApart
<1>1. IInv => TwoRoundsApart
  BY DEF IInv
<1> QED
  BY InvInit, InvNext, <1>1, PTL DEF RoundsSpec

\* ... and so it is for the events that are still in a ring buffer.
THEOREM RingsCorrect == RoundsSpec => []RingsAfterTwoRounds
<1>1. IInv => RingsAfterTwoRounds
  <2> SUFFICES ASSUME IInv, NEW r1 \in Rounds, NEW r2 \in Rounds, r1 < r2,
                      NEW i \in Samples(1, r1), NEW m \in Mmaps, NEW k \in DOMAIN ring[m]
               PROVE  file[i].time <= ring[m][k].time
    BY DEF RingsAfterTwoRounds
  <2>1. file[i].time <= round_before /\ ring[m][k].time >= round_before
    BY PassParts DEF IInv, BeforeInv, BufferInv
  <2>2. file[i].time \in Nat
    BY FileFacts DEF IInv, RoundsTypeOK, Samples
  <2>3. ring[m][k].time \in Nat
    BY RingFacts DEF IInv, RoundsTypeOK
  <2>4. round_before \in Nat
    BY SMTT(60) DEF IInv, RoundsTypeOK
  <2> QED
    BY <2>1, <2>2, <2>3, <2>4, SMTT(60)
<1> QED
  BY InvInit, InvNext, <1>1, PTL DEF RoundsSpec

-----------------------------------------------------------------------------
(* Recording and reading together: the inductive invariant.                *)

\* The forward events in the ring buffers, in the file and in the part of it that is
\* still to be read, and all events in the part that was read.
Held(g) == UNION {{g[i][k] : k \in DOMAIN g[i]} : i \in Mmaps}
InRings == Held(ring)
InFile == {file[k] : k \in Samples(1, Len(file))}
Unread == {file[k] : k \in Samples(pos + 1, Len(file))}
Readable == Events \cup BackwardEvents
ReadAt == {k \in 1..pos : k \in DOMAIN file /\ k \notin Marks}
Read == {file[k] : k \in ReadAt}

\* No dump was read yet.
Plain == \A k \in 1..pos : k \notin Dumps

\* A recording ends after a turn that wrote nothing, so that what has come in since
\* is not earlier than any forward event of the file.
LastPass ==
  /\ at # "forward" \/ ~wrote => \A e \in InFile : e.time <= round_at
  /\ at = "top" => ~wrote
  /\ at = "forward" /\ wrote => samples
  /\ at = "overwrite" /\ ~samples => \A f \in InRings : round_at <= f.time
  /\ stopped => /\ at = "top"
                /\ \A e \in InFile : \A f \in InRings : e.time <= f.time

\* What was read is queued or delivered, with the time it has.
QueuedInv ==
  /\ pos \in Nat /\ pos <= Len(file)
  /\ events \in Seq(Readable) /\ serials = Len(events)
  /\ delivered \in Seq(1..serials)
  /\ \A e \in pending : e[2] \in 1..serials /\ e = <<events[e[2]].time, e[2]>>
  /\ \A n \in 1..serials :
        <<events[n].time, n>> \in pending \/ \E j \in DOMAIN delivered : delivered[j] = n
  /\ Read = {events[n] : n \in 1..serials}

\* The time up to which a round is flushed is that of an event before the round
\* before it.
FlushInv ==
  /\ next_flush \in Nat /\ max_timestamp \in Nat /\ last_flush \in Nat
  /\ flush \in {"none", "ROUND", "FINAL"}
  /\ max_timestamp # 0 => \E e \in Read : e.time = max_timestamp
  /\ flush = "ROUND" => pos \in Rounds
  /\ flush = "FINAL" => stopped /\ pos = Len(file)
  /\ \/ next_flush = 0
     \/ stopped /\ pos = Len(file)
     \/ \E r \in Rounds : /\ r <= pos
                          /\ flush = "ROUND" => r < pos
                          /\ \E i \in Samples(1, r) : file[i].time = next_flush

\* All forward events that are still to be delivered are not earlier than t.
Later(t) == t <= ktime /\ \A e \in Unread \cup InRings : t <= e.time
OrderInv == Later(last_flush) /\ \A e \in pending : last_flush <= e[1]

\* Order is kept until a dump is read.
Ordered == Plain => FlushInv /\ OrderInv

\* An event that was taken is in a forward buffer or in the file.
TakenInv == taken = InRings \cup InFile

ReportInv == IInv /\ LastPass /\ QueuedInv /\ Ordered /\ TakenInv

\* The events that the buffers g hold.
LEMMA HeldFacts ==
  ASSUME NEW g, NEW e
  PROVE  e \in Held(g) <=> \E i \in Mmaps : \E k \in DOMAIN g[i] : e = g[i][k]
<1> DEFINE In(i) == {g[i][k] : k \in DOMAIN g[i]}
<1>1. Held(g) = UNION {In(i) : i \in Mmaps}
  BY DEF Held
<1>2. \A i : e \in In(i) <=> \E k \in DOMAIN g[i] : e = g[i][k]
  OBVIOUS
<1> HIDE DEF In
<1>3. e \in UNION {In(i) : i \in Mmaps} <=> \E i \in Mmaps : e \in In(i)
  OBVIOUS
<1> QED
  BY <1>1, <1>2, <1>3

\* The buffers g hold events of S only.
LEMMA HeldIn ==
  ASSUME NEW g, NEW S, \A i \in Mmaps : \A k \in DOMAIN g[i] : g[i][k] \in S
  PROVE  Held(g) \subseteq S
<1> SUFFICES ASSUME NEW e \in Held(g) PROVE e \in S
  OBVIOUS
<1>1. \E i \in Mmaps : \E k \in DOMAIN g[i] : e = g[i][k]
  BY HeldFacts, SMTT(60)
<1> QED
  BY <1>1

\* Positions of the file, and what is there.
LEMMA Stored ==
  ASSUME RoundsTypeOK
  PROVE  /\ Len(file) \in Nat /\ DOMAIN file = 1..Len(file)
         /\ \A k \in 1..Len(file) : k \notin Marks /\ k \notin Dumps => file[k] \in Events
         /\ \A k \in 1..Len(file) : k \notin Marks => file[k] \in Readable
         /\ \A k \in 1..Len(file) : k \in Dumps => file[k] \in Dumpable
         /\ \A a, b : \A k \in Samples(a, b) : file[k] \in Events /\ k \in 1..Len(file)
         /\ InFile \subseteq Events /\ InRings \subseteq Events
         /\ \A e \in Readable : e.time \in Nat
<1>1. Len(file) \in Nat /\ DOMAIN file = 1..Len(file) /\ \A k \in 1..Len(file) : file[k] \in Items
  BY FileFacts DEF RoundsTypeOK
<1>2. ASSUME NEW k \in 1..Len(file)
      PROVE  /\ k \notin Marks /\ k \notin Dumps => file[k] \in Events
             /\ k \notin Marks => file[k] \in Readable
             /\ k \in Dumps => file[k] \in Dumpable
  <2>1. file[k] \in Items
    BY <1>1
  <2>2. k \in Marks <=> file[k].type = "FINISHED_ROUND"
    BY <1>1 DEF Marks
  <2>3. k \in Dumps <=> file[k].from = "overwrite_mmap"
    BY <1>1 DEF Dumps
  <2>4. CASE file[k] \in Events
    BY <2>2, <2>3, <2>4, ItemFacts DEF Readable
  <2>5. CASE file[k] \in BackwardEvents
    BY <2>2, <2>3, <2>5, ItemFacts DEF Readable, Dumpable
  <2>6. CASE file[k] = FINISHED_ROUND("mmap")
    BY <2>2, <2>3, <2>6, ItemFacts
  <2>7. CASE file[k] = FINISHED_ROUND("overwrite_mmap")
    BY <2>2, <2>3, <2>7, ItemFacts DEF Dumpable
  <2> QED
    BY <2>1, <2>4, <2>5, <2>6, <2>7 DEF Items, Dumpable
<1>3. \A a, b : \A k \in Samples(a, b) : file[k] \in Events /\ k \in 1..Len(file)
  BY <1>1, <1>2 DEF Samples
<1>4. InFile \subseteq Events
  BY <1>3 DEF InFile
<1>5. InRings \subseteq Events
  <2> SUFFICES ASSUME NEW i \in Mmaps, NEW k \in DOMAIN ring[i] PROVE ring[i][k] \in Events
    BY HeldIn DEF InRings
  <2> QED
    BY RingFacts DEF RoundsTypeOK
<1>6. \A e \in Readable : e.time \in Nat
  BY ItemFacts DEF Readable, Items, Dumpable
<1> QED
  BY <1>1, <1>2, <1>3, <1>4, <1>5, <1>6

\* A step of the recording: the file grows by forward events that were in the buffers (and
\* perhaps by a dump), the forward buffers by the events new.
Grows(new) ==
  /\ Len(file) <= Len(file') /\ \A k \in 1..Len(file) : file'[k] = file[k]
  /\ \A k \in Samples(1, Len(file))' : k > Len(file) => file'[k] \in InRings
  /\ InRings' \subseteq InRings \cup new
  /\ InRings \cup new \subseteq InRings' \cup InFile'
  /\ ktime <= ktime'

\* A step that leaves the forward buffers, and all but a dump of the file alone.
LEMMA GrowsNot ==
  ASSUME RoundsTypeOK, Dumping, UNCHANGED ring, ktime' \in Nat, ktime <= ktime'
  PROVE  Grows({})
<1>1. Len(file) <= Len(file') /\ \A k \in 1..Len(file) : file'[k] = file[k]
  BY DumpingEffect
<1>2. \A k \in Samples(1, Len(file))' : ~(k > Len(file))
  BY DumpingEffect DEF Samples
<1>3. InRings' = InRings
  BY DEF InRings
<1> QED
  BY <1>1, <1>2, <1>3 DEF Grows

\* The kernel takes an event.
LEMMA GrowsSample ==
  ASSUME RoundsTypeOK, NEW i \in Mmaps, NEW t \in ktime..MaxTime, Sample(i, t)
  PROVE  \E e \in Events : ktime <= e.time /\ Grows({e})
<1> DEFINE e == Event("mmap", t, sampled + 1)
<1>1. e \in Events /\ e.time = t
  <2>1. t \in 1..MaxTime /\ sampled + 1 \in 1..MaxSamples
    BY RecordRoundsAssumption, SMTT(60) DEF Sample, RoundsTypeOK
  <2> QED
    BY <2>1 DEF Event, Events, EventsOf
<1>2. /\ ring[i] \in Seq(Events) /\ ring' = [ring EXCEPT ![i] = Append(ring[i], e)]
      /\ ring \in [Mmaps -> Seq(Events)]
  BY DEF RoundsTypeOK, Sample
<1> HIDE DEF e
<1>3. /\ DOMAIN Append(ring[i], e) = DOMAIN ring[i] \cup {Len(ring[i]) + 1}
      /\ \A k \in DOMAIN ring[i] : Append(ring[i], e)[k] = ring[i][k]
      /\ Append(ring[i], e)[Len(ring[i]) + 1] = e
  BY <1>1, <1>2, SMTT(60)
<1>4. /\ ring'[i] = Append(ring[i], e)
      /\ \A m \in Mmaps : m # i => ring'[m] = ring[m]
  BY <1>2
<1>5. InRings' \subseteq InRings \cup {e}
  <2> SUFFICES ASSUME NEW m \in Mmaps, NEW k \in DOMAIN ring'[m]
               PROVE  ring'[m][k] \in InRings \cup {e}
    BY HeldIn DEF InRings
  <2>1. CASE m # i
    BY <1>4, <2>1, HeldFacts DEF InRings
  <2>2. CASE m = i
    BY <1>3, <1>4, <2>2, HeldFacts DEF InRings
  <2> QED
    BY <2>1, <2>2
<1>6. InRings \subseteq InRings'
  <2> SUFFICES ASSUME NEW m \in Mmaps, NEW k \in DOMAIN ring[m]
               PROVE  ring[m][k] \in InRings'
    BY HeldIn DEF InRings
  <2>1. k \in DOMAIN ring'[m] /\ ring'[m][k] = ring[m][k]
    <3>1. CASE m # i
      BY <1>4, <3>1
    <3>2. CASE m = i
      BY <1>3, <1>4, <3>2
    <3> QED
      BY <3>1, <3>2
  <2> QED
    BY <2>1, HeldFacts DEF InRings
<1>7. e \in InRings'
  <2>1. Len(ring[i]) + 1 \in DOMAIN ring'[i] /\ ring'[i][Len(ring[i]) + 1] = e
    BY <1>3, <1>4
  <2> QED
    BY <2>1, HeldFacts DEF InRings
<1>8. UNCHANGED file /\ ktime' = t
  BY DEF Sample
<1>9. Len(file) \in Nat /\ ktime \in Nat /\ ktime <= t
  BY Stored, SampleEffect
<1>10. Len(file) <= Len(file') /\ ktime <= ktime' /\ \A k \in 1..Len(file) : file'[k] = file[k]
  BY <1>8, <1>9, SMTT(60)
<1>11. \A k \in Samples(1, Len(file))' : ~(k > Len(file))
  BY <1>8, <1>9, SMTT(60) DEF Samples
<1>12. Grows({e})
  BY <1>5, <1>6, <1>7, <1>10, <1>11 DEF Grows
<1> QED
  BY <1>1, <1>9, <1>12

\* A buffer is written out: what perf_mmap__push consumes is in the file.
LEMMA GrowsPush ==
  ASSUME RoundsTypeOK, PassInv, Push
  PROVE  Grows({})
<1>1. /\ Len(file) \in Nat /\ DOMAIN file = 1..Len(file)
      /\ DOMAIN file' = 1..Len(file') /\ Len(file') \in Nat
  BY PushEffect, FileFacts DEF RoundsTypeOK
<1>2. /\ idx \in Mmaps /\ first_head \in Nat /\ first_head <= Len(ring[idx])
      /\ Len(ring[idx]) \in Nat /\ DOMAIN ring[idx] = 1..Len(ring[idx])
      /\ DOMAIN ring'[idx] = 1..Len(ring'[idx])
      /\ \A k \in 1..Len(ring[idx]) : ring[idx][k].type = "SAMPLE" /\ ring[idx][k].from = "mmap"
  <2>1. idx \in Mmaps /\ first_head # NotRead /\ ring \in [Mmaps -> Seq(Events)]
    BY DEF Push, RoundsTypeOK
  <2>2. first_head \in Nat /\ first_head <= Len(ring[idx])
    BY <2>1, PassParts DEF ReadInv, RoundsTypeOK
  <2>3. ring' \in [Mmaps -> Seq(Events)]
    BY PushEffect
  <2> QED
    BY <2>1, <2>2, <2>3, RingFacts
<1>3. /\ Len(file') = Len(file) + Len(ring[idx])
      /\ \A k \in 1..Len(file) : file'[k] = file[k]
      /\ \A k \in (Len(file) + 1)..Len(file') : file'[k] = ring[idx][k - Len(file)]
      /\ \A m \in Mmaps \ {idx} : ring'[m] = ring[m]
      /\ Len(ring'[idx]) = Len(ring[idx]) - first_head
      /\ \A k \in 1..Len(ring'[idx]) : ring'[idx][k] = ring[idx][first_head + k]
  BY PushEffect
<1>4. Len(file) <= Len(file')
  BY <1>1, <1>2, <1>3, SMTT(60)
<1>5. ASSUME NEW k \in Samples(1, Len(file))', k > Len(file)
      PROVE  file'[k] \in InRings
  <2>1. k \in DOMAIN file' /\ k \notin Marks /\ k \notin Dumps
    BY PushSamples DEF Samples
  <2>2. k \notin Samples(1, Len(file))
    BY <1>1, <1>5, SMTT(60) DEF Samples
  <2>3. k - Len(file) \in DOMAIN ring[idx] /\ file'[k] = ring[idx][k - Len(file)]
    BY <2>1, <2>2, PushSamples
  <2> QED
    BY <1>2, <2>3, HeldFacts DEF InRings
<1>6. InRings' \subseteq InRings
  <2> SUFFICES ASSUME NEW m \in Mmaps, NEW k \in DOMAIN ring'[m] PROVE ring'[m][k] \in InRings
    BY HeldIn DEF InRings
  <2>1. CASE m # idx
    BY <1>3, <2>1, HeldFacts DEF InRings
  <2>2. CASE m = idx
    <3>1. first_head + k \in DOMAIN ring[idx]
      BY <1>2, <1>3, <2>2, SMTT(60)
    <3>2. ring'[idx][k] = ring[idx][first_head + k]
      BY <1>2, <1>3, <2>2
    <3> QED
      BY <1>2, <2>2, <3>1, <3>2, HeldFacts DEF InRings
  <2> QED
    BY <2>1, <2>2
<1>7. InRings \subseteq InRings' \cup InFile'
  <2> SUFFICES ASSUME NEW m \in Mmaps, NEW k \in DOMAIN ring[m]
               PROVE  ring[m][k] \in InRings' \cup InFile'
    BY HeldIn DEF InRings
  <2>1. CASE m # idx
    BY <1>3, <2>1, HeldFacts DEF InRings
  <2>2. CASE m = idx
    <3> DEFINE j == Len(file) + k
    <3>1. j \in (Len(file) + 1)..Len(file') /\ j - Len(file) = k /\ j \in 1..Len(file')
      BY <1>1, <1>2, <1>3, <2>2, SMTT(60)
    <3> HIDE DEF j
    <3>2. file'[j] = ring[idx][k]
      <4>1. file'[j] = ring[idx][j - Len(file)]
        BY <1>3, <3>1
      <4> QED
        BY <3>1, <4>1
    <3>3. ring[idx][k].type # "FINISHED_ROUND" /\ ring[idx][k].from # "overwrite_mmap"
      BY <1>2, <2>2, ItemFacts
    <3>4. j \in Samples(1, Len(file))'
      BY <1>1, <3>1, <3>2, <3>3 DEF Samples, Marks, Dumps
    <3> QED
      BY <2>2, <3>2, <3>4 DEF InFile
  <2> QED
    BY <2>1, <2>2
<1>8. ktime <= ktime'
  BY RecordRoundsAssumption, SMTT(60) DEF Push, RoundsTypeOK
<1> QED
  BY <1>3, <1>4, <1>5, <1>6, <1>7, <1>8 DEF Grows

\* The end of a pass, with a FINISHED_ROUND or without.
LEMMA GrowsRound ==
  ASSUME RoundsTypeOK, FinishRound
  PROVE  Grows({})
<1>1. UNCHANGED <<ktime, ring>> /\ ktime \in Nat /\ ktime <= ktime'
  BY RecordRoundsAssumption, SMTT(60) DEF FinishRound, RoundsTypeOK
<1>2. CASE ~wrote
  BY <1>1, <1>2, NoDump, GrowsNot DEF FinishRound
<1>3. CASE wrote
  <2>1. /\ Len(file) \in Nat /\ DOMAIN file' = 1..Len(file') /\ Len(file') = Len(file) + 1
        /\ \A k \in 1..Len(file) : file'[k] = file[k]
        /\ Len(file') \in Marks'
    BY <1>3, FinishRoundEffect, RoundAdded, FileFacts DEF RoundsTypeOK
  <2>2. Len(file) <= Len(file') /\ \A k \in 1..Len(file') : k > Len(file) => k = Len(file')
    BY <2>1, SMTT(60)
  <2>3. \A k \in Samples(1, Len(file))' : ~(k > Len(file))
    BY <2>1, <2>2 DEF Samples
  <2>4. InRings' = InRings
    BY <1>1 DEF InRings
  <2> QED
    BY <1>1, <2>1, <2>2, <2>3, <2>4 DEF Grows
<1> QED
  BY <1>2, <1>3

\* Every step of the recording takes one event, or none.
LEMMA GrowsStep ==
  ASSUME IInv, RoundsNext
  PROVE  Grows({}) \/ \E e \in Events : ktime <= e.time /\ Grows({e})
<1> USE DEF forward_vars, backward_vars
<1>1. RoundsTypeOK /\ PassInv
  BY DEF IInv
<1>2. ktime \in Nat /\ ktime <= ktime
  BY <1>1, RecordRoundsAssumption, SMTT(60) DEF RoundsTypeOK
<1>3. ASSUME Dumping, UNCHANGED <<ktime, ring>> PROVE Grows({})
  BY <1>1, <1>2, <1>3, GrowsNot
<1>4. ASSUME NEW i \in Mmaps, NEW t \in ktime..MaxTime, Sample(i, t)
      PROVE  \E e \in Events : ktime <= e.time /\ Grows({e})
  BY <1>1, <1>4, GrowsSample
<1>5. ASSUME NEW i \in OverwriteMmaps, NEW t \in ktime..MaxTime, SampleBackward(i, t)
      PROVE  Grows({})
  <2>1. ktime' = t /\ t \in Nat /\ ktime <= t /\ UNCHANGED <<file, ring>>
    BY <1>1, <1>5, SampleBackwardEffect DEF SampleBackward
  <2> QED
    BY <1>1, <2>1, NoDump, GrowsNot
<1>6. CASE LoopTop \/ PushReadHead
  BY <1>1, <1>3, <1>6, NoDump DEF LoopTop, PushReadHead
<1>7. CASE Push
  BY <1>1, <1>7, GrowsPush
<1>8. CASE FinishRound
  BY <1>1, <1>8, GrowsRound
<1>9. CASE PushBackward \/ FinishBackward
  BY <1>1, <1>3, <1>9, BackwardDumps DEF PushBackward, FinishBackward
<1> QED
  BY <1>4, <1>5, <1>6, <1>7, <1>8, <1>9 DEF RoundsNext

\* After the end nothing is recorded.
LEMMA StoppedEnds ==
  ASSUME LastPass, stopped, RoundsNext
  PROVE  FALSE
<1>1. at = "top" /\ "top" # "forward" /\ "top" # "overwrite"
  BY SMTT(60) DEF LastPass
<1> QED
  BY <1>1 DEF RoundsNext, Sample, SampleBackward, LoopTop, PushReadHead, Push, FinishRound,
     PushBackward, FinishBackward

\* The forward buffers hold nothing from before the last round once a pass is through.
LEMMA RingsSinceRound ==
  ASSUME RoundsTypeOK, PassInv, idx = NrMmaps + 1
  PROVE  \A f \in InRings : round_at <= f.time
<1>1. \A m \in Mmaps : m < idx
  BY RecordRoundsAssumption, SMTT(60)
<1>2. \A m \in Mmaps : \A k \in DOMAIN ring[m] : ring[m][k].time >= round_at
  BY <1>1, PassParts DEF BufferInv
<1> SUFFICES ASSUME NEW f \in InRings PROVE round_at <= f.time
  OBVIOUS
<1>3. f \in Held(ring)
  BY DEF InRings
<1>4. PICK m \in Mmaps : \E k \in DOMAIN ring[m] : f = ring[m][k]
  BY <1>3, HeldFacts, SMTT(60)
<1>5. f.time >= round_at
  BY <1>2, <1>4
<1>6. f.time \in Nat
  BY Stored DEF Readable
<1>7. round_at \in Nat
  BY SMTT(60) DEF RoundsTypeOK
<1> QED
  BY <1>5, <1>6, <1>7, SMTT(60)

\* A dump leaves the forward events of the file as they are.
LEMMA DumpInFile ==
  ASSUME RoundsTypeOK, Dumping
  PROVE  InFile' = InFile
<1>1. Samples(1, Len(file))' = Samples(1, Len(file))
  <2>1. 1 \in Nat
    BY SMTT(60)
  <2> QED
    BY <2>1, DumpingEffect
<1>2. \A k \in Samples(1, Len(file)) : file'[k] = file[k]
  BY Stored, DumpingEffect
<1> QED
  BY <1>1, <1>2 DEF InFile

\* The recording ends with nothing in the forward buffers that is earlier than the file.
LEMMA LastPassStep ==
  ASSUME IInv, LastPass, RoundsNext
  PROVE  LastPass'
<1> USE DEF forward_vars, backward_vars
<1>1. RoundsTypeOK /\ PassInv /\ PassInv' /\ ~stopped
  BY InvNext, StoppedEnds DEF IInv
<1>2. /\ "top" # "forward" /\ "top" # "overwrite" /\ "forward" # "overwrite"
  BY SMTT(60)
<1>3. ASSUME UNCHANGED <<file, wrote, samples, at, round_at, stopped>>,
             \A f \in InRings' : f \in InRings \/ round_at <= f.time
      PROVE  LastPass'
  <2>1. InFile' = InFile
    BY <1>3 DEF InFile, Samples, Marks, Dumps
  <2> QED
    BY <1>1, <1>3, <2>1 DEF LastPass
<1>4. ASSUME NEW i \in Mmaps, NEW t \in ktime..MaxTime, Sample(i, t) PROVE LastPass'
  <2>1. PICK e \in Events : ktime <= e.time /\ Grows({e})
    BY <1>1, <1>4, GrowsSample
  <2>2. round_at <= e.time
    <3>1. e.time \in Nat
      BY <1>1, Stored DEF Readable
    <3> QED
      BY <1>1, <2>1, <3>1, RecordRoundsAssumption, SMTT(60) DEF RoundsTypeOK
  <2>3. \A f \in InRings' : f \in InRings \/ round_at <= f.time
    BY <2>1, <2>2 DEF Grows
  <2> QED
    BY <1>3, <1>4, <2>3 DEF Sample
<1>5. ASSUME NEW i \in OverwriteMmaps, NEW t \in ktime..MaxTime, SampleBackward(i, t)
      PROVE  LastPass'
  BY <1>3, <1>5 DEF SampleBackward, InRings
<1>6. CASE PushReadHead
  BY <1>3, <1>6 DEF PushReadHead, InRings
<1>7. CASE LoopTop
  <2>1. /\ at = "top" /\ at' = "forward"
        /\ UNCHANGED <<file, round_at, stopped>>
    BY <1>7 DEF LoopTop
  <2>2. InFile' = InFile
    BY <2>1 DEF InFile, Samples, Marks, Dumps
  <2>3. \A e \in InFile' : e.time <= round_at'
    BY <1>2, <2>1, <2>2 DEF LastPass
  <2>4. ~wrote'
    BY <1>7 DEF LoopTop, LastPass
  <2> QED
    BY <1>1, <1>2, <2>1, <2>3, <2>4 DEF LastPass
<1>8. CASE Push
  <2>1. at = "forward" /\ at' = "forward" /\ UNCHANGED <<round_at, stopped>>
    BY <1>8 DEF Push
  <2>2. wrote' => samples'
    BY <1>8, <2>1 DEF Push, LastPass
  <2>3. ~wrote' => \A e \in InFile' : e.time <= round_at'
    <3> SUFFICES ASSUME ~wrote' PROVE \A e \in InFile' : e.time <= round_at'
      OBVIOUS
    <3>1. ~wrote /\ ring[idx] = <<>> /\ file' = file \o ring[idx]
      BY <1>8 DEF Push
    <3>2. file \in Seq(Items)
      BY <1>1 DEF RoundsTypeOK
    <3>3. file' = file
      BY <3>1, <3>2, SMTT(60)
    <3>4. InFile' = InFile
      BY <3>3 DEF InFile, Samples, Marks, Dumps
    <3> QED
      BY <2>1, <3>1, <3>4 DEF LastPass
  <2> QED
    BY <1>1, <1>2, <2>1, <2>2, <2>3 DEF LastPass
<1>9. CASE FinishRound
  <2>1. /\ at = "forward" /\ at' = "overwrite" /\ idx = NrMmaps + 1
        /\ UNCHANGED <<ktime, ring, samples, stopped>>
    BY <1>9 DEF FinishRound
  <2>2. \A e \in InFile' : e.time <= round_at'
    <3>1. CASE wrote
      <4>1. round_at' = ktime /\ ktime' = ktime
        BY <1>9, <3>1 DEF FinishRound
      <4> QED
        BY <1>1, <4>1, PassParts DEF PassInv, InFile
    <3>2. CASE ~wrote
      <4>1. UNCHANGED <<file, round_at>>
        BY <1>9, <3>2 DEF FinishRound
      <4>2. InFile' = InFile
        BY <4>1 DEF InFile, Samples, Marks, Dumps
      <4> QED
        BY <3>2, <4>1, <4>2 DEF LastPass
    <3> QED
      BY <3>1, <3>2
  <2>3. ~samples' => \A f \in InRings' : round_at' <= f.time
    <3> SUFFICES ASSUME ~samples' PROVE \A f \in InRings' : round_at' <= f.time
      OBVIOUS
    <3>1. ~wrote
      BY <2>1 DEF LastPass
    <3>2. UNCHANGED round_at /\ InRings' = InRings
      BY <1>9, <2>1, <3>1 DEF FinishRound, InRings
    <3> QED
      BY <1>1, <2>1, <3>2, RingsSinceRound
  <2> QED
    BY <1>1, <1>2, <2>1, <2>2, <2>3 DEF LastPass
<1>10. CASE PushBackward
  <2>1. /\ at = "overwrite" /\ at' = "overwrite" /\ UNCHANGED <<ring, round_at, stopped>>
        /\ ~samples' => ~samples
    BY <1>10 DEF PushBackward
  <2>2. InFile' = InFile /\ InRings' = InRings
    BY <1>1, <1>10, <2>1, BackwardDumps, DumpInFile DEF InRings
  <2> QED
    BY <1>1, <1>2, <2>1, <2>2 DEF LastPass
<1>11. CASE FinishBackward
  <2>1. /\ at = "overwrite" /\ at' = "top" /\ UNCHANGED <<ring, round_at>>
        /\ stopped' => ~samples
        /\ ~wrote'
    BY <1>11 DEF FinishBackward
  <2>2. InFile' = InFile /\ InRings' = InRings
    BY <1>1, <1>11, <2>1, BackwardDumps, DumpInFile DEF InRings
  <2>3. \A e \in InFile : e.time <= round_at
    BY <1>2, <2>1 DEF LastPass
  <2>4. ~samples => \A e \in InFile : \A f \in InRings : e.time <= f.time
    <3> SUFFICES ASSUME ~samples, NEW e \in InFile, NEW f \in InRings PROVE e.time <= f.time
      OBVIOUS
    <3>1. e.time <= round_at /\ round_at <= f.time
      BY <2>1, <2>3 DEF LastPass
    <3>2. e.time \in Nat /\ f.time \in Nat
      BY <1>1, Stored DEF Readable
    <3>3. round_at \in Nat
      BY <1>1, SMTT(60) DEF RoundsTypeOK
    <3> QED
      BY <3>1, <3>2, <3>3, SMTT(60)
  <2> QED
    BY <1>2, <2>1, <2>2, <2>3, <2>4 DEF LastPass
<1> QED
  BY <1>4, <1>5, <1>6, <1>7, <1>8, <1>9, <1>10, <1>11 DEF RoundsNext

\* What the recording leaves of the file, for the reader.
LEMMA GrowsFile ==
  ASSUME IInv, IInv', NEW new, Grows(new), pos \in Nat, pos <= Len(file), pos' = pos
  PROVE  /\ pos <= Len(file')
         /\ \A p \in 1..Len(file) : p \in Rounds <=> p \in Rounds'
         /\ \A p \in Nat : p <= Len(file) => Samples(1, p)' = Samples(1, p)
         /\ Read' = Read /\ Dumped' = Dumped /\ (Plain' <=> Plain)
         /\ Unread' \subseteq Unread \cup InRings
         /\ InFile \subseteq InFile' /\ InFile' \subseteq InFile \cup InRings
<1> DEFINE n == Len(file)
           l == Len(file')
<1>1. n \in Nat /\ DOMAIN file = 1..n
  BY Stored DEF IInv
<1>2. l \in Nat /\ DOMAIN file' = 1..l
  BY FileFacts DEF IInv, RoundsTypeOK
<1>3. n <= l /\ \A k \in 1..n : file'[k] = file[k]
  BY DEF Grows
<1>4. \A k \in Samples(1, Len(file))' : k > n => file'[k] \in InRings
  BY DEF Grows
<1> HIDE DEF n, l
<1>5. pos <= l
  BY <1>1, <1>2, <1>3, SMTT(60) DEF n
<1>6. \A k \in 1..n : k \in 1..l
  BY <1>1, <1>2, <1>3, SMTT(60)
<1>7. \A p \in 1..n : /\ p \in Marks <=> p \in Marks'
                      /\ p \in Dumps <=> p \in Dumps'
                      /\ p \in Rounds <=> p \in Rounds'
  BY <1>1, <1>2, <1>3, <1>6 DEF Rounds, Marks, Dumps
<1>8. \A a \in Nat \ {0} : \A p \in Nat : p <= n =>
         /\ Samples(a, p)' = Samples(a, p)
         /\ \A k \in Samples(a, p) : file'[k] = file[k] /\ k \in 1..n
  <2> SUFFICES ASSUME NEW a \in Nat \ {0}, NEW p \in Nat, p <= n
               PROVE  /\ Samples(a, p)' = Samples(a, p)
                      /\ \A k \in Samples(a, p) : file'[k] = file[k] /\ k \in 1..n
    OBVIOUS
  <2>1. \A k \in a..p : k \in 1..n
    BY <1>1, SMTT(60)
  <2> QED
    BY <1>1, <1>2, <1>3, <1>6, <1>7, <2>1 DEF Samples
<1>9. 1 \in Nat \ {0} /\ pos + 1 \in Nat \ {0}
  BY SMTT(60)
<1>10. Read' = Read /\ Dumped' = Dumped /\ (Plain' <=> Plain)
  <2>1. \A k \in 1..pos : k \in 1..n
    BY <1>1, SMTT(60) DEF n
  <2>2. Dumps' \cap 1..pos = Dumps \cap 1..pos
    BY <1>7, <2>1
  <2>3. \A k \in Dumps \cap 1..pos : file'[k] = file[k]
    BY <1>3, <2>1
  <2>4. Dumped' = Dumped
    BY <2>2, <2>3 DEF Dumped
  <2>5. ReadAt' = ReadAt
    BY <1>1, <1>2, <1>6, <1>7, <2>1 DEF ReadAt
  <2>6. \A k \in ReadAt : file'[k] = file[k]
    BY <1>3, <2>1 DEF ReadAt
  <2>7. Read' = Read
    BY <2>5, <2>6 DEF Read
  <2>8. Plain' <=> Plain
    BY <1>7, <2>1 DEF Plain
  <2> QED
    BY <2>4, <2>7, <2>8
<1>11. ASSUME NEW a \in Nat \ {0}, NEW k \in Samples(a, Len(file))'
       PROVE  \/ k \in Samples(a, n) /\ file'[k] = file[k]
              \/ file'[k] \in InRings
  <2>1. k \in a..l /\ k \in 1..l /\ k \notin Marks' /\ k \notin Dumps'
    BY <1>2 DEF Samples, l
  <2>2. CASE k > n
    <3>1. k \in Samples(1, Len(file))'
      BY <1>2, <2>1 DEF Samples, l
    <3> QED
      BY <1>4, <2>2, <3>1
  <2>3. CASE ~(k > n)
    <3>1. k \in a..n /\ k \in 1..n
      BY <1>1, <1>2, <2>1, <2>3, SMTT(60)
    <3> QED
      BY <1>1, <1>3, <1>7, <2>1, <3>1 DEF Samples
  <2> QED
    BY <2>2, <2>3
<1>12. Unread' \subseteq Unread \cup InRings
  BY <1>9, <1>11 DEF Unread, n
<1>13. InFile' \subseteq InFile \cup InRings
  BY <1>9, <1>11 DEF InFile, n
<1>14. InFile \subseteq InFile'
  <2> SUFFICES ASSUME NEW k \in Samples(1, n) PROVE file[k] \in InFile'
    BY DEF InFile, n
  <2>1. k \in 1..n /\ file'[k] = file[k] /\ k \notin Marks /\ k \notin Dumps
    BY <1>1 DEF Samples, Grows, n
  <2>2. k \in Samples(1, Len(file))'
    BY <1>2, <1>6, <1>7, <2>1 DEF Samples, l
  <2> QED
    BY <2>1, <2>2 DEF InFile
<1> QED
  BY <1>5, <1>7, <1>8, <1>9, <1>10, <1>12, <1>13, <1>14 DEF n, l

\* The recording goes on while the session reads: what was read stays, and what comes
\* is not earlier than what was delivered.
LEMMA RecordReading ==
  ASSUME IInv, IInv', ~stopped, QueuedInv, Ordered, TakenInv,
         NEW new, new \subseteq Events, \A e \in new : ktime <= e.time, Grows(new),
         taken' = taken \cup InRings',
         UNCHANGED <<pos, pending, serials, delivered, events, next_flush, max_timestamp,
                     last_flush, flush>>
  PROVE  QueuedInv' /\ Ordered' /\ TakenInv' /\ Dumped' = Dumped
<1>1. pos \in Nat /\ pos <= Len(file)
  BY DEF QueuedInv
<1>2. /\ pos <= Len(file')
      /\ \A p \in 1..Len(file) : p \in Rounds <=> p \in Rounds'
      /\ \A p \in Nat : p <= Len(file) => Samples(1, p)' = Samples(1, p)
      /\ Read' = Read /\ Dumped' = Dumped /\ (Plain' <=> Plain)
      /\ Unread' \subseteq Unread \cup InRings
      /\ InFile \subseteq InFile' /\ InFile' \subseteq InFile \cup InRings
  BY <1>1, GrowsFile
<1>3. /\ InRings' \subseteq InRings \cup new
      /\ InRings \cup new \subseteq InRings' \cup InFile'
      /\ ktime <= ktime' /\ \A k \in 1..Len(file) : file'[k] = file[k]
  BY DEF Grows
<1>4. QueuedInv'
  BY <1>2 DEF QueuedInv
<1>5. ASSUME Plain PROVE FlushInv'
  <2>0. FlushInv
    BY <1>5 DEF Ordered
  <2>1. Len(file) \in Nat /\ DOMAIN file = 1..Len(file)
    BY Stored DEF IInv
  <2>2. \A r \in Rounds : r \in 1..Len(file) /\ r \in Nat /\ r <= Len(file)
    <3>1. \A r \in 1..Len(file) : r \in Nat /\ r <= Len(file)
      BY <2>1, SMTT(60)
    <3> QED
      BY <2>1, <3>1 DEF Rounds, Marks
  <2>3. \A r \in Rounds : /\ r \in Rounds' /\ Samples(1, r)' = Samples(1, r)
                          /\ \A i \in Samples(1, r) : file'[i] = file[i]
    <3>1. \A r \in Rounds : \A i \in Samples(1, r) : i \in 1..Len(file)
      BY Stored DEF IInv
    <3> QED
      BY <1>2, <1>3, <2>2, <3>1
  <2>4. flush = "ROUND" => pos \in Rounds'
    BY <2>0, <2>3 DEF FlushInv
  <2>5. flush # "FINAL"
    BY <2>0 DEF FlushInv
  <2>6. \/ next_flush = 0
        \/ \E r \in Rounds' : /\ r <= pos
                              /\ flush = "ROUND" => r < pos
                              /\ \E i \in Samples(1, r)' : file'[i].time = next_flush
    BY <2>0, <2>3 DEF FlushInv
  <2> QED
    BY <1>2, <2>0, <2>4, <2>5, <2>6 DEF FlushInv
<1>6. ASSUME Plain PROVE OrderInv'
  <2>0. FlushInv /\ OrderInv
    BY <1>6 DEF Ordered
  <2>1. \A e \in Unread \cup InRings : last_flush <= e.time
    BY <2>0 DEF OrderInv, Later
  <2>2. last_flush <= ktime /\ \A e \in new : last_flush <= e.time
    <3>1. last_flush <= ktime /\ last_flush \in Nat
      BY <2>0 DEF OrderInv, Later, FlushInv
    <3>2. ktime \in Nat /\ \A e \in new : e.time \in Nat
      <4>1. \A e \in new : e.time \in Nat
        BY Stored DEF IInv, Readable
      <4> QED
        BY <4>1, RecordRoundsAssumption, SMTT(60) DEF IInv, RoundsTypeOK
    <3> QED
      BY <3>1, <3>2, SMTT(60)
  <2>3. \A e \in Unread' \cup InRings' : last_flush <= e.time
    BY <1>2, <1>3, <2>1, <2>2
  <2>4. last_flush <= ktime'
    <3>1. ktime \in Nat /\ ktime' \in Nat /\ last_flush \in Nat
      <4>1. ktime \in 1..MaxTime /\ ktime' \in 1..MaxTime /\ last_flush \in Nat
        BY <2>0 DEF IInv, RoundsTypeOK, FlushInv
      <4> QED
        BY <4>1, RecordRoundsAssumption, SMTT(60)
    <3> QED
      BY <1>3, <2>2, <3>1, SMTT(60)
  <2> QED
    BY <2>0, <2>3, <2>4 DEF OrderInv, Later
<1>7. TakenInv'
  BY <1>2, <1>3 DEF TakenInv
<1> QED
  BY <1>2, <1>4, <1>5, <1>6, <1>7 DEF Ordered

\* What was read is of a forward buffer or of a dump, and in the queue with its time.
LEMMA ReadFacts ==
  ASSUME RoundsTypeOK, QueuedInv
  PROVE  /\ Read \subseteq Readable /\ Read \subseteq InFile \cup Dumped
         /\ Plain <=> Dumped = {}
         /\ Plain => Read \subseteq {file[k] : k \in Samples(1, pos)}
         /\ Unread \subseteq InFile /\ InFile \subseteq Read \cup Unread
         /\ \A f \in pending : /\ f[2] \in 1..serials /\ f = <<events[f[2]].time, f[2]>>
                               /\ events[f[2]] \in Read
                               /\ f[1] = events[f[2]].time /\ f[1] \in Nat
<1>1. /\ Len(file) \in Nat /\ DOMAIN file = 1..Len(file)
      /\ \A k \in 1..Len(file) : k \notin Marks => file[k] \in Readable
      /\ pos \in Nat /\ pos <= Len(file)
  BY Stored DEF QueuedInv
<1>2. /\ \A k \in 1..pos : k \in 1..Len(file)
      /\ \A k \in (pos + 1)..Len(file) : k \in 1..Len(file)
      /\ \A k \in 1..Len(file) : k \in 1..pos \/ k \in (pos + 1)..Len(file)
  BY <1>1, SMTT(60)
<1>3. Read \subseteq Readable
  BY <1>1, <1>2 DEF Read, ReadAt
<1>4. Read \subseteq InFile \cup Dumped
  <2> SUFFICES ASSUME NEW k \in ReadAt PROVE file[k] \in InFile \cup Dumped
    BY DEF Read
  <2>1. CASE k \in Dumps
    BY <2>1 DEF Dumped, ReadAt
  <2>2. CASE k \notin Dumps
    BY <1>1, <1>2, <2>2 DEF InFile, Samples, ReadAt
  <2> QED
    BY <2>1, <2>2
<1>5. Plain <=> Dumped = {}
  <2>1. Plain => Dumped = {}
    BY DEF Plain, Dumped
  <2>2. Dumped = {} => Plain
    BY DEF Plain, Dumped
  <2> QED
    BY <2>1, <2>2
<1>6. Plain => Read \subseteq {file[k] : k \in Samples(1, pos)}
  <2> SUFFICES ASSUME Plain, NEW k \in ReadAt PROVE k \in Samples(1, pos)
    BY DEF Read
  <2> QED
    BY DEF Samples, ReadAt, Plain
<1>7. Unread \subseteq InFile
  BY <1>2 DEF Unread, InFile, Samples
<1>8. InFile \subseteq Read \cup Unread
  <2> SUFFICES ASSUME NEW k \in Samples(1, Len(file)) PROVE file[k] \in Read \cup Unread
    BY DEF InFile
  <2>1. k \in DOMAIN file /\ k \notin Marks /\ k \notin Dumps /\ k \in 1..Len(file)
    BY <1>1 DEF Samples
  <2>2. CASE k \in 1..pos
    BY <2>1, <2>2 DEF Read, ReadAt
  <2>3. CASE k \in (pos + 1)..Len(file)
    BY <2>1, <2>3 DEF Unread, Samples
  <2> QED
    BY <1>2, <2>1, <2>2, <2>3
<1>9. ASSUME NEW f \in pending
      PROVE  /\ f[2] \in 1..serials /\ f = <<events[f[2]].time, f[2]>>
             /\ events[f[2]] \in Read
             /\ f[1] = events[f[2]].time /\ f[1] \in Nat
  <2>1. f[2] \in 1..serials /\ f = <<events[f[2]].time, f[2]>> /\ events[f[2]] \in Read
    BY DEF QueuedInv
  <2>2. \A a, b : <<a, b>>[1] = a
    BY SMTT(60)
  <2>3. f[1] = events[f[2]].time
    BY <2>1, <2>2
  <2>4. events[f[2]].time \in Nat
    BY <1>3, <2>1, Stored
  <2> QED
    BY <2>1, <2>3, <2>4
<1> QED
  BY <1>3, <1>4, <1>5, <1>6, <1>7, <1>8, <1>9

\* What is due is not later than anything that is still to come: at the end of a round
\* for the two rounds behind it, at the end of the data for the last pass.
LEMMA DueFirst ==
  ASSUME IInv, LastPass, QueuedInv, FlushInv, Plain, flush # "none",
         NEW e \in pending, e[1] <= next_flush
  PROVE  Later(e[1])
<1> DEFINE x == events[e[2]]
           t == e[1]
<1>1. RoundsTypeOK /\ PassInv /\ TwoRoundsApart
  BY DEF IInv
<1>2. /\ Len(file) \in Nat /\ DOMAIN file = 1..Len(file)
      /\ InFile \subseteq Events /\ InRings \subseteq Events
      /\ \A y \in Events : y.time \in Nat
  BY <1>1, Stored DEF Readable
<1>3. x \in Read /\ x.time = t /\ t \in Nat
  BY <1>1, ReadFacts
<1>4. Read \subseteq InFile /\ Unread \subseteq InFile
  <2>1. Dumped = {}
    BY <1>1, ReadFacts
  <2> QED
    BY <1>1, <2>1, ReadFacts
<1>5. x \in InFile /\ next_flush \in Nat /\ ktime \in Nat
  <2>1. ktime \in Nat
    BY <1>1, RecordRoundsAssumption, SMTT(60) DEF RoundsTypeOK
  <2> QED
    BY <1>3, <1>4, <2>1 DEF FlushInv
<1>6. t <= ktime
  BY <1>1, <1>3, <1>5, PassParts DEF FileInv, InFile
<1> HIDE DEF x, t
<1>7. \A y \in Unread \cup InRings : y.time \in Nat
  BY <1>2, <1>4
<1>8. CASE next_flush = 0
  <2>1. t <= 0
    BY <1>8 DEF t
  <2>2. \A y \in Unread \cup InRings : t <= y.time
    BY <1>3, <1>7, <2>1, SMTT(60)
  <2> QED
    BY <1>6, <2>2 DEF Later, t
<1>9. CASE stopped /\ pos = Len(file)
  <2>1. Unread = {}
    <3>1. (Len(file) + 1)..Len(file) = {}
      BY <1>2, SMTT(60)
    <3> QED
      BY <1>9, <3>1 DEF Unread, Samples
  <2>2. \A y \in InRings : x.time <= y.time
    BY <1>5, <1>9 DEF LastPass
  <2> QED
    BY <1>3, <1>6, <2>1, <2>2 DEF Later, x, t
<1>10. ASSUME flush = "ROUND", NEW r \in Rounds, r < pos, NEW i \in Samples(1, r),
              file[i].time = next_flush
       PROVE  Later(t)
  <2>1. pos \in Rounds
    BY <1>10 DEF FlushInv
  <2>2. \A y \in Unread : next_flush <= y.time
    <3> SUFFICES ASSUME NEW k \in Samples(pos + 1, Len(file)) PROVE next_flush <= file[k].time
      BY DEF Unread
    <3>1. k \in Samples(pos, Len(file))
      <4>1. pos \in Nat
        BY DEF QueuedInv
      <4>2. \A j \in (pos + 1)..Len(file) : j \in pos..Len(file)
        BY <1>2, <4>1, SMTT(60)
      <4> QED
        BY <4>2 DEF Samples
    <3> QED
      BY <1>1, <1>10, <2>1, <3>1 DEF TwoRoundsApart
  <2>3. \A y \in InRings : next_flush <= y.time
    <3> SUFFICES ASSUME NEW m \in Mmaps, NEW k \in DOMAIN ring[m]
                 PROVE  next_flush <= ring[m][k].time
      <4>1. InRings \subseteq {y \in InRings : next_flush <= y.time}
        <5>1. \A m \in Mmaps : \A k \in DOMAIN ring[m] :
                 ring[m][k] \in {y \in InRings : next_flush <= y.time}
          BY HeldFacts DEF InRings
        <5> QED
          BY <5>1, HeldIn DEF InRings
      <4> QED
        BY <4>1
    <3>1. file[i].time <= round_before /\ ring[m][k].time >= round_before
      BY <1>1, <1>10, <2>1, PassParts DEF BeforeInv, BufferInv
    <3>2. ring[m][k].time \in Nat
      BY <1>1, RingFacts DEF RoundsTypeOK
    <3>3. round_before \in Nat
      BY <1>1, SMTT(60) DEF RoundsTypeOK
    <3> QED
      BY <1>5, <1>10, <3>1, <3>2, <3>3, SMTT(60)
  <2>4. \A y \in Unread \cup InRings : next_flush <= y.time
    BY <2>2, <2>3
  <2>5. t <= next_flush
    BY DEF t
  <2>6. \A y \in Unread \cup InRings : t <= y.time
    BY <1>3, <1>5, <1>7, <2>4, <2>5, SMTT(60)
  <2> QED
    BY <1>6, <2>6 DEF Later
<1>11. flush = "FINAL" => stopped /\ pos = Len(file)
  BY DEF FlushInv
<1>12. CASE flush = "ROUND" /\ next_flush # 0 /\ ~(stopped /\ pos = Len(file))
  <2>1. PICK r \in Rounds : r < pos /\ \E i \in Samples(1, r) : file[i].time = next_flush
    BY <1>12 DEF FlushInv
  <2>2. Later(t)
    BY <1>10, <1>12, <2>1
  <2> QED
    BY <2>2 DEF t
<1> QED
  BY <1>8, <1>9, <1>11, <1>12 DEF FlushInv

\* The reader goes on to the next item of the file.
LEMMA NextItem ==
  ASSUME RoundsTypeOK, QueuedInv, pos < Len(file), pos' = pos + 1, UNCHANGED file
  PROVE  /\ pos' \in Nat /\ pos' <= Len(file) /\ pos < pos' /\ Unread' \subseteq Unread
         /\ pos' \in Marks => Read' = Read
         /\ pos' \notin Marks => Read' = Read \cup {file[pos']} /\ file[pos'] \in Readable
         /\ pos' \notin Marks /\ pos' \notin Dumps => file[pos'] \in Unread
         /\ Plain' => Plain /\ pos' \notin Dumps
         /\ \/ Dumped' = Dumped
            \/ Dumped' = Dumped \cup {file[pos']} /\ file[pos'] \in Dumpable
<1> DEFINE n == Len(file)
           q == pos + 1
<1>1. n \in Nat /\ DOMAIN file = 1..n
  BY Stored DEF n
<1>2. pos \in Nat /\ pos < n
  BY DEF QueuedInv
<1> HIDE DEF n
<1>3. /\ q \in Nat /\ q <= n /\ pos < q /\ q \in 1..n /\ q \in q..n /\ q \in 1..q
      /\ 1..q = (1..pos) \cup {q} /\ \A k \in (q + 1)..n : k \in q..n
  BY <1>1, <1>2, SMTT(60)
<1> HIDE DEF q
<1>4. pos' = q
  BY DEF q
<1>5. Marks' = Marks /\ Dumps' = Dumps /\ \A a, b : Samples(a, b)' = Samples(a, b)
  BY DEF Samples, Marks, Dumps
<1>6. Unread' \subseteq Unread
  <2>1. \A k \in Samples(q + 1, n) : k \in Samples(q, n)
    BY <1>3 DEF Samples
  <2>2. Unread' = {file[k] : k \in Samples(q + 1, n)} /\ Unread = {file[k] : k \in Samples(q, n)}
    BY <1>4, <1>5 DEF Unread, n, q
  <2> QED
    BY <2>1, <2>2
<1>7. Read' = {file[k] : k \in ReadAt'} /\ Read = {file[k] : k \in ReadAt}
  BY DEF Read
<1>8. q \in Marks => Read' = Read
  <2>1. q \in Marks => ReadAt' = ReadAt
    BY <1>3, <1>4, <1>5 DEF ReadAt
  <2> QED
    BY <1>7, <2>1
<1>9. q \notin Marks => Read' = Read \cup {file[q]} /\ file[q] \in Readable
  <2>1. q \notin Marks => ReadAt' = ReadAt \cup {q}
    BY <1>1, <1>3, <1>4, <1>5 DEF ReadAt
  <2>2. q \notin Marks => Read' = Read \cup {file[q]}
    BY <1>7, <2>1
  <2>3. q \notin Marks => file[q] \in Readable
    BY <1>3, Stored DEF n
  <2> QED
    BY <2>2, <2>3
<1>10. q \notin Marks /\ q \notin Dumps => file[q] \in Unread
  <2>1. q \notin Marks /\ q \notin Dumps => q \in Samples(q, n)
    BY <1>1, <1>3 DEF Samples
  <2> QED
    BY <2>1 DEF Unread, n, q
<1>11. Plain' => Plain /\ q \notin Dumps
  BY <1>3, <1>4, <1>5 DEF Plain
<1>12. \/ Dumped' = Dumped
       \/ Dumped' = Dumped \cup {file[q]} /\ file[q] \in Dumpable
  <2>1. Dumped' = {file[k] : k \in Dumps \cap 1..q} /\ Dumped = {file[k] : k \in Dumps \cap 1..pos}
    BY <1>4, <1>5 DEF Dumped
  <2>2. CASE q \in Dumps
    <3>1. Dumps \cap 1..q = (Dumps \cap 1..pos) \cup {q}
      BY <1>3, <2>2
    <3>2. file[q] \in Dumpable
      BY <1>3, <2>2, Stored DEF n
    <3> QED
      BY <2>1, <3>1, <3>2
  <2>3. CASE q \notin Dumps
    <3>1. Dumps \cap 1..q = Dumps \cap 1..pos
      BY <1>3, <2>3
    <3> QED
      BY <2>1, <3>1
  <2> QED
    BY <2>2, <2>3
<1> QED
  BY <1>3, <1>4, <1>6, <1>8, <1>9, <1>10, <1>11, <1>12 DEF n

\* perf_session__process_event: the event is queued with its time.
LEMMA ReadSampleKeeps ==
  ASSUME IInv, QueuedInv, Ordered, ReadSample
  PROVE  QueuedInv' /\ Ordered' /\ Processed' = Processed
<1> DEFINE x == file[pos']
           s == serials + 1
<1>1. /\ flush = "none" /\ pos < Len(file) /\ pos' = pos + 1 /\ pos' \notin Marks
      /\ UNCHANGED <<rounds_vars, next_flush, last_flush, flush>>
      /\ events' = Append(events, x)
      /\ pending' = pending \cup {<<x.time, s>>} /\ serials' = s /\ UNCHANGED delivered
      /\ max_timestamp' \in {x.time, max_timestamp}
  BY DEF ReadSample, OE!Queue
<1>2. UNCHANGED <<file, ring, ktime, stopped>> /\ RoundsTypeOK /\ Rounds' = Rounds
  BY <1>1 DEF rounds_vars, forward_vars, IInv, Rounds, Marks, Dumps
<1>3. /\ pos' \in Nat /\ pos' <= Len(file) /\ pos < pos' /\ Unread' \subseteq Unread
      /\ Read' = Read \cup {x} /\ x \in Readable
      /\ Plain' => Plain /\ x \in Unread
  BY <1>1, <1>2, NextItem
<1>4. x.time \in Nat
  BY <1>2, <1>3, Stored
<1> HIDE DEF x
<1>5. /\ events \in Seq(Readable) /\ serials = Len(events) /\ delivered \in Seq(1..serials)
      /\ \A e \in pending : e[2] \in 1..serials /\ e = <<events[e[2]].time, e[2]>>
      /\ \A n \in 1..serials :
            <<events[n].time, n>> \in pending \/ \E j \in DOMAIN delivered : delivered[j] = n
      /\ Read = {events[n] : n \in 1..serials}
  BY DEF QueuedInv
<1>6. /\ events' \in Seq(Readable) /\ s = Len(events')
      /\ serials \in Nat /\ \A n \in 1..serials : events'[n] = events[n]
      /\ events'[s] = x
  BY <1>1, <1>3, <1>5, SMTT(60)
<1>7. 1..s = (1..serials) \cup {s}
  BY <1>6, SMTT(60)
<1>8. delivered \in Seq(1..s) /\ \A j \in DOMAIN delivered : delivered[j] \in 1..serials
  BY <1>5, <1>6, SMTT(60)
<1> HIDE DEF s
<1>9. QueuedInv'
  <2>1. \A e \in pending' : e[2] \in 1..s /\ e = <<events'[e[2]].time, e[2]>>
    <3>1. ASSUME NEW e \in pending PROVE e[2] \in 1..s /\ e = <<events'[e[2]].time, e[2]>>
      BY <1>5, <1>6, <1>7
    <3>2. <<x.time, s>>[2] = s
      BY SMTT(60)
    <3> QED
      BY <1>1, <1>6, <1>7, <3>1, <3>2
  <2>2. \A n \in 1..s : \/ <<events'[n].time, n>> \in pending'
                        \/ \E j \in DOMAIN delivered : delivered[j] = n
    BY <1>1, <1>5, <1>6, <1>7
  <2>3. Read' = {events'[n] : n \in 1..s}
    <3>1. {events'[n] : n \in 1..s} = {events'[n] : n \in 1..serials} \cup {events'[s]}
      BY <1>7
    <3>2. {events'[n] : n \in 1..serials} = {events[n] : n \in 1..serials}
      BY <1>6
    <3> QED
      BY <1>3, <1>5, <1>6, <3>1, <3>2
  <2> QED
    BY <1>1, <1>2, <1>3, <1>6, <1>8, <2>1, <2>2, <2>3 DEF QueuedInv
<1>10. ASSUME Plain' PROVE FlushInv'
  <2>0. FlushInv
    BY <1>3, <1>10 DEF Ordered
  <2>1. max_timestamp' # 0 => \E e \in Read' : e.time = max_timestamp'
    BY <1>1, <1>3, <2>0 DEF FlushInv
  <2>2. pos # Len(file)
    <3>1. Len(file) \in Nat /\ pos \in Nat
      BY <1>2, Stored DEF QueuedInv
    <3> QED
      BY <1>1, <3>1, SMTT(60)
  <2>3. \A r \in Rounds : r <= pos => r <= pos'
    <3>1. Len(file) \in Nat /\ DOMAIN file = 1..Len(file) /\ pos \in Nat
      BY <1>2, Stored DEF QueuedInv
    <3>2. \A r \in 1..Len(file) : r <= pos => r <= pos'
      BY <1>1, <3>1, SMTT(60)
    <3> QED
      BY <3>1, <3>2 DEF Rounds, Marks
  <2>4. "none" # "ROUND" /\ "none" # "FINAL"
    BY SMTT(60)
  <2>5. max_timestamp' \in Nat
    BY <1>1, <1>4, <2>0 DEF FlushInv
  <2>6. \/ next_flush = 0
        \/ \E r \in Rounds : r <= pos' /\ \E i \in Samples(1, r) : file[i].time = next_flush
    BY <1>1, <2>0, <2>2, <2>3 DEF FlushInv
  <2>7. \A r : Samples(1, r)' = Samples(1, r)
    BY <1>2 DEF Samples, Marks, Dumps
  <2>8. next_flush' = next_flush /\ last_flush' = last_flush /\ flush' = "none"
    BY <1>1
  <2>9. next_flush \in Nat /\ last_flush \in Nat
    BY <2>0 DEF FlushInv
  <2> QED
    BY <1>2, <2>1, <2>4, <2>5, <2>6, <2>7, <2>8, <2>9 DEF FlushInv
<1>11. ASSUME Plain' PROVE OrderInv'
  <2>0. OrderInv
    BY <1>3, <1>11 DEF Ordered
  <2>1. InRings' = InRings
    BY <1>2 DEF InRings
  <2>2. last_flush <= x.time
    BY <1>3, <1>11, <2>0 DEF OrderInv, Later
  <2>3. <<x.time, s>>[1] = x.time
    BY SMTT(60)
  <2> QED
    BY <1>1, <1>2, <1>3, <2>0, <2>1, <2>2, <2>3 DEF OrderInv, Later
<1>12. Processed' = Processed
  <2>1. Processed' = {events'[delivered[j]] : j \in DOMAIN delivered}
    BY <1>1 DEF Processed
  <2>2. \A j \in DOMAIN delivered : events'[delivered[j]] = events[delivered[j]]
    BY <1>6, <1>8
  <2> QED
    BY <2>1, <2>2 DEF Processed
<1> QED
  BY <1>9, <1>10, <1>11, <1>12 DEF Ordered

\* process_finished_round begins to flush up to a time from before the last round.
LEMMA ReadRoundKeeps ==
  ASSUME IInv, QueuedInv, Ordered, ReadRound
  PROVE  QueuedInv' /\ Ordered' /\ Processed' = Processed
<1>1. /\ flush = "none" /\ pos < Len(file) /\ pos' = pos + 1 /\ pos' \in Marks
      /\ UNCHANGED <<rounds_vars, pending, serials, delivered, events, next_flush,
                     max_timestamp, last_flush>>
      /\ flush' \in {"none", "ROUND"}
  BY DEF ReadRound
<1>2. UNCHANGED <<file, ring, ktime, stopped>> /\ RoundsTypeOK /\ Rounds' = Rounds
  BY <1>1 DEF rounds_vars, forward_vars, IInv, Rounds, Marks, Dumps
<1>3. /\ pos' \in Nat /\ pos' <= Len(file) /\ pos < pos' /\ Unread' \subseteq Unread
      /\ Read' = Read
      /\ Plain' => Plain /\ pos' \in Rounds
  BY <1>1, <1>2, NextItem DEF Rounds
<1>4. QueuedInv'
  BY <1>1, <1>2, <1>3 DEF QueuedInv
<1>5. ASSUME Plain' PROVE FlushInv'
  <2>0. FlushInv /\ pos' \in Rounds
    BY <1>3, <1>5 DEF Ordered
  <2>1. pos # Len(file)
    <3>1. Len(file) \in Nat /\ pos \in Nat
      BY <1>2, Stored DEF QueuedInv
    <3> QED
      BY <1>1, <3>1, SMTT(60)
  <2>2. \A r \in Rounds : r <= pos => r <= pos' /\ r < pos'
    <3>1. Len(file) \in Nat /\ DOMAIN file = 1..Len(file) /\ pos \in Nat
      BY <1>2, Stored DEF QueuedInv
    <3>2. \A r \in 1..Len(file) : r <= pos => r <= pos' /\ r < pos'
      BY <1>1, <3>1, SMTT(60)
    <3> QED
      BY <3>1, <3>2 DEF Rounds, Marks
  <2>3. "none" # "FINAL" /\ "ROUND" # "FINAL"
    BY SMTT(60)
  <2>4. \/ next_flush = 0
        \/ \E r \in Rounds : /\ r <= pos' /\ r < pos'
                             /\ \E i \in Samples(1, r) : file[i].time = next_flush
    BY <1>1, <2>0, <2>1, <2>2 DEF FlushInv
  <2>5. \A r : Samples(1, r)' = Samples(1, r)
    BY <1>2 DEF Samples, Marks, Dumps
  <2>6. /\ UNCHANGED <<next_flush, max_timestamp, last_flush>> /\ flush' # "FINAL"
        /\ flush' \in {"none", "ROUND", "FINAL"}
    BY <1>1, <2>3
  <2> QED
    BY <1>2, <1>3, <2>0, <2>4, <2>5, <2>6 DEF FlushInv
<1>6. ASSUME Plain' PROVE OrderInv'
  <2>0. OrderInv
    BY <1>3, <1>6 DEF Ordered
  <2>1. InRings' = InRings
    BY <1>2 DEF InRings
  <2> QED
    BY <1>1, <1>2, <1>3, <2>0, <2>1 DEF OrderInv, Later
<1> QED
  BY <1>1, <1>4, <1>5, <1>6 DEF Processed, Ordered

\* A step that leaves the file, the position and the queue alone.
LEMMA SameQueue ==
  ASSUME QueuedInv,
         UNCHANGED <<rounds_vars, pos, pending, serials, delivered, events, last_flush>>
  PROVE  /\ QueuedInv' /\ (OrderInv => OrderInv') /\ Processed' = Processed
         /\ UNCHANGED <<file, stopped, Rounds, Read, Dumped>> /\ (Plain' <=> Plain)
         /\ \A r : Samples(1, r)' = Samples(1, r)
<1>1. UNCHANGED <<file, ring, ktime, stopped>>
  BY DEF rounds_vars, forward_vars
<1>2. UNCHANGED <<Rounds, Marks, Dumps>> /\ \A a, b : Samples(a, b)' = Samples(a, b)
  BY <1>1 DEF Rounds, Marks, Dumps, Samples
<1>3. UNCHANGED <<Read, Unread, InRings, Dumped>> /\ (Plain' <=> Plain)
  BY <1>1, <1>2 DEF Read, ReadAt, Unread, InRings, Dumped, Plain
<1> QED
  BY <1>1, <1>2, <1>3 DEF QueuedInv, OrderInv, Later, Processed

\* The end of the data: all of it was read.
LEMMA ReadEndKeeps ==
  ASSUME QueuedInv, Ordered, ReadEnd
  PROVE  QueuedInv' /\ Ordered' /\ Processed' = Processed /\ Dumped' = Dumped
<1>1. /\ stopped /\ pos = Len(file) /\ flush' = "FINAL" /\ next_flush' = MaxTime + 1
      /\ UNCHANGED <<rounds_vars, pos, pending, serials, delivered, events, max_timestamp,
                     last_flush>>
  BY DEF ReadEnd, ULLONG_MAX
<1>2. /\ QueuedInv' /\ (OrderInv => OrderInv') /\ Processed' = Processed
      /\ UNCHANGED <<file, stopped, Rounds, Read, Dumped>> /\ (Plain' <=> Plain)
  BY <1>1, SameQueue
<1>3. MaxTime + 1 \in Nat /\ "FINAL" # "ROUND"
  BY RecordRoundsAssumption, SMTT(60)
<1>4. FlushInv => FlushInv'
  BY <1>1, <1>2, <1>3 DEF FlushInv
<1> QED
  BY <1>2, <1>4 DEF Ordered

\* The flush ends, and the next round's goes up to the latest time known by now.
LEMMA FlushEndKeeps ==
  ASSUME IInv, QueuedInv, Ordered, FlushEnd
  PROVE  QueuedInv' /\ Ordered' /\ Processed' = Processed /\ Dumped' = Dumped
<1>1. /\ flush # "none" /\ flush' = "none"
      /\ flush = "ROUND" => next_flush' = max_timestamp
      /\ flush # "ROUND" => next_flush' = next_flush
      /\ UNCHANGED <<rounds_vars, pos, pending, serials, delivered, events, max_timestamp,
                     last_flush>>
  BY DEF FlushEnd
<1>2. /\ QueuedInv' /\ (OrderInv => OrderInv') /\ Processed' = Processed
      /\ UNCHANGED <<file, stopped, Rounds, Read, Dumped>> /\ (Plain' <=> Plain)
      /\ \A r : Samples(1, r)' = Samples(1, r)
  BY <1>1, SameQueue
<1>3. "none" # "ROUND" /\ "none" # "FINAL"
  BY SMTT(60)
<1> SUFFICES ASSUME FlushInv, Plain PROVE FlushInv'
  BY <1>2 DEF Ordered
<1>4. \/ next_flush' = 0
      \/ stopped /\ pos = Len(file)
      \/ \E r \in Rounds : r <= pos /\ \E i \in Samples(1, r) : file[i].time = next_flush'
  <2>1. CASE flush = "FINAL"
    BY <2>1 DEF FlushInv
  <2>2. CASE flush = "ROUND" /\ max_timestamp # 0
    <3>1. pos \in Rounds /\ \E i \in Samples(1, pos) : file[i].time = max_timestamp
      BY <2>2, ReadFacts DEF FlushInv, IInv
    <3>2. pos <= pos
      BY SMTT(60) DEF QueuedInv
    <3> QED
      BY <1>1, <2>2, <3>1, <3>2
  <2>3. CASE flush = "ROUND" /\ max_timestamp = 0
    BY <1>1, <2>3
  <2> QED
    BY <1>1, <2>1, <2>2, <2>3 DEF FlushInv
<1>5. next_flush' \in Nat
  BY <1>1 DEF FlushInv
<1> QED
  BY <1>1, <1>2, <1>3, <1>4, <1>5 DEF FlushInv

\* do_flush delivers an event, and no event that was taken and is still to be delivered
\* is earlier.
LEMMA FlushOneKeeps ==
  ASSUME IInv, LastPass, QueuedInv, Ordered, TakenInv, FlushOne
  PROVE  /\ QueuedInv' /\ Ordered' /\ Dumped' = Dumped
         /\ \E x \in Readable :
               /\ x \in taken \cup Dumped /\ last_flush' = x.time
               /\ Processed' = Processed \cup {x}
               /\ Plain => /\ last_flush <= x.time /\ last_flush \in Nat
                           /\ \A f \in taken \ Processed : x.time <= f.time
<1>1. PICK e \in pending :
         /\ e[1] <= next_flush /\ last_flush' = e[1]
         /\ \A f \in pending \ {e} : OE!Before(e, f)
         /\ pending' = pending \ {e} /\ delivered' = Append(delivered, e[2])
         /\ UNCHANGED serials
  BY DEF FlushOne, OE!Deliver, OE!IsFirst
<1>2. /\ flush # "none"
      /\ UNCHANGED <<rounds_vars, pos, events, next_flush, max_timestamp, flush>>
  BY DEF FlushOne
<1> DEFINE x == events[e[2]]
           t == e[1]
<1>3. t \in Nat /\ x.time = t /\ x \in Read /\ x \in Readable /\ x \in InFile \cup Dumped
  BY <1>1, ReadFacts DEF IInv
<1>4. UNCHANGED <<file, ring, ktime, stopped>> /\ RoundsTypeOK
  BY <1>2 DEF rounds_vars, forward_vars, IInv
<1>5. /\ UNCHANGED <<Rounds, Read, Unread, InRings, Dumped>> /\ (Plain' <=> Plain)
      /\ \A a, b : Samples(a, b)' = Samples(a, b)
  <2>1. UNCHANGED <<Rounds, Marks, Dumps>> /\ \A a, b : Samples(a, b)' = Samples(a, b)
    BY <1>4 DEF Rounds, Marks, Dumps, Samples
  <2> QED
    BY <1>2, <1>4, <2>1 DEF Read, ReadAt, Unread, InRings, Dumped, Plain
<1>6. /\ delivered \in Seq(1..serials) /\ e[2] \in 1..serials /\ e = <<x.time, e[2]>>
      /\ \A n \in 1..serials :
            <<events[n].time, n>> \in pending \/ \E j \in DOMAIN delivered : delivered[j] = n
  BY DEF QueuedInv
<1>7. \A f \in pending : f[1] \in Nat
  BY <1>4, ReadFacts
<1>8. \A f \in pending : t <= f[1]
  <2> SUFFICES ASSUME NEW f \in pending PROVE t <= f[1]
    OBVIOUS
  <2>1. CASE f = e
    BY <1>3, <2>1, SMTT(60)
  <2>2. CASE f # e
    <3>1. e[1] < f[1] \/ e[1] = f[1]
      BY <1>1, <2>2 DEF OE!Before
    <3>2. f[1] \in Nat
      BY <1>7
    <3> QED
      BY <1>3, <3>1, <3>2, SMTT(60)
  <2> QED
    BY <2>1, <2>2
<1>9. Plain => Later(t) /\ last_flush <= t /\ last_flush \in Nat
  BY <1>1, <1>2, DueFirst DEF Ordered, OrderInv, FlushInv
<1>10. /\ delivered' \in Seq(1..serials)
       /\ DOMAIN delivered' = DOMAIN delivered \cup {Len(delivered) + 1}
       /\ \A j \in DOMAIN delivered : delivered'[j] = delivered[j]
       /\ delivered'[Len(delivered) + 1] = e[2]
  BY <1>1, <1>6, SMTT(60)
<1> HIDE DEF t
<1>11. QueuedInv'
  <2>1. \A n \in 1..serials : \/ <<events[n].time, n>> \in pending'
                              \/ \E j \in DOMAIN delivered' : delivered'[j] = n
    <3> SUFFICES ASSUME NEW n \in 1..serials, <<events[n].time, n>> \notin pending'
                 PROVE  \E j \in DOMAIN delivered' : delivered'[j] = n
      OBVIOUS
    <3>1. CASE <<events[n].time, n>> = e
      <4>1. \A a, b : <<a, b>>[2] = b
        BY SMTT(60)
      <4>2. e[2] = n
        BY <3>1, <4>1
      <4> QED
        BY <1>10, <4>2
    <3>2. CASE <<events[n].time, n>> # e
      BY <1>1, <1>6, <1>10, <3>2
    <3> QED
      BY <3>1, <3>2
  <2>2. \A f \in pending' : f[2] \in 1..serials /\ f = <<events[f[2]].time, f[2]>>
    BY <1>1 DEF QueuedInv
  <2>3. /\ pos \in Nat /\ pos <= Len(file)
        /\ events \in Seq(Readable) /\ serials = Len(events)
        /\ Read = {events[n] : n \in 1..serials}
    BY DEF QueuedInv
  <2>4. UNCHANGED <<pos, events, serials, file, Read>>
    BY <1>1, <1>2, <1>4, <1>5
  <2>5. /\ pos' \in Nat /\ pos' <= Len(file')
        /\ events' \in Seq(Readable) /\ serials' = Len(events')
        /\ delivered' \in Seq(1..serials')
    BY <1>10, <2>3, <2>4
  <2>6. Read' = {events'[n] : n \in 1..serials'}
    BY <2>3, <2>4
  <2>7. \A f \in pending' : f[2] \in 1..serials' /\ f = <<events'[f[2]].time, f[2]>>
    BY <2>2, <2>4
  <2>8. \A n \in 1..serials' : \/ <<events'[n].time, n>> \in pending'
                               \/ \E j \in DOMAIN delivered' : delivered'[j] = n
    BY <2>1, <2>4
  <2> QED
    BY <2>5, <2>6, <2>7, <2>8 DEF QueuedInv
<1>12. Plain => FlushInv'
  BY <1>1, <1>2, <1>3, <1>4, <1>5 DEF Ordered, FlushInv, t
<1>13. Plain => OrderInv'
  BY <1>1, <1>4, <1>5, <1>8, <1>9 DEF OrderInv, Later, t
<1>14. Processed' = Processed \cup {x}
  <2>1. Processed' = {events[delivered'[j]] : j \in DOMAIN delivered'}
    BY <1>2 DEF Processed
  <2>2. {events[delivered'[j]] : j \in DOMAIN delivered'}
           = {events[delivered'[j]] : j \in DOMAIN delivered} \cup {x}
    <3> DEFINE l == Len(delivered) + 1
               D == DOMAIN delivered
    <3>1. DOMAIN delivered' = D \cup {l} /\ events[delivered'[l]] = x
      BY <1>10
    <3> HIDE DEF l, D, x
    <3>2. {events[delivered'[j]] : j \in D \cup {l}}
             = {events[delivered'[j]] : j \in D} \cup {events[delivered'[l]]}
      OBVIOUS
    <3> QED
      BY <3>1, <3>2 DEF D
  <2>3. {events[delivered'[j]] : j \in DOMAIN delivered} = Processed
    BY <1>10 DEF Processed
  <2> QED
    BY <2>1, <2>2, <2>3
<1>15. ASSUME Plain, NEW f \in taken \ Processed PROVE x.time <= f.time
  <2>1. f \in Unread \cup InRings => t <= f.time
    BY <1>9, <1>15 DEF Later
  <2>2. f \in Read => t <= f.time
    <3> SUFFICES ASSUME f \in Read PROVE t <= f.time
      OBVIOUS
    <3>1. PICK n \in 1..serials : f = events[n]
      BY DEF QueuedInv
    <3>2. ~ \E j \in DOMAIN delivered : delivered[j] = n
      BY <1>15, <3>1 DEF Processed
    <3>3. <<events[n].time, n>> \in pending
      BY <1>6, <3>2
    <3>4. <<events[n].time, n>>[1] = events[n].time
      BY SMTT(60)
    <3> QED
      BY <1>8, <3>1, <3>3, <3>4
  <2>3. f \in InRings \cup InFile
    BY DEF TakenInv
  <2>4. InFile \subseteq Read \cup Unread
    BY <1>4, ReadFacts
  <2> QED
    BY <1>3, <2>1, <2>2, <2>3, <2>4
<1>16. x \in taken \cup Dumped
  BY <1>3 DEF TakenInv
<1>17. last_flush' = x.time
  BY <1>1, <1>3 DEF t
<1>18. Plain => last_flush <= x.time /\ last_flush \in Nat
  BY <1>3, <1>9 DEF t
<1>19. Ordered'
  BY <1>5, <1>12, <1>13 DEF Ordered
<1> HIDE DEF x
<1> QED
  BY <1>3, <1>5, <1>11, <1>14, <1>15, <1>16, <1>17, <1>18, <1>19

\* Nothing is recorded, read or queued.
LEMMA ReportStart == ReportInit => ReportInv /\ Merge!MergeInit
<1> SUFFICES ASSUME ReportInit PROVE ReportInv /\ Merge!MergeInit
  OBVIOUS
<1> USE DEF ReportInit
<1>1. IInv /\ RoundsTypeOK
  BY InvInit DEF IInv
<1>2. DOMAIN file = {} /\ Len(file) = 0 /\ \A m \in Mmaps : DOMAIN ring[m] = {}
  BY SMTT(60) DEF RoundsInit
<1>3. InFile = {} /\ Read = {} /\ Unread = {} /\ Dumped = {}
  BY <1>2 DEF InFile, Read, ReadAt, Unread, Samples, Dumped, Dumps
<1>4. InRings = {}
  <2>1. Held(ring) \subseteq {}
    BY <1>2, HeldIn
  <2> QED
    BY <2>1 DEF InRings
<1>5. LastPass
  <2>1. at = "top" /\ "top" # "overwrite" /\ ~wrote /\ ~stopped
    BY SMTT(60) DEF RoundsInit
  <2> QED
    BY <1>3, <2>1 DEF LastPass
<1>6. /\ pending = {} /\ serials = 0 /\ delivered = <<>> /\ events = <<>>
      /\ next_flush = 0 /\ max_timestamp = 0 /\ last_flush = 0 /\ flush = "none"
      /\ taken = {} /\ pos = 0
  BY DEF OE!QueueInit
<1>7. QueuedInv
  <2>1. 1..serials = {} /\ pos \in Nat /\ pos <= Len(file)
    BY <1>2, <1>6, SMTT(60)
  <2>2. events \in Seq(Readable) /\ serials = Len(events) /\ delivered \in Seq(1..serials)
    BY <1>6, SMTT(60)
  <2> QED
    BY <1>3, <1>6, <2>1, <2>2 DEF QueuedInv
<1>8. FlushInv
  <2>1. "none" # "ROUND" /\ "none" # "FINAL" /\ 0 \in Nat
    BY SMTT(60)
  <2> QED
    BY <1>6, <2>1 DEF FlushInv
<1>9. OrderInv
  <2>1. 0 <= ktime
    BY SMTT(60) DEF RoundsInit
  <2> QED
    BY <1>3, <1>4, <1>6, <2>1 DEF OrderInv, Later
<1>10. TakenInv
  BY <1>3, <1>4, <1>6 DEF TakenInv
<1>11. Processed = {}
  <2>1. DOMAIN delivered = {}
    BY <1>6, SMTT(60)
  <2> QED
    BY <2>1 DEF Processed
<1>12. Merge!MergeInit
  BY <1>3, <1>6, <1>11 DEF Merge!MergeInit
<1> QED
  BY <1>1, <1>5, <1>7, <1>8, <1>9, <1>10, <1>12 DEF ReportInv, Ordered

\* A step of the recording takes an event, or none, as the merge sees it.
LEMMA RecordMerges ==
  ASSUME ReportInv, Record
  PROVE  ReportInv' /\ [Merge!MergeNext]_(Merge!merge_vars)
<1>1. /\ IInv /\ LastPass /\ QueuedInv /\ Ordered /\ TakenInv /\ RoundsTypeOK
      /\ RoundsNext
  BY DEF ReportInv, Record, IInv
<1>2. /\ taken' = taken \cup InRings'
      /\ UNCHANGED <<pos, pending, serials, delivered, events, next_flush, max_timestamp,
                     last_flush, flush>>
  BY DEF Record, InRings, Held
<1>3. IInv' /\ LastPass' /\ ~stopped
  BY <1>1, InvNext, LastPassStep, StoppedEnds
<1>4. UNCHANGED Processed
  BY <1>2 DEF Processed
<1>5. ASSUME NEW new, new \subseteq Events, \A e \in new : ktime <= e.time, Grows(new)
      PROVE  ReportInv' /\ Dumped' = Dumped
  BY <1>1, <1>2, <1>3, <1>5, RecordReading DEF ReportInv
<1>6. CASE Grows({})
  <2>1. ReportInv' /\ Dumped' = Dumped
    BY <1>5, <1>6
  <2>2. taken' = taken
    BY <1>1, <1>2, <1>6 DEF Grows, TakenInv
  <2> QED
    BY <1>2, <1>4, <2>1, <2>2 DEF Merge!merge_vars
<1>7. ASSUME NEW e \in Events, ktime <= e.time, Grows({e})
      PROVE  ReportInv' /\ [Merge!MergeNext]_(Merge!merge_vars)
  <2>1. ReportInv' /\ Dumped' = Dumped
    BY <1>5, <1>7
  <2>2. taken' = taken \cup {e}
    <3>1. InRings' \subseteq InRings \cup {e} /\ e \in InRings' \cup InFile'
      BY <1>7 DEF Grows
    <3>2. taken' = InRings' \cup InFile'
      BY <2>1 DEF ReportInv, TakenInv
    <3>3. InRings \subseteq taken
      BY <1>1 DEF TakenInv
    <3> QED
      BY <1>2, <3>1, <3>2, <3>3
  <2>3. Dumped = {} => e.time >= last_flush
    <3> SUFFICES ASSUME Dumped = {} PROVE e.time >= last_flush
      OBVIOUS
    <3>1. last_flush <= ktime /\ last_flush \in Nat
      BY <1>1, ReadFacts DEF Ordered, OrderInv, Later, FlushInv
    <3>2. ktime \in Nat
      BY <1>1, RecordRoundsAssumption, SMTT(60) DEF RoundsTypeOK
    <3>3. e.time \in Nat
      BY <1>1, Stored DEF Readable
    <3> QED
      BY <1>7, <3>1, <3>2, <3>3, SMTT(60)
  <2>4. Merge!Take(e)
    BY <1>2, <1>4, <2>1, <2>2, <2>3 DEF Merge!Take
  <2> QED
    BY <2>1, <2>4 DEF Merge!MergeNext
<1> QED
  BY <1>1, <1>6, <1>7, GrowsStep

\* A step of the reader delivers the earliest event of all that were taken, reads an item
\* of a dump, or does nothing that the merge sees; with a dump read the order is open.
LEMMA ReaderMerges ==
  ASSUME ReportInv, Reader
  PROVE  ReportInv' /\ [Merge!MergeNext]_(Merge!merge_vars)
<1>1. IInv /\ LastPass /\ QueuedInv /\ Ordered /\ TakenInv /\ RoundsTypeOK
  BY DEF ReportInv, IInv
<1>2. UNCHANGED <<rounds_vars, taken>>
  BY DEF Reader, ReadSample, ReadRound, ReadEnd, FlushOne, FlushEnd
<1>3. IInv'
  BY <1>1, <1>2, InvNext
<1>4. UNCHANGED <<file, ring, wrote, round_at, stopped, at, samples>>
  BY <1>2 DEF rounds_vars, forward_vars, backward_vars
<1>5. UNCHANGED <<InFile, InRings>>
  <2>1. Samples(1, Len(file))' = Samples(1, Len(file))
    BY <1>4 DEF Samples, Marks, Dumps
  <2> QED
    BY <1>4, <2>1 DEF InFile, InRings
<1>6. LastPass' /\ TakenInv'
  BY <1>1, <1>2, <1>4, <1>5 DEF LastPass, TakenInv
<1>7. ASSUME QueuedInv', Ordered', Processed' = Processed, UNCHANGED last_flush,
             Dumped' = Dumped \/ \E e \in Dumpable : Dumped' = Dumped \cup {e}
      PROVE  ReportInv' /\ [Merge!MergeNext]_(Merge!merge_vars)
  <2>1. ReportInv'
    BY <1>3, <1>6, <1>7 DEF ReportInv
  <2>2. CASE Dumped' = Dumped
    BY <1>2, <1>7, <2>1, <2>2 DEF Merge!merge_vars
  <2>3. ASSUME NEW e \in Dumpable, Dumped' = Dumped \cup {e} PROVE Merge!MergeNext
    <3>1. Merge!Dump(e)
      BY <1>2, <1>7, <2>3 DEF Merge!Dump
    <3> QED
      BY <3>1 DEF Merge!MergeNext
  <2> QED
    BY <1>7, <2>1, <2>2, <2>3
<1>8. CASE ReadSample \/ ReadRound
  <2>1. pos < Len(file) /\ pos' = pos + 1 /\ UNCHANGED <<file, last_flush>>
    BY <1>4, <1>8 DEF ReadSample, ReadRound
  <2>2. Dumped' = Dumped \/ \E e \in Dumpable : Dumped' = Dumped \cup {e}
    BY <1>1, <2>1, NextItem
  <2>3. QueuedInv' /\ Ordered' /\ Processed' = Processed
    BY <1>1, <1>8, ReadSampleKeeps, ReadRoundKeeps
  <2> QED
    BY <1>7, <2>1, <2>2, <2>3
<1>9. CASE ReadEnd
  BY <1>1, <1>7, <1>9, ReadEndKeeps DEF ReadEnd
<1>10. CASE FlushEnd
  BY <1>1, <1>7, <1>10, FlushEndKeeps DEF FlushEnd
<1>11. CASE FlushOne
  <2>1. QueuedInv' /\ Ordered' /\ Dumped' = Dumped
    BY <1>1, <1>11, FlushOneKeeps
  <2>2. PICK x \in Readable :
           /\ x \in taken \cup Dumped /\ last_flush' = x.time
           /\ Processed' = Processed \cup {x}
           /\ Plain => /\ last_flush <= x.time /\ last_flush \in Nat
                       /\ \A f \in taken \ Processed : x.time <= f.time
    BY <1>1, <1>11, FlushOneKeeps
  <2>3. Dumped = {} => x.time >= last_flush /\ \A f \in taken \ Processed : x.time <= f.time
    <3> SUFFICES ASSUME Dumped = {}
                 PROVE  x.time >= last_flush /\ \A f \in taken \ Processed : x.time <= f.time
      OBVIOUS
    <3>1. /\ last_flush <= x.time /\ last_flush \in Nat
          /\ \A f \in taken \ Processed : x.time <= f.time
      BY <1>1, <2>2, ReadFacts
    <3>2. x.time \in Nat
      BY <1>1, Stored
    <3>3. x.time >= last_flush
      BY <3>1, <3>2, SMTT(60)
    <3> QED
      BY <3>1, <3>3
  <2>4. Merge!Process(x)
    BY <1>2, <2>1, <2>2, <2>3 DEF Merge!Process
  <2>5. x \in Events \cup Dumpable
    BY DEF Readable, Dumpable
  <2> QED
    BY <1>3, <1>6, <2>1, <2>4, <2>5 DEF ReportInv, Merge!MergeNext
<1> QED
  BY <1>8, <1>9, <1>10, <1>11 DEF Reader

\* perf record and the session that reads its data, in any interleaving and for any number
\* of buffers, events and passes, process the events of all forward buffers in the order of
\* their times, up to the point where a dump of overwritable buffers is read:
\* process_finished_round never flushes an event while an earlier one is in the file or
\* still in a forward buffer (record__mmap_read_evlist, perf_mmap__push, do_flush).
THEOREM TimeMergeCorrect == ReportSpec => ImplementsTimeMerge
<1>1. ReportInit => ReportInv /\ Merge!MergeInit
  BY ReportStart
<1>2. ReportInv /\ [ReportNext]_<<rounds_vars, report_vars>>
        => ReportInv' /\ [Merge!MergeNext]_(Merge!merge_vars)
  <2> SUFFICES ASSUME ReportInv, [ReportNext]_<<rounds_vars, report_vars>>
               PROVE  ReportInv' /\ [Merge!MergeNext]_(Merge!merge_vars)
    OBVIOUS
  <2>1. CASE Record
    BY <2>1, RecordMerges
  <2>2. CASE Reader
    BY <2>2, ReaderMerges
  <2>3. CASE UNCHANGED <<rounds_vars, report_vars>>
    <3>1. UNCHANGED <<rounds_vars, pos, pending, serials, delivered, events, last_flush>>
          /\ UNCHANGED <<next_flush, max_timestamp, flush, taken>>
      BY <2>3 DEF report_vars
    <3>2. IInv /\ LastPass /\ QueuedInv /\ Ordered /\ TakenInv
      BY DEF ReportInv
    <3>3. /\ QueuedInv' /\ (OrderInv => OrderInv') /\ Processed' = Processed
          /\ UNCHANGED <<file, stopped, Rounds, Read, Dumped>> /\ (Plain' <=> Plain)
          /\ \A r : Samples(1, r)' = Samples(1, r)
      BY <3>1, <3>2, SameQueue
    <3>4. Ordered'
      <4>1. FlushInv => FlushInv'
        BY <3>1, <3>3 DEF FlushInv
      <4> QED
        BY <3>2, <3>3, <4>1 DEF Ordered
    <3>5. IInv'
      BY <3>1, <3>2, InvNext
    <3>6. UNCHANGED <<ring, wrote, round_at, at, samples>>
      BY <3>1 DEF rounds_vars, forward_vars, backward_vars
    <3>7. UNCHANGED <<InFile, InRings>>
      <4>1. Samples(1, Len(file))' = Samples(1, Len(file))
        BY <3>3 DEF Samples, Marks, Dumps
      <4> QED
        BY <3>3, <3>6, <4>1 DEF InFile, InRings
    <3>8. LastPass' /\ TakenInv'
      BY <3>1, <3>2, <3>3, <3>6, <3>7 DEF LastPass, TakenInv
    <3> QED
      BY <3>1, <3>3, <3>4, <3>5, <3>8 DEF ReportInv, Merge!merge_vars
  <2> QED
    BY <2>1, <2>2, <2>3 DEF ReportNext
<1> QED
  BY <1>1, <1>2, PTL DEF ReportSpec, ImplementsTimeMerge, Merge!MergeSpec

=============================================================================
