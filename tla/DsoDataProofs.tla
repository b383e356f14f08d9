--------------------------- MODULE DsoDataProofs ---------------------------
(***************************************************************************)
(* The data of a dso, for any number of threads, dsos and requests, any    *)
(* size of files and pages, and any limits: descriptors stay open while    *)
(* they are used, the list of open files agrees with them and with the     *)
(* limit, pages are cached once, and reads return the bytes of the file.   *)
(***************************************************************************)
EXTENDS DsoData, TLAPS

\* The provers: Zenon unless a step names the SMT solver.
USE ZenonT(60)

-----------------------------------------------------------------------------
(* Sequences.                                                              *)

\* One sequence after the other.
LEMMA SeqConcat ==
  ASSUME NEW S, NEW s \in Seq(S), NEW t \in Seq(S)
  PROVE  /\ s \o t \in Seq(S) /\ Len(s \o t) = Len(s) + Len(t)
         /\ \A i \in 1..(Len(s) + Len(t)) :
               (s \o t)[i] = IF i <= Len(s) THEN s[i] ELSE t[i - Len(s)]
BY SMTT(60)

-----------------------------------------------------------------------------
(* The data of dsos: the inductive invariant.                              *)

\* The calls of dso__data_get_fd, and of the readers of cached data.
FdCall == [op : {"fd"}, dso : Dso]
ReadCall == [op : {"stat", "pread"}, dso : Dso, asked : Request, offset : Nat,
             size : Int]

\* What a call is about is fixed by where its thread is.
CallInv ==
  /\ pc \in [Thread -> {"idle", "size", "lock", "open", "reread", "use", "check",
                        "find", "insert", "return"}]
  /\ call \in [Thread -> {NoCall} \cup FdCall \cup ReadCall]
  /\ \A t \in Thread :
       /\ pc[t] \in {"reread", "use"} => call[t] \in FdCall
       /\ pc[t] \in {"lock", "open", "return"} => call[t] \in FdCall \cup ReadCall
       /\ pc[t] \in {"size", "check", "find", "insert"} => call[t] \in ReadCall

\* Who opens or uses a descriptor has the lock, and a call that got none
\* although it opened the file is about a file that nobody can open.
FdInv ==
  /\ fds \in Nat \ {0} /\ open_cnt \in Int
  /\ fd \in [Dso -> BOOLEAN]
  /\ \A d \in Missing : ~fd[d]
  /\ \A t \in Thread :
       /\ pc[t] \in {"open", "use"} => open_lock = {t}
       /\ pc[t] = "use" => fd[dso(t)]
       /\ pc[t] = "reread" => dso(t) \in Missing

\* The page that an offset is on begins at a multiple of CacheSize.
Aligned(offset) == \E k \in Nat : offset = k * CacheSize

\* A page of the file: it begins at a multiple of CacheSize.
GoodPage(p) ==
  /\ p \in Page /\ Aligned(p.offset)
  /\ p.offset < FileSize /\ p.data = pread(p.offset)

\* The cache holds pages of the file, none twice, and a thread that inserts a page
\* has read the one it looks for.
PageInv ==
  /\ cache \in [Dso -> SUBSET Page] /\ page \in [Thread -> Page]
  /\ \A d \in Dso : \A p \in cache[d] : GoodPage(p)
  /\ \A d \in Dso : \A p, q \in cache[d] : Covers(q, p.offset) => q = p
  /\ \A t \in Thread : pc[t] = "insert" =>
       GoodPage(page[t]) /\ Covers(page[t], call[t].offset)

\* The list, the count and the descriptors agree.
FilesOK(f) ==
  /\ f.list \in Seq(Dso) /\ f.cnt = Len(f.list) /\ IsInjective(f.list)
  /\ f.fd \in [Dso -> BOOLEAN] /\ f.size \in [Dso -> {0, FileSize}]
  /\ Range(f.list) = {d \in Dso : f.fd[d]}

\* There are not more open files than allowed.
ListInv ==
  /\ fd_limit \in Nat /\ FilesOK(Files)
  /\ open_cnt <= fds /\ (open_cnt < fd_limit \/ open_cnt <= 1)

\* Only a file that cannot be opened puts a dso into the error state.
ErrorInv == error \in [Dso -> BOOLEAN] /\ \A d \in Dso : error[d] => d \in Missing

\* The bytes of the file from one position up to another.
Bytes(from, to) == [i \in 1..(to - from) |-> from + i - 1]

\* A read that has not copied anything.
AtStart(t) ==
  /\ call[t].op = "stat" /\ out[t] = <<>>
  /\ call[t].offset = call[t].asked[1] /\ call[t].size = call[t].asked[2]

\* A read that has copied up to its offset, and has more to copy.
Copying(t) ==
  /\ call[t].asked[1] <= call[t].offset /\ call[t].offset <= FileSize
  /\ call[t].size > 0
  /\ call[t].offset + call[t].size = call[t].asked[1] + call[t].asked[2]
  /\ out[t] = Bytes(call[t].asked[1], call[t].offset)

\* The result of a read, for one thread.
Result(t) ==
  LET offset == call[t].asked[1]
      size == call[t].asked[2]
  IN  /\ ret[t] = "ok" => out[t] = Bytes(offset, offset + min(size, FileSize - offset))
      /\ ret[t] = "open" => dso(t) \in Missing
      /\ ret[t] = "range" => offset > FileSize
      /\ ret[t] = "closed" => offset > 0

\* How far the call of a thread is.
ReadOK(t) ==
  /\ pc[t] # "return" => ret[t] = "ok"
  /\ pc[t] = "idle" => out[t] = <<>>
  /\ pc[t] \in {"size", "check"} => AtStart(t)
  /\ pc[t] \in {"lock", "open"} /\ call[t].op = "stat" => AtStart(t)
  /\ pc[t] \in {"lock", "open"} /\ call[t].op = "pread" => Copying(t)
  /\ pc[t] \in {"find", "insert"} => Copying(t)
  /\ pc[t] = "return" /\ call[t].op # "fd" => Result(t)

\* How far the calls of all threads are.
ReadInv ==
  /\ out \in [Thread -> Seq(Nat)]
  /\ ret \in [Thread -> {"ok", "open", "range", "closed"}]
  /\ \A t \in Thread : ReadOK(t)

-----------------------------------------------------------------------------
(* Pages.                                                                  *)

\* Two pages of which one covers the beginning of the other begin together.
LEMMA AlignedCovers ==
  ASSUME NEW p, NEW q, p.offset \in Nat, q.offset \in Nat,
         Aligned(p.offset), Aligned(q.offset), Covers(q, p.offset)
  PROVE  p.offset = q.offset
<1>1. PICK j \in Nat : p.offset = j * CacheSize
  BY DEF Aligned
<1>2. PICK k \in Nat : q.offset = k * CacheSize
  BY DEF Aligned
<1>3. CacheSize \in Nat \ {0}
  BY DsoDataAssumption
<1>4. k * CacheSize <= j * CacheSize /\ j * CacheSize < k * CacheSize + CacheSize
  BY <1>1, <1>2 DEF Covers
<1>5. j < k => j * CacheSize < k * CacheSize
  BY <1>3, SMTT(60)
<1>6. k < j => k * CacheSize + CacheSize <= j * CacheSize
  BY <1>3, SMTT(60)
<1>7. j = k
  BY <1>3, <1>4, <1>5, <1>6, SMTT(60)
<1> QED
  BY <1>1, <1>2, <1>7

\* The page of an offset begins at a multiple of CacheSize, not behind it.
LEMMA PageStartAligned ==
  ASSUME NEW offset \in Nat
  PROVE  /\ PageStart(offset) \in Nat /\ PageStart(offset) <= offset
         /\ offset < PageStart(offset) + CacheSize
         /\ Aligned(PageStart(offset))
<1>1. CacheSize \in Nat \ {0}
  BY DsoDataAssumption
<1>2. /\ offset % CacheSize \in 0..CacheSize - 1 /\ offset \div CacheSize \in Nat
      /\ offset = CacheSize * (offset \div CacheSize) + (offset % CacheSize)
  BY <1>1, SMTT(60)
<1>3. offset - (offset % CacheSize) = (offset \div CacheSize) * CacheSize
  BY <1>1, <1>2, SMTT(60)
<1>4. (offset \div CacheSize) * CacheSize \in Nat
  BY <1>1, <1>2, SMTT(60)
<1>5. /\ PageStart(offset) \in Nat /\ PageStart(offset) <= offset
      /\ offset < PageStart(offset) + CacheSize
  BY <1>1, <1>2, <1>3, <1>4, SMTT(60) DEF PageStart
<1>6. Aligned(PageStart(offset))
  BY <1>2, <1>3 DEF PageStart, Aligned
<1> QED
  BY <1>5, <1>6

\* pread returns a sequence of bytes.
LEMMA PreadType ==
  ASSUME NEW first \in Nat, first < FileSize
  PROVE  pread(first) \in Seq(Nat)
<1> DEFINE n == min(CacheSize, FileSize - first)
<1>1. n \in Nat
  BY DsoDataAssumption, SMTT(60) DEF min
<1>2. \A i \in 1..n : first + i - 1 \in Nat
  BY <1>1, SMTT(60)
<1> QED
  BY <1>1, <1>2, SMTT(60) DEF pread

\* The page that dso_cache__read allocates is a page of the file.
LEMMA NewPageGood ==
  ASSUME NEW t \in Thread, call[t] \in ReadCall, PageStart(call[t].offset) < FileSize
  PROVE  GoodPage(NewPage(t)) /\ Covers(NewPage(t), call[t].offset)
<1>1. call[t].offset \in Nat
  BY DEF ReadCall
<1> QED
  BY <1>1, PageStartAligned, PreadType DEF NewPage, GoodPage, Page, Covers

\* What is copied of a page is a sequence of bytes.
LEMMA MemcpyType ==
  ASSUME NEW p \in Page, NEW offset \in Nat, p.offset <= offset, NEW size \in Int
  PROVE  dso_cache__memcpy(p, offset, size) \in Seq(Nat)
<1> DEFINE from == offset - p.offset
           n == min(Len(p.data) - from, size)
<1>1. p.data \in Seq(Nat) /\ Len(p.data) \in Nat /\ from \in Nat
  BY SMTT(60) DEF Page
<1>2. n \in Int /\ from + n <= Len(p.data)
  BY <1>1, SMTT(60) DEF min
<1> HIDE DEF from, n
<1>3. SubSeq(p.data, from + 1, from + n) \in Seq(Nat)
  BY <1>1, <1>2, SMTT(60)
<1> QED
  BY <1>3 DEF dso_cache__memcpy, from, n

\* Bytes of the file, one part behind the other.
LEMMA BytesConcat ==
  ASSUME NEW a \in Nat, NEW b \in Nat, NEW c \in Nat, a <= b, b <= c
  PROVE  /\ Bytes(a, b) \in Seq(Nat) /\ Len(Bytes(a, b)) = b - a
         /\ Bytes(a, b) \o Bytes(b, c) = Bytes(a, c)
<1>1. ASSUME NEW x \in Nat, NEW y \in Nat, x <= y
      PROVE  /\ Bytes(x, y) \in Seq(Nat) /\ Len(Bytes(x, y)) = y - x
             /\ \A i \in 1..(y - x) : Bytes(x, y)[i] = x + i - 1
  <2>1. y - x \in Nat /\ \A i \in 1..(y - x) : x + i - 1 \in Nat
    BY <1>1, SMTT(60)
  <2>2. Bytes(x, y) \in Seq(Nat) /\ DOMAIN Bytes(x, y) = 1..(y - x)
    BY <2>1, SMTT(60) DEF Bytes
  <2> QED
    BY <2>1, <2>2, SMTT(60) DEF Bytes
<1> DEFINE s == Bytes(a, b) \o Bytes(b, c)
<1>2. a <= c
  BY SMTT(60)
<1>3. /\ s \in Seq(Nat) /\ Len(s) = (b - a) + (c - b)
      /\ \A i \in 1..((b - a) + (c - b)) :
           s[i] = IF i <= b - a THEN Bytes(a, b)[i] ELSE Bytes(b, c)[i - (b - a)]
  <2> DEFINE u == Bytes(a, b)
             v == Bytes(b, c)
  <2>1. u \in Seq(Nat) /\ Len(u) = b - a /\ v \in Seq(Nat) /\ Len(v) = c - b
    BY <1>1
  <2> HIDE DEF u, v
  <2>2. /\ u \o v \in Seq(Nat) /\ Len(u \o v) = (b - a) + (c - b)
        /\ \A i \in 1..((b - a) + (c - b)) :
             (u \o v)[i] = IF i <= b - a THEN u[i] ELSE v[i - (b - a)]
    <3>1. /\ u \o v \in Seq(Nat) /\ Len(u \o v) = Len(u) + Len(v)
          /\ \A i \in 1..(Len(u) + Len(v)) :
               (u \o v)[i] = IF i <= Len(u) THEN u[i] ELSE v[i - Len(u)]
      BY <2>1, SeqConcat
    <3> QED
      BY <2>1, <3>1
  <2> QED
    BY <2>2 DEF u, v
<1> HIDE DEF s
<1>4. (b - a) + (c - b) = c - a
  BY SMTT(60)
<1>5. ASSUME NEW i \in 1..(c - a)
      PROVE  s[i] = a + i - 1
  <2>1. CASE i <= b - a
    <3>1. i \in 1..(b - a)
      BY <2>1, SMTT(60)
    <3> QED
      BY <1>1, <1>3, <1>4, <2>1, <3>1
  <2>2. CASE ~(i <= b - a)
    <3>1. i - (b - a) \in 1..(c - b) /\ b + (i - (b - a)) - 1 = a + i - 1
      BY <2>2, SMTT(60)
    <3>2. Bytes(b, c)[i - (b - a)] = b + (i - (b - a)) - 1
      BY <1>1, <3>1
    <3> QED
      BY <1>3, <1>4, <2>2, <3>1, <3>2
  <2> QED
    BY <2>1, <2>2
<1>6. s = [i \in 1..(c - a) |-> s[i]]
  BY <1>3, <1>4, SMTT(60)
<1>7. s = Bytes(a, c)
  BY <1>5, <1>6 DEF Bytes
<1> QED
  BY <1>1, <1>7 DEF s

\* What is copied of a page that covers the offset: bytes of the file from the
\* offset on, none only at the end of the file.
LEMMA MemcpyBytes ==
  ASSUME NEW p, GoodPage(p), NEW offset \in Nat, Covers(p, offset), offset <= FileSize,
         NEW size \in Nat \ {0}
  PROVE  \E n \in 0..size :
           /\ dso_cache__memcpy(p, offset, size) = Bytes(offset, offset + n)
           /\ offset + n <= FileSize
           /\ n = 0 => offset = FileSize
<1> DEFINE from == offset - p.offset
           len == min(CacheSize, FileSize - p.offset)
           n == min(len - from, size)
           s == SubSeq(p.data, from + 1, from + n)
<1>1. /\ p.offset \in Nat /\ p.offset < FileSize /\ p.data = pread(p.offset)
      /\ p.offset <= offset /\ offset < p.offset + CacheSize
      /\ FileSize \in Nat /\ CacheSize \in Nat
  BY DsoDataAssumption DEF GoodPage, Page, Covers
<1>2. len \in Nat /\ from \in Nat /\ from <= len /\ p.offset + len <= FileSize
  BY <1>1, SMTT(60) DEF min
<1>3. n \in 0..size /\ from + n <= len /\ (n = 0 => from = len)
  BY <1>2, SMTT(60) DEF min
<1>4. offset + n <= FileSize /\ (n = 0 => offset = FileSize)
  <2>1. from = len => offset = FileSize
    BY <1>1, SMTT(60) DEF min
  <2>2. from = offset - p.offset
    OBVIOUS
  <2> HIDE DEF from, len, n
  <2> QED
    BY <1>1, <1>2, <1>3, <2>1, <2>2, SMTT(60)
<1>5. /\ p.data \in Seq(Nat) /\ Len(p.data) = len
      /\ \A i \in 1..len : p.data[i] = p.offset + i - 1 /\ p.data[i] \in Nat
  <2>1. p.data = [i \in 1..len |-> p.offset + i - 1]
    BY <1>1 DEF pread
  <2>2. p.data \in Seq(Nat)
    BY <1>1, PreadType
  <2> HIDE DEF len
  <2>3. DOMAIN p.data = 1..len
    BY <2>1
  <2>4. Len(p.data) = len
    BY <1>2, <2>2, <2>3, SMTT(60)
  <2> QED
    BY <1>1, <1>2, <2>1, <2>2, <2>4, SMTT(60)
<1>6. dso_cache__memcpy(p, offset, size) = s
  BY <1>5 DEF dso_cache__memcpy
<1> HIDE DEF from, len, n
<1>7. /\ s \in Seq(Nat) /\ Len(s) = n
      /\ \A i \in 1..n : s[i] = p.data[from + 1 + i - 1]
  <2>1. from + 1 \in Int /\ from + n \in Int /\ \A i \in (from + 1)..(from + n) : p.data[i] \in Nat
    BY <1>2, <1>3, <1>5, SMTT(60)
  <2>2. /\ s \in Seq(Nat)
        /\ Len(s) = IF from + 1 <= from + n THEN (from + n) - (from + 1) + 1 ELSE 0
        /\ \A i \in 1..((from + n) - (from + 1) + 1) : s[i] = p.data[from + 1 + i - 1]
    BY <2>1, SMTT(60)
  <2> HIDE DEF s
  <2>3. (from + n) - (from + 1) + 1 = n
    BY <1>2, <1>3, SMTT(60)
  <2>4. (IF from + 1 <= from + n THEN n ELSE 0) = n
    BY <1>2, <1>3, SMTT(60)
  <2> QED
    BY <2>2, <2>3, <2>4
<1> HIDE DEF s
<1>8. ASSUME NEW i \in 1..n
      PROVE  s[i] = offset + i - 1
  <2>1. from + 1 + i - 1 \in 1..len /\ p.offset + (from + 1 + i - 1) - 1 = offset + i - 1
    BY <1>1, <1>2, <1>3, SMTT(60) DEF from
  <2> QED
    BY <1>5, <1>7, <2>1
<1>9. s = [i \in 1..n |-> s[i]]
  BY <1>7, SMTT(60)
<1>10. (offset + n) - offset = n
  BY <1>3, SMTT(60)
<1>11. s = Bytes(offset, offset + n)
  BY <1>8, <1>9, <1>10 DEF Bytes
<1> QED
  BY <1>3, <1>4, <1>6, <1>11

-----------------------------------------------------------------------------
(* Descriptors.                                                            *)

\* Closing a file for another opens none.
LEMMA CloseFirst ==
  ASSUME NEW files, files.fd \in [Dso -> BOOLEAN], files.cnt \in Int
  PROVE  LET f == close_first_dso(files)
         IN  /\ f.fd \in [Dso -> BOOLEAN] /\ f.cnt \in Int
             /\ \A x \in Dso : f.fd[x] => files.fd[x]
<1> DEFINE h == Head(files.list)
<1>1. CASE files.fd[h]
  <2>1. /\ close_first_dso(files).fd = [files.fd EXCEPT ![h] = FALSE]
        /\ close_first_dso(files).cnt = files.cnt - 1
    BY <1>1 DEF close_first_dso, close_data_fd
  <2>2. \A x \in Dso : [files.fd EXCEPT ![h] = FALSE][x] => files.fd[x]
    OBVIOUS
  <2>3. [files.fd EXCEPT ![h] = FALSE] \in [Dso -> BOOLEAN]
    OBVIOUS
  <2> QED
    BY <2>1, <2>2, <2>3, SMTT(60)
<1>2. CASE ~files.fd[h]
  BY <1>2 DEF close_first_dso, close_data_fd
<1> QED
  BY <1>1, <1>2

\* try_to_open_dso leaves the descriptor open, and may have closed another.
LEMMA OpenResult ==
  ASSUME FdInv, NEW d \in Dso
  PROVE  LET f == TryToOpen(d)
         IN  /\ f.fd \in [Dso -> BOOLEAN] /\ f.cnt \in Int /\ f.fd[d]
             /\ \A x \in Dso : f.fd[x] => fd[x] \/ x = d
<1>1. CASE fd[d]
  BY <1>1 DEF TryToOpen, Files, FdInv
<1>2. CASE ~fd[d]
  <2> DEFINE listed == [Files EXCEPT !.list = Append(@, d), !.cnt = @ + 1]
  <2>1. listed.fd = fd /\ listed.cnt = open_cnt + 1
    BY DEF Files
  <2>2. listed.fd \in [Dso -> BOOLEAN] /\ listed.cnt \in Int
    BY <2>1, SMTT(60) DEF FdInv
  <2> DEFINE c == check_data_close(listed)
  <2> HIDE DEF listed
  <2>3. /\ c.fd \in [Dso -> BOOLEAN] /\ c.cnt \in Int
        /\ \A x \in Dso : c.fd[x] => listed.fd[x]
    BY <2>2, CloseFirst DEF check_data_close
  <2>4. c = listed \/ c = close_first_dso(listed)
    BY DEF check_data_close
  <2> HIDE DEF c
  <2>5. TryToOpen(d) = [c EXCEPT !.fd[d] = TRUE]
    BY <1>2 DEF TryToOpen, open_dso, c, listed
  <2>6. DOMAIN c = {"list", "cnt", "fd", "size"} /\ c = [x \in DOMAIN c |-> c[x]]
    BY <2>4 DEF close_first_dso, close_data_fd, listed, Files
  <2>7. /\ TryToOpen(d).fd = [c.fd EXCEPT ![d] = TRUE]
        /\ TryToOpen(d).cnt = c.cnt
    BY <2>5, <2>6
  <2> QED
    BY <2>1, <2>3, <2>7
<1> QED
  BY <1>1, <1>2

\* Unlinking an entry leaves the others, once each.
LEMMA ListDel ==
  ASSUME NEW list \in Seq(Dso), IsInjective(list), NEW d \in Range(list)
  PROVE  LET l == dso__list_del(list, d)
         IN  /\ l \in Seq(Dso) /\ Len(l) = Len(list) - 1 /\ IsInjective(l)
             /\ Range(l) = Range(list) \ {d}
<1> DEFINE at == CHOOSE i \in DOMAIN list : list[i] = d
           front == SubSeq(list, 1, at - 1)
           back == SubSeq(list, at + 1, Len(list))
           l == front \o back
           n == Len(list)
<1>1. /\ n \in Nat /\ DOMAIN list = 1..n /\ at \in 1..n /\ list[at] = d
      /\ \A i \in 1..n : list[i] \in Dso
  BY SMTT(60) DEF Range
<1>2. \A i, j \in 1..n : list[i] = list[j] => i = j
  BY <1>1 DEF IsInjective
<1> HIDE DEF at, n
<1>3. /\ front \in Seq(Dso) /\ Len(front) = at - 1
      /\ \A i \in 1..(at - 1) : front[i] = list[i]
  BY <1>1, SMTT(60) DEF n
<1>4. /\ back \in Seq(Dso) /\ Len(back) = n - at
      /\ \A i \in 1..(n - at) : back[i] = list[i + at]
  <2> DEFINE m == at + 1
  <2>1. m \in Int /\ n \in Int /\ \A i \in m..n : list[i] \in Dso
    BY <1>1, SMTT(60)
  <2>2. back = SubSeq(list, m, n)
    BY DEF n
  <2> HIDE DEF back, m
  <2>3. /\ back \in Seq(Dso) /\ Len(back) = IF m <= n THEN n - m + 1 ELSE 0
        /\ \A i \in 1..(n - m + 1) : back[i] = list[m + i - 1]
    BY <2>1, <2>2, SMTT(60)
  <2>4. (IF m <= n THEN n - m + 1 ELSE 0) = n - at /\ n - m + 1 = n - at
    BY <1>1, SMTT(60) DEF m
  <2>5. \A i \in 1..(n - at) : m + i - 1 = i + at
    BY <1>1, SMTT(60) DEF m
  <2> QED
    BY <2>3, <2>4, <2>5
<1> HIDE DEF front, back
<1>5. /\ l \in Seq(Dso) /\ Len(l) = n - 1 /\ DOMAIN l = 1..(n - 1)
      /\ \A i \in 1..(n - 1) : l[i] = IF i < at THEN list[i] ELSE list[i + 1]
  <2>1. l \in Seq(Dso) /\ Len(l) = n - 1
    <3>1. l \in Seq(Dso) /\ Len(l) = Len(front) + Len(back)
      BY <1>3, <1>4, SeqConcat
    <3> QED
      BY <1>1, <1>3, <1>4, <3>1, SMTT(60)
  <2>2. ASSUME NEW i \in 1..(n - 1)
        PROVE  l[i] = IF i < at THEN list[i] ELSE list[i + 1]
    <3>1. i \in 1..(Len(front) + Len(back))
      BY <1>1, <1>3, <1>4, SMTT(60)
    <3>2. l[i] = IF i <= Len(front) THEN front[i] ELSE back[i - Len(front)]
      BY <1>3, <1>4, <3>1, SeqConcat
    <3>3. CASE i < at
      BY <1>1, <1>3, <3>2, <3>3, SMTT(60)
    <3>4. CASE ~(i < at)
      <4>1. i - (at - 1) \in 1..(n - at) /\ i - (at - 1) + at = i + 1
        BY <1>1, <3>4, SMTT(60)
      <4> QED
        BY <1>1, <1>3, <1>4, <3>2, <3>4, <4>1, SMTT(60)
    <3> QED
      BY <3>3, <3>4
  <2> QED
    BY <2>1, <2>2, SMTT(60)
<1> HIDE DEF l
<1>6. IsInjective(l)
  BY <1>1, <1>2, <1>5, SMTT(60) DEF IsInjective
<1>7. Range(l) = Range(list) \ {d}
  <2>1. ASSUME NEW x \in Range(l)
        PROVE  x \in Range(list) \ {d}
    <3>1. PICK i \in 1..(n - 1) : x = IF i < at THEN list[i] ELSE list[i + 1]
      BY <1>5, <2>1 DEF Range
    <3> DEFINE j == IF i < at THEN i ELSE i + 1
    <3>2. j \in 1..n /\ j # at /\ x = list[j]
      BY <1>1, <3>1, SMTT(60)
    <3> QED
      BY <1>1, <1>2, <3>2 DEF Range
  <2>2. ASSUME NEW x \in Range(list), x # d
        PROVE  x \in Range(l)
    <3>1. PICK j \in 1..n : x = list[j]
      BY <1>1 DEF Range
    <3> DEFINE i == IF j < at THEN j ELSE j - 1
    <3>2. j # at
      BY <1>1, <2>2, <3>1
    <3>3. i \in 1..(n - 1) /\ l[i] = list[j]
      BY <1>1, <1>5, <3>2, SMTT(60)
    <3> QED
      BY <1>5, <3>1, <3>3 DEF Range
  <2> QED
    BY <2>1, <2>2
<1>8. dso__list_del(list, d) = l
  BY DEF dso__list_del, l, front, back, at
<1> QED
  BY <1>5, <1>6, <1>7, <1>8 DEF n

\* list_add_tail of a dso that is not in the list.
LEMMA ListAdd ==
  ASSUME NEW list \in Seq(Dso), IsInjective(list), NEW d \in Dso, d \notin Range(list)
  PROVE  LET l == Append(list, d)
         IN  /\ l \in Seq(Dso) /\ Len(l) = Len(list) + 1 /\ IsInjective(l)
             /\ Range(l) = Range(list) \cup {d}
             /\ list # <<>> => Head(l) = Head(list) /\ Head(list) \in Range(list)
             /\ list = <<>> => Head(l) = d
<1> DEFINE l == Append(list, d)
           n == Len(list)
<1>1. n \in Nat /\ DOMAIN list = 1..n
  BY SMTT(60)
<1>2. /\ l \in Seq(Dso) /\ Len(l) = n + 1 /\ DOMAIN l = 1..(n + 1)
      /\ \A i \in 1..n : l[i] = list[i]
      /\ l[n + 1] = d
  BY SMTT(60)
<1>3. IsInjective(l)
  <2>1. \A i \in 1..n : list[i] # d
    BY <1>1 DEF Range
  <2> QED
    BY <1>1, <1>2, <2>1, SMTT(60) DEF IsInjective
<1>4. Range(l) = Range(list) \cup {d}
  BY <1>1, <1>2, SMTT(60) DEF Range
<1>5. /\ list # <<>> => Head(l) = Head(list) /\ Head(list) \in Range(list)
      /\ list = <<>> => Head(l) = d
  <2>1. Head(l) = l[1]
    BY <1>1, <1>2, SMTT(60)
  <2>2. CASE list = <<>>
    BY <1>2, <2>1, <2>2, SMTT(60)
  <2>3. CASE list # <<>>
    <3>1. n > 0 /\ 1 \in 1..n /\ Head(list) = list[1]
      BY <1>1, <2>3, SMTT(60)
    <3> QED
      BY <1>1, <1>2, <2>1, <2>3, <3>1 DEF Range
  <2> QED
    BY <2>2, <2>3
<1> QED
  BY <1>2, <1>3, <1>4, <1>5

\* close_data_fd of an open file.
LEMMA CloseOK ==
  ASSUME NEW f, FilesOK(f), NEW d \in Dso, f.fd[d]
  PROVE  FilesOK(close_data_fd(f, d)) /\ close_data_fd(f, d).cnt = f.cnt - 1
<1> DEFINE c == close_data_fd(f, d)
<1>1. /\ c.list = dso__list_del(f.list, d) /\ c.cnt = f.cnt - 1
      /\ c.fd = [f.fd EXCEPT ![d] = FALSE] /\ c.size = [f.size EXCEPT ![d] = 0]
  BY DEF close_data_fd
<1>2. d \in Range(f.list)
  BY DEF FilesOK
<1>3. /\ c.list \in Seq(Dso) /\ Len(c.list) = Len(f.list) - 1 /\ IsInjective(c.list)
      /\ Range(c.list) = Range(f.list) \ {d}
  BY <1>1, <1>2, ListDel, SMTT(60) DEF FilesOK
<1> HIDE DEF c
<1>a. f.fd \in [Dso -> BOOLEAN] /\ f.size \in [Dso -> {0, FileSize}]
  BY DEF FilesOK
<1>4. c.fd \in [Dso -> BOOLEAN] /\ c.size \in [Dso -> {0, FileSize}]
  BY <1>1, <1>a, SMTT(60)
<1>5. \A x \in Dso : c.fd[x] <=> f.fd[x] /\ x # d
  <2>1. ASSUME NEW x \in Dso
        PROVE  c.fd[x] = IF x = d THEN FALSE ELSE f.fd[x]
    BY <1>1, <1>a
  <2> QED
    BY <2>1
<1>6. Range(c.list) = {x \in Dso : c.fd[x]}
  BY <1>3, <1>5 DEF FilesOK
<1> QED
  BY <1>1, <1>3, <1>4, <1>6 DEF FilesOK, c

\* close_first_dso, if there is one.
LEMMA CloseFirstOK ==
  ASSUME NEW f, FilesOK(f), f.list # <<>>
  PROVE  /\ FilesOK(close_first_dso(f)) /\ close_first_dso(f).cnt = f.cnt - 1
<1>1. Head(f.list) \in Range(f.list)
  <2>1. f.list \in Seq(Dso) /\ Len(f.list) \in Nat \ {0}
    BY SMTT(60) DEF FilesOK
  <2>2. 1 \in DOMAIN f.list /\ Head(f.list) = f.list[1]
    BY <2>1, SMTT(60)
  <2> QED
    BY <2>2 DEF Range
<1>2. Head(f.list) \in Dso /\ f.fd[Head(f.list)]
  BY <1>1 DEF FilesOK
<1> QED
  BY <1>2, CloseOK DEF close_first_dso

\* open_dso: the new file takes the place of the oldest one at the limit.
LEMMA OpenOK ==
  ASSUME ListInv, FdInv, NEW d \in Dso, ~fd[d], open_cnt < fds
  PROVE  /\ FilesOK(open_dso(d))
         /\ open_dso(d).cnt <= fds
         /\ open_dso(d).cnt < fd_limit \/ open_dso(d).cnt <= 1
<1> DEFINE l == Append(data_open, d)
           listed == [Files EXCEPT !.list = Append(@, d), !.cnt = @ + 1]
           c == check_data_close(listed)
<1>1. /\ data_open \in Seq(Dso) /\ open_cnt = Len(data_open) /\ IsInjective(data_open)
      /\ fd \in [Dso -> BOOLEAN] /\ file_size \in [Dso -> {0, FileSize}]
      /\ Range(data_open) = {x \in Dso : fd[x]}
  BY DEF ListInv, FilesOK, Files
<1>2. /\ open_cnt \in Nat /\ fds \in Nat /\ fd_limit \in Nat
      /\ open_cnt < fd_limit \/ open_cnt <= 1
  BY <1>1, SMTT(60) DEF ListInv, FdInv
<1>3. /\ l \in Seq(Dso) /\ Len(l) = open_cnt + 1 /\ IsInjective(l)
      /\ Range(l) = Range(data_open) \cup {d}
      /\ data_open # <<>> => Head(l) = Head(data_open) /\ Head(data_open) \in Range(data_open)
      /\ data_open = <<>> => Head(l) = d
  BY <1>1, ListAdd
<1>4. /\ listed.list = l /\ listed.cnt = open_cnt + 1
      /\ listed.fd = fd /\ listed.size = file_size
  BY DEF Files
<1>a. open_dso(d) = [c EXCEPT !.fd[d] = TRUE]
  BY DEF open_dso
<1>b. c = listed \/ c = close_first_dso(listed)
  BY DEF check_data_close
<1>c. DOMAIN c = {"list", "cnt", "fd", "size"} /\ c = [x \in DOMAIN c |-> c[x]]
  BY <1>b DEF close_first_dso, close_data_fd, Files
<1> HIDE DEF l, listed, c
<1>d. /\ open_dso(d).list = c.list /\ open_dso(d).cnt = c.cnt
      /\ open_dso(d).fd = [c.fd EXCEPT ![d] = TRUE] /\ open_dso(d).size = c.size
  BY <1>a, <1>c
<1>5. CASE c = listed /\ (fd_limit > open_cnt + 1 \/ data_open = <<>>)
  <2>1. /\ open_dso(d).list = l /\ open_dso(d).cnt = open_cnt + 1
        /\ open_dso(d).fd = [fd EXCEPT ![d] = TRUE] /\ open_dso(d).size = file_size
    BY <1>4, <1>5, <1>d
  <2>2. [fd EXCEPT ![d] = TRUE] \in [Dso -> BOOLEAN]
    BY <1>1
  <2>3. {x \in Dso : [fd EXCEPT ![d] = TRUE][x]} = {x \in Dso : fd[x]} \cup {d}
    BY <1>1
  <2>4. data_open = <<>> => open_cnt = 0
    BY <1>1
  <2> QED
    BY <1>1, <1>2, <1>3, <1>5, <2>1, <2>2, <2>3, <2>4, SMTT(60) DEF FilesOK
<1>6. CASE c = close_first_dso(listed) /\ data_open # <<>>
  <2> DEFINE h == Head(data_open)
             k == dso__list_del(l, h)
             g == [[fd EXCEPT ![h] = FALSE] EXCEPT ![d] = TRUE]
             z == [file_size EXCEPT ![h] = 0]
  <2>1. h \in Range(data_open) /\ h \in Dso /\ fd[h] /\ h # d /\ Head(l) = h
    BY <1>1, <1>3, <1>6
  <2> HIDE DEF h
  <2>2. /\ c.list = k /\ c.cnt = open_cnt + 1 - 1
        /\ c.fd = [fd EXCEPT ![h] = FALSE] /\ c.size = z
    <3>1. Head(listed.list) = h /\ listed.fd[h]
      BY <1>4, <2>1
    <3>2. c = close_data_fd(listed, h)
      BY <1>6, <3>1 DEF close_first_dso
    <3>3. c = [list |-> dso__list_del(listed.list, h), cnt |-> listed.cnt - 1,
               fd |-> [listed.fd EXCEPT ![h] = FALSE],
               size |-> [listed.size EXCEPT ![h] = 0]]
      BY <3>1, <3>2 DEF close_data_fd
    <3>4. /\ c.list = dso__list_del(listed.list, h) /\ c.cnt = listed.cnt - 1
          /\ c.fd = [listed.fd EXCEPT ![h] = FALSE]
          /\ c.size = [listed.size EXCEPT ![h] = 0]
      BY <3>3
    <3> QED
      BY <1>2, <1>4, <3>4, SMTT(60)
  <2>3. /\ open_dso(d).list = k /\ open_dso(d).cnt = open_cnt + 1 - 1
        /\ open_dso(d).fd = g /\ open_dso(d).size = z
    BY <1>d, <2>2
  <2>4. /\ k \in Seq(Dso) /\ Len(k) = open_cnt + 1 - 1 /\ IsInjective(k)
        /\ Range(k) = (Range(data_open) \cup {d}) \ {h}
    <3>1. h \in Range(l)
      BY <1>3, <2>1
    <3>2. /\ k \in Seq(Dso) /\ Len(k) = Len(l) - 1 /\ IsInjective(k)
          /\ Range(k) = Range(l) \ {h}
      BY <1>3, <3>1, ListDel
    <3> QED
      BY <1>2, <1>3, <3>2, SMTT(60)
  <2>5. g \in [Dso -> BOOLEAN] /\ z \in [Dso -> {0, FileSize}]
    BY <1>1, <2>1
  <2>6. ASSUME NEW x \in Dso
        PROVE  g[x] <=> (fd[x] \/ x = d) /\ x # h
    BY <1>1, <2>1
  <2> HIDE DEF k, g, z
  <2>7. {x \in Dso : g[x]} = ({x \in Dso : fd[x]} \cup {d}) \ {h}
    BY <2>1, <2>6
  <2>8. FilesOK(open_dso(d)) /\ open_dso(d).cnt = open_cnt
    BY <1>1, <1>2, <2>3, <2>4, <2>5, <2>7, SMTT(60) DEF FilesOK
  <2> QED
    BY <1>2, <2>8, SMTT(60)
<1>7. CASE fd_limit > open_cnt + 1
  BY <1>4, <1>5, <1>7 DEF check_data_close, c
<1>8. CASE ~(fd_limit > open_cnt + 1)
  <2>1. c = close_first_dso(listed)
    BY <1>4, <1>8 DEF check_data_close, c
  <2>2. data_open = <<>> => c = listed
    BY <1>3, <1>4, <2>1 DEF close_first_dso, close_data_fd
  <2> QED
    BY <1>5, <1>6, <2>1, <2>2
<1> QED
  BY <1>7, <1>8

\* try_to_open_dso.
LEMMA TryOK ==
  ASSUME ListInv, FdInv, NEW d \in Dso, fd[d] \/ CanOpen(d)
  PROVE  LET f == TryToOpen(d)
         IN  FilesOK(f) /\ f.cnt <= fds /\ (f.cnt < fd_limit \/ f.cnt <= 1)
<1>1. CASE fd[d]
  <2>1. TryToOpen(d) = Files /\ Files.cnt = open_cnt
    BY <1>1 DEF TryToOpen, Files
  <2> QED
    BY <2>1 DEF ListInv
<1>2. CASE ~fd[d]
  <2>1. open_cnt \in Nat /\ fds \in Nat
    BY SMTT(60) DEF ListInv, FilesOK, Files, FdInv
  <2>2. open_cnt < fds
    BY <1>2, <2>1, SMTT(60) DEF CanOpen, Emfile
  <2> QED
    BY <1>2, <2>2, OpenOK DEF TryToOpen
<1> QED
  BY <1>1, <1>2

-----------------------------------------------------------------------------
(* Steps.                                                                  *)

\* Where a thread is and what its call is about change together.
LEMMA CallInvariant ==
  ASSUME CallInv, PageInv, Next
  PROVE  CallInv'
<1> USE DEF CallInv, Goto
<1>1. ASSUME NEW t \in Thread, NEW d \in Dso, dso__data_get_fd(t, d)
      PROVE  CallInv'
  <2>1. [op |-> "fd", dso |-> d] \in FdCall
    BY DEF FdCall
  <2> QED
    BY <1>1, <2>1 DEF dso__data_get_fd, Call
<1>2. ASSUME NEW t \in Thread, NEW d \in Dso, NEW rq \in Request,
             dso__data_read_offset(t, d, rq)
      PROVE  CallInv'
  <2>1. rq[1] \in Nat /\ rq[2] \in Int
    BY DsoDataAssumption, SMTT(60)
  <2>2. [op |-> "stat", dso |-> d, asked |-> rq, offset |-> rq[1], size |-> rq[2]]
          \in ReadCall
    BY <2>1 DEF ReadCall
  <2> QED
    BY <1>2, <2>2 DEF dso__data_read_offset, Call
<1>3. ASSUME NEW t \in Thread,
             \/ Lock(t) \/ DoOpenRetries(t) \/ GetFdRereads(t) \/ dso__data_put_fd(t)
             \/ FileSizeKnown(t) \/ CheckOffset(t)
      PROVE  CallInv'
  BY <1>3 DEF Lock, DoOpenRetries, GetFdRereads, dso__data_put_fd, FileSizeKnown,
              CheckOffset, local_vars
<1>4. ASSUME NEW t \in Thread,
             OpenFails(t) \/ GetFdOpens(t) \/ FileSizeStat(t) \/ ReadPage(t)
      PROVE  CallInv'
  <2>1. call[t].op = "fd" => call[t] \in FdCall
    BY <1>4 DEF OpenFails, GetFdOpens, FileSizeStat, ReadPage, FdCall, ReadCall
  <2>2. call[t].op # "fd" => call[t] \in ReadCall
    BY <1>4 DEF OpenFails, GetFdOpens, FileSizeStat, ReadPage, FdCall, ReadCall
  <2> QED
    BY <1>4, <2>1, <2>2 DEF OpenFails, GetFdOpens, FileSizeStat, ReadPage, local_vars
<1>5. ASSUME NEW t \in Thread, FindMisses(t)
      PROVE  CallInv'
  <2>1. [call[t] EXCEPT !.op = "pread"] \in ReadCall
    BY <1>5 DEF FindMisses, ReadCall
  <2> QED
    BY <1>5, <2>1 DEF FindMisses
<1>6. ASSUME NEW t \in Thread, NEW bytes \in Seq(Nat), call[t] \in ReadCall,
             Advance(t, bytes)
      PROVE  CallInv'
  <2>1. call[t].offset + Len(bytes) \in Nat /\ call[t].size - Len(bytes) \in Int
    BY <1>6, SMTT(60) DEF ReadCall
  <2>2. ASSUME NEW o \in Nat, NEW s \in Int
        PROVE  [call[t] EXCEPT !.offset = o, !.size = s] \in ReadCall
    BY <1>6 DEF ReadCall
  <2>3. [call[t] EXCEPT !.offset = @ + Len(bytes), !.size = call[t].size - Len(bytes)]
          \in ReadCall
    BY <2>1, <2>2
  <2> QED
    BY <1>6, <2>3 DEF Advance
<1>7. ASSUME NEW t \in Thread, dso_cache__find(t)
      PROVE  CallInv'
  <2>1. call[t] \in ReadCall /\ call[t].offset \in Nat /\ call[t].size \in Int
        /\ dso(t) \in Dso
    BY <1>7 DEF dso_cache__find, ReadCall, dso
  <2>2. PICK p \in Found(dso(t), call[t].offset) :
          Advance(t, dso_cache__memcpy(p, call[t].offset, call[t].size))
    BY <1>7 DEF dso_cache__find
  <2>3. p \in Page /\ p.offset <= call[t].offset
    BY <2>1, <2>2 DEF Found, Covers, PageInv
  <2> QED
    BY <1>6, <2>1, <2>2, <2>3, MemcpyType
<1>8. ASSUME NEW t \in Thread, dso_cache__insert(t)
      PROVE  CallInv'
  <2>1. call[t] \in ReadCall /\ call[t].offset \in Nat /\ call[t].size \in Int
        /\ dso(t) \in Dso
    BY <1>8 DEF dso_cache__insert, ReadCall, dso
  <2>2. PICK p \in IF Found(dso(t), page[t].offset) = {}
                   THEN {page[t]} ELSE Found(dso(t), page[t].offset) :
          Advance(t, dso_cache__memcpy(p, call[t].offset, call[t].size))
    BY <1>8 DEF dso_cache__insert
  <2>3. page[t] \in Page /\ page[t].offset <= call[t].offset
    BY <1>8 DEF dso_cache__insert, PageInv, Covers
  <2>4. p \in Page /\ p.offset <= call[t].offset
    BY <2>1, <2>2, <2>3, SMTT(60) DEF Found, Covers, PageInv, Page
  <2> QED
    BY <1>6, <2>1, <2>2, <2>4, MemcpyType
<1>9. ASSUME NEW t \in Thread, Return(t)
      PROVE  CallInv'
  BY <1>9 DEF Return
<1>10. ASSUME NEW d \in Dso, dso__delete(d)
       PROVE  CallInv'
  BY <1>10 DEF dso__delete, local_vars
<1> QED
  BY <1>1, <1>2, <1>3, <1>4, <1>5, <1>7, <1>8, <1>9, <1>10 DEF Next, Step

\* do_open fails only for a file that nobody can open: when no descriptor is
\* left it closes the oldest ones, and with none open there are descriptors.
LEMMA NotOpened ==
  ASSUME FdInv, NEW t \in Thread, OpenFails(t)
  PROVE  dso(t) \in Missing
<1>1. fds \in Nat \ {0} /\ open_cnt \in Int
  BY DEF FdInv
<1>2. ~CanOpen(dso(t)) /\ (dso(t) \in Missing \/ open_cnt = 0)
  BY DEF OpenFails
<1>3. open_cnt = 0 => ~Emfile
  BY <1>1, SMTT(60) DEF Emfile
<1> QED
  BY <1>2, <1>3 DEF CanOpen

\* A descriptor that is used stays open: only the owner of the lock opens and
\* closes descriptors.
LEMMA FdInvariant ==
  ASSUME CallInv, FdInv, Next
  PROVE  FdInv'
<1> USE DEF Goto, dso
<1>0. \A t \in Thread : pc[t] \notin {"idle"} => dso(t) \in Dso
  BY DEF CallInv, FdCall, ReadCall
<1>1. ASSUME NEW t \in Thread, NEW c, NEW l \in {"lock", "size"}, Call(t, c, l)
      PROVE  FdInv'
  BY <1>1 DEF FdInv, CallInv, Call, limits, open_vars
<1>2. ASSUME NEW t \in Thread, Lock(t)
      PROVE  FdInv'
  BY <1>2 DEF FdInv, CallInv, Lock, limits, open_vars, local_vars
<1>3. ASSUME NEW t \in Thread, DoOpenRetries(t)
      PROVE  FdInv'
  <2> DEFINE f == close_first_dso(Files)
  <2>1. Files.fd \in [Dso -> BOOLEAN] /\ Files.cnt \in Int /\ Files.fd = fd
    BY DEF Files, FdInv
  <2>2. /\ f.fd \in [Dso -> BOOLEAN] /\ f.cnt \in Int
        /\ \A x \in Dso : f.fd[x] => fd[x]
    BY <2>1, CloseFirst
  <2> HIDE DEF f
  <2>3. fd' = f.fd /\ open_cnt' = f.cnt /\ UNCHANGED <<fds, open_lock, pc, call>>
    BY <1>3 DEF DoOpenRetries, SetFiles, f, limits, local_vars
  <2>4. \A u \in Thread : pc[u] # "use"
    BY <1>3, SMTT(60) DEF DoOpenRetries, FdInv, CallInv
  <2> QED
    BY <2>2, <2>3, <2>4, DsoDataAssumption DEF FdInv
<1>4. ASSUME NEW t \in Thread, OpenFails(t)
      PROVE  FdInv'
  <2>1. dso(t) \in Missing
    BY <1>4, NotOpened
  <2> QED
    BY <1>4, <2>1, SMTT(60) DEF OpenFails, FdInv, CallInv, limits, open_vars, Unlock
<1>5. ASSUME NEW t \in Thread, pc[t] = "open", fd[dso(t)] \/ CanOpen(dso(t)),
             NEW f, f.fd = TryToOpen(dso(t)).fd, f.cnt = TryToOpen(dso(t)).cnt,
             SetFiles(f), UNCHANGED <<fds, call>>,
             NEW l \in {"use", "check", "return", "insert"}, Goto(t, l),
             l = "use" => open_lock' = open_lock, l # "use" => Unlock(t)
      PROVE  FdInv'
  <2>1. dso(t) \in Dso /\ dso(t) \notin Missing
    BY <1>0, <1>5 DEF CanOpen, FdInv
  <2>2. /\ fd' \in [Dso -> BOOLEAN] /\ open_cnt' \in Int /\ fd'[dso(t)]
        /\ \A x \in Dso : fd'[x] => fd[x] \/ x = dso(t)
    BY <1>5, <2>1, OpenResult DEF SetFiles
  <2>3. \A u \in Thread : pc[u] \in {"open", "use"} => u = t
    BY <1>5 DEF FdInv
  <2>4. open_lock = {t}
    BY <1>5 DEF FdInv
  <2>5. \A u \in Thread : pc'[u] = IF u = t THEN l ELSE pc[u]
    BY <1>5 DEF CallInv
  <2> QED
    BY <1>5, <2>1, <2>2, <2>3, <2>4, <2>5, DsoDataAssumption, SMTT(60) DEF FdInv, Unlock
<1>6. ASSUME NEW t \in Thread, GetFdOpens(t)
      PROVE  FdInv'
  <2>1. /\ pc[t] = "open" /\ (fd[dso(t)] \/ CanOpen(dso(t)))
        /\ SetFiles(TryToOpen(dso(t))) /\ UNCHANGED <<fds, call>>
        /\ Goto(t, "use") /\ open_lock' = open_lock
    BY <1>6 DEF GetFdOpens, limits, local_vars
  <2> DEFINE f == TryToOpen(dso(t))
  <2>2. f.fd = TryToOpen(dso(t)).fd /\ f.cnt = TryToOpen(dso(t)).cnt /\ SetFiles(f)
    BY <2>1
  <2> HIDE DEF f
  <2> QED
    BY <1>5, <2>1, <2>2
<1>7. ASSUME NEW t \in Thread, FileSizeStat(t)
      PROVE  FdInv'
  <2> DEFINE f == [TryToOpen(dso(t)) EXCEPT !.size[dso(t)] = FileSize]
  <2>1. f.fd = TryToOpen(dso(t)).fd /\ f.cnt = TryToOpen(dso(t)).cnt
    BY DEF TryToOpen, Files, open_dso, check_data_close, close_first_dso, close_data_fd
  <2> QED
    BY <1>5, <1>7, <2>1 DEF FileSizeStat, limits, local_vars
<1>8. ASSUME NEW t \in Thread, ReadPage(t)
      PROVE  FdInv'
  BY <1>5, <1>8 DEF ReadPage, limits
<1>9. ASSUME NEW t \in Thread, GetFdRereads(t)
      PROVE  FdInv'
  BY <1>9 DEF GetFdRereads, FdInv, CallInv, limits, open_vars, local_vars
<1>10. ASSUME NEW t \in Thread, dso__data_put_fd(t)
       PROVE  FdInv'
  BY <1>10 DEF dso__data_put_fd, FdInv, CallInv, limits, open_vars, local_vars, Unlock
<1>11. ASSUME NEW t \in Thread, Return(t) \/ FileSizeKnown(t) \/ CheckOffset(t)
       PROVE  FdInv'
  BY <1>11, SMTT(60) DEF Return, FileSizeKnown, CheckOffset, FdInv, CallInv, limits, open_vars
<1>12. ASSUME NEW t \in Thread, dso_cache__find(t) \/ FindMisses(t) \/ dso_cache__insert(t)
       PROVE  FdInv'
  <2>1. PICK l \in {"find", "return", "lock"} : pc' = [pc EXCEPT ![t] = l]
    BY <1>12 DEF dso_cache__find, FindMisses, dso_cache__insert, Advance
  <2>2. \A u \in Thread : u # t => call'[u] = call[u]
    BY <1>12 DEF dso_cache__find, FindMisses, dso_cache__insert, Advance, CallInv
  <2>3. UNCHANGED <<fds, open_cnt, fd, open_lock>>
    BY <1>12 DEF dso_cache__find, FindMisses, dso_cache__insert, limits, open_vars
  <2> QED
    BY <1>12, <2>1, <2>2, <2>3 DEF FdInv, CallInv
<1>13. ASSUME NEW d \in Dso, dso__delete(d)
       PROVE  FdInv'
  <2> DEFINE f == close_data_fd(Files, d)
  <2>1. /\ f.fd \in [Dso -> BOOLEAN] /\ f.cnt \in Int
        /\ \A x \in Dso : f.fd[x] => fd[x]
    BY SMTT(60) DEF close_data_fd, Files, FdInv
  <2> HIDE DEF f
  <2>2. fd' = f.fd /\ open_cnt' = f.cnt /\ UNCHANGED <<fds, open_lock, pc, call>>
    BY <1>13 DEF dso__delete, SetFiles, f, limits, local_vars
  <2>3. \A u \in Thread : pc[u] # "use"
    BY <1>13 DEF dso__delete, FdInv
  <2> QED
    BY <2>1, <2>2, <2>3, DsoDataAssumption DEF FdInv
<1> QED
  BY <1>1, <1>2, <1>3, <1>4, <1>6, <1>7, <1>8, <1>9, <1>10, <1>11, <1>12, <1>13
     DEF Next, Step, dso__data_get_fd, dso__data_read_offset

\* Pages are of the file and do not overlap: the page that a thread read is
\* inserted only if no page covers its beginning.
LEMMA PageInvariant ==
  ASSUME CallInv, PageInv, Next
  PROVE  PageInv'
<1> USE DEF Goto, dso
<1>1. ASSUME UNCHANGED <<cache, page>>,
             \A t \in Thread : pc'[t] = "insert" => pc[t] = "insert" /\ call'[t] = call[t]
      PROVE  PageInv'
  BY <1>1 DEF PageInv, GoodPage, Covers, Aligned, Page
<1>2. ASSUME NEW t \in Thread, NEW l \in {"idle", "size", "lock", "open", "reread",
                                       "use", "check", "find", "return"},
             Goto(t, l), \A u \in Thread : u # t => call'[u] = call[u],
             UNCHANGED <<cache, page>>
      PROVE  PageInv'
  BY <1>1, <1>2 DEF CallInv
<1>3. ASSUME NEW t \in Thread, NEW c, NEW l \in {"lock", "size"}, Call(t, c, l)
      PROVE  PageInv'
  BY <1>2, <1>3 DEF Call, CallInv, cache_vars
<1>4. ASSUME NEW t \in Thread, Lock(t) \/ dso__data_put_fd(t) \/ GetFdRereads(t)
                               \/ FileSizeStat(t) \/ GetFdOpens(t) \/ OpenFails(t)
      PROVE  PageInv'
  BY <1>2, <1>4 DEF Lock, dso__data_put_fd, GetFdRereads, FileSizeStat, GetFdOpens,
                    OpenFails, cache_vars, local_vars
<1>5. ASSUME NEW t \in Thread, FileSizeKnown(t) \/ CheckOffset(t)
      PROVE  PageInv'
  BY <1>2, <1>5 DEF FileSizeKnown, CheckOffset, cache_vars
<1>6. ASSUME NEW t \in Thread, Return(t) \/ dso_cache__find(t) \/ FindMisses(t)
      PROVE  PageInv'
  BY <1>2, <1>6 DEF Return, dso_cache__find, FindMisses, Advance, CallInv, cache_vars
<1>7. ASSUME NEW t \in Thread, DoOpenRetries(t)
      PROVE  PageInv'
  BY <1>1, <1>7 DEF DoOpenRetries, cache_vars, local_vars
<1>8. ASSUME NEW t \in Thread, ReadPage(t)
      PROVE  PageInv'
  <2>1. call[t] \in ReadCall /\ UNCHANGED <<cache, call>>
    BY <1>8 DEF ReadPage, CallInv, FdCall, cache_vars
  <2>2. CASE PageStart(call[t].offset) >= FileSize
    BY <1>2, <1>8, <2>1, <2>2 DEF ReadPage
  <2>3. CASE ~(PageStart(call[t].offset) >= FileSize)
    <3>1. PageStart(call[t].offset) < FileSize
      BY <2>1, <2>3, PageStartAligned, DsoDataAssumption, SMTT(60) DEF ReadCall
    <3>2. GoodPage(NewPage(t)) /\ Covers(NewPage(t), call[t].offset)
      BY <2>1, <3>1, NewPageGood
    <3>3. page' = [page EXCEPT ![t] = NewPage(t)] /\ pc' = [pc EXCEPT ![t] = "insert"]
      BY <1>8, <2>3 DEF ReadPage
    <3> HIDE DEF Goto, dso
    <3>4. \A p : GoodPage(p) => p \in Page
      BY DEF GoodPage
    <3>5. page' \in [Thread -> Page]
      BY <3>2, <3>3, <3>4 DEF PageInv
    <3>6. \A p : GoodPage(p)' <=> GoodPage(p)
      BY DEF GoodPage, Aligned, pread, Page
    <3>7. ASSUME NEW u \in Thread, pc'[u] = "insert"
          PROVE  GoodPage(page'[u]) /\ Covers(page'[u], call'[u].offset)
      BY <2>1, <3>2, <3>3, <3>7 DEF PageInv, CallInv
    <3> QED
      BY <2>1, <3>5, <3>7 DEF PageInv, GoodPage, Aligned, Covers
  <2> QED
    BY <2>2, <2>3
<1>9. ASSUME NEW t \in Thread, dso_cache__insert(t)
      PROVE  PageInv'
  <2>1. call[t] \in ReadCall /\ dso(t) \in Dso
    BY <1>9 DEF dso_cache__insert, CallInv, ReadCall
  <2> DEFINE d == dso(t)
             found == Found(d, page[t].offset)
  <2>2. PICK p \in IF found = {} THEN {page[t]} ELSE found :
          /\ cache' = [cache EXCEPT ![d] = @ \cup {p}]
          /\ pc' \in {[pc EXCEPT ![t] = "return"], [pc EXCEPT ![t] = "find"]}
          /\ \A u \in Thread : u # t => call'[u] = call[u]
    BY <1>9 DEF dso_cache__insert, Advance, CallInv
  <2>3. GoodPage(page[t])
    BY <1>9 DEF dso_cache__insert, PageInv
  <2>4. GoodPage(p) /\ p \in Page
    BY <2>1, <2>2, <2>3 DEF PageInv, Found, GoodPage
  <2>5. page' \in [Thread -> Page] /\ \A u \in Thread : u # t => page'[u] = page[u]
    <3>1. NoPage \in Page
      BY SMTT(60) DEF NoPage, Page
    <3> QED
      BY <1>9, <3>1 DEF dso_cache__insert, PageInv
  <2>6. ASSUME NEW q \in cache[d], Covers(q, p.offset) \/ Covers(p, q.offset)
        PROVE  q = p
    <3>1. CASE found # {}
      BY <2>1, <2>2, <2>6, <3>1 DEF PageInv, Found
    <3>2. CASE found = {}
      <4>1. p = page[t] /\ ~Covers(q, p.offset)
        BY <2>2, <3>2 DEF Found
      <4>2. GoodPage(q)
        BY <2>1 DEF PageInv
      <4>3. p.offset \in Nat /\ q.offset \in Nat
        BY <2>4, <4>2 DEF GoodPage, Page
      <4>4. p.offset = q.offset
        BY <2>4, <2>6, <4>1, <4>2, <4>3, AlignedCovers DEF GoodPage
      <4>5. Covers(q, p.offset)
        BY <4>3, <4>4, DsoDataAssumption, SMTT(60) DEF Covers
      <4> QED
        BY <4>1, <4>5
    <3> QED
      BY <3>1, <3>2
  <2> HIDE DEF d, found
  <2>7. d \in Dso
    BY <2>1 DEF d
  <2>8. \A x \in Dso : cache'[x] = IF x = d THEN cache[d] \cup {p} ELSE cache[x]
    BY <2>2, <2>7 DEF PageInv
  <2>9. cache' \in [Dso -> SUBSET Page]
    BY <2>2, <2>4, <2>7 DEF PageInv
  <2>10. \A x \in Dso : \A q \in cache'[x] : GoodPage(q)
    BY <2>4, <2>7, <2>8 DEF PageInv
  <2>11. \A x \in Dso : \A q, r \in cache'[x] : Covers(r, q.offset) => r = q
    BY <2>6, <2>7, <2>8, SMTT(60) DEF PageInv
  <2>12. ASSUME NEW u \in Thread, pc'[u] = "insert"
         PROVE  GoodPage(page'[u]) /\ Covers(page'[u], call'[u].offset)
    BY <2>2, <2>5, <2>12 DEF PageInv, CallInv
  <2> QED
    BY <2>5, <2>9, <2>10, <2>11, <2>12 DEF PageInv, GoodPage, Aligned, Covers
<1>10. ASSUME NEW d \in Dso, dso__delete(d)
       PROVE  PageInv'
  <2>1. UNCHANGED <<pc, call, page>> /\ cache' = [cache EXCEPT ![d] = {}]
    BY <1>10 DEF dso__delete, local_vars
  <2>2. cache' \in [Dso -> SUBSET Page] /\ \A x \in Dso : cache'[x] \subseteq cache[x]
    BY <2>1 DEF PageInv
  <2> QED
    BY <2>1, <2>2 DEF PageInv, GoodPage, Aligned, Covers
<1> QED
  BY <1>3, <1>4, <1>5, <1>6, <1>7, <1>8, <1>9, <1>10
     DEF Next, Step, dso__data_get_fd, dso__data_read_offset

\* The list, the count and the descriptors change together, within the limits.
LEMMA ListInvariant ==
  ASSUME CallInv, FdInv, ListInv, Next
  PROVE  ListInv'
<1>0. \A t \in Thread : pc[t] \notin {"idle"} => dso(t) \in Dso
  BY DEF CallInv, FdCall, ReadCall, dso
<1>1. ASSUME NEW f, FilesOK(f), f.cnt <= fds, f.cnt < fd_limit \/ f.cnt <= 1,
             SetFiles(f), UNCHANGED limits
      PROVE  ListInv'
  <2>1. /\ data_open' = f.list /\ open_cnt' = f.cnt /\ fd' = f.fd /\ file_size' = f.size
        /\ fd_limit' = fd_limit /\ fds' = fds
    BY <1>1 DEF SetFiles, limits
  <2>2. FilesOK(Files)'
    BY <1>1, <2>1 DEF FilesOK, Files
  <2> QED
    BY <1>1, <2>1, <2>2 DEF ListInv
<1>2. ASSUME UNCHANGED <<limits, open_vars, file_size>>
      PROVE  ListInv'
  BY <1>2 DEF ListInv, FilesOK, Files, limits, open_vars
<1>3. ASSUME NEW t \in Thread, DoOpenRetries(t)
      PROVE  ListInv'
  <2>1. open_cnt > 0 /\ SetFiles(close_first_dso(Files)) /\ UNCHANGED limits
    BY <1>3 DEF DoOpenRetries
  <2>2. /\ open_cnt \in Nat /\ fds \in Nat /\ fd_limit \in Nat
        /\ Files.cnt = open_cnt /\ Files.list = data_open /\ open_cnt = Len(data_open)
    BY SMTT(60) DEF ListInv, FilesOK, Files, FdInv
  <2>3. Files.list # <<>>
    BY <2>1, <2>2, SMTT(60)
  <2>4. FilesOK(close_first_dso(Files)) /\ close_first_dso(Files).cnt = open_cnt - 1
    BY <2>2, <2>3, CloseFirstOK DEF ListInv
  <2>5. open_cnt - 1 <= fds /\ (open_cnt - 1 < fd_limit \/ open_cnt - 1 <= 1)
    BY <2>2, SMTT(60) DEF ListInv
  <2> QED
    BY <1>1, <2>1, <2>4, <2>5
<1>4. ASSUME NEW t \in Thread, GetFdOpens(t) \/ ReadPage(t)
      PROVE  ListInv'
  <2>1. /\ dso(t) \in Dso /\ (fd[dso(t)] \/ CanOpen(dso(t)))
        /\ SetFiles(TryToOpen(dso(t))) /\ UNCHANGED limits
    BY <1>0, <1>4 DEF GetFdOpens, ReadPage
  <2> QED
    BY <1>1, <2>1, TryOK
<1>5. ASSUME NEW t \in Thread, FileSizeStat(t)
      PROVE  ListInv'
  <2> DEFINE d == dso(t)
             g == TryToOpen(d)
             f == [g EXCEPT !.size[d] = FileSize]
  <2>1. /\ d \in Dso /\ (fd[d] \/ CanOpen(d)) /\ SetFiles(f) /\ UNCHANGED limits
    BY <1>0, <1>5 DEF FileSizeStat
  <2>2. DOMAIN g = {"list", "cnt", "fd", "size"} /\ g = [x \in DOMAIN g |-> g[x]]
    <3> DEFINE Shape(h) == /\ DOMAIN h = {"list", "cnt", "fd", "size"}
                           /\ h = [x \in DOMAIN h |-> h[x]]
               listed == [Files EXCEPT !.list = Append(@, d), !.cnt = @ + 1]
               closed == check_data_close(listed)
    <3>1. Shape(Files) /\ Shape(listed)
      BY DEF Files
    <3>2. ASSUME NEW h, Shape(h), NEW e PROVE Shape(close_data_fd(h, e))
      BY <3>2 DEF close_data_fd
    <3>3. ASSUME NEW h, Shape(h) PROVE Shape(check_data_close(h))
      <4> HIDE DEF Shape
      <4> QED
        BY <3>2, <3>3 DEF check_data_close, close_first_dso
    <3>4. Shape(closed)
      <4> HIDE DEF Shape, listed
      <4> QED
        BY <3>1, <3>3
    <3>5. ASSUME NEW h, Shape(h) PROVE Shape([h EXCEPT !.fd[d] = TRUE])
      BY <3>5
    <3>6. Shape([closed EXCEPT !.fd[d] = TRUE])
      <4> HIDE DEF Shape, closed
      <4> QED
        BY <3>4, <3>5
    <3>7. g = Files \/ g = [closed EXCEPT !.fd[d] = TRUE]
      BY DEF TryToOpen, open_dso
    <3>8. Shape(g)
      <4> HIDE DEF Shape, closed, g
      <4> QED
        BY <3>1, <3>6, <3>7
    <3> QED
      BY <3>8
  <2> HIDE DEF d, g
  <2>3. /\ f.list = g.list /\ f.cnt = g.cnt /\ f.fd = g.fd
        /\ f.size = [g.size EXCEPT ![d] = FileSize]
    BY <2>2
  <2>4. FilesOK(g) /\ g.cnt <= fds /\ (g.cnt < fd_limit \/ g.cnt <= 1)
    BY <2>1, TryOK DEF g
  <2> HIDE DEF f
  <2>5. f.size \in [Dso -> {0, FileSize}]
    BY <2>3, <2>4 DEF FilesOK
  <2>6. FilesOK(f)
    BY <2>3, <2>4, <2>5 DEF FilesOK
  <2> QED
    BY <1>1, <2>1, <2>3, <2>4, <2>6
<1>6. ASSUME NEW d \in Dso, dso__delete(d)
      PROVE  ListInv'
  <2>1. SetFiles(close_data_fd(Files, d)) /\ UNCHANGED limits
    BY <1>6 DEF dso__delete
  <2>2. /\ open_cnt \in Nat /\ fds \in Nat /\ fd_limit \in Nat
        /\ Files.cnt = open_cnt /\ FilesOK(Files)
        /\ open_cnt <= fds /\ (open_cnt < fd_limit \/ open_cnt <= 1)
    BY SMTT(60) DEF ListInv, FilesOK, Files, FdInv
  <2>3. CASE Files.fd[d]
    <3>1. FilesOK(close_data_fd(Files, d)) /\ close_data_fd(Files, d).cnt = open_cnt - 1
      BY <2>2, <2>3, CloseOK
    <3>2. open_cnt - 1 <= fds /\ (open_cnt - 1 < fd_limit \/ open_cnt - 1 <= 1)
      BY <2>2, SMTT(60)
    <3> QED
      BY <1>1, <2>1, <3>1, <3>2
  <2>4. CASE ~Files.fd[d]
    <3>1. close_data_fd(Files, d) = Files
      BY <2>4 DEF close_data_fd
    <3> QED
      BY <1>1, <2>1, <2>2, <3>1
  <2> QED
    BY <2>3, <2>4
<1>7. ASSUME NEW t \in Thread,
             \/ Lock(t) \/ OpenFails(t) \/ GetFdRereads(t) \/ dso__data_put_fd(t)
             \/ Return(t) \/ FileSizeKnown(t) \/ CheckOffset(t)
             \/ dso_cache__find(t) \/ FindMisses(t) \/ dso_cache__insert(t)
      PROVE  ListInv'
  BY <1>2, <1>7 DEF Lock, OpenFails, GetFdRereads, dso__data_put_fd, Return,
     FileSizeKnown, CheckOffset, dso_cache__find, FindMisses, dso_cache__insert
<1>8. ASSUME NEW t \in Thread, NEW c, NEW l, Call(t, c, l)
      PROVE  ListInv'
  BY <1>2, <1>8 DEF Call
<1> QED
  BY <1>3, <1>4, <1>5, <1>6, <1>7, <1>8
     DEF Next, Step, dso__data_get_fd, dso__data_read_offset

\* A dso is in the error state only if its file cannot be opened: there is room
\* for one descriptor, so the retries of do_open end with it.
LEMMA ErrorInvariant ==
  ASSUME CallInv, FdInv, ErrorInv, Next
  PROVE  ErrorInv'
<1>0. \A t \in Thread : pc[t] \notin {"idle"} => dso(t) \in Dso
  BY DEF CallInv, FdCall, ReadCall, dso
<1>1. ASSUME NEW t \in Thread, OpenFails(t)
      PROVE  ErrorInv'
  <2>1. dso(t) \in Missing /\ dso(t) \in Dso /\ error' = [error EXCEPT ![dso(t)] = TRUE]
    BY <1>0, <1>1, SMTT(60) DEF OpenFails, CanOpen, Emfile, FdInv
  <2> QED
    BY <2>1 DEF ErrorInv
<1>2. ASSUME NEW d \in Dso, error' = [error EXCEPT ![d] = FALSE]
      PROVE  ErrorInv'
  BY <1>2 DEF ErrorInv
<1>3. ASSUME UNCHANGED error
      PROVE  ErrorInv'
  BY <1>3 DEF ErrorInv
<1>4. ASSUME NEW t \in Thread, GetFdOpens(t) \/ FileSizeStat(t) \/ ReadPage(t)
      PROVE  ErrorInv'
  BY <1>0, <1>2, <1>3, <1>4 DEF GetFdOpens, FileSizeStat, ReadPage
<1>5. ASSUME NEW d \in Dso, dso__delete(d)
      PROVE  ErrorInv'
  BY <1>2, <1>5 DEF dso__delete
<1>6. ASSUME NEW t \in Thread,
             \/ Lock(t) \/ DoOpenRetries(t) \/ GetFdRereads(t) \/ dso__data_put_fd(t)
             \/ Return(t) \/ FileSizeKnown(t) \/ CheckOffset(t)
             \/ dso_cache__find(t) \/ FindMisses(t) \/ dso_cache__insert(t)
      PROVE  ErrorInv'
  BY <1>3, <1>6 DEF Lock, DoOpenRetries, GetFdRereads, dso__data_put_fd, Return,
     FileSizeKnown, CheckOffset, dso_cache__find, FindMisses, dso_cache__insert
<1>7. ASSUME NEW t \in Thread, NEW c, NEW l, Call(t, c, l)
      PROVE  ErrorInv'
  BY <1>3, <1>7 DEF Call
<1> QED
  BY <1>1, <1>4, <1>5, <1>6, <1>7
     DEF Next, Step, dso__data_get_fd, dso__data_read_offset

\* A step of one thread leaves the reads of the others alone.
LEMMA ReadFrame ==
  ASSUME ReadInv, NEW t \in Thread, ReadOK(t)', out' \in [Thread -> Seq(Nat)],
         ret' \in [Thread -> {"ok", "open", "range", "closed"}],
         \A u \in Thread : u # t => /\ pc'[u] = pc[u] /\ call'[u] = call[u]
                                    /\ out'[u] = out[u] /\ ret'[u] = ret[u]
  PROVE  ReadInv'
<1>1. ASSUME NEW u \in Thread, u # t
      PROVE  ReadOK(u)'
  <2>1. pc'[u] = pc[u] /\ call'[u] = call[u] /\ out'[u] = out[u] /\ ret'[u] = ret[u]
    BY <1>1
  <2>2. AtStart(u) => AtStart(u)'
    BY <2>1 DEF AtStart
  <2>3. Copying(u) => Copying(u)'
    BY <2>1 DEF Copying, Bytes
  <2>4. Result(u) => Result(u)'
    BY <2>1 DEF Result, Bytes, dso
  <2> QED
    BY <2>1, <2>2, <2>3, <2>4 DEF ReadInv, ReadOK
<1> QED
  BY <1>1 DEF ReadInv

\* cached_read goes on, or is done: all it was asked for is copied, or the file
\* ends.
LEMMA AdvanceReads ==
  ASSUME CallInv, ReadInv, NEW t \in Thread, call[t] \in ReadCall, Copying(t),
         pc[t] # "return", ret' = ret,
         NEW o, o = call[t].offset, NEW z, z = call[t].size, NEW n \in 0..z,
         o + n <= FileSize, n = 0 => o = FileSize, Advance(t, Bytes(o, o + n))
  PROVE  ReadInv'
<1> DEFINE a == call[t].asked[1]
           k == call[t].asked[2]
           bytes == Bytes(o, o + n)
<1>1. /\ o \in Nat /\ z \in Nat /\ z > 0 /\ a \in Nat /\ k \in Nat /\ a <= o /\ o <= FileSize
      /\ o + z = a + k /\ out[t] = Bytes(a, o) /\ FileSize \in Nat
      /\ n \in 0..z /\ o + n <= FileSize /\ (n = 0 => o = FileSize)
  BY DsoDataAssumption, SMTT(60) DEF Copying, ReadCall
<1>2. bytes \in Seq(Nat) /\ Len(bytes) = n /\ out[t] \o bytes = Bytes(a, o + n)
  <2>1. o + n \in Nat /\ o <= o + n
    BY <1>1, SMTT(60)
  <2>2. bytes \in Seq(Nat) /\ Len(bytes) = (o + n) - o
    BY <1>1, <2>1, BytesConcat
  <2>3. Bytes(a, o) \o bytes = Bytes(a, o + n)
    <3> DEFINE e == o + n
    <3>1. a \in Nat /\ o \in Nat /\ e \in Nat /\ a <= o /\ o <= e
      BY <1>1, <2>1
    <3> HIDE DEF a, e
    <3>2. Bytes(a, o) \o Bytes(o, e) = Bytes(a, e)
      BY <3>1, BytesConcat
    <3> QED
      BY <3>2 DEF a, e
  <2> HIDE DEF bytes
  <2> QED
    BY <1>1, <2>2, <2>3, SMTT(60)
<1> HIDE DEF bytes
<1>3. /\ out' = [out EXCEPT ![t] = @ \o bytes]
      /\ call' = [call EXCEPT ![t].offset = @ + Len(bytes), ![t].size = z - Len(bytes)]
      /\ pc' = [pc EXCEPT ![t] = IF bytes = <<>> \/ z - Len(bytes) = 0
                                 THEN "return" ELSE "find"]
  BY DEF Advance, Goto, bytes
<1>4. /\ call'[t].offset = o + n /\ call'[t].size = z - n
      /\ call'[t].asked = call[t].asked
      /\ \A u \in Thread : u # t => call'[u] = call[u]
  <2>1. call'[t] = [call[t] EXCEPT !.offset = @ + Len(bytes), !.size = z - Len(bytes)]
    BY <1>3 DEF CallInv
  <2>2. /\ call'[t].offset = o + Len(bytes) /\ call'[t].size = z - Len(bytes)
        /\ call'[t].asked = call[t].asked
    BY <2>1 DEF ReadCall
  <2> QED
    BY <1>2, <1>3, <2>2 DEF CallInv
<1>5. /\ out' \in [Thread -> Seq(Nat)] /\ out'[t] = Bytes(a, o + n)
      /\ \A u \in Thread : u # t => out'[u] = out[u]
  <2>1. out[t] \in Seq(Nat) /\ out[t] \o bytes \in Seq(Nat)
    BY <1>2, SeqConcat DEF ReadInv
  <2> QED
    BY <1>2, <1>3, <2>1 DEF ReadInv
<1>6. ret'[t] = "ok" /\ ret' \in [Thread -> {"ok", "open", "range", "closed"}]
  BY DEF ReadInv, ReadOK
<1>7. \A u \in Thread : u # t => pc'[u] = pc[u]
  BY <1>3 DEF CallInv
<1>8. CASE bytes = <<>> \/ z - n = 0
  <2>1. pc'[t] = "return"
    BY <1>2, <1>3, <1>8 DEF CallInv
  <2>2. bytes = <<>> => n = 0
    BY <1>2
  <2>3. o + n = a + min(k, FileSize - a)
    <3>1. CASE z - n = 0
      BY <1>1, <3>1, SMTT(60) DEF min
    <3>2. CASE n = 0
      BY <1>1, <3>2, SMTT(60) DEF min
    <3> QED
      BY <1>8, <2>2, <3>1, <3>2
  <2>4. out'[t] = Bytes(a, a + min(k, FileSize - a))
    BY <1>5, <2>3
  <2>5. Result(t)'
    BY <1>4, <1>6, <2>4 DEF Result, Bytes, min
  <2>6. ReadOK(t)'
    BY <1>6, <2>1, <2>5 DEF ReadOK
  <2> QED
    BY <1>4, <1>5, <1>6, <1>7, <2>6, ReadFrame
<1>9. CASE ~(bytes = <<>> \/ z - n = 0)
  <2>1. pc'[t] = "find"
    BY <1>2, <1>3, <1>9 DEF CallInv
  <2>2. a <= o + n /\ o + n <= FileSize /\ z - n > 0 /\ o + n + (z - n) = a + k
    <3>1. z - n # 0
      BY <1>9
    <3> HIDE DEF a, k
    <3> QED
      BY <1>1, <3>1, SMTT(60)
  <2>3. Copying(t)'
    BY <1>4, <1>5, <2>2 DEF Copying, Bytes
  <2>4. ReadOK(t)'
    BY <1>6, <2>1, <2>3 DEF ReadOK
  <2> QED
    BY <1>4, <1>5, <1>6, <1>7, <2>4, ReadFrame
<1> QED
  BY <1>8, <1>9

\* Reads are as far as before when nothing of theirs changed.
LEMMA ReadStutter == ReadInv /\ UNCHANGED <<pc, call, out, ret>> => ReadInv'
<1> SUFFICES ASSUME ReadInv, UNCHANGED <<pc, call, out, ret>>
             PROVE  ReadInv'
  OBVIOUS
<1>1. \A t \in Thread : AtStart(t)' <=> AtStart(t)
  BY DEF AtStart
<1>2. \A t \in Thread : Copying(t)' <=> Copying(t)
  BY DEF Copying, Bytes
<1>3. \A t \in Thread : Result(t)' <=> Result(t)
  BY DEF Result, Bytes, dso
<1>4. \A t \in Thread : ReadOK(t)' <=> ReadOK(t)
  BY <1>1, <1>2, <1>3, SMTT(60) DEF ReadOK
<1> QED
  BY <1>4 DEF ReadInv

\* Every step keeps the reads correct.
LEMMA ReadInvariant ==
  ASSUME CallInv, FdInv, PageInv, ListInv, ErrorInv, ReadInv, Next
  PROVE  ReadInv'
<1>0. FileSize \in Nat \ {0} /\ file_size \in [Dso -> {0, FileSize}]
  BY DsoDataAssumption DEF ListInv, FilesOK, Files
<1>1. ASSUME NEW t \in Thread, NEW l, Goto(t, l), ReadOK(t)',
             NEW c, call' = [call EXCEPT ![t] = c], UNCHANGED <<out, ret>>
      PROVE  ReadInv'
  <2>1. \A u \in Thread : u # t => pc'[u] = pc[u] /\ call'[u] = call[u]
    BY <1>1 DEF Goto, CallInv
  <2>2. /\ out' \in [Thread -> Seq(Nat)]
        /\ ret' \in [Thread -> {"ok", "open", "range", "closed"}]
        /\ \A u \in Thread : out'[u] = out[u] /\ ret'[u] = ret[u]
    BY <1>1 DEF ReadInv
  <2> QED
    BY <1>1, <2>1, <2>2, ReadFrame
<1>2. ASSUME NEW t \in Thread, NEW l, Goto(t, l), ReadOK(t)', UNCHANGED <<call, out>>,
             NEW r \in {"ok", "open", "range", "closed"},
             ret' = [ret EXCEPT ![t] = r] \/ ret' = ret
      PROVE  ReadInv'
  <2>1. \A u \in Thread : u # t => pc'[u] = pc[u]
    BY <1>2 DEF Goto, CallInv
  <2>2. /\ out' \in [Thread -> Seq(Nat)]
        /\ ret' \in [Thread -> {"ok", "open", "range", "closed"}]
        /\ \A u \in Thread : out'[u] = out[u] /\ (u # t => ret'[u] = ret[u])
    BY <1>2 DEF ReadInv
  <2> QED
    BY <1>2, <2>1, <2>2, ReadFrame
<1>3. ASSUME NEW t \in Thread, NEW d \in Dso, dso__data_get_fd(t, d)
      PROVE  ReadInv'
  <2> DEFINE c == [op |-> "fd", dso |-> d]
  <2>1. /\ pc[t] = "idle" /\ Goto(t, "lock") /\ call' = [call EXCEPT ![t] = c]
        /\ UNCHANGED <<out, ret>>
    BY <1>3 DEF dso__data_get_fd, Call
  <2>2. pc'[t] = "lock" /\ call'[t].op = "fd" /\ ret'[t] = "ok"
    BY <2>1 DEF Goto, CallInv, ReadInv, ReadOK
  <2>3. ReadOK(t)'
    BY <2>2 DEF ReadOK
  <2> QED
    BY <1>1, <2>1, <2>3
<1>4. ASSUME NEW t \in Thread, NEW d \in Dso, NEW rq \in Request,
             dso__data_read_offset(t, d, rq)
      PROVE  ReadInv'
  <2> DEFINE c == [op |-> "stat", dso |-> d, asked |-> rq, offset |-> rq[1],
                   size |-> rq[2]]
  <2>1. /\ pc[t] = "idle" /\ Goto(t, "size") /\ call' = [call EXCEPT ![t] = c]
        /\ UNCHANGED <<out, ret>>
    BY <1>4 DEF dso__data_read_offset, Call
  <2>2. /\ pc'[t] = "size" /\ call'[t] = c /\ ret'[t] = "ok" /\ out'[t] = <<>>
    BY <2>1 DEF Goto, CallInv, ReadInv, ReadOK
  <2>3. AtStart(t)'
    BY <2>2, SMTT(60) DEF AtStart
  <2>4. ReadOK(t)'
    BY <2>2, <2>3 DEF ReadOK
  <2> QED
    BY <1>1, <2>1, <2>4
<1>5. ASSUME NEW t \in Thread,
             Lock(t) \/ GetFdOpens(t) \/ GetFdRereads(t) \/ dso__data_put_fd(t)
      PROVE  ReadInv'
  <2>1. PICK l \in {"open", "use", "return"} :
          /\ Goto(t, l) /\ UNCHANGED <<call, out, ret>> /\ pc[t] # "return"
          /\ l = "open" => pc[t] = "lock"
          /\ l # "open" => call[t].op = "fd"
    BY <1>5 DEF Lock, GetFdOpens, GetFdRereads, dso__data_put_fd, local_vars, CallInv,
                FdCall
  <2>2. /\ pc'[t] = l /\ call'[t] = call[t] /\ out'[t] = out[t] /\ ret'[t] = "ok"
    BY <2>1 DEF Goto, CallInv, ReadInv, ReadOK
  <2>3. ReadOK(t)'
    BY <2>1, <2>2 DEF ReadInv, ReadOK, AtStart, Copying, Bytes
  <2> QED
    BY <1>2, <2>1, <2>3
<1>6. ASSUME NEW t \in Thread, OpenFails(t)
      PROVE  ReadInv'
  <2>1. dso(t) \in Missing
    BY <1>6, NotOpened
  <2>2. CASE call[t].op = "fd"
    <3>1. /\ Goto(t, "reread") /\ UNCHANGED <<call, out, ret>> /\ pc[t] = "open"
      BY <1>6, <2>2 DEF OpenFails
    <3>2. pc'[t] = "reread" /\ ret'[t] = "ok"
      BY <3>1 DEF Goto, CallInv, ReadInv, ReadOK
    <3>3. ReadOK(t)'
      BY <3>2 DEF ReadOK
    <3> QED
      BY <1>2, <3>1, <3>3
  <2>3. CASE call[t].op # "fd"
    <3>1. /\ Goto(t, "return") /\ UNCHANGED <<call, out>>
          /\ ret' = [ret EXCEPT ![t] = "open"]
      BY <1>6, <2>3 DEF OpenFails
    <3>2. pc'[t] = "return" /\ ret'[t] = "open" /\ call'[t] = call[t]
      BY <3>1 DEF Goto, CallInv, ReadInv
    <3>3. Result(t)'
      BY <2>1, <3>2 DEF Result, dso
    <3>4. ReadOK(t)'
      BY <3>2, <3>3 DEF ReadOK
    <3> QED
      BY <1>2, <3>1, <3>4
  <2> QED
    BY <2>2, <2>3
<1>7. ASSUME NEW t \in Thread, Return(t)
      PROVE  ReadInv'
  <2>1. /\ pc' = [pc EXCEPT ![t] = "idle"] /\ call' = [call EXCEPT ![t] = NoCall]
        /\ out' = [out EXCEPT ![t] = <<>>] /\ ret' = [ret EXCEPT ![t] = "ok"]
    BY <1>7 DEF Return, Goto
  <2>2. pc'[t] = "idle" /\ out'[t] = <<>> /\ ret'[t] = "ok"
    BY <2>1 DEF CallInv, ReadInv
  <2>3. ReadOK(t)'
    BY <2>2 DEF ReadOK
  <2>4. <<>> \in Seq(Nat)
    BY SMTT(60)
  <2>5. /\ out' \in [Thread -> Seq(Nat)]
        /\ ret' \in [Thread -> {"ok", "open", "range", "closed"}]
        /\ \A u \in Thread : u # t => /\ pc'[u] = pc[u] /\ call'[u] = call[u]
                                     /\ out'[u] = out[u] /\ ret'[u] = ret[u]
    BY <2>1, <2>4 DEF CallInv, ReadInv
  <2> QED
    BY <2>3, <2>5, ReadFrame
<1>8. ASSUME NEW t \in Thread, FileSizeKnown(t)
      PROVE  ReadInv'
  <2>1. pc[t] = "size" /\ UNCHANGED <<call, out>> /\ AtStart(t) /\ dso(t) \in Dso
    BY <1>8 DEF FileSizeKnown, ReadInv, ReadOK, CallInv, ReadCall, dso
  <2>2. AtStart(t)'
    BY <2>1 DEF AtStart
  <2>3. ret[t] = "ok"
    BY <2>1 DEF ReadInv, ReadOK
  <2>4. ASSUME NEW l \in {"check", "lock"}, Goto(t, l), UNCHANGED ret
        PROVE  ReadInv'
    <3>1. pc'[t] = l /\ ret'[t] = "ok"
      BY <2>3, <2>4 DEF Goto, CallInv
    <3>2. call'[t].op = "stat"
      BY <2>2 DEF AtStart
    <3>3. ReadOK(t)'
      BY <2>2, <3>1, <3>2 DEF ReadOK
    <3> QED
      BY <1>2, <2>1, <2>4, <3>3
  <2>5. ASSUME error[dso(t)], Goto(t, "return"), ret' = [ret EXCEPT ![t] = "open"]
        PROVE  ReadInv'
    <3>1. pc'[t] = "return" /\ ret'[t] = "open" /\ call'[t] = call[t]
      BY <2>1, <2>5 DEF Goto, CallInv, ReadInv
    <3>2. dso(t) \in Missing
      BY <2>1, <2>5 DEF ErrorInv
    <3>3. Result(t)'
      BY <3>1, <3>2 DEF Result, dso
    <3>4. ReadOK(t)'
      BY <3>1, <3>3 DEF ReadOK
    <3> QED
      BY <1>2, <2>1, <2>5, <3>4
  <2> QED
    BY <1>8, <2>4, <2>5 DEF FileSizeKnown
<1>9. ASSUME NEW t \in Thread, FileSizeStat(t)
      PROVE  ReadInv'
  <2>1. /\ pc[t] = "open" /\ call[t].op = "stat" /\ Goto(t, "check")
        /\ UNCHANGED <<call, out, ret>>
    BY <1>9 DEF FileSizeStat, local_vars
  <2>2. AtStart(t) /\ ret[t] = "ok"
    BY <2>1 DEF ReadInv, ReadOK
  <2>3. AtStart(t)' /\ pc'[t] = "check" /\ ret'[t] = "ok"
    BY <2>1, <2>2 DEF AtStart, Goto, CallInv
  <2>4. ReadOK(t)'
    BY <2>3 DEF ReadOK
  <2> QED
    BY <1>2, <2>1, <2>4
<1>10. ASSUME NEW t \in Thread, CheckOffset(t)
       PROVE  ReadInv'
  <2> DEFINE o == call[t].asked[1]
             k == call[t].asked[2]
             f == file_size[dso(t)]
  <2>1. /\ pc[t] = "check" /\ UNCHANGED <<call, out>> /\ AtStart(t) /\ dso(t) \in Dso
        /\ call[t] \in ReadCall
    BY <1>10 DEF CheckOffset, ReadInv, ReadOK, CallInv, ReadCall, dso
  <2>2. o \in Nat /\ k \in Nat \ {0} /\ f \in {0, FileSize} /\ f \in Nat
    BY <1>0, <2>1, DsoDataAssumption, SMTT(60) DEF ReadCall
  <2>3. call[t].offset = o /\ call[t].size = k /\ out[t] = <<>> /\ ret[t] = "ok"
    BY <2>1 DEF AtStart, ReadInv, ReadOK
  <2> HIDE DEF o, k, f
  <2>4. CASE o > f
    <3> DEFINE r == IF f = 0 THEN "closed" ELSE "range"
    <3>1. Goto(t, "return") /\ ret' = [ret EXCEPT ![t] = r]
      BY <1>10, <2>3, <2>4 DEF CheckOffset, f
    <3>2. pc'[t] = "return" /\ ret'[t] = r /\ call'[t] = call[t]
      BY <2>1, <3>1 DEF Goto, CallInv, ReadInv
    <3>3. r = "closed" => o > 0
      BY <2>2, <2>4
    <3>4. r = "range" => o > FileSize
      BY <2>2, <2>4
    <3>5. Result(t)'
      BY <3>2, <3>3, <3>4 DEF Result, o
    <3>6. ReadOK(t)'
      BY <3>2, <3>5 DEF ReadOK
    <3> QED
      BY <1>2, <2>1, <3>1, <3>6
  <2>5. CASE ~(o > f)
    <3>1. Goto(t, "find") /\ ret' = ret
      BY <1>10, <2>3, <2>5 DEF CheckOffset, f
    <3>2. o <= FileSize
      BY <1>0, <2>2, <2>5, SMTT(60)
    <3>3. Bytes(o, o) = <<>>
      <4>1. Bytes(o, o) \in Seq(Nat) /\ Len(Bytes(o, o)) = o - o
        <5>1. o \in Nat /\ o <= o
          BY <2>2, SMTT(60)
        <5> QED
          BY <5>1, BytesConcat
      <4>2. o - o = 0
        BY <2>2, SMTT(60)
      <4> QED
        BY <4>1, <4>2, SMTT(60)
    <3>4. pc'[t] = "find" /\ ret'[t] = "ok" /\ call'[t] = call[t] /\ out'[t] = <<>>
      BY <2>1, <2>3, <3>1 DEF Goto, CallInv
    <3>5. o <= o /\ k > 0 /\ o + k = o + k
      BY <2>2, SMTT(60)
    <3>6. Copying(t)'
      <4>1. Copying(t)
        BY <2>3, <3>2, <3>3, <3>5 DEF Copying, o, k
      <4> QED
        BY <2>3, <3>4, <4>1 DEF Copying, Bytes
    <3>7. ReadOK(t)'
      BY <3>4, <3>6 DEF ReadOK
    <3> QED
      BY <1>2, <2>1, <3>1, <3>7
  <2> QED
    BY <2>4, <2>5
<1>11. ASSUME NEW t \in Thread, FindMisses(t)
       PROVE  ReadInv'
  <2>1. /\ pc[t] = "find" /\ Goto(t, "lock") /\ UNCHANGED <<out, ret>>
        /\ call' = [call EXCEPT ![t] = [call[t] EXCEPT !.op = "pread"]]
    BY <1>11 DEF FindMisses
  <2>2. Copying(t) /\ call[t] \in ReadCall /\ ret[t] = "ok"
    BY <2>1 DEF ReadInv, ReadOK, CallInv
  <2>3. call'[t] = [call[t] EXCEPT !.op = "pread"]
    BY <2>1 DEF CallInv
  <2>4. /\ call'[t].op = "pread" /\ call'[t].asked = call[t].asked
        /\ call'[t].offset = call[t].offset /\ call'[t].size = call[t].size
    BY <2>2, <2>3 DEF ReadCall
  <2>5. Copying(t)' /\ pc'[t] = "lock" /\ ret'[t] = "ok"
    BY <2>1, <2>2, <2>4 DEF Copying, Bytes, Goto, CallInv
  <2>6. ReadOK(t)'
    BY <2>4, <2>5 DEF ReadOK
  <2> QED
    BY <1>1, <2>1, <2>6
<1>12. ASSUME NEW t \in Thread, ReadPage(t)
       PROVE  ReadInv'
  <2>1. /\ pc[t] = "open" /\ call[t].op = "pread" /\ UNCHANGED <<call, out, ret>>
    BY <1>12 DEF ReadPage
  <2>2. call[t] \in ReadCall /\ Copying(t) /\ ret[t] = "ok"
    BY <2>1 DEF CallInv, FdCall, ReadInv, ReadOK
  <2>3. Copying(t)' /\ call'[t] = call[t] /\ ret'[t] = "ok" /\ out'[t] = out[t]
    BY <2>1, <2>2 DEF Copying, Bytes
  <2>4. CASE PageStart(call[t].offset) >= FileSize
    <3> DEFINE o == call[t].offset
               a == call[t].asked[1]
               k == call[t].asked[2]
    <3>1. /\ o \in Nat /\ a \in Nat /\ k \in Nat /\ call[t].size \in Int
      BY <2>2, DsoDataAssumption DEF ReadCall
    <3>2. /\ a <= o /\ o <= FileSize /\ call[t].size > 0 /\ o + call[t].size = a + k
          /\ out[t] = Bytes(a, o)
      BY <2>2 DEF Copying
    <3>3. o = FileSize
      BY <1>0, <2>4, <3>1, <3>2, PageStartAligned, SMTT(60)
    <3> HIDE DEF o, a, k
    <3>4. o = a + min(k, FileSize - a)
      BY <1>0, <3>1, <3>2, <3>3, SMTT(60) DEF min
    <3>5. out'[t] = Bytes(a, a + min(k, FileSize - a))
      BY <2>3, <3>2, <3>4
    <3>6. Result(t)'
      BY <2>3, <3>5 DEF Result, Bytes, min, a, k
    <3>7. Goto(t, "return")
      BY <1>12, <2>4 DEF ReadPage
    <3>8. pc'[t] = "return"
      BY <3>7 DEF Goto, CallInv
    <3>9. ReadOK(t)'
      BY <2>3, <3>6, <3>8 DEF ReadOK
    <3> QED
      BY <1>2, <2>1, <3>7, <3>9
  <2>5. CASE ~(PageStart(call[t].offset) >= FileSize)
    <3>1. Goto(t, "insert")
      BY <1>12, <2>5 DEF ReadPage
    <3>2. pc'[t] = "insert"
      BY <3>1 DEF Goto, CallInv
    <3>3. ReadOK(t)'
      BY <2>3, <3>2 DEF ReadOK
    <3> QED
      BY <1>2, <2>1, <3>1, <3>3
  <2> QED
    BY <2>4, <2>5
<1>13. ASSUME NEW t \in Thread, NEW p, GoodPage(p),
              NEW o, o = call[t].offset, NEW z, z = call[t].size, Covers(p, o),
              call[t] \in ReadCall, Copying(t), pc[t] # "return", ret' = ret,
              Advance(t, dso_cache__memcpy(p, o, z))
       PROVE  ReadInv'
  <2>1. o \in Nat /\ o <= FileSize /\ z \in Nat \ {0}
    BY <1>13, SMTT(60) DEF ReadCall, Copying
  <2>2. PICK n \in 0..z : /\ dso_cache__memcpy(p, o, z) = Bytes(o, o + n)
                          /\ o + n <= FileSize
                          /\ n = 0 => o = FileSize
    BY <1>13, <2>1, MemcpyBytes
  <2>3. Advance(t, Bytes(o, o + n))
    BY <1>13, <2>2 DEF Advance, Goto
  <2>4. n \in 0..z /\ o + n <= FileSize /\ (n = 0 => o = FileSize)
    BY <2>2
  <2> QED
    BY <1>13, <2>3, <2>4, AdvanceReads
<1>14. ASSUME NEW t \in Thread, dso_cache__find(t)
       PROVE  ReadInv'
  <2>1. /\ pc[t] = "find" /\ call[t] \in ReadCall /\ dso(t) \in Dso /\ Copying(t)
        /\ ret' = ret
    BY <1>14 DEF dso_cache__find, ReadCall, dso, CallInv, ReadInv, ReadOK
  <2>2. PICK p \in Found(dso(t), call[t].offset) :
          Advance(t, dso_cache__memcpy(p, call[t].offset, call[t].size))
    BY <1>14 DEF dso_cache__find
  <2>3. GoodPage(p) /\ Covers(p, call[t].offset)
    BY <2>1, <2>2 DEF Found, PageInv
  <2> QED
    BY <1>13, <2>1, <2>2, <2>3
<1>15. ASSUME NEW t \in Thread, dso_cache__insert(t)
       PROVE  ReadInv'
  <2>1. /\ pc[t] = "insert" /\ call[t] \in ReadCall /\ dso(t) \in Dso /\ Copying(t)
        /\ ret' = ret
    BY <1>15 DEF dso_cache__insert, ReadCall, dso, CallInv, ReadInv, ReadOK
  <2>2. PICK p \in IF Found(dso(t), page[t].offset) = {}
                   THEN {page[t]} ELSE Found(dso(t), page[t].offset) :
          Advance(t, dso_cache__memcpy(p, call[t].offset, call[t].size))
    BY <1>15 DEF dso_cache__insert
  <2>3. GoodPage(page[t]) /\ Covers(page[t], call[t].offset)
    BY <2>1 DEF PageInv
  <2>4. CASE p = page[t]
    BY <1>13, <2>1, <2>2, <2>3, <2>4
  <2>5. CASE p \in Found(dso(t), page[t].offset)
    <3>1. GoodPage(p) /\ Covers(p, page[t].offset)
      BY <2>1, <2>5 DEF Found, PageInv
    <3>2. p.offset \in Nat /\ page[t].offset \in Nat
      BY <2>3, <3>1 DEF GoodPage, Page
    <3>3. p.offset = page[t].offset
      BY <2>3, <3>1, <3>2, AlignedCovers DEF GoodPage
    <3>4. Covers(p, call[t].offset)
      BY <2>3, <3>3 DEF Covers
    <3> QED
      BY <1>13, <2>1, <2>2, <3>1, <3>4
  <2> QED
    BY <2>2, <2>4, <2>5
<1>16. ASSUME UNCHANGED <<pc, call, out, ret>>
       PROVE  ReadInv'
  BY <1>16, ReadStutter
<1>17. ASSUME NEW t \in Thread, DoOpenRetries(t)
       PROVE  ReadInv'
  BY <1>16, <1>17 DEF DoOpenRetries, local_vars
<1>18. ASSUME NEW d \in Dso, dso__delete(d)
       PROVE  ReadInv'
  BY <1>16, <1>18 DEF dso__delete, local_vars
<1> QED
  BY <1>3, <1>4, <1>5, <1>6, <1>7, <1>8, <1>9, <1>10, <1>11, <1>12, <1>14, <1>15,
     <1>17, <1>18 DEF Next, Step

-----------------------------------------------------------------------------
(* Theorems.                                                               *)

\* Only threads take the lock.
LockInv == open_lock \subseteq Thread

\* It is kept.
LEMMA LockInvariant ==
  ASSUME LockInv, Next
  PROVE  LockInv'
<1>1. (\E t \in Thread : open_lock' = {t}) \/ open_lock' \subseteq open_lock
  BY DEF Next, Step, Call, Unlock, Lock, DoOpenRetries, OpenFails, GetFdOpens,
     GetFdRereads, dso__data_put_fd, Return, FileSizeKnown, FileSizeStat, CheckOffset,
     dso_cache__find, FindMisses, ReadPage, dso_cache__insert, dso__delete,
     dso__data_get_fd, dso__data_read_offset
<1> QED
  BY <1>1 DEF LockInv

\* The inductive invariant.
Inv == CallInv /\ FdInv /\ PageInv /\ ListInv /\ ErrorInv /\ ReadInv /\ LockInv

\* The initial states satisfy the invariant, and every step keeps it.
LEMMA Invariant == Spec => []Inv
<1>1. Init => Inv
  <2> SUFFICES ASSUME Init PROVE Inv
    OBVIOUS
  <2>1. CallInv
    BY DEF Init, CallInv
  <2>2. FdInv
    <3>1. fds \in Nat \ {0}
      BY DsoDataAssumption DEF Init
    <3> QED
      BY <3>1, DsoDataAssumption, SMTT(60) DEF Init, FdInv
  <2>3. PageInv
    BY SMTT(60) DEF Init, PageInv, NoPage, Page
  <2>4. ListInv
    <3>1. fds \in Nat \ {0} /\ fd_limit \in Nat
      BY DsoDataAssumption DEF Init
    <3>2. data_open \in Seq(Dso) /\ Len(data_open) = 0 /\ DOMAIN data_open = {}
      BY SMTT(60) DEF Init
    <3>3. IsInjective(data_open) /\ Range(data_open) = {}
      BY <3>2 DEF IsInjective, Range
    <3>4. FilesOK(Files)
      BY <3>2, <3>3 DEF Init, FilesOK, Files
    <3> QED
      BY <3>1, <3>4, SMTT(60) DEF Init, ListInv
  <2>5. ErrorInv
    BY DEF Init, ErrorInv
  <2>6. ReadInv
    BY SMTT(60) DEF Init, ReadInv, ReadOK
  <2>7. LockInv
    BY DEF Init, LockInv
  <2> QED
    BY <2>1, <2>2, <2>3, <2>4, <2>5, <2>6, <2>7 DEF Inv
<1>2. Inv /\ [Next]_vars => Inv'
  <2>1. ASSUME Inv, Next
        PROVE  Inv'
    BY <2>1, CallInvariant, FdInvariant, PageInvariant, ListInvariant, ErrorInvariant,
       ReadInvariant, LockInvariant DEF Inv
  <2>2. ASSUME Inv, UNCHANGED vars
        PROVE  Inv'
    <3> USE DEF vars, limits, open_vars, cache_vars, local_vars
    <3>1. CallInv' /\ FdInv' /\ PageInv'
      BY <2>2 DEF Inv, CallInv, FdInv, PageInv, dso, GoodPage, Aligned, Covers
    <3>2. ListInv' /\ ErrorInv' /\ LockInv'
      BY <2>2 DEF Inv, ListInv, ErrorInv, LockInv, FilesOK, Files
    <3>3. ReadInv'
      BY <2>2, ReadStutter DEF Inv
    <3> QED
      BY <3>1, <3>2, <3>3 DEF Inv
  <2> QED
    BY <2>1, <2>2
<1> QED
  BY <1>1, <1>2, PTL DEF Spec

\* A descriptor that dso__data_get_fd returned stays open until dso__data_put_fd,
\* whatever other threads open at whatever limit, and no two threads open or use
\* descriptors at the same time.
THEOREM FdStaysOpenCorrect == Spec => []FdStaysOpen
<1>1. Inv => FdStaysOpen
  BY DEF Inv, FdInv, FdStaysOpen
<1> QED
  BY <1>1, Invariant, PTL

\* dso_cache__insert never puts two pages over the same bytes into a tree, in
\* whatever order threads miss, read and insert, and what it puts there is what
\* the file holds.
THEOREM PagesDisjointCorrect == Spec => []PagesDisjoint
<1>1. Inv => PagesDisjoint
  BY DEF Inv, PageInv, PagesDisjoint, GoodPage
<1> QED
  BY <1>1, Invariant, PTL

\* The list of open files, their count and the descriptors of the dsos agree, and
\* there are never more of them than check_data_close and the system allow,
\* whatever is opened, retried after EMFILE, closed for others and deleted.
THEOREM OpenFilesCorrect == Spec => []OpenFiles
<1>1. Inv => OpenFiles
  <2> SUFFICES ASSUME Inv PROVE OpenFiles
    OBVIOUS
  <2>1. /\ data_open \in Seq(Dso) /\ open_cnt = Len(data_open) /\ open_cnt \in Nat
        /\ IsInjective(data_open) /\ Range(data_open) = {d \in Dso : fd[d]}
        /\ fd \in [Dso -> BOOLEAN] /\ file_size \in [Dso -> {0, FileSize}]
        /\ open_cnt <= fds /\ (open_cnt < fd_limit \/ open_cnt <= 1)
    BY SMTT(60) DEF Inv, ListInv, FilesOK, Files
  <2>2. open_lock \subseteq Thread
    BY DEF Inv, LockInv
  <2>3. error \in [Dso -> BOOLEAN] /\ \A d \in Dso : cache[d] \subseteq Page
    BY DEF Inv, ErrorInv, PageInv
  <2>4. \A t \in Thread : /\ page[t] \in Page /\ out[t] \in Seq(Nat)
                          /\ ret[t] \in {"ok", "open", "range", "closed"}
    BY DEF Inv, ReadInv, PageInv
  <2>5. \A t \in Thread : pc[t] \in {"idle", "size", "lock", "open", "reread", "use",
                                     "check", "find", "insert", "return"}
    BY DEF Inv, CallInv
  <2> QED
    BY <2>1, <2>2, <2>3, <2>4, <2>5 DEF OpenFiles, TypeOK
<1> QED
  BY <1>1, Invariant, PTL

\* dso__data_read_offset returns the bytes of the file from the offset on, as many
\* as were asked for or up to the end of the file, whatever pages other threads
\* insert and whatever descriptors they close meanwhile; it fails only for the
\* reasons that ReadsFile lists.
THEOREM ReadsFileCorrect == Spec => []ReadsFile
<1>1. Inv => ReadsFile
  <2> SUFFICES ASSUME Inv, NEW t \in Thread, pc[t] = "return", call[t].op # "fd"
               PROVE  LET offset == call[t].asked[1]
                          size == call[t].asked[2]
                      IN  CASE ret[t] = "ok" ->
                                 out[t] = [i \in 1..min(size, FileSize - offset) |->
                                             offset + i - 1]
                            [] ret[t] = "open" -> dso(t) \in Missing
                            [] ret[t] = "range" -> offset > FileSize
                            [] ret[t] = "closed" -> offset > 0
    BY DEF ReadsFile
  <2> DEFINE o == call[t].asked[1]
             k == call[t].asked[2]
             m == min(k, FileSize - o)
  <2>1. ret[t] \in {"ok", "open", "range", "closed"} /\ Result(t)
    BY DEF Inv, ReadInv, ReadOK
  <2>2. o \in Nat /\ k \in Nat /\ FileSize \in Nat
    BY DsoDataAssumption DEF Inv, CallInv, FdCall, ReadCall
  <2>3. m \in Int
    BY <2>2, SMTT(60) DEF min
  <2>4. /\ ret[t] = "ok" => out[t] = Bytes(o, o + m)
        /\ ret[t] = "open" => dso(t) \in Missing
        /\ ret[t] = "range" => o > FileSize
        /\ ret[t] = "closed" => o > 0
    BY <2>1 DEF Result
  <2> HIDE DEF o, m
  <2>5. (o + m) - o = m
    BY <2>2, <2>3, SMTT(60)
  <2>6. ret[t] = "ok" => out[t] = [i \in 1..m |-> o + i - 1]
    BY <2>4, <2>5 DEF Bytes
  <2> QED
    BY <2>1, <2>4, <2>6 DEF o, m
<1> QED
  BY <1>1, Invariant, PTL
=============================================================================
