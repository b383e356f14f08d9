------------------------------ MODULE DsoData ------------------------------
(***************************************************************************)
(* Reading the files of shared objects (util/dso.c).  Descriptors stay     *)
(* open and are closed oldest first when there are too many of them, under *)
(* dso__data_open_lock.  What was read is kept in pages of CacheSize bytes *)
(* per dso, searched without a lock and inserted under dso->lock.          *)
(*                                                                         *)
(* Every file has FileSize bytes, and a byte is its position.  A dso whose *)
(* file cannot be opened is Missing throughout, and the descriptors other  *)
(* files leave stay the same; fstat, pread and zalloc succeed, an open that*)
(* fails sets errno, and offset + size does not wrap.                      *)
(*                                                                         *)
(* dso_cache__read frees the page it used when nothing was copied, also    *)
(* one that is in the tree.  What the program does from then on is         *)
(* undefined: the model stops there (Defined).                             *)
(***************************************************************************)
EXTENDS Integers, Sequences, Functions

CONSTANTS
  Thread,
  Dso,
  Missing,        \* the dsos with no file to open
  FileSize,
  CacheSize,      \* DSO__DATA_CACHE_SIZE
  Request,        \* the <<offset, size>> asked for
  Limits          \* pairs: fd_limit, descriptors the process may still open

ASSUME DsoDataAssumption ==
  /\ Missing \subseteq Dso
  /\ FileSize \in Nat \ {0} /\ CacheSize \in Nat \ {0}
  /\ Request \subseteq Nat \X (Nat \ {0})
  /\ Limits \subseteq Nat \X (Nat \ {0})

VARIABLES
  fd_limit,       \* half of RLIMIT_NOFILE
  fds,            \* what other files leave of RLIMIT_NOFILE
  open_lock,      \* holders of dso__data_open_lock
  data_open,      \* dso__data_open, oldest first
  open_cnt,       \* dso__data_open_cnt
  fd,             \* dso->data.fd >= 0
  file_size,      \* dso->data.file_size
  error,          \* dso->data.status is DSO_DATA_STATUS_ERROR
  cache,          \* pages of dso->data.cache: [offset, data, and who read it]
  freed,          \* pages that were freed while in dso->data.cache
  pc, call,       \* where each thread is, and the arguments of its call
  page,           \* the page read from the file, to be inserted
  out, ret        \* bytes copied, and why the call failed

limits == <<fd_limit, fds>>
open_vars == <<data_open, open_cnt, fd>>
cache_vars == <<cache, freed>>
local_vars == <<call, page, out, ret>>
vars == <<limits, open_lock, open_vars, file_size, error, cache_vars, pc,
          local_vars>>

NoCall == [op |-> "none"]
NoPage == [offset |-> 0, data |-> <<>>, by |-> {}]

Init ==
  /\ \E l \in Limits : fd_limit = l[1] /\ fds = l[2]
  /\ open_lock = {} /\ data_open = <<>> /\ open_cnt = 0
  /\ fd = [d \in Dso |-> FALSE]
  /\ file_size = [d \in Dso |-> 0]
  /\ error = [d \in Dso |-> FALSE]
  /\ cache = [d \in Dso |-> {}] /\ freed = {}
  /\ pc = [t \in Thread |-> "idle"]
  /\ call = [t \in Thread |-> NoCall]
  /\ page = [t \in Thread |-> NoPage]
  /\ out = [t \in Thread |-> <<>>] /\ ret = [t \in Thread |-> "ok"]

Defined == freed = {}

Goto(t, l) == pc' = [pc EXCEPT ![t] = l]

dso(t) == call[t].dso

-----------------------------------------------------------------------------
(* Descriptors.                                                            *)

\* The entry of d is taken out of dso__data_open.
dso__list_del(list, d) ==
  LET at == CHOOSE i \in DOMAIN list : list[i] = d
  IN  SubSeq(list, 1, at - 1) \o SubSeq(list, at + 1, Len(list))

\* The operators on descriptors take and return [list, cnt, fd, size].
close_data_fd(files, d) ==
  IF files.fd[d]
  THEN [list |-> dso__list_del(files.list, d),
        cnt |-> files.cnt - 1,
        fd |-> [files.fd EXCEPT ![d] = FALSE],
        size |-> [files.size EXCEPT ![d] = 0]]
  ELSE files

close_first_dso(files) == close_data_fd(files, Head(files.list))

\* Mutant: the limit is tested one too late.
check_data_close_late(files) ==
  IF fd_limit >= files.cnt THEN files ELSE close_first_dso(files)

check_data_close(files) ==
  IF fd_limit > files.cnt THEN files ELSE close_first_dso(files)

Files == [list |-> data_open, cnt |-> open_cnt, fd |-> fd, size |-> file_size]

SetFiles(files) ==
  /\ data_open' = files.list /\ open_cnt' = files.cnt
  /\ fd' = files.fd /\ file_size' = files.size

\* open() fails with EMFILE.
Emfile == open_cnt >= fds

CanOpen(d) == d \notin Missing /\ ~Emfile

\* The dso is listed, and the limit enforced, before its own descriptor is
\* set: close_data_fd does nothing if it is the first in the list.
open_dso(d) ==
  LET listed == [Files EXCEPT !.list = Append(@, d), !.cnt = @ + 1]
  IN  [check_data_close(listed) EXCEPT !.fd[d] = TRUE]

\* What try_to_open_dso leaves when it succeeds.
TryToOpen(d) == IF fd[d] THEN Files ELSE open_dso(d)

Lock(t) ==
  /\ pc[t] = "lock" /\ open_lock = {}
  /\ open_lock' = {t} /\ Goto(t, "open")
  /\ UNCHANGED <<limits, open_vars, file_size, error, cache_vars, local_vars>>

Unlock(t) == open_lock' = open_lock \ {t}

\* One turn of the loop in do_open.
DoOpenRetries(t) ==
  /\ pc[t] = "open" /\ ~fd[dso(t)]
  /\ dso(t) \notin Missing /\ Emfile /\ open_cnt > 0
  /\ SetFiles(close_first_dso(Files))
  /\ UNCHANGED <<limits, open_lock, error, cache_vars, pc, local_vars>>

\* try_to_open_dso fails.  dso__data_get_fd then reads data.fd once more, with
\* the lock released.
OpenFails(t) ==
  /\ pc[t] = "open" /\ ~fd[dso(t)] /\ ~CanOpen(dso(t))
  /\ dso(t) \in Missing \/ open_cnt = 0
  /\ error' = [error EXCEPT ![dso(t)] = TRUE]
  /\ Unlock(t)
  /\ IF call[t].op = "fd"
     THEN Goto(t, "reread") /\ UNCHANGED ret
     ELSE Goto(t, "return") /\ ret' = [ret EXCEPT ![t] = "open"]
  /\ UNCHANGED <<limits, open_vars, file_size, cache_vars, call, page, out>>

\* Mutant: the lock is released with a descriptor too.
GetFdUnlocks(t) ==
  /\ pc[t] = "open" /\ call[t].op = "fd"
  /\ fd[dso(t)] \/ CanOpen(dso(t))
  /\ SetFiles(TryToOpen(dso(t))) /\ UNCHANGED error
  /\ Unlock(t) /\ Goto(t, "use")
  /\ UNCHANGED <<limits, cache_vars, local_vars>>

\* dso__data_get_fd returns the descriptor, and keeps the lock.
GetFdOpens(t) ==
  /\ pc[t] = "open" /\ call[t].op = "fd"
  /\ fd[dso(t)] \/ CanOpen(dso(t))
  /\ SetFiles(TryToOpen(dso(t)))
  /\ error' = IF fd[dso(t)] THEN error ELSE [error EXCEPT ![dso(t)] = FALSE]
  /\ Goto(t, "use")
  /\ UNCHANGED <<limits, open_lock, cache_vars, local_vars>>

GetFdRereads(t) ==
  /\ pc[t] = "reread"
  /\ Goto(t, IF fd[dso(t)] THEN "use" ELSE "return")
  /\ UNCHANGED <<limits, open_lock, open_vars, file_size, error, cache_vars,
                 local_vars>>

dso__data_put_fd(t) ==
  /\ pc[t] = "use" /\ Unlock(t) /\ Goto(t, "return")
  /\ UNCHANGED <<limits, open_vars, file_size, error, cache_vars, local_vars>>

\* The last reference to d is dropped, so no call uses it; d is then created
\* again.
dso__delete(d) ==
  /\ open_lock = {} /\ \A t \in Thread : pc[t] # "idle" => dso(t) # d
  /\ SetFiles(close_data_fd(Files, d))
  /\ cache' = [cache EXCEPT ![d] = {}]
  /\ error' = [error EXCEPT ![d] = FALSE]
  /\ UNCHANGED <<limits, open_lock, freed, pc, local_vars>>

-----------------------------------------------------------------------------
(* Calls.  One of a dso in the error state returns at once.                *)

Call(t, c, l) ==
  /\ pc[t] = "idle" /\ ~error[c.dso]
  /\ call' = [call EXCEPT ![t] = c] /\ Goto(t, l)
  /\ UNCHANGED <<limits, open_lock, open_vars, file_size, error, cache_vars,
                 page, out, ret>>

dso__data_get_fd(t, d) == Call(t, [op |-> "fd", dso |-> d], "lock")

dso__data_read_offset(t, d, rq) ==
  Call(t, [op |-> "stat", dso |-> d, asked |-> rq, offset |-> rq[1],
           size |-> rq[2]], "size")

\* The locals of the call that returned are forgotten.
Return(t) ==
  /\ pc[t] = "return" /\ Goto(t, "idle")
  /\ call' = [call EXCEPT ![t] = NoCall]
  /\ out' = [out EXCEPT ![t] = <<>>] /\ ret' = [ret EXCEPT ![t] = "ok"]
  /\ UNCHANGED <<limits, open_lock, open_vars, file_size, error, cache_vars,
                 page>>

\* dso__data_file_size up to the lock: the size is known, the dso is in the
\* error state, or its file must be opened.
FileSizeKnown(t) ==
  /\ pc[t] = "size"
  /\ \/ file_size[dso(t)] # 0 /\ Goto(t, "check") /\ UNCHANGED ret
     \/ /\ file_size[dso(t)] = 0 /\ error[dso(t)]
        /\ Goto(t, "return") /\ ret' = [ret EXCEPT ![t] = "open"]
     \/ /\ file_size[dso(t)] = 0 /\ ~error[dso(t)]
        /\ Goto(t, "lock") /\ UNCHANGED ret
  /\ UNCHANGED <<limits, open_lock, open_vars, file_size, error, cache_vars,
                 call, page, out>>

\* Its rest, with the lock.
FileSizeStat(t) ==
  /\ pc[t] = "open" /\ call[t].op = "stat"
  /\ fd[dso(t)] \/ CanOpen(dso(t))
  /\ SetFiles([TryToOpen(dso(t)) EXCEPT !.size[dso(t)] = FileSize])
  /\ error' = IF fd[dso(t)] THEN error ELSE [error EXCEPT ![dso(t)] = FALSE]
  /\ Unlock(t) /\ Goto(t, "check")
  /\ UNCHANGED <<limits, cache_vars, local_vars>>

\* data_read_offset reads file_size once more.
CheckOffset(t) ==
  /\ pc[t] = "check"
  /\ IF call[t].offset > file_size[dso(t)]
     THEN /\ Goto(t, "return")
          /\ ret' = [ret EXCEPT ![t] =
                       IF file_size[dso(t)] = 0 THEN "closed" ELSE "range"]
     ELSE Goto(t, "find") /\ UNCHANGED ret
  /\ UNCHANGED <<limits, open_lock, open_vars, file_size, error, cache_vars,
                 call, page, out>>

-----------------------------------------------------------------------------
(* The cache.                                                              *)

Covers(p, offset) == p.offset <= offset /\ offset < p.offset + CacheSize

Found(d, offset) == {p \in cache[d] : Covers(p, offset)}

min(a, b) == IF a < b THEN a ELSE b

\* What dso_cache__memcpy copies.
dso_cache__memcpy(p, offset, size) ==
  LET cache_offset == offset - p.offset
      cache_size == min(Len(p.data) - cache_offset, size)
  IN  SubSeq(p.data, cache_offset + 1, cache_offset + cache_size)

\* cached_read goes on behind what was copied, or returns at the end of the
\* file or with all it was asked for.
Advance(t, bytes) ==
  LET left == call[t].size - Len(bytes)
  IN  /\ out' = [out EXCEPT ![t] = @ \o bytes]
      /\ call' = [call EXCEPT ![t].offset = @ + Len(bytes), ![t].size = left]
      /\ Goto(t, IF bytes = <<>> \/ left = 0 THEN "return" ELSE "find")

dso_cache__find(t) ==
  /\ pc[t] = "find"
  /\ \E p \in Found(dso(t), call[t].offset) :
       Advance(t, dso_cache__memcpy(p, call[t].offset, call[t].size))
  /\ UNCHANGED <<limits, open_lock, open_vars, file_size, error, cache_vars,
                 page, ret>>

\* A search without the lock may also miss a page while another thread
\* inserts one.
FindMisses(t) ==
  /\ pc[t] = "find"
  /\ \/ Found(dso(t), call[t].offset) = {}
     \/ \E u \in Thread \ {t} : pc[u] = "insert" /\ dso(u) = dso(t)
  /\ call' = [call EXCEPT ![t].op = "pread"] /\ Goto(t, "lock")
  /\ UNCHANGED <<limits, open_lock, open_vars, file_size, error, cache_vars,
                 page, out, ret>>

PageStart(offset) == offset - (offset % CacheSize)

\* What pread returns of the page that begins at first.
pread(first) ==
  [i \in 1..min(CacheSize, FileSize - first) |-> first + i - 1]

\* The page that t allocates and fills.
NewPage(t) ==
  LET first == PageStart(call[t].offset)
  IN  [offset |-> first, data |-> pread(first), by |-> {t}]

\* Mutant: dso_cache__read trusts the descriptor to be open still.
ReadPageNoOpen(t) ==
  /\ pc[t] = "open" /\ call[t].op = "pread"
  /\ IF fd[dso(t)]
     THEN page' = [page EXCEPT ![t] = NewPage(t)] /\ Goto(t, "insert")
          /\ UNCHANGED ret
     ELSE UNCHANGED page /\ Goto(t, "return")
          /\ ret' = [ret EXCEPT ![t] = "open"]
  /\ Unlock(t)
  /\ UNCHANGED <<limits, open_vars, file_size, error, cache_vars, call, out>>

\* dso_cache__read with the lock: a page, or the end of the file.
ReadPage(t) ==
  /\ pc[t] = "open" /\ call[t].op = "pread"
  /\ fd[dso(t)] \/ CanOpen(dso(t))
  /\ SetFiles(TryToOpen(dso(t)))
  /\ error' = IF fd[dso(t)] THEN error
              ELSE [error EXCEPT ![dso(t)] = FALSE]
  /\ Unlock(t)
  /\ IF PageStart(call[t].offset) >= FileSize
     THEN Goto(t, "return") /\ UNCHANGED page
     ELSE /\ page' = [page EXCEPT ![t] = NewPage(t)]
          /\ Goto(t, "insert")
  /\ UNCHANGED <<limits, cache_vars, call, out, ret>>

\* Mutant: the tree is not searched again under the lock.
InsertUnsearched(t) ==
  /\ pc[t] = "insert"
  /\ cache' = [cache EXCEPT ![dso(t)] = @ \cup {page[t]}]
  /\ Advance(t, dso_cache__memcpy(page[t], call[t].offset, call[t].size))
  /\ freed' = freed /\ page' = [page EXCEPT ![t] = NoPage]
  /\ UNCHANGED <<limits, open_lock, open_vars, file_size, error, ret>>

\* dso_cache__insert and the rest of dso_cache__read: the page that is in the
\* tree is used, and freed when it had nothing to copy.
dso_cache__insert(t) ==
  /\ pc[t] = "insert"
  /\ \E p \in IF Found(dso(t), page[t].offset) = {}
              THEN {page[t]} ELSE Found(dso(t), page[t].offset) :
       LET bytes == dso_cache__memcpy(p, call[t].offset, call[t].size)
       IN  /\ cache' = [cache EXCEPT ![dso(t)] = @ \cup {p}]
           /\ freed' = IF bytes = <<>> THEN freed \cup {<<dso(t), p>>} ELSE freed
           /\ Advance(t, bytes)
  /\ page' = [page EXCEPT ![t] = NoPage]
  /\ UNCHANGED <<limits, open_lock, open_vars, file_size, error, ret>>

-----------------------------------------------------------------------------
Step(t) ==
  \/ Lock(t) \/ DoOpenRetries(t) \/ OpenFails(t)
  \/ GetFdOpens(t) \/ GetFdRereads(t) \/ dso__data_put_fd(t)
  \/ Return(t) \/ FileSizeKnown(t) \/ FileSizeStat(t) \/ CheckOffset(t)
  \/ dso_cache__find(t) \/ FindMisses(t) \/ ReadPage(t) \/ dso_cache__insert(t)

Next ==
  /\ Defined
  /\ \/ \E t \in Thread : Step(t)
     \/ \E t \in Thread, d \in Dso : dso__data_get_fd(t, d)
     \/ \E t \in Thread, d \in Dso, rq \in Request :
          dso__data_read_offset(t, d, rq)
     \/ \E d \in Dso : dso__delete(d)

Spec == Init /\ [][Next]_vars

-----------------------------------------------------------------------------
(* Properties.                                                             *)

Page == [offset : Nat, data : Seq(Nat), by : SUBSET Thread]

TypeOK ==
  /\ open_lock \subseteq Thread
  /\ data_open \in Seq(Dso) /\ open_cnt \in Nat
  /\ fd \in [Dso -> BOOLEAN] /\ error \in [Dso -> BOOLEAN]
  /\ file_size \in [Dso -> {0, FileSize}]
  /\ \A d \in Dso : cache[d] \subseteq Page
  /\ \A t \in Thread : /\ pc[t] \in {"idle", "size", "lock", "open", "reread",
                                      "use", "check", "find", "insert",
                                      "return"}
                       /\ page[t] \in Page /\ out[t] \in Seq(Nat)
                       /\ ret[t] \in {"ok", "open", "range", "closed"}

\* Whatever is opened, retried, deleted and closed for others, the list, the
\* count and the descriptors of the dsos agree, and there are never more of
\* them than check_data_close and the system allow; a single one is kept
\* whatever the limit.
OpenFiles ==
  /\ IsInjective(data_open)
  /\ Range(data_open) = {d \in Dso : fd[d]}
  /\ open_cnt = Len(data_open)
  /\ open_cnt <= fds /\ (open_cnt < fd_limit \/ open_cnt <= 1)
  /\ TypeOK

\* A descriptor that dso__data_get_fd returned stays open until
\* dso__data_put_fd, although other threads open files at the limit: its user
\* has the lock, alone.
FdStaysOpen ==
  \A t \in Thread :
    pc[t] \in {"open", "use"} => /\ open_lock = {t}
                                 /\ pc[t] = "use" => fd[dso(t)]

\* No two pages of a dso overlap, whoever read them, and each is what the
\* file holds there: the loser of a race uses the page of the winner.
PagesDisjoint ==
  \A d \in Dso : \A p \in cache[d] :
    /\ p.data = pread(p.offset) /\ p.offset < FileSize
    /\ \A q \in cache[d] : Covers(q, p.offset) => q = p

\* A read returns the bytes of the file from its offset on, as many as were
\* asked for or up to the end of the file, from pages found, read and raced
\* for, and with descriptors closed in between.  It fails for a file that
\* cannot be opened and an offset behind the end; and when the descriptor was
\* closed, and file_size reset, between dso__data_file_size and the check.
ReadsFile ==
  \A t \in Thread : pc[t] = "return" /\ call[t].op # "fd" =>
    LET offset == call[t].asked[1]
        size == call[t].asked[2]
    IN  CASE ret[t] = "ok" ->
               out[t] = [i \in 1..min(size, FileSize - offset) |-> offset + i - 1]
          [] ret[t] = "open" -> dso(t) \in Missing
          [] ret[t] = "range" -> offset > FileSize
          [] ret[t] = "closed" -> offset > 0
=============================================================================
