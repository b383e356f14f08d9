------------------------------ MODULE RecordAio -----------------------------
(***************************************************************************)
(* perf record --aio: the ring buffers are copied out and written to       *)
(* perf.data by Posix AIO requests (record__aio_*, builtin-record.c, and   *)
(* perf_mmap__aio_push, util/mmap.c).  A buffer has a few control blocks,  *)
(* each with a copy of its own; requests complete in any order, in part,   *)
(* or with an error, and are restarted for what is missing.  All other     *)
(* output goes through write(2) at the position of the descriptor, which   *)
(* the passes over the buffers move behind the requests they queued.       *)
(*                                                                         *)
(* The buffers of evlist->overwrite_mmap are written by requests as well,  *)
(* in a pass of their own, once they are paused.  But the wait before the  *)
(* file is switched or closed walks evlist->mmap only.                     *)
(*                                                                         *)
(* A request takes its reference before perf_mmap__consume could unmap the *)
(* buffer, so a buffer in use stays mapped (OneReferencePerRequest).  That *)
(* the head is read twice is the subject of PerfMmap.                      *)
(*                                                                         *)
(* A unit of output is the data of one position of one ring buffer.        *)
(***************************************************************************)
EXTENDS Integers, Sequences, FiniteSets

CONSTANTS
  NrMmaps,      \* ring buffers of evlist->mmap, the first ones
  NrOverwrite,  \* ring buffers of evlist->overwrite_mmap, behind them
  NrCblocks,    \* opts.nr_cblocks
  MaxUnits,     \* bound: units the kernel writes to each ring buffer (and those
                \* of a dump of an overwritable one)
  MaxErrors,    \* bound: requests that complete with an error
  Aux,          \* the buffers have an AUX area, not in snapshot mode
  Faults        \* "queue": aio_write may refuse a request, "restart": a remainder

ASSUME RecordAioAssumption ==
  /\ {NrMmaps, NrCblocks} \subseteq Nat \ {0}
  /\ {NrOverwrite, MaxUnits, MaxErrors} \subseteq Nat
  /\ Aux \in BOOLEAN
  /\ Faults \subseteq {"queue", "restart"}

Mmaps == 1..(NrMmaps + NrOverwrite)
Overwritable == Mmaps \ (1..NrMmaps)
Blocks == 1..NrCblocks

VARIABLES
  head, prev,   \* mmap -> units written, units consumed
  refcnt, fds,  \* mmap -> its count, and 1 until its descriptor hung up
  base,         \* mmap -> still mapped
  cblocks,      \* mmap -> block -> the aiocb
  copy,         \* mmap -> block -> md->aio.data[idx]
  file,         \* the units at each offset of perf.data
  pos,          \* position of the descriptor
  bkw,          \* evlist->bkw_mmap_state
  overwrite,    \* the parameter of record__mmap_read_evlist
  off,          \* its local
  wrote,        \* rec->bytes_written changed in this pass
  pc, idx, blk, \* where the program is: function, mmap, control block
  errors,       \* history: requests that failed so far
  ideal         \* history: the units in the order the program output them

vars == <<head, prev, refcnt, fds, base, cblocks, copy, file, pos, bkw, overwrite, off,
          wrote, pc, idx, blk, errors, ideal>>
pass == <<bkw, overwrite>>

Free == [busy |-> FALSE, off |-> 0, from |-> 0, nbytes |-> 0, state |-> "none", ret |-> 0]
ROUND == <<0, 0>>
AuxData == <<0, 1>>

Init ==
  /\ head = [m \in Mmaps |-> 0] /\ prev = [m \in Mmaps |-> 0]
  /\ fds = [m \in Mmaps |-> 1] /\ refcnt = [m \in Mmaps |-> 2]
  /\ base = [m \in Mmaps |-> TRUE]
  /\ cblocks = [m \in Mmaps |-> [i \in Blocks |-> Free]]
  /\ copy = [m \in Mmaps |-> [i \in Blocks |-> <<>>]]
  /\ file = << >> /\ pos = 0 /\ off = 0 /\ wrote = FALSE
  /\ bkw = (IF NrOverwrite = 0 THEN "NOTREADY" ELSE "RUNNING") /\ overwrite = FALSE
  /\ pc = "loop" /\ idx = 1 /\ blk = 1
  /\ errors = 0 /\ ideal = <<>>

\* units written at offset o of the file; what lies between stays a hole.
Hole == <<0, 2>>
WriteAt(f, o, units) ==
  [k \in 1..(IF Len(f) > o + Len(units) THEN Len(f) ELSE o + Len(units)) |->
     IF k \in (o + 1)..(o + Len(units)) THEN units[k - o]
     ELSE IF k <= Len(f) THEN f[k] ELSE Hole]

-----------------------------------------------------------------------------
(* The kernel, and the C library's AIO: outside the repository.            *)

\* Nothing goes to an overwritable buffer that is paused.
KernelWrite(m) ==
  /\ fds[m] = 1 /\ head[m] < MaxUnits
  /\ m \in Overwritable => bkw = "RUNNING"
  /\ head' = [head EXCEPT ![m] = @ + 1]
  /\ UNCHANGED <<prev, refcnt, fds, base, cblocks, copy, file, pos, pass, off, wrote, pc,
                 idx, blk, errors, ideal>>

\* n units of a queued request reach the file: 0 means an error.
AioDone(m, i, n) ==
  LET cb == cblocks[m][i]
  IN  /\ cb.busy /\ cb.state = "EINPROGRESS"
      /\ n \in 0..cb.nbytes
      /\ n = 0 => errors < MaxErrors
      /\ errors' = errors + (IF n = 0 THEN 1 ELSE 0)
      /\ file' = IF n = 0 THEN file
                 ELSE WriteAt(file, cb.off, SubSeq(copy[m][i], cb.from, cb.from + n - 1))
      /\ cblocks' = [cblocks EXCEPT ![m][i].state = "done", ![m][i].ret = n]
      /\ UNCHANGED <<head, prev, refcnt, fds, base, copy, pos, pass, off, wrote, pc, idx,
                     blk, ideal>>

\* perf_evlist__filter_pollfd, between two passes: the descriptor hung up.
FilterPollfd(m) ==
  /\ pc = "loop" /\ fds[m] = 1
  /\ fds' = [fds EXCEPT ![m] = 0]
  /\ refcnt' = [refcnt EXCEPT ![m] = @ - 1]
  /\ UNCHANGED <<head, prev, base, cblocks, copy, file, pos, pass, off, wrote, pc, idx,
                 blk, errors, ideal>>

-----------------------------------------------------------------------------
(* record__aio_write and record__aio_complete                              *)

\* Mutant: a restarted request starts at the beginning of the copy.
RequestFromStart(o, from, size) ==
  [busy |-> TRUE, off |-> o, from |-> 1, nbytes |-> size,
   state |-> "EINPROGRESS", ret |-> 0]

\* A request for the units of the copy from index 'from' on.
Request(o, from, size) ==
  [busy |-> TRUE, off |-> o, from |-> from, nbytes |-> size,
   state |-> "EINPROGRESS", ret |-> 0]

\* Mutant: the reference is not given back.
perf_mmap__put_missing(m) == UNCHANGED <<refcnt, base>>

perf_mmap__put(m) ==
  /\ refcnt' = [refcnt EXCEPT ![m] = @ - 1]
  /\ base' = [base EXCEPT ![m] = refcnt[m] > 1]

\* A finished request frees its block, or is restarted with the remainder;
\* the result of the restart is not looked at.
record__aio_complete(m, i) ==
  LET cb == cblocks[m][i]
  IN  IF cb.ret = cb.nbytes
      THEN /\ cblocks' = [cblocks EXCEPT ![m][i] = Free]
           /\ perf_mmap__put(m)
      ELSE /\ \/ cblocks' = [cblocks EXCEPT ![m][i] =
                               Request(cb.off + cb.ret, cb.from + cb.ret, cb.nbytes - cb.ret)]
              \/ "restart" \in Faults /\ cblocks' = [cblocks EXCEPT ![m][i] = Free]
           /\ UNCHANGED <<refcnt, base>>

\* One turn of the loop of record__aio_sync: block blk is free, in progress
\* or finished.
SyncBlock(sync_all, next) ==
  LET cb == cblocks[idx][blk]
      free == ~cb.busy \/ (cb.state = "done" /\ cb.ret = cb.nbytes)
  IN  /\ blk \in Blocks
      /\ IF cb.busy /\ cb.state = "done"
         THEN record__aio_complete(idx, blk)
         ELSE UNCHANGED <<cblocks, refcnt, base>>
      /\ IF free /\ ~sync_all
         THEN pc' = next /\ UNCHANGED blk
         ELSE blk' = blk + 1 /\ UNCHANGED pc

\* Mutant: the blocks are not looked at again.
SuspendOnce ==
  /\ blk = NrCblocks + 1
  /\ \E i \in Blocks : cblocks[idx][i].state = "done"
  /\ UNCHANGED <<blk, cblocks, refcnt, base, pc>>

\* aio_suspend returns when a request of the list has finished; a block whose
\* restart was refused is not waited for.
Suspend ==
  /\ blk = NrCblocks + 1
  /\ \E i \in Blocks : IF cblocks[idx][i].busy THEN cblocks[idx][i].state = "done"
                        ELSE pc = "mmap"
  /\ blk' = 1
  /\ UNCHANGED <<cblocks, refcnt, base, pc>>

-----------------------------------------------------------------------------
(* The passes: record__mmap_read_evlist, from record__mmap_read_all.       *)

\* The last ring buffer of the pass.
Last == IF overwrite THEN NrMmaps + NrOverwrite ELSE NrMmaps

\* The pass over evlist->mmap; the overwritable buffers are paused before it when
\* the output is to be switched or the recording ends (RecordLoop).
PassBegin ==
  /\ pc = "loop" /\ pc' = "mmap"
  /\ bkw' \in {bkw} \cup (IF bkw = "RUNNING" THEN {"DATA_PENDING"} ELSE {})
  /\ off' = pos
  /\ idx' = 1 /\ blk' = 1 /\ wrote' = FALSE
  /\ UNCHANGED <<head, prev, refcnt, fds, base, cblocks, copy, file, pos, overwrite,
                 errors, ideal>>

\* The pass over evlist->overwrite_mmap, if they are paused and not read yet.
OverwriteBegin ==
  /\ pc = "overwrite"
  /\ IF bkw = "DATA_PENDING"
     THEN /\ pc' = "mmap" /\ overwrite' = TRUE
          /\ off' = pos
          /\ idx' = NrMmaps + 1 /\ blk' = 1 /\ wrote' = FALSE
     ELSE pc' = "loop" /\ UNCHANGED <<overwrite, off, idx, blk, wrote>>
  /\ UNCHANGED <<head, prev, refcnt, fds, base, cblocks, copy, file, pos, bkw, errors, ideal>>

PassSync ==
  /\ pc = "mmap" /\ idx <= Last /\ base[idx]
  /\ SyncBlock(FALSE, "push") \/ Suspend
  /\ UNCHANGED <<head, prev, fds, copy, file, pos, pass, off, wrote, idx, errors, ideal>>

\* perf_mmap__aio_push of the block that record__aio_sync returned.
AioPush ==
  /\ pc = "push"
  /\ LET units == [k \in 1..(head[idx] - prev[idx]) |-> <<idx, prev[idx] + k>>]
     IN  IF units = <<>>
         THEN /\ pc' = "aux"
              /\ UNCHANGED <<copy, prev, refcnt, base, cblocks, off, wrote, ideal>>
         ELSE /\ copy' = [copy EXCEPT ![idx][blk] = units]
              /\ prev' = [prev EXCEPT ![idx] = head[idx]]
              /\ UNCHANGED base
              /\ \/ /\ refcnt' = [refcnt EXCEPT ![idx] = @ + 1]
                    /\ cblocks' = [cblocks EXCEPT ![idx][blk] = Request(off, 1, Len(units))]
                    /\ off' = off + Len(units)
                    /\ wrote' = TRUE
                    /\ ideal' = ideal \o units
                    /\ pc' = "aux"
                 \/ /\ "queue" \in Faults      \* get, then put again
                    /\ pc' = "failed"
                    /\ UNCHANGED <<refcnt, cblocks, off, wrote, ideal>>
  /\ UNCHANGED <<head, fds, file, pos, pass, idx, blk, errors>>

\* record__auxtrace_mmap_read: record__write at the position of the descriptor.
AuxRead ==
  /\ pc = "aux" /\ pc' = "mmap"
  /\ IF Aux
     THEN /\ file' = WriteAt(file, pos, <<AuxData>>)
          /\ pos' = pos + 1
          /\ ideal' = Append(ideal, AuxData)
          /\ wrote' = TRUE
     ELSE UNCHANGED <<file, pos, ideal, wrote>>
  /\ idx' = idx + 1 /\ blk' = 1
  /\ UNCHANGED <<head, prev, refcnt, fds, base, cblocks, copy, pass, off, errors>>

\* record__aio_set_pos, then the FINISHED_ROUND.
PassEnd ==
  /\ pc = "mmap" /\ idx = Last + 1
  /\ pc' = IF overwrite THEN "loop" ELSE "overwrite"
  /\ bkw' = IF overwrite THEN "EMPTY" ELSE bkw
  /\ overwrite' = FALSE
  /\ IF wrote
     THEN /\ file' = WriteAt(file, off, <<ROUND>>)
          /\ pos' = off + 1
          /\ ideal' = Append(ideal, ROUND)
     ELSE pos' = off /\ UNCHANGED <<file, ideal>>
  /\ UNCHANGED <<head, prev, refcnt, fds, base, cblocks, copy, off, wrote, idx, blk, errors>>

\* perf_mmap__aio_push failed: the position is set, the recording ends.
PassFail ==
  /\ pc = "failed" /\ pc' = "sync_all"
  /\ pos' = off
  /\ idx' = 1 /\ blk' = 1
  /\ UNCHANGED <<head, prev, refcnt, fds, base, cblocks, copy, file, pass, off, wrote,
                 errors, ideal>>

-----------------------------------------------------------------------------
(* record__aio_mmap_read_sync, before the file is switched or closed: it   *)
(* waits for the requests of the buffers of evlist->mmap.                  *)

Finish ==
  /\ pc = "loop" /\ pc' = "sync_all"
  /\ idx' = 1 /\ blk' = 1
  /\ UNCHANGED <<head, prev, refcnt, fds, base, cblocks, copy, file, pos, pass, off, wrote,
                 errors, ideal>>

SyncAll ==
  /\ pc = "sync_all" /\ idx <= NrMmaps
  /\ SyncBlock(TRUE, "sync_all") \/ Suspend
  /\ UNCHANGED <<head, prev, fds, copy, file, pos, pass, off, wrote, idx, errors, ideal>>

\* Every request of the mmap is finished (or the mmap is gone): the next one.
SyncNext ==
  /\ pc = "sync_all" /\ idx <= NrMmaps
  /\ ~base[idx] \/ (blk = NrCblocks + 1 /\ \A i \in Blocks : ~cblocks[idx][i].busy)
  /\ idx' = idx + 1 /\ blk' = 1
  /\ UNCHANGED <<head, prev, refcnt, fds, base, cblocks, copy, file, pos, pass, off, wrote,
                 pc, errors, ideal>>

SyncDone ==
  /\ pc = "sync_all" /\ idx = NrMmaps + 1
  /\ pc' = "synced"
  /\ UNCHANGED <<head, prev, refcnt, fds, base, cblocks, copy, file, pos, pass, off, wrote,
                 idx, blk, errors, ideal>>

Program ==
  \/ PassBegin \/ OverwriteBegin \/ PassSync \/ AioPush \/ AuxRead \/ PassEnd \/ PassFail
  \/ Finish \/ SyncAll \/ SyncNext \/ SyncDone

Next ==
  \/ Program
  \/ \E m \in Mmaps : KernelWrite(m) \/ FilterPollfd(m)
  \/ \E m \in Mmaps, i \in Blocks : \E n \in 0..MaxUnits : AioDone(m, i, n)

Spec == Init /\ [][Next]_vars

\* perf runs, and every request finishes some time.
FairSpec ==
  /\ Spec
  /\ WF_vars(Program)
  /\ \A m \in Mmaps, i \in Blocks : WF_vars(\E n \in 0..MaxUnits : AioDone(m, i, n))

-----------------------------------------------------------------------------
(* Properties                                                              *)

\* Every variable has its type.
TypeOK ==
  /\ head \in [Mmaps -> 0..MaxUnits] /\ prev \in [Mmaps -> 0..MaxUnits]
  /\ fds \in [Mmaps -> 0..1] /\ refcnt \in [Mmaps -> Nat] /\ base \in [Mmaps -> BOOLEAN]
  /\ pos \in Nat /\ off \in Nat /\ {wrote} \subseteq BOOLEAN
  /\ bkw \in {"NOTREADY", "RUNNING", "DATA_PENDING", "EMPTY"}
  /\ {overwrite} \subseteq BOOLEAN
  /\ idx \in 1..(NrMmaps + NrOverwrite + 1) /\ blk \in 1..(NrCblocks + 1)
  /\ \A m \in Mmaps, i \in Blocks :
       cblocks[m][i].busy => cblocks[m][i].nbytes \in 1..MaxUnits

\* The request of a block has still to write the k-th unit of the file.
Covers(m, i, k) ==
  LET cb == cblocks[m][i]
  IN  cb.busy /\ cb.off + cb.ret < k /\ k <= cb.off + cb.nbytes

\* The k-th unit is in the file.
Written(k) == k <= Len(file) /\ file[k] # Hole

\* Whatever the order in which requests complete, are restarted and mix with
\* write(2), each unit of perf.data is the one that a synchronous writer would
\* have put there: no copy is reused before its request is finished, and no
\* output goes over earlier output.  When record__aio_mmap_read_sync returns, all
\* that is missing is what requests of overwritable buffers, which it does not
\* wait for, have still to write; without such buffers nothing is.
NothingMisplaced ==
  /\ TypeOK
  /\ \A k \in DOMAIN file : file[k] # Hole => k <= Len(ideal) /\ file[k] = ideal[k]
  /\ pc = "synced" =>
       \A k \in 1..Len(ideal) :
         Written(k) \/ \E m \in Overwritable, i \in Blocks : Covers(m, i, k)

\* A request holds a reference of its ring buffer until it is finished, and
\* gives it back then: its copy is not freed under it, and none leaks.
OneReferencePerRequest ==
  \A m \in Mmaps :
    /\ refcnt[m] = 1 + fds[m] + Cardinality({i \in Blocks : cblocks[m][i].busy})
    /\ base[m]

\* Waiting for the requests ends.
SyncEnds == (pc = "sync_all") ~> (pc = "synced")
=============================================================================
