-------------------------- MODULE RecordAioProofs --------------------------
(***************************************************************************)
(* perf record --aio, for any number of ring buffers, control blocks and   *)
(* units, and any number of requests that fail: a request has one          *)
(* reference of its buffer, and every unit ends where it belongs.          *)
(***************************************************************************)
EXTENDS RecordAio, FiniteSetTheorems, TLAPS

\* The provers: Zenon unless a step names the SMT solver.
USE ZenonT(60)

-----------------------------------------------------------------------------
(* The constants for which the properties hold.                            *)

\* record__aio_complete looks at no result: a restart that is refused leaks
\* the reference and leaves a hole.
RestartsAccepted == "restart" \notin Faults

\* AUX area data is written at the position of the descriptor, which is that
\* of a request queued in the same pass.
NoAux == ~Aux

-----------------------------------------------------------------------------
(* The inductive invariant.                                                *)

\* What perf.data is made of.
Unit == {ROUND, AuxData} \cup (Mmaps \X Nat)

\* A control block of record.aio, and what a queued one asks for.
Cblock == [busy : BOOLEAN, off : Nat, from : Nat, nbytes : Nat,
           state : {"none", "EINPROGRESS", "done"}, ret : Nat]

\* The program is in one of its loops, at a ring buffer and a block of it;
\* the block that record__aio_sync returned is free.
ControlInv ==
  /\ pc \in {"loop", "overwrite", "mmap", "push", "aux", "failed", "sync_all", "synced"}
  /\ bkw \in {"NOTREADY", "RUNNING", "DATA_PENDING", "EMPTY"} /\ overwrite \in BOOLEAN
  /\ idx \in 1..(NrMmaps + NrOverwrite + 1) /\ blk \in 1..(NrCblocks + 1)
  /\ cblocks \in [Mmaps -> [Blocks -> Cblock]]
  /\ pos \in Nat /\ off \in Nat
  /\ head \in [Mmaps -> 0..MaxUnits] /\ prev \in [Mmaps -> 0..MaxUnits]
  /\ \A m \in Mmaps : prev[m] <= head[m]
  /\ pc \in {"push", "aux", "failed"} => idx \in Mmaps
  /\ pc = "push" => blk \in Blocks /\ ~cblocks[idx][blk].busy

\* No more is written than was asked for, and nothing before the request ends.
BlockInv ==
  \A m \in Mmaps, i \in Blocks :
    cblocks[m][i].busy =>
      /\ cblocks[m][i].state # "none" /\ cblocks[m][i].ret <= cblocks[m][i].nbytes
      /\ cblocks[m][i].state = "EINPROGRESS" => cblocks[m][i].ret = 0

\* The blocks of a ring buffer that are queued.
Busy(m) == {i \in Blocks : cblocks[m][i].busy}

\* A request holds a reference, so a buffer with requests stays mapped.
RefInv ==
  /\ fds \in [Mmaps -> 0..1] /\ refcnt \in [Mmaps -> Nat]
  /\ base \in [Mmaps -> BOOLEAN]
  /\ \A m \in Mmaps : refcnt[m] = 1 + fds[m] + Cardinality(Busy(m)) /\ base[m]

\* The units that were copied, output and written.
UnitInv ==
  /\ copy \in [Mmaps -> [Blocks -> Seq(Unit)]]
  /\ ideal \in Seq(Unit)
  /\ file \in Seq(Unit \cup {Hole})
  /\ wrote \in BOOLEAN

\* The next output goes behind all that was output, by a request or by write(2).
OffsetInv ==
  /\ pc \in {"loop", "overwrite"} => pos = Len(ideal)
  /\ pc \in {"mmap", "push", "aux", "failed"} => off = Len(ideal)

\* A request writes the units of its copy to their places.
RequestInv ==
  \A m \in Mmaps, i \in Blocks :
    LET cb == cblocks[m][i]
    IN  cb.busy =>
          /\ cb.nbytes \in 1..MaxUnits
          /\ cb.from > 0 /\ cb.from + cb.nbytes <= Len(copy[m][i]) + 1
          /\ cb.off + cb.nbytes <= Len(ideal)
          /\ \A j \in 0..(cb.nbytes - 1) :
               copy[m][i][cb.from + j] = ideal[cb.off + 1 + j]

\* A unit that is in the file is in its place, and one that is not is what some
\* request has still to write.
FileInv ==
  /\ Len(file) <= Len(ideal)
  /\ \A k \in 1..Len(ideal) :
       \/ Written(k) /\ file[k] = ideal[k]
       \/ ~Written(k) /\ \E m \in Mmaps, i \in Blocks : Covers(m, i, k)

\* record__aio_mmap_read_sync has waited for the buffers of evlist->mmap it is
\* behind.
SyncInv ==
  \A m \in 1..NrMmaps, i \in Blocks :
    (pc = "synced" \/ (pc = "sync_all" /\ m < idx)) => ~cblocks[m][i].busy

AioInv == UnitInv /\ OffsetInv /\ RequestInv /\ FileInv /\ SyncInv

-----------------------------------------------------------------------------
(* Control blocks and references.                                          *)

\* There is a first buffer, and a first block.
LEMMA Sizes ==
  /\ NrMmaps \in Nat /\ NrOverwrite \in Nat /\ NrCblocks \in Nat /\ MaxUnits \in Nat
  /\ 1 \in 1..(NrMmaps + NrOverwrite + 1) /\ 1 \in 1..(NrCblocks + 1)
  /\ NrMmaps + 1 \in 1..(NrMmaps + NrOverwrite + 1)
  /\ 1..NrMmaps \subseteq Mmaps
BY RecordAioAssumption, SMTT(60) DEF Mmaps

\* The buffers of a pass, and those record__aio_mmap_read_sync waits for.
LEMMA BufferOf ==
  ASSUME ControlInv
  PROVE  /\ idx <= Last => idx \in Mmaps
         /\ idx <= NrMmaps => idx \in Mmaps /\ idx \in 1..NrMmaps
<1>1. /\ idx \in 1..(NrMmaps + NrOverwrite + 1)
      /\ Last = NrMmaps + NrOverwrite \/ Last = NrMmaps
  BY DEF ControlInv, Last
<1> QED
  BY <1>1, Sizes, SMTT(60) DEF Mmaps

\* An assignment to one control block, or to one copy.
LEMMA PutBlock ==
  ASSUME NEW S, NEW c \in [Mmaps -> [Blocks -> S]], NEW m \in Mmaps, NEW i \in Blocks,
         NEW v \in S
  PROVE  /\ [c EXCEPT ![m][i] = v] \in [Mmaps -> [Blocks -> S]]
         /\ [c EXCEPT ![m][i] = v][m][i] = v
         /\ \A n \in Mmaps, j \in Blocks :
              n # m \/ j # i => [c EXCEPT ![m][i] = v][n][j] = c[n][j]
OBVIOUS

\* What AioDone leaves in the control blocks.
LEMMA DoneBlock ==
  ASSUME cblocks \in [Mmaps -> [Blocks -> Cblock]], NEW m \in Mmaps, NEW i \in Blocks,
         NEW n \in Nat, AioDone(m, i, n)
  PROVE  /\ cblocks' \in [Mmaps -> [Blocks -> Cblock]]
         /\ \A p \in Mmaps, j \in Blocks : p # m \/ j # i => cblocks'[p][j] = cblocks[p][j]
         /\ cblocks[m][i].busy /\ cblocks[m][i].state = "EINPROGRESS"
         /\ n <= cblocks[m][i].nbytes
         /\ cblocks'[m][i].busy /\ cblocks'[m][i].state = "done" /\ cblocks'[m][i].ret = n
         /\ cblocks'[m][i].off = cblocks[m][i].off
         /\ cblocks'[m][i].from = cblocks[m][i].from
         /\ cblocks'[m][i].nbytes = cblocks[m][i].nbytes
<1> DEFINE cb == cblocks[m][i]
           v == [cb EXCEPT !.state = "done", !.ret = n]
<1>1. cb \in Cblock /\ cblocks[m] \in [Blocks -> Cblock]
  OBVIOUS
<1>2. /\ v \in Cblock /\ v.busy = cb.busy /\ v.off = cb.off /\ v.from = cb.from
      /\ v.nbytes = cb.nbytes /\ v.state = "done" /\ v.ret = n
  BY <1>1 DEF Cblock
<1>3. cblocks' = [cblocks EXCEPT ![m][i].state = "done", ![m][i].ret = n]
  BY DEF AioDone
<1>4. [cblocks EXCEPT ![m][i].state = "done", ![m][i].ret = n] = [cblocks EXCEPT ![m][i] = v]
  BY <1>1 DEF Cblock
<1>5. cblocks' = [cblocks EXCEPT ![m][i] = v]
  BY <1>3, <1>4
<1>6. cb.busy /\ cb.state = "EINPROGRESS" /\ n <= cb.nbytes
  BY <1>1, SMTT(60) DEF AioDone, Cblock
<1>7. /\ cblocks' \in [Mmaps -> [Blocks -> Cblock]] /\ cblocks'[m][i] = v
      /\ \A p \in Mmaps, j \in Blocks : p # m \/ j # i => cblocks'[p][j] = cblocks[p][j]
  <2> HIDE DEF v
  <2> QED
    BY <1>2, <1>5, PutBlock, SMTT(60)
<1> QED
  BY <1>2, <1>6, <1>7

\* A free block, and a request, are control blocks.
LEMMA BlockTypes ==
  /\ Free \in Cblock /\ ~Free.busy
  /\ \A o, f, n \in Nat : Request(o, f, n) \in Cblock /\ Request(o, f, n).busy
BY DEF Free, Request, Cblock

\* Every buffer has finitely many requests.
LEMMA BusyFinite == \A m \in Mmaps : IsFiniteSet(Busy(m)) /\ Cardinality(Busy(m)) \in Nat
<1>1. IsFiniteSet(Blocks)
  BY FS_Interval, RecordAioAssumption, SMTT(60) DEF Blocks
<1>2. \A m \in Mmaps : IsFiniteSet(Busy(m))
  BY <1>1, FS_Subset DEF Busy
<1> QED
  BY <1>2, FS_CardinalityType

\* The number of requests of a buffer, when one of its blocks is assigned.
LEMMA BusyPut ==
  ASSUME cblocks \in [Mmaps -> [Blocks -> Cblock]], NEW m \in Mmaps, NEW i \in Blocks,
         cblocks' \in [Mmaps -> [Blocks -> Cblock]],
         \A n \in Mmaps, j \in Blocks : n # m \/ j # i => cblocks'[n][j] = cblocks[n][j]
  PROVE  /\ \A n \in Mmaps : n # m => Busy(n)' = Busy(n)
         /\ cblocks'[m][i].busy = cblocks[m][i].busy => Busy(m)' = Busy(m)
         /\ (cblocks'[m][i].busy /\ ~cblocks[m][i].busy) =>
               Cardinality(Busy(m)') = Cardinality(Busy(m)) + 1
         /\ (~cblocks'[m][i].busy /\ cblocks[m][i].busy) =>
               /\ Cardinality(Busy(m)') = Cardinality(Busy(m)) - 1
               /\ Cardinality(Busy(m)) > 0
<1>1. IsFiniteSet(Busy(m)) /\ Cardinality(Busy(m)) \in Nat
  BY BusyFinite
<1>2. \A n \in Mmaps : n # m => Busy(n)' = Busy(n)
  BY DEF Busy
<1>3. ASSUME cblocks'[m][i].busy = cblocks[m][i].busy PROVE Busy(m)' = Busy(m)
  BY <1>3 DEF Busy
<1>4. ASSUME cblocks'[m][i].busy, ~cblocks[m][i].busy
      PROVE  Cardinality(Busy(m)') = Cardinality(Busy(m)) + 1
  <2>1. Busy(m)' = Busy(m) \cup {i} /\ i \notin Busy(m)
    BY <1>4 DEF Busy
  <2> QED
    BY <2>1, <1>1, FS_AddElement
<1>5. ASSUME ~cblocks'[m][i].busy, cblocks[m][i].busy
      PROVE  /\ Cardinality(Busy(m)') = Cardinality(Busy(m)) - 1
             /\ Cardinality(Busy(m)) > 0
  <2>1. Busy(m)' = Busy(m) \ {i} /\ i \in Busy(m)
    BY <1>5 DEF Busy
  <2>2. Cardinality(Busy(m)) # 0
    BY <2>1, <1>1, FS_EmptySet
  <2>3. Cardinality(Busy(m) \ {i}) = Cardinality(Busy(m)) - 1
    BY <2>1, <1>1, FS_RemoveElement
  <2> QED
    BY <2>1, <2>2, <2>3, <1>1, SMTT(60)
<1> QED
  BY <1>2, <1>3, <1>4, <1>5

\* record__aio_complete gives the reference back when it frees the block.
LEMMA CompleteRef ==
  ASSUME RestartsAccepted, RefInv, BlockInv, cblocks \in [Mmaps -> [Blocks -> Cblock]],
         NEW m \in Mmaps, NEW i \in Blocks, cblocks[m][i].busy, UNCHANGED fds,
         record__aio_complete(m, i)
  PROVE  RefInv' /\ BlockInv' /\ cblocks' \in [Mmaps -> [Blocks -> Cblock]]
<1> DEFINE cb == cblocks[m][i]
<1>1. /\ cb \in Cblock /\ cb.ret <= cb.nbytes
      /\ cb.off \in Nat /\ cb.from \in Nat /\ cb.nbytes \in Nat /\ cb.ret \in Nat
  BY DEF BlockInv, Cblock
<1>2. CASE cb.ret = cb.nbytes
  <2>1. /\ cblocks' = [cblocks EXCEPT ![m][i] = Free] /\ perf_mmap__put(m)
    BY <1>2 DEF record__aio_complete
  <2>2. /\ cblocks' \in [Mmaps -> [Blocks -> Cblock]] /\ ~cblocks'[m][i].busy
        /\ \A n \in Mmaps, j \in Blocks : n # m \/ j # i => cblocks'[n][j] = cblocks[n][j]
    BY <2>1, PutBlock, BlockTypes, SMTT(60)
  <2>3. /\ \A n \in Mmaps : n # m => Busy(n)' = Busy(n)
        /\ Cardinality(Busy(m)') = Cardinality(Busy(m)) - 1 /\ Cardinality(Busy(m)) > 0
        /\ Cardinality(Busy(m)) \in Nat
    BY <2>2, BusyPut, BusyFinite
  <2>4. refcnt[m] = 1 + fds[m] + Cardinality(Busy(m)) /\ fds[m] \in 0..1
    BY DEF RefInv
  <2>5. refcnt[m] > 1 /\ refcnt[m] - 1 \in Nat
    BY <2>3, <2>4, SMTT(60)
  <2>6. refcnt' = [refcnt EXCEPT ![m] = @ - 1] /\ base' = [base EXCEPT ![m] = TRUE]
    BY <2>1, <2>5 DEF perf_mmap__put
  <2>7. refcnt' \in [Mmaps -> Nat] /\ base' \in [Mmaps -> BOOLEAN]
    BY <2>5, <2>6 DEF RefInv
  <2>8. \A n \in Mmaps : (refcnt[n] = 1 + fds[n] + Cardinality(Busy(n)) /\ base[n])'
    BY <2>3, <2>4, <2>6, SMTT(60) DEF RefInv
  <2>9. BlockInv'
    BY <2>2, SMTT(60) DEF BlockInv
  <2> QED
    BY <2>2, <2>7, <2>8, <2>9 DEF RefInv
<1>3. CASE cb.ret # cb.nbytes
  <2> DEFINE v == Request(cb.off + cb.ret, cb.from + cb.ret, cb.nbytes - cb.ret)
  <2>1. /\ cblocks' = [cblocks EXCEPT ![m][i] = v] /\ UNCHANGED <<refcnt, base>>
    BY <1>3 DEF record__aio_complete, RestartsAccepted
  <2>2. v \in Cblock /\ v.busy
    <3>1. cb.off + cb.ret \in Nat /\ cb.from + cb.ret \in Nat /\ cb.nbytes - cb.ret \in Nat
      <4>1. \A j, k \in Nat : j + k \in Nat /\ (k <= j => j - k \in Nat)
        BY SMTT(60)
      <4> QED
        BY <1>1, <4>1
    <3> QED
      BY <3>1, BlockTypes
  <2>3. /\ cblocks' \in [Mmaps -> [Blocks -> Cblock]] /\ cblocks'[m][i] = v
        /\ \A n \in Mmaps, j \in Blocks : n # m \/ j # i => cblocks'[n][j] = cblocks[n][j]
    BY <2>1, <2>2, PutBlock, SMTT(60)
  <2>4. \A n \in Mmaps : Busy(n)' = Busy(n)
    BY <2>2, <2>3 DEF Busy
  <2>5. /\ v.state = "EINPROGRESS" /\ v.ret = 0 /\ v.nbytes = cb.nbytes - cb.ret
    BY DEF Request
  <2>6. BlockInv'
    BY <1>1, <2>3, <2>5, SMTT(60) DEF BlockInv
  <2> QED
    BY <2>1, <2>3, <2>4, <2>6, SMTT(60) DEF RefInv
<1> QED
  BY <1>2, <1>3

\* The invariant of control and references.
RefsInv == ControlInv /\ BlockInv /\ RefInv

\* A turn of record__aio_sync moves on to the next block, or has found a free one.
LEMMA SyncBlockRef ==
  ASSUME RestartsAccepted, RefsInv, idx \in Mmaps, NEW all \in BOOLEAN, NEW next,
         SyncBlock(all, next), UNCHANGED <<fds, idx>>
  PROVE  /\ BlockInv' /\ RefInv' /\ cblocks' \in [Mmaps -> [Blocks -> Cblock]]
         /\ blk' \in 1..(NrCblocks + 1)
         /\ \/ UNCHANGED pc
            \/ pc' = next /\ blk' \in Blocks /\ ~cblocks'[idx'][blk'].busy
<1> USE RecordAioAssumption
<1> DEFINE cb == cblocks[idx][blk]
<1>1. blk \in Blocks /\ blk + 1 \in 1..(NrCblocks + 1)
  BY SMTT(60) DEF SyncBlock, Blocks
<1>2. BlockInv' /\ RefInv' /\ cblocks' \in [Mmaps -> [Blocks -> Cblock]]
  <2>1. CASE cb.busy /\ cb.state = "done"
    BY <1>1, <2>1, CompleteRef DEF RefsInv, ControlInv, SyncBlock
  <2>2. CASE ~(cb.busy /\ cb.state = "done")
    <3>1. UNCHANGED <<cblocks, refcnt, base, fds>>
      BY <2>2 DEF SyncBlock
    <3> QED
      BY <3>1 DEF RefsInv, ControlInv, RefInv, BlockInv, Busy
  <2> QED
    BY <2>1, <2>2
<1>3. ASSUME ~cb.busy \/ (cb.state = "done" /\ cb.ret = cb.nbytes)
      PROVE  ~cblocks'[idx][blk].busy
  <2>1. CASE ~cb.busy
    BY <2>1 DEF SyncBlock
  <2>2. CASE cb.busy
    <3>1. cblocks' = [cblocks EXCEPT ![idx][blk] = Free]
      BY <1>3, <2>2 DEF SyncBlock, record__aio_complete
    <3> QED
      BY <1>1, <3>1, PutBlock, BlockTypes, SMTT(60) DEF RefsInv, ControlInv
  <2> QED
    BY <2>1, <2>2
<1>4. \/ UNCHANGED pc /\ blk' = blk + 1
      \/ /\ pc' = next /\ UNCHANGED blk
         /\ ~cb.busy \/ (cb.state = "done" /\ cb.ret = cb.nbytes)
  BY DEF SyncBlock
<1> QED
  BY <1>1, <1>2, <1>3, <1>4, SMTT(60) DEF Blocks

\* What perf_mmap__aio_push copies: the units between prev and head.
Pushed == [k \in 1..(head[idx] - prev[idx]) |-> <<idx, prev[idx] + k>>]

\* They are at most what the ring buffer holds.
LEMMA PushedUnits ==
  ASSUME ControlInv, idx \in Mmaps
  PROVE  /\ Pushed \in Seq(Mmaps \X Nat)
         /\ Len(Pushed) \in 0..MaxUnits /\ Len(Pushed) \in Nat
         /\ Pushed # <<>> => Len(Pushed) > 0
<1>1. head[idx] \in 0..MaxUnits /\ prev[idx] \in 0..MaxUnits /\ prev[idx] <= head[idx]
  BY DEF ControlInv
<1>2. head[idx] - prev[idx] \in 0..MaxUnits /\ head[idx] - prev[idx] \in Nat
  BY <1>1, RecordAioAssumption, SMTT(60)
<1>3. \A k \in 1..(head[idx] - prev[idx]) : <<idx, prev[idx] + k>> \in Mmaps \X Nat
  BY <1>1, RecordAioAssumption, SMTT(60)
<1>4. Pushed \in Seq(Mmaps \X Nat) /\ Len(Pushed) = head[idx] - prev[idx]
  BY <1>2, <1>3, SMTT(60) DEF Pushed
<1>5. Pushed # <<>> => Len(Pushed) > 0
  BY <1>2, <1>4, SMTT(60)
<1> QED
  BY <1>2, <1>4, <1>5

\* perf_mmap__aio_push finds nothing, queues a request, or is refused one.
LEMMA AioPushCases ==
  ASSUME ControlInv, AioPush
  PROVE  /\ idx \in Mmaps /\ blk \in Blocks /\ ~cblocks[idx][blk].busy
         /\ UNCHANGED <<head, fds, file, pos, bkw, overwrite, idx, blk, errors, base>>
         /\ \/ /\ Pushed = <<>> /\ pc' = "aux"
               /\ UNCHANGED <<copy, prev, refcnt, cblocks, off, wrote, ideal>>
            \/ /\ Pushed # <<>> /\ pc' = "failed"
               /\ copy' = [copy EXCEPT ![idx][blk] = Pushed]
               /\ prev' = [prev EXCEPT ![idx] = head[idx]]
               /\ UNCHANGED <<refcnt, cblocks, off, wrote, ideal>>
            \/ /\ Pushed # <<>> /\ pc' = "aux"
               /\ copy' = [copy EXCEPT ![idx][blk] = Pushed]
               /\ prev' = [prev EXCEPT ![idx] = head[idx]]
               /\ refcnt' = [refcnt EXCEPT ![idx] = @ + 1]
               /\ cblocks' = [cblocks EXCEPT ![idx][blk] = Request(off, 1, Len(Pushed))]
               /\ off' = off + Len(Pushed) /\ wrote' = TRUE
               /\ ideal' = ideal \o Pushed
<1>1. idx \in Mmaps /\ blk \in Blocks /\ ~cblocks[idx][blk].busy
  BY DEF ControlInv, AioPush
<1> QED
  BY <1>1 DEF AioPush, Pushed, pass

\* The steps of the kernel and of the AIO library keep control and references.
LEMMA OutsideRefs ==
  ASSUME RefsInv, NEW m \in Mmaps
  PROVE  /\ KernelWrite(m) => RefsInv'
         /\ FilterPollfd(m) => RefsInv'
         /\ \A i \in Blocks : \A n \in 0..MaxUnits : AioDone(m, i, n) => RefsInv'
<1> USE RecordAioAssumption
<1>1. ASSUME KernelWrite(m) PROVE RefsInv'
  <2>1. head' \in [Mmaps -> 0..MaxUnits] /\ \A n \in Mmaps : prev[n] <= head'[n]
    BY <1>1, SMTT(60) DEF KernelWrite, RefsInv, ControlInv
  <2> QED
    BY <1>1, <2>1, SMTT(60) DEF KernelWrite, pass, RefsInv, ControlInv, BlockInv, RefInv, Busy
<1>2. ASSUME FilterPollfd(m) PROVE RefsInv'
  <2>1. ControlInv' /\ BlockInv'
    BY <1>2 DEF FilterPollfd, pass, RefsInv, ControlInv, BlockInv
  <2>2. \A n \in Mmaps : Busy(n)' = Busy(n)
    BY <1>2 DEF FilterPollfd, Busy
  <2>3. \A n \in Mmaps : Cardinality(Busy(n)) \in Nat
    BY BusyFinite
  <2>4. fds' \in [Mmaps -> 0..1]
    BY <1>2, SMTT(60) DEF FilterPollfd, RefsInv, RefInv
  <2>5. refcnt[m] = 2 + Cardinality(Busy(m)) /\ refcnt[m] - 1 \in Nat
    BY <1>2, <2>3, SMTT(60) DEF FilterPollfd, RefsInv, RefInv
  <2> QED
    BY <1>2, <2>1, <2>2, <2>3, <2>4, <2>5, SMTT(60) DEF FilterPollfd, RefsInv, RefInv
<1>3. ASSUME NEW i \in Blocks, NEW n \in 0..MaxUnits, AioDone(m, i, n)
      PROVE  RefsInv'
  <2>1. n \in Nat /\ cblocks \in [Mmaps -> [Blocks -> Cblock]]
    BY SMTT(60) DEF RefsInv, ControlInv
  <2>2. /\ cblocks' \in [Mmaps -> [Blocks -> Cblock]]
        /\ \A p \in Mmaps, j \in Blocks : p # m \/ j # i => cblocks'[p][j] = cblocks[p][j]
        /\ cblocks[m][i].busy /\ n <= cblocks[m][i].nbytes
        /\ cblocks'[m][i].busy /\ cblocks'[m][i].state = "done" /\ cblocks'[m][i].ret = n
        /\ cblocks'[m][i].nbytes = cblocks[m][i].nbytes
    BY <1>3, <2>1, DoneBlock, SMTT(60)
  <2>3. ControlInv'
    BY <1>3, <2>2 DEF AioDone, pass, RefsInv, ControlInv
  <2>4. BlockInv'
    BY <2>2, SMTT(60) DEF RefsInv, BlockInv
  <2>5. \A p \in Mmaps : Busy(p)' = Busy(p)
    BY <2>2 DEF Busy
  <2>6. RefInv'
    BY <1>3, <2>5 DEF AioDone, RefsInv, RefInv
  <2> QED
    BY <2>3, <2>4, <2>6 DEF RefsInv
<1> QED
  BY <1>1, <1>2, <1>3

\* The steps that read a buffer, or finish a pass, keep control and references.
LEMMA ProgramRefs ==
  ASSUME RestartsAccepted, RefsInv, Program
  PROVE  RefsInv'
<1> USE Sizes
<1>1. CASE PassBegin \/ OverwriteBegin
  <2>1. /\ UNCHANGED <<cblocks, pos, head, prev, fds, refcnt, base>>
        /\ pc' \in {"mmap", "loop"} /\ off' \in Nat
        /\ bkw' \in {"NOTREADY", "RUNNING", "DATA_PENDING", "EMPTY"}
        /\ overwrite' \in BOOLEAN
        /\ idx' \in 1..(NrMmaps + NrOverwrite + 1) /\ blk' \in 1..(NrCblocks + 1)
    BY <1>1 DEF PassBegin, OverwriteBegin, RefsInv, ControlInv
  <2> QED
    BY <2>1 DEF RefsInv, ControlInv, BlockInv, RefInv, Busy
<1>2. CASE PassSync
  <2> idx \in Mmaps
    BY <1>2, BufferOf DEF PassSync, RefsInv
  <2>1. CASE SyncBlock(FALSE, "push")
    <3>1. /\ BlockInv' /\ RefInv' /\ cblocks' \in [Mmaps -> [Blocks -> Cblock]]
          /\ blk' \in 1..(NrCblocks + 1)
          /\ \/ UNCHANGED pc
             \/ pc' = "push" /\ blk' \in Blocks /\ ~cblocks'[idx'][blk'].busy
      BY <1>2, <2>1, SyncBlockRef DEF PassSync
    <3>2. ControlInv'
      BY <1>2, <3>1 DEF PassSync, pass, RefsInv, ControlInv
    <3> QED
      BY <3>1, <3>2 DEF RefsInv
  <2>2. CASE Suspend
    <3>1. /\ pc = "mmap" /\ blk' = 1
          /\ UNCHANGED <<pc, idx, cblocks, pos, off, head, prev, fds, refcnt, base>>
          /\ UNCHANGED <<bkw, overwrite>>
      BY <1>2, <2>2 DEF PassSync, Suspend, pass
    <3>2. ControlInv'
      BY <3>1 DEF RefsInv, ControlInv
    <3>3. BlockInv' /\ RefInv'
      BY <3>1 DEF RefsInv, BlockInv, RefInv, Busy
    <3> QED
      BY <3>2, <3>3 DEF RefsInv
  <2> QED
    BY <1>2, <2>1, <2>2 DEF PassSync
<1>3. CASE AioPush
  <2>1. /\ idx \in Mmaps /\ blk \in Blocks /\ ~cblocks[idx][blk].busy
        /\ off \in Nat /\ cblocks \in [Mmaps -> [Blocks -> Cblock]]
        /\ UNCHANGED <<head, fds, pos, bkw, overwrite, idx, blk, base>>
    BY <1>3, AioPushCases DEF RefsInv, ControlInv
  <2>2. Len(Pushed) \in Nat
    BY <2>1, PushedUnits DEF RefsInv
  <2>3. CASE pc' = "aux" /\ UNCHANGED <<prev, refcnt, cblocks, off>>
    BY <2>1, <2>3 DEF RefsInv, ControlInv, BlockInv, RefInv, Busy
  <2>4. CASE /\ pc' = "failed" /\ prev' = [prev EXCEPT ![idx] = head[idx]]
             /\ UNCHANGED <<refcnt, cblocks, off>>
    <3>1. prev' \in [Mmaps -> 0..MaxUnits] /\ \A m \in Mmaps : prev'[m] <= head[m]
      BY <2>1, <2>4, SMTT(60) DEF RefsInv, ControlInv
    <3>2. ControlInv'
      BY <2>1, <2>4, <3>1 DEF RefsInv, ControlInv
    <3>3. BlockInv' /\ RefInv'
      BY <2>1, <2>4 DEF RefsInv, BlockInv, RefInv, Busy
    <3> QED
      BY <3>2, <3>3 DEF RefsInv
  <2>5. CASE /\ pc' = "aux" /\ prev' = [prev EXCEPT ![idx] = head[idx]]
             /\ refcnt' = [refcnt EXCEPT ![idx] = @ + 1]
             /\ cblocks' = [cblocks EXCEPT ![idx][blk] = Request(off, 1, Len(Pushed))]
             /\ off' = off + Len(Pushed)
    <3> DEFINE v == Request(off, 1, Len(Pushed))
    <3>1. prev' \in [Mmaps -> 0..MaxUnits] /\ \A m \in Mmaps : prev'[m] <= head[m]
      BY <2>1, <2>5, SMTT(60) DEF RefsInv, ControlInv
    <3>2. /\ v \in Cblock /\ v.busy /\ v.state = "EINPROGRESS" /\ v.ret = 0
          /\ v.nbytes = Len(Pushed)
      BY <2>1, <2>2 DEF Request, Cblock
    <3>3. /\ cblocks' \in [Mmaps -> [Blocks -> Cblock]] /\ cblocks'[idx][blk] = v
          /\ \A n \in Mmaps, j \in Blocks :
               n # idx \/ j # blk => cblocks'[n][j] = cblocks[n][j]
      <4>1. cblocks' = [cblocks EXCEPT ![idx][blk] = v]
        BY <2>5
      <4> HIDE DEF v
      <4> QED
        BY <2>1, <3>2, <4>1, PutBlock, SMTT(60)
    <3>4. off' \in Nat
      BY <2>1, <2>2, <2>5, SMTT(60)
    <3>5. ControlInv'
      BY <2>1, <2>5, <3>1, <3>3, <3>4 DEF RefsInv, ControlInv
    <3>6. BlockInv'
      <4> HIDE DEF v
      <4> QED
        BY <2>2, <3>2, <3>3, SMTT(60) DEF RefsInv, BlockInv
    <3>7. /\ \A n \in Mmaps : n # idx => Busy(n)' = Busy(n)
          /\ Cardinality(Busy(idx)') = Cardinality(Busy(idx)) + 1
          /\ Cardinality(Busy(idx)) \in Nat
      <4> HIDE DEF v
      <4> QED
        BY <2>1, <3>2, <3>3, BusyPut, BusyFinite
    <3>8. RefInv'
      <4>1. refcnt' \in [Mmaps -> Nat]
        BY <2>1, <2>5, SMTT(60) DEF RefsInv, RefInv
      <4>2. \A n \in Mmaps : refcnt'[n] = 1 + fds[n] + Cardinality(Busy(n)')
        <5>1. refcnt[idx] = 1 + fds[idx] + Cardinality(Busy(idx)) /\ fds[idx] \in 0..1
          BY <2>1 DEF RefsInv, RefInv
        <5>2. refcnt'[idx] = refcnt[idx] + 1
          BY <2>1, <2>5 DEF RefsInv, RefInv
        <5>3. refcnt'[idx] = 1 + fds[idx] + Cardinality(Busy(idx)')
          BY <3>7, <5>1, <5>2, SMTT(60)
        <5>4. \A n \in Mmaps : n # idx => refcnt'[n] = refcnt[n]
          BY <2>5 DEF RefsInv, RefInv
        <5>5. ASSUME NEW n \in Mmaps, n # idx
              PROVE  refcnt'[n] = 1 + fds[n] + Cardinality(Busy(n)')
          <6>1. refcnt[n] = 1 + fds[n] + Cardinality(Busy(n))
            BY DEF RefsInv, RefInv
          <6>2. Busy(n)' = Busy(n) /\ refcnt'[n] = refcnt[n]
            BY <3>7, <5>4, <5>5
          <6> QED
            BY <6>1, <6>2
        <5> QED
          <6>1. ASSUME NEW n \in Mmaps, n = idx
                PROVE  refcnt'[n] = 1 + fds[n] + Cardinality(Busy(n)')
            <7>1. Busy(idx)' = Busy(n)'
              BY <2>1, <6>1 DEF Busy
            <7> QED
              BY <5>3, <6>1, <7>1
          <6> QED
            BY <5>5, <6>1
      <4>3. \A n \in Mmaps : (Cardinality(Busy(n)))' = Cardinality(Busy(n)')
        OBVIOUS
      <4> QED
        BY <2>1, <4>1, <4>2, <4>3 DEF RefsInv, RefInv
    <3> QED
      BY <3>5, <3>6, <3>8 DEF RefsInv
  <2> QED
    BY <1>3, <2>3, <2>4, <2>5, AioPushCases DEF RefsInv
<1>4. CASE AuxRead
  <2>1. idx' = idx + 1 /\ idx \in Mmaps
    BY <1>4 DEF AuxRead, RefsInv, ControlInv
  <2>2. idx' \in 1..(NrMmaps + NrOverwrite + 1)
    BY <2>1, SMTT(60) DEF Mmaps
  <2>3. blk' \in 1..(NrCblocks + 1) /\ pos' \in Nat
    BY <1>4, SMTT(60) DEF AuxRead, RefsInv, ControlInv
  <2> QED
    BY <1>4, <2>2, <2>3 DEF AuxRead, pass, RefsInv, ControlInv, BlockInv, RefInv, Busy
<1>5. CASE PassEnd
  <2>1. pos' \in Nat
    BY <1>5, SMTT(60) DEF PassEnd, RefsInv, ControlInv
  <2>2. ControlInv'
    BY <1>5, <2>1 DEF PassEnd, RefsInv, ControlInv
  <2>3. BlockInv' /\ RefInv'
    BY <1>5 DEF PassEnd, RefsInv, BlockInv, RefInv, Busy
  <2> QED
    BY <2>2, <2>3 DEF RefsInv
<1>6. CASE PassFail
  BY <1>6 DEF PassFail, pass, RefsInv, ControlInv, BlockInv, RefInv, Busy
<1>7. CASE Finish
  BY <1>7 DEF Finish, pass, RefsInv, ControlInv, BlockInv, RefInv, Busy
<1>8. CASE SyncAll
  <2> idx \in Mmaps
    BY <1>8, BufferOf DEF SyncAll, RefsInv
  <2>1. CASE SyncBlock(TRUE, "sync_all")
    <3>1. /\ BlockInv' /\ RefInv' /\ cblocks' \in [Mmaps -> [Blocks -> Cblock]]
          /\ blk' \in 1..(NrCblocks + 1)
      BY <1>8, <2>1, SyncBlockRef DEF SyncAll
    <3>2. pc' = "sync_all"
      BY <1>8, <2>1 DEF SyncAll, SyncBlock
    <3>3. ControlInv'
      BY <1>8, <3>1, <3>2 DEF SyncAll, pass, RefsInv, ControlInv
    <3> QED
      BY <3>1, <3>3 DEF RefsInv
  <2>2. CASE Suspend
    <3>1. 1 \in 1..(NrCblocks + 1)
      BY Sizes, SMTT(60)
    <3> QED
      BY <1>8, <2>2, <3>1
      DEF SyncAll, Suspend, pass, RefsInv, ControlInv, BlockInv, RefInv, Busy
  <2> QED
    BY <1>8, <2>1, <2>2 DEF SyncAll
<1>9. CASE SyncNext
  <2>1. idx' = idx + 1 /\ idx \in Mmaps /\ blk' \in 1..(NrCblocks + 1)
    BY <1>9, BufferOf DEF SyncNext, RefsInv
  <2>2. ControlInv'
    <3>1. idx' \in 1..(NrMmaps + NrOverwrite + 1)
      BY <2>1, SMTT(60) DEF Mmaps
    <3> QED
      BY <1>9, <2>1, <3>1 DEF SyncNext, pass, RefsInv, ControlInv
  <2>3. BlockInv' /\ RefInv'
    BY <1>9 DEF SyncNext, RefsInv, BlockInv, RefInv, Busy
  <2> QED
    BY <2>2, <2>3 DEF RefsInv
<1>10. CASE SyncDone
  <2>1. ControlInv'
    BY <1>10 DEF SyncDone, pass, RefsInv, ControlInv
  <2>2. BlockInv' /\ RefInv'
    BY <1>10 DEF SyncDone, RefsInv, BlockInv, RefInv, Busy
  <2> QED
    BY <2>1, <2>2 DEF RefsInv
<1> QED
  BY <1>1, <1>2, <1>3, <1>4, <1>5, <1>6, <1>7, <1>8, <1>9, <1>10 DEF Program

\* No request, one reference of the buffer itself and one of its descriptor.
LEMMA InitRefs == Init => RefsInv
<1> SUFFICES ASSUME Init PROVE RefsInv
  OBVIOUS
<1> USE Sizes
<1>1. cblocks \in [Mmaps -> [Blocks -> Cblock]]
  BY BlockTypes DEF Init
<1>2. \A m \in Mmaps, i \in Blocks : ~cblocks[m][i].busy
  BY DEF Init, Free
<1>3. ControlInv
  <2>1. 0 \in 0..MaxUnits /\ 0 <= 0 /\ 0 \in Nat
    BY SMTT(60)
  <2> QED
    BY <1>1, <2>1 DEF Init, ControlInv
<1>4. \A m \in Mmaps : Cardinality(Busy(m)) = 0
  BY <1>2, FS_EmptySet DEF Busy
<1> QED
  BY <1>2, <1>3, <1>4, SMTT(60) DEF Init, RefsInv, BlockInv, RefInv

\* The references, for any number of buffers and blocks, with or without AUX
\* area data and refused requests: a request has one reference of its buffer
\* from perf_mmap__aio_push until record__aio_complete, and no buffer that is
\* waited for is unmapped.
THEOREM OneReferencePerRequestCorrect ==
  RestartsAccepted => (Spec => []OneReferencePerRequest)
<1> SUFFICES ASSUME RestartsAccepted PROVE Spec => []OneReferencePerRequest
  OBVIOUS
<1>1. RefsInv /\ [Next]_vars => RefsInv'
  <2> SUFFICES ASSUME RefsInv, [Next]_vars PROVE RefsInv'
    OBVIOUS
  <2>1. CASE Program
    BY <2>1, ProgramRefs
  <2>2. CASE Next /\ ~Program
    BY <2>2, OutsideRefs DEF Next
  <2>3. CASE UNCHANGED vars
    BY <2>3 DEF vars, pass, RefsInv, ControlInv, BlockInv, RefInv, Busy
  <2> QED
    BY <2>1, <2>2, <2>3 DEF Next
<1>2. RefsInv => OneReferencePerRequest
  BY DEF RefsInv, RefInv, OneReferencePerRequest, Busy
<1> QED
  BY <1>1, <1>2, InitRefs, PTL DEF Spec

-----------------------------------------------------------------------------
(* The file.                                                               *)

\* A hole is not a unit of output.
LEMMA HoleNoUnit == Hole \notin Unit
<1>1. 0 \notin Mmaps
  BY Sizes, SMTT(60) DEF Mmaps
<1> QED
  BY <1>1, SMTT(60) DEF Hole, Unit, ROUND, AuxData

\* What a write leaves in the file.
LEMMA WriteAtUnits ==
  ASSUME NEW f \in Seq(Unit \cup {Hole}), NEW o \in Nat, NEW units \in Seq(Unit)
  PROVE  LET g == WriteAt(f, o, units)
         IN  /\ g \in Seq(Unit \cup {Hole})
             /\ Len(g) = (IF Len(f) > o + Len(units) THEN Len(f) ELSE o + Len(units))
             /\ \A k \in 1..Len(g) :
                  g[k] = IF k \in (o + 1)..(o + Len(units)) THEN units[k - o]
                         ELSE IF k <= Len(f) THEN f[k] ELSE Hole
<1> DEFINE n == IF Len(f) > o + Len(units) THEN Len(f) ELSE o + Len(units)
           at(k) == IF k \in (o + 1)..(o + Len(units)) THEN units[k - o]
                    ELSE IF k <= Len(f) THEN f[k] ELSE Hole
           g == [k \in 1..n |-> at(k)]
<1>1. Len(f) \in Nat /\ Len(units) \in Nat /\ n \in Nat
  BY SMTT(60)
<1>2. ASSUME NEW k \in 1..n PROVE at(k) \in Unit \cup {Hole}
  <2>1. CASE k \in (o + 1)..(o + Len(units))
    <3>1. k - o \in 1..Len(units)
      BY <1>1, <2>1, SMTT(60)
    <3> QED
      BY <2>1, <3>1, SMTT(60)
  <2>2. CASE k \notin (o + 1)..(o + Len(units)) /\ k <= Len(f)
    <3>1. k \in 1..Len(f)
      BY <1>1, <2>2, SMTT(60)
    <3> QED
      BY <2>2, <3>1, SMTT(60)
  <2>3. CASE k \notin (o + 1)..(o + Len(units)) /\ ~(k <= Len(f))
    BY <2>3
  <2> QED
    BY <2>1, <2>2, <2>3
<1> HIDE DEF n, at
<1>3. g \in Seq(Unit \cup {Hole}) /\ Len(g) = n /\ \A k \in 1..n : g[k] = at(k)
  BY <1>1, <1>2, SMTT(60)
<1>4. WriteAt(f, o, units) = g
  BY DEF WriteAt, n, at
<1> QED
  BY <1>3, <1>4 DEF n, at

\* The positions of a write hold its units; all others are as before.
LEMMA WriteAtWritten ==
  ASSUME UnitInv, FileInv, NEW o \in Nat, NEW units \in Seq(Unit),
         file' = WriteAt(file, o, units)
  PROVE  /\ file' \in Seq(Unit \cup {Hole})
         /\ \/ Len(file') = Len(file) /\ o + Len(units) <= Len(file)
            \/ Len(file') = o + Len(units) /\ Len(file) <= o + Len(units)
         /\ \A k \in Nat : k \in (o + 1)..(o + Len(units)) =>
              Written(k)' /\ file'[k] = units[k - o]
         /\ \A k \in Nat \ {0} : k \notin (o + 1)..(o + Len(units)) =>
              /\ Written(k)' <=> Written(k)
              /\ Written(k) => file'[k] = file[k]
<1>1. file \in Seq(Unit \cup {Hole}) /\ Len(file) \in Nat /\ Len(units) \in Nat
  BY SMTT(60) DEF UnitInv
<1>2. /\ file' \in Seq(Unit \cup {Hole})
      /\ Len(file') = (IF Len(file) > o + Len(units) THEN Len(file) ELSE o + Len(units))
      /\ \A k \in 1..Len(file') :
           file'[k] = IF k \in (o + 1)..(o + Len(units)) THEN units[k - o]
                      ELSE IF k <= Len(file) THEN file[k] ELSE Hole
  BY <1>1, WriteAtUnits
<1>3. ASSUME NEW k \in Nat, k \in (o + 1)..(o + Len(units))
      PROVE  Written(k)' /\ file'[k] = units[k - o]
  <2>1. k \in 1..Len(file') /\ k - o \in 1..Len(units)
    BY <1>1, <1>2, <1>3, SMTT(60)
  <2>2. file'[k] = units[k - o] /\ units[k - o] \in Unit
    BY <1>2, <1>3, <2>1, SMTT(60)
  <2> QED
    BY <2>1, <2>2, HoleNoUnit, SMTT(60) DEF Written
<1>4. ASSUME NEW k \in Nat \ {0}, k \notin (o + 1)..(o + Len(units))
      PROVE  /\ Written(k)' <=> Written(k)
             /\ Written(k) => file'[k] = file[k]
  <2>1. CASE k <= Len(file)
    <3>1. k \in 1..Len(file')
      BY <1>1, <1>2, <2>1, SMTT(60)
    <3>2. file'[k] = file[k]
      BY <1>2, <1>4, <2>1, <3>1
    <3> QED
      BY <2>1, <3>1, <3>2, SMTT(60) DEF Written
  <2>2. CASE ~(k <= Len(file))
    <3>1. ~Written(k)
      BY <2>2 DEF Written
    <3>2. k <= Len(file') => file'[k] = Hole
      BY <1>1, <1>2, <1>4, <2>2, SMTT(60)
    <3> QED
      BY <3>1, <3>2 DEF Written
  <2> QED
    BY <2>1, <2>2
<1>5. \/ Len(file') = Len(file) /\ o + Len(units) <= Len(file)
      \/ Len(file') = o + Len(units) /\ Len(file) <= o + Len(units)
  <2>1. Len(file') = (IF Len(file) > o + Len(units) THEN Len(file) ELSE o + Len(units))
    BY <1>2
  <2> QED
    BY <1>1, <2>1, SMTT(60)
<1> QED
  BY <1>2, <1>3, <1>4, <1>5

\* What a request writes of its copy.
LEMMA SubSeqUnits ==
  ASSUME NEW s \in Seq(Unit), NEW f \in Nat \ {0}, NEW n \in Nat \ {0},
         f + n <= Len(s) + 1
  PROVE  /\ SubSeq(s, f, f + n - 1) \in Seq(Unit)
         /\ Len(SubSeq(s, f, f + n - 1)) = n
         /\ \A j \in 1..n : SubSeq(s, f, f + n - 1)[j] = s[f + j - 1]
<1>1. f \in 1..(Len(s) + 1) /\ f + n - 1 \in (f - 1)..Len(s) /\ (f + n - 1) - f + 1 = n
  BY SMTT(60)
<1>2. \A j \in 1..n : f + j - 1 \in 1..Len(s)
  BY SMTT(60)
<1>3. SubSeq(s, f, f + n - 1) \in Seq(Unit) /\ Len(SubSeq(s, f, f + n - 1)) = n
  BY <1>1, SMTT(60)
<1>4. \A j \in 1..n : SubSeq(s, f, f + n - 1)[j] = s[f + j - 1]
  BY <1>1, <1>2, SMTT(60)
<1> QED
  BY <1>3, <1>4

\* What does not touch the blocks, the copies and the file keeps what is said of them.
LEMMA FileFrame ==
  ASSUME AioInv, UNCHANGED <<cblocks, copy, ideal, file>>
  PROVE  /\ wrote' \in BOOLEAN => UnitInv'
         /\ RequestInv' /\ FileInv'
BY SMTT(60) DEF AioInv, UnitInv, RequestInv, FileInv, Written, Covers

\* A request that ends has put the first units it asked for in their places.
LEMMA AioDoneFile ==
  ASSUME RefsInv, AioInv, NEW m \in Mmaps, NEW i \in Blocks, NEW n \in 0..MaxUnits,
         AioDone(m, i, n)
  PROVE  AioInv'
<1> DEFINE cb == cblocks[m][i]
           o == cb.off
           units == SubSeq(copy[m][i], cb.from, cb.from + n - 1)
<1>1. n \in Nat /\ cblocks \in [Mmaps -> [Blocks -> Cblock]] /\ cb \in Cblock
  BY Sizes, SMTT(60) DEF RefsInv, ControlInv
<1>2. /\ cblocks' \in [Mmaps -> [Blocks -> Cblock]]
      /\ \A p \in Mmaps, j \in Blocks : p # m \/ j # i => cblocks'[p][j] = cblocks[p][j]
      /\ cb.busy /\ cb.state = "EINPROGRESS" /\ n <= cb.nbytes
      /\ cblocks'[m][i].busy /\ cblocks'[m][i].ret = n
      /\ cblocks'[m][i].off = cb.off /\ cblocks'[m][i].from = cb.from
      /\ cblocks'[m][i].nbytes = cb.nbytes
  BY <1>1, DoneBlock, SMTT(60)
<1>3. /\ o \in Nat /\ cb.from \in Nat /\ cb.nbytes \in Nat /\ cb.ret = 0
  BY <1>1, <1>2 DEF Cblock, RefsInv, BlockInv
<1>4. /\ cb.from > 0 /\ cb.from + cb.nbytes <= Len(copy[m][i]) + 1
      /\ cb.off + cb.nbytes <= Len(ideal)
      /\ \A j \in 0..(cb.nbytes - 1) : copy[m][i][cb.from + j] = ideal[cb.off + 1 + j]
  BY <1>2 DEF AioInv, RequestInv
<1>5. UNCHANGED <<copy, ideal, wrote, pc, idx, pos, off>>
  BY DEF AioDone
<1>6. /\ copy[m][i] \in Seq(Unit) /\ ideal \in Seq(Unit) /\ Len(ideal) \in Nat
      /\ Len(copy[m][i]) \in Nat
  BY SMTT(60) DEF AioInv, UnitInv
<1>7. RequestInv'
  <2> SUFFICES ASSUME NEW p \in Mmaps, NEW j \in Blocks, cblocks'[p][j].busy
               PROVE  LET b == cblocks'[p][j]
                      IN  /\ b.nbytes \in 1..MaxUnits
                          /\ b.from > 0 /\ b.from + b.nbytes <= Len(copy[p][j]) + 1
                          /\ b.off + b.nbytes <= Len(ideal)
                          /\ \A q \in 0..(b.nbytes - 1) :
                               copy[p][j][b.from + q] = ideal[b.off + 1 + q]
    BY <1>5 DEF RequestInv
  <2>1. /\ cblocks[p][j].busy /\ cblocks'[p][j].nbytes = cblocks[p][j].nbytes
        /\ cblocks'[p][j].from = cblocks[p][j].from
        /\ cblocks'[p][j].off = cblocks[p][j].off
    BY <1>2
  <2>2. LET b == cblocks[p][j]
        IN  /\ b.nbytes \in 1..MaxUnits
            /\ b.from > 0 /\ b.from + b.nbytes <= Len(copy[p][j]) + 1
            /\ b.off + b.nbytes <= Len(ideal)
            /\ \A q \in 0..(b.nbytes - 1) :
                 copy[p][j][b.from + q] = ideal[b.off + 1 + q]
    BY <2>1 DEF AioInv, RequestInv
  <2> QED
    BY <2>1, <2>2
<1>8. /\ file' \in Seq(Unit \cup {Hole}) /\ Len(file') <= Len(ideal)
      /\ \A k \in 1..Len(ideal) : k \in (o + 1)..(o + n) =>
           Written(k)' /\ file'[k] = ideal[k]
      /\ \A k \in 1..Len(ideal) : k \notin (o + 1)..(o + n) =>
           /\ Written(k)' <=> Written(k)
           /\ Written(k) => file'[k] = file[k]
  <2>1. CASE n = 0
    <3>1. UNCHANGED file
      BY <2>1 DEF AioDone
    <3>2. \A k \in 1..Len(ideal) : k \notin (o + 1)..(o + n)
      BY <1>3, <2>1, SMTT(60)
    <3>3. \A k : Written(k)' <=> Written(k)
      BY <3>1 DEF Written
    <3> QED
      BY <3>1, <3>2, <3>3 DEF AioInv, FileInv, UnitInv
  <2>2. CASE n # 0
    <3>1. file' = WriteAt(file, o, units)
      BY <2>2 DEF AioDone
    <3>2. /\ units \in Seq(Unit) /\ Len(units) = n
          /\ \A j \in 1..n : units[j] = copy[m][i][cb.from + j - 1]
      <4>1. n \in Nat \ {0} /\ cb.from \in Nat \ {0} /\ cb.from + n <= Len(copy[m][i]) + 1
        BY <1>1, <1>2, <1>3, <1>4, <1>6, <2>2, SMTT(60)
      <4> QED
        BY <1>6, <4>1, SubSeqUnits
    <3>3. \A j \in 1..n : units[j] = ideal[o + j]
      <4> SUFFICES ASSUME NEW j \in 1..n PROVE units[j] = ideal[o + j]
        OBVIOUS
      <4>1. j - 1 \in 0..(cb.nbytes - 1)
        BY <1>1, <1>2, <1>3, SMTT(60)
      <4>2. copy[m][i][cb.from + (j - 1)] = ideal[cb.off + 1 + (j - 1)]
        BY <1>4, <4>1
      <4>3. cb.from + (j - 1) = cb.from + j - 1 /\ cb.off + 1 + (j - 1) = o + j
        BY <1>3, SMTT(60)
      <4> HIDE DEF units
      <4> QED
        BY <3>2, <4>2, <4>3
    <3> HIDE DEF units, o
    <3>4. /\ file' \in Seq(Unit \cup {Hole})
          /\ \/ Len(file') = Len(file) /\ o + n <= Len(file)
             \/ Len(file') = o + n /\ Len(file) <= o + n
          /\ \A k \in Nat : k \in (o + 1)..(o + n) => Written(k)' /\ file'[k] = units[k - o]
          /\ \A k \in Nat \ {0} : k \notin (o + 1)..(o + n) =>
               /\ Written(k)' <=> Written(k)
               /\ Written(k) => file'[k] = file[k]
      <4>1. o \in Nat /\ UnitInv /\ FileInv
        BY <1>3 DEF AioInv, o
      <4> QED
        BY <2>2, <3>1, <3>2, <4>1, WriteAtWritten
    <3>5. o + n <= Len(ideal)
      BY <1>1, <1>2, <1>3, <1>4, <1>6, SMTT(60) DEF o
    <3>6. Len(file') <= Len(ideal)
      BY <3>4, <3>5 DEF AioInv, FileInv
    <3>7. ASSUME NEW k \in 1..Len(ideal), k \in (o + 1)..(o + n)
          PROVE  Written(k)' /\ file'[k] = ideal[k]
      <4>1. k - o \in 1..n /\ o + (k - o) = k /\ k \in Nat
        BY <1>1, <1>3, <3>7, SMTT(60) DEF o
      <4> QED
        BY <3>3, <3>4, <3>7, <4>1
    <3>8. \A k \in 1..Len(ideal) : k \in Nat \ {0}
      BY SMTT(60)
    <3> QED
      BY <3>4, <3>6, <3>7, <3>8
  <2> QED
    BY <2>1, <2>2
<1>9. ASSUME NEW k \in 1..Len(ideal)
      PROVE  \/ Written(k)' /\ file'[k] = ideal[k]
             \/ ~Written(k)' /\ \E p \in Mmaps, j \in Blocks : Covers(p, j, k)'
  <2>1. CASE k \in (o + 1)..(o + n)
    BY <1>8, <2>1
  <2>2. CASE k \notin (o + 1)..(o + n) /\ Written(k)
    BY <1>8, <2>2 DEF AioInv, FileInv
  <2>3. CASE k \notin (o + 1)..(o + n) /\ ~Written(k)
    <3>1. PICK p \in Mmaps, j \in Blocks : Covers(p, j, k)
      BY <2>3 DEF AioInv, FileInv
    <3>2. CASE p # m \/ j # i
      <4>1. Covers(p, j, k)'
        BY <1>2, <3>1, <3>2 DEF Covers
      <4> QED
        BY <1>8, <2>3, <4>1
    <3>3. CASE p = m /\ j = i
      <4>1. o < k /\ k <= o + cb.nbytes
        BY <1>3, <3>1, <3>3, SMTT(60) DEF Covers
      <4>2. o + n < k
        BY <1>1, <1>3, <2>3, <4>1, SMTT(60)
      <4>3. Covers(m, i, k)'
        BY <1>2, <4>1, <4>2 DEF Covers
      <4> QED
        BY <1>8, <2>3, <4>3
    <3> QED
      BY <3>2, <3>3
  <2> QED
    BY <2>1, <2>2, <2>3
<1>10. FileInv'
  BY <1>5, <1>8, <1>9 DEF FileInv
<1>11. UnitInv' /\ OffsetInv'
  BY <1>5, <1>8 DEF AioInv, UnitInv, OffsetInv
<1>12. SyncInv'
  BY <1>2, <1>5, Sizes DEF AioInv, SyncInv
<1> QED
  BY <1>7, <1>10, <1>11, <1>12 DEF AioInv

\* A restarted request asks for what its block has still to write, and a block
\* that is freed has nothing left to write.
LEMMA CompleteFile ==
  ASSUME RestartsAccepted, RefsInv, AioInv, NEW m \in Mmaps, NEW i \in Blocks,
         cblocks[m][i].busy, record__aio_complete(m, i), UNCHANGED <<copy, ideal, file>>
  PROVE  /\ RequestInv' /\ FileInv'
         /\ \A p \in Mmaps, j \in Blocks : cblocks'[p][j].busy => cblocks[p][j].busy
<1> DEFINE cb == cblocks[m][i]
           v == IF cb.ret = cb.nbytes THEN Free
                ELSE Request(cb.off + cb.ret, cb.from + cb.ret, cb.nbytes - cb.ret)
<1>1. /\ cblocks \in [Mmaps -> [Blocks -> Cblock]] /\ cb \in Cblock
      /\ cb.off \in Nat /\ cb.from \in Nat /\ cb.nbytes \in Nat /\ cb.ret \in Nat
      /\ cb.ret <= cb.nbytes
  BY DEF RefsInv, ControlInv, BlockInv, Cblock
<1>2. cblocks' = [cblocks EXCEPT ![m][i] = v]
  BY DEF record__aio_complete, RestartsAccepted
<1>3. /\ v \in Cblock
      /\ v.busy => /\ v.off = cb.off + cb.ret /\ v.from = cb.from + cb.ret
                   /\ v.nbytes = cb.nbytes - cb.ret /\ v.ret = 0
                   /\ cb.ret # cb.nbytes
      /\ ~v.busy => cb.ret = cb.nbytes
  <2>1. cb.off + cb.ret \in Nat /\ cb.from + cb.ret \in Nat /\ cb.nbytes - cb.ret \in Nat
    BY <1>1, SMTT(60)
  <2> QED
    BY <2>1 DEF Request, Free, Cblock
<1>4. /\ cb.nbytes \in 1..MaxUnits
      /\ cb.from > 0 /\ cb.from + cb.nbytes <= Len(copy[m][i]) + 1
      /\ cb.off + cb.nbytes <= Len(ideal)
      /\ \A j \in 0..(cb.nbytes - 1) : copy[m][i][cb.from + j] = ideal[cb.off + 1 + j]
  BY DEF AioInv, RequestInv
<1>5. Len(copy[m][i]) \in Nat /\ Len(ideal) \in Nat
  BY SMTT(60) DEF AioInv, UnitInv
<1> HIDE DEF v
<1>6. /\ cblocks'[m][i] = v
      /\ \A p \in Mmaps, j \in Blocks : p # m \/ j # i => cblocks'[p][j] = cblocks[p][j]
  BY <1>1, <1>2, <1>3, PutBlock, SMTT(60)
<1>7. RequestInv'
  <2> SUFFICES ASSUME NEW p \in Mmaps, NEW j \in Blocks, cblocks'[p][j].busy
               PROVE  LET b == cblocks'[p][j]
                      IN  /\ b.nbytes \in 1..MaxUnits
                          /\ b.from > 0 /\ b.from + b.nbytes <= Len(copy[p][j]) + 1
                          /\ b.off + b.nbytes <= Len(ideal)
                          /\ \A q \in 0..(b.nbytes - 1) :
                               copy[p][j][b.from + q] = ideal[b.off + 1 + q]
    BY DEF RequestInv
  <2>1. CASE p # m \/ j # i
    <3>1. cblocks'[p][j] = cblocks[p][j]
      BY <1>6, <2>1
    <3> QED
      BY <3>1, SMTT(60) DEF AioInv, RequestInv
  <2>2. CASE p = m /\ j = i
    <3>1. /\ cblocks'[p][j] = v /\ v.off = cb.off + cb.ret /\ v.from = cb.from + cb.ret
          /\ v.nbytes = cb.nbytes - cb.ret /\ cb.ret # cb.nbytes
      BY <1>3, <1>6, <2>2
    <3>2. /\ v.nbytes \in 1..MaxUnits
          /\ v.from > 0 /\ v.from + v.nbytes <= Len(copy[m][i]) + 1
          /\ v.off + v.nbytes <= Len(ideal)
      <4>1. /\ v.from + v.nbytes = cb.from + cb.nbytes
            /\ v.off + v.nbytes = cb.off + cb.nbytes
        BY <1>1, <3>1, SMTT(60)
      <4>2. v.nbytes \in 1..MaxUnits /\ v.from > 0
        <5>1. \A n \in 1..MaxUnits, x \in Nat, f \in Nat :
                x <= n /\ x # n /\ f > 0 => n - x \in 1..MaxUnits /\ f + x > 0
          BY Sizes, SMTT(60)
        <5> QED
          BY <1>1, <1>4, <3>1, <5>1
      <4> QED
        BY <1>4, <4>1, <4>2
    <3>3. ASSUME NEW q \in 0..(v.nbytes - 1)
          PROVE  copy[m][i][v.from + q] = ideal[v.off + 1 + q]
      <4>1. cb.ret + q \in 0..(cb.nbytes - 1)
        BY <1>1, <3>1, SMTT(60)
      <4>2. copy[m][i][cb.from + (cb.ret + q)] = ideal[cb.off + 1 + (cb.ret + q)]
        BY <1>4, <4>1
      <4>3. /\ cb.from + (cb.ret + q) = v.from + q
            /\ cb.off + 1 + (cb.ret + q) = v.off + 1 + q
        BY <1>1, <3>1, SMTT(60)
      <4> QED
        BY <4>2, <4>3
    <3> QED
      BY <2>2, <3>1, <3>2, <3>3
  <2> QED
    BY <2>1, <2>2
<1>8. ASSUME NEW k \in 1..Len(ideal), NEW p \in Mmaps, NEW j \in Blocks, Covers(p, j, k)
      PROVE  Covers(p, j, k)'
  <2>1. CASE p # m \/ j # i
    BY <1>6, <1>8, <2>1 DEF Covers
  <2>2. CASE p = m /\ j = i
    <3>1. cb.off + cb.ret < k /\ k <= cb.off + cb.nbytes
      BY <1>8, <2>2 DEF Covers
    <3>2. cb.ret # cb.nbytes
      BY <1>1, <3>1, SMTT(60)
    <3>3. v.busy
      BY <1>3, <3>2
    <3>4. v.off + v.ret = cb.off + cb.ret /\ v.off + v.nbytes = cb.off + cb.nbytes
      BY <1>1, <1>3, <3>3, SMTT(60)
    <3> QED
      BY <1>6, <2>2, <3>1, <3>3, <3>4 DEF Covers
  <2> QED
    BY <2>1, <2>2
<1>9. FileInv'
  BY <1>8 DEF AioInv, FileInv, Written
<1> QED
  BY <1>6, <1>7, <1>9

\* A turn of record__aio_sync keeps the file, and frees blocks only.
LEMMA SyncBlockFile ==
  ASSUME RestartsAccepted, RefsInv, AioInv, idx \in Mmaps, NEW all \in BOOLEAN, NEW next,
         SyncBlock(all, next), UNCHANGED <<copy, ideal, file>>
  PROVE  /\ RequestInv' /\ FileInv'
         /\ \A p \in Mmaps, j \in Blocks : cblocks'[p][j].busy => cblocks[p][j].busy
<1> DEFINE cb == cblocks[idx][blk]
<1>1. CASE cb.busy /\ cb.state = "done"
  <2>1. blk \in Blocks /\ record__aio_complete(idx, blk)
    BY <1>1 DEF SyncBlock
  <2> QED
    BY <1>1, <2>1, CompleteFile
<1>2. CASE ~(cb.busy /\ cb.state = "done")
  <2>1. UNCHANGED cblocks
    BY <1>2 DEF SyncBlock
  <2> QED
    BY <2>1, FileFrame
<1> QED
  BY <1>1, <1>2

\* A queued request covers what was appended; the block it uses had no request,
\* so no copy changes under one.
LEMMA AioPushFile ==
  ASSUME RefsInv, AioInv, AioPush
  PROVE  AioInv'
<1> DEFINE n == Len(ideal)
           v == Request(off, 1, Len(Pushed))
<1>1. /\ idx \in Mmaps /\ blk \in Blocks /\ ~cblocks[idx][blk].busy
      /\ UNCHANGED <<file, pos, idx>>
      /\ pc = "push" /\ off = n /\ off \in Nat /\ n \in Nat /\ ideal \in Seq(Unit)
      /\ cblocks \in [Mmaps -> [Blocks -> Cblock]]
      /\ copy \in [Mmaps -> [Blocks -> Seq(Unit)]]
  BY AioPushCases DEF RefsInv, ControlInv, AioInv, OffsetInv, UnitInv, AioPush
<1>2. /\ Pushed \in Seq(Unit) /\ Len(Pushed) \in 0..MaxUnits /\ Len(Pushed) \in Nat
      /\ Pushed # <<>> => Len(Pushed) > 0
  <2>1. Pushed \in Seq(Mmaps \X Nat) /\ Mmaps \X Nat \subseteq Unit
    BY <1>1, PushedUnits DEF RefsInv, Unit
  <2>2. Pushed \in Seq(Unit)
    BY <2>1, SMTT(60)
  <2> QED
    BY <1>1, <2>2, PushedUnits DEF RefsInv
<1>3. CASE pc' = "aux" /\ UNCHANGED <<copy, cblocks, off, wrote, ideal>>
  <2>1. UnitInv' /\ RequestInv' /\ FileInv'
    BY <1>1, <1>3, FileFrame DEF AioInv, UnitInv
  <2>2. OffsetInv' /\ SyncInv'
    BY <1>1, <1>3 DEF AioInv, OffsetInv, SyncInv
  <2> QED
    BY <2>1, <2>2 DEF AioInv
<1>4. ASSUME copy' = [copy EXCEPT ![idx][blk] = Pushed]
      PROVE  /\ copy' \in [Mmaps -> [Blocks -> Seq(Unit)]]
             /\ copy'[idx][blk] = Pushed
             /\ \A p \in Mmaps, j \in Blocks : p # idx \/ j # blk => copy'[p][j] = copy[p][j]
  BY <1>1, <1>2, <1>4, PutBlock, SMTT(60)
<1>5. CASE /\ pc' = "failed" /\ copy' = [copy EXCEPT ![idx][blk] = Pushed]
           /\ UNCHANGED <<cblocks, off, wrote, ideal>>
  <2>1. UnitInv' /\ OffsetInv' /\ SyncInv'
    BY <1>1, <1>4, <1>5 DEF AioInv, UnitInv, OffsetInv, SyncInv
  <2>2. \A p \in Mmaps, j \in Blocks : cblocks[p][j].busy => copy'[p][j] = copy[p][j]
    BY <1>1, <1>4, <1>5
  <2>3. RequestInv'
    BY <1>5, <2>2, SMTT(60) DEF AioInv, RequestInv
  <2>4. FileInv'
    BY <1>1, <1>5 DEF AioInv, FileInv, Written, Covers
  <2> QED
    BY <2>1, <2>3, <2>4 DEF AioInv
<1>6. CASE /\ Pushed # <<>> /\ pc' = "aux" /\ copy' = [copy EXCEPT ![idx][blk] = Pushed]
           /\ cblocks' = [cblocks EXCEPT ![idx][blk] = Request(off, 1, Len(Pushed))]
           /\ off' = off + Len(Pushed) /\ wrote' = TRUE /\ ideal' = ideal \o Pushed
  <2>1. /\ v \in Cblock /\ v.busy /\ v.off = n /\ v.from = 1 /\ v.ret = 0
        /\ v.nbytes = Len(Pushed)
    BY <1>1, <1>2 DEF Request, Cblock
  <2>2. /\ cblocks'[idx][blk] = v
        /\ \A p \in Mmaps, j \in Blocks : p # idx \/ j # blk => cblocks'[p][j] = cblocks[p][j]
    <3>1. cblocks' = [cblocks EXCEPT ![idx][blk] = v]
      BY <1>6
    <3> HIDE DEF v
    <3> QED
      BY <1>1, <2>1, <3>1, PutBlock, SMTT(60)
  <2> HIDE DEF v
  <2>3. /\ ideal' \in Seq(Unit) /\ Len(ideal') = n + Len(Pushed)
        /\ \A k \in 1..n : ideal'[k] = ideal[k]
        /\ \A k \in 1..Len(Pushed) : ideal'[n + k] = Pushed[k]
    BY <1>1, <1>2, <1>6, SMTT(60)
  <2>4. UnitInv' /\ OffsetInv' /\ SyncInv'
    BY <1>1, <1>4, <1>6, <2>3 DEF AioInv, UnitInv, OffsetInv, SyncInv
  <2>5. RequestInv'
    <3> SUFFICES ASSUME NEW p \in Mmaps, NEW j \in Blocks, cblocks'[p][j].busy
                 PROVE  LET b == cblocks'[p][j]
                        IN  /\ b.nbytes \in 1..MaxUnits
                            /\ b.from > 0 /\ b.from + b.nbytes <= Len(copy'[p][j]) + 1
                            /\ b.off + b.nbytes <= Len(ideal')
                            /\ \A q \in 0..(b.nbytes - 1) :
                                 copy'[p][j][b.from + q] = ideal'[b.off + 1 + q]
      BY DEF RequestInv
    <3>1. CASE p = idx /\ j = blk
      <4>1. cblocks'[p][j] = v /\ copy'[p][j] = Pushed
        BY <1>4, <1>6, <2>2, <3>1
      <4>2. \A q \in 0..(Len(Pushed) - 1) : Pushed[1 + q] = ideal'[n + 1 + q]
        <5> SUFFICES ASSUME NEW q \in 0..(Len(Pushed) - 1)
                     PROVE  Pushed[1 + q] = ideal'[n + 1 + q]
          OBVIOUS
        <5>1. 1 + q \in 1..Len(Pushed) /\ n + (1 + q) = n + 1 + q
          BY <1>1, <1>2, SMTT(60)
        <5> QED
          BY <2>3, <5>1
      <4>3. Len(Pushed) \in 1..MaxUnits /\ 1 + Len(Pushed) <= Len(Pushed) + 1
        BY <1>2, <1>6, SMTT(60)
      <4>4. /\ v.nbytes \in 1..MaxUnits /\ v.from > 0
            /\ v.from + v.nbytes <= Len(Pushed) + 1 /\ v.off + v.nbytes <= Len(ideal')
        BY <1>1, <1>2, <2>1, <2>3, <4>3, SMTT(60)
      <4>5. \A q \in 0..(v.nbytes - 1) : Pushed[v.from + q] = ideal'[v.off + 1 + q]
        BY <2>1, <4>2
      <4> QED
        BY <4>1, <4>4, <4>5
    <3>2. CASE p # idx \/ j # blk
      <4> DEFINE b == cblocks[p][j]
      <4>1. cblocks'[p][j] = b /\ copy'[p][j] = copy[p][j] /\ b.busy
        BY <1>4, <1>6, <2>2, <3>2
      <4>2. /\ b.nbytes \in 1..MaxUnits
            /\ b.from > 0 /\ b.from + b.nbytes <= Len(copy[p][j]) + 1
            /\ b.off + b.nbytes <= n
            /\ \A q \in 0..(b.nbytes - 1) : copy[p][j][b.from + q] = ideal[b.off + 1 + q]
        BY <4>1 DEF AioInv, RequestInv
      <4>3. b.off \in Nat /\ b.nbytes \in Nat
        BY <1>1 DEF Cblock
      <4>4. \A q \in 0..(b.nbytes - 1) : b.off + 1 + q \in 1..n
        BY <1>1, <4>2, <4>3, SMTT(60)
      <4>5. b.off + b.nbytes <= Len(ideal')
        BY <1>1, <1>2, <2>3, <4>2, <4>3, SMTT(60)
      <4>6. \A q \in 0..(b.nbytes - 1) : copy[p][j][b.from + q] = ideal'[b.off + 1 + q]
        BY <2>3, <4>2, <4>4
      <4> HIDE DEF b
      <4> QED
        BY <4>1, <4>2, <4>5, <4>6
    <3> QED
      BY <3>1, <3>2
  <2>6. ASSUME NEW k \in 1..Len(ideal')
        PROVE  \/ Written(k)' /\ file'[k] = ideal'[k]
               \/ ~Written(k)' /\ \E p \in Mmaps, j \in Blocks : Covers(p, j, k)'
    <3>1. Written(k)' <=> Written(k)
      BY <1>1 DEF Written
    <3>2. CASE k <= n
      <4>1. k \in 1..n
        <5>1. n \in Nat /\ Len(ideal') \in Nat
          BY <1>1, <1>2, <2>3, SMTT(60)
        <5> HIDE DEF n
        <5> QED
          BY <3>2, <5>1, SMTT(60)
      <4>2. ideal'[k] = ideal[k]
        BY <2>3, <4>1
      <4>3. \A p \in Mmaps, j \in Blocks : Covers(p, j, k) => Covers(p, j, k)'
        BY <1>1, <2>2 DEF Covers
      <4> QED
        BY <1>1, <3>1, <4>1, <4>2, <4>3 DEF AioInv, FileInv
    <3>3. CASE ~(k <= n)
      <4>1. ~Written(k)
        BY <1>1, <3>3, SMTT(60) DEF Written, AioInv, FileInv, UnitInv
      <4>2. n + 0 < k /\ k <= n + Len(Pushed)
        BY <1>1, <1>2, <2>3, <3>3, SMTT(60)
      <4>3. cblocks'[idx][blk].busy /\ cblocks'[idx][blk].off + cblocks'[idx][blk].ret < k
            /\ k <= cblocks'[idx][blk].off + cblocks'[idx][blk].nbytes
        BY <2>1, <2>2, <4>2
      <4>4. \E p \in Mmaps, j \in Blocks : Covers(p, j, k)'
        BY <1>1, <4>3 DEF Covers
      <4> QED
        BY <3>1, <4>1, <4>4
    <3> QED
      BY <3>2, <3>3
  <2>7. Len(file') <= Len(ideal')
    BY <1>1, <1>2, <2>3, SMTT(60) DEF AioInv, FileInv, UnitInv
  <2>8. FileInv'
    BY <2>6, <2>7 DEF FileInv
  <2> QED
    BY <2>4, <2>5, <2>8 DEF AioInv
<1> QED
  BY <1>3, <1>5, <1>6, AioPushCases DEF RefsInv

\* The FINISHED_ROUND goes behind what all requests of the pass write.
LEMMA PassEndFile ==
  ASSUME RefsInv, AioInv, PassEnd
  PROVE  AioInv'
<1> DEFINE n == Len(ideal)
<1>1. /\ pc' \in {"loop", "overwrite"} /\ UNCHANGED <<cblocks, copy, wrote, idx>>
      /\ off = n /\ off \in Nat /\ n \in Nat /\ ideal \in Seq(Unit)
  BY DEF PassEnd, RefsInv, ControlInv, AioInv, OffsetInv, UnitInv
<1>2. SyncInv'
  BY <1>1 DEF SyncInv
<1>3. CASE ~wrote
  <2>1. pos' = off /\ UNCHANGED <<file, ideal>>
    BY <1>3 DEF PassEnd
  <2>2. UnitInv' /\ RequestInv' /\ FileInv'
    BY <1>1, <2>1, FileFrame DEF AioInv, UnitInv
  <2>3. OffsetInv'
    BY <1>1, <2>1 DEF OffsetInv
  <2> QED
    BY <1>2, <2>2, <2>3 DEF AioInv
<1>4. CASE wrote
  <2>1. /\ file' = WriteAt(file, n, <<ROUND>>) /\ pos' = n + 1
        /\ ideal' = Append(ideal, ROUND)
    BY <1>1, <1>4 DEF PassEnd
  <2>2. <<ROUND>> \in Seq(Unit) /\ Len(<<ROUND>>) = 1 /\ ROUND \in Unit
    BY SMTT(60) DEF Unit
  <2>3. /\ ideal' \in Seq(Unit) /\ Len(ideal') = n + 1 /\ ideal'[n + 1] = ROUND
        /\ \A k \in 1..n : ideal'[k] = ideal[k]
    BY <1>1, <2>1, <2>2, SMTT(60)
  <2>4. /\ file' \in Seq(Unit \cup {Hole})
        /\ \/ Len(file') = Len(file) /\ n + 1 <= Len(file)
           \/ Len(file') = n + 1 /\ Len(file) <= n + 1
        /\ \A k \in Nat : k \in (n + 1)..(n + 1) => Written(k)' /\ file'[k] = <<ROUND>>[k - n]
        /\ \A k \in Nat \ {0} : k \notin (n + 1)..(n + 1) =>
             /\ Written(k)' <=> Written(k)
             /\ Written(k) => file'[k] = file[k]
    BY <1>1, <2>1, <2>2, WriteAtWritten DEF AioInv
  <2>5. ASSUME NEW k \in Nat, k = n + 1 PROVE Written(k)' /\ file'[k] = ROUND
    <3>1. k \in (n + 1)..(n + 1) /\ k - n = 1
      BY <1>1, <2>5, SMTT(60)
    <3> QED
      BY <2>4, <3>1, SMTT(60)
  <2>6. Len(file') <= Len(ideal')
    BY <1>1, <2>3, <2>4, SMTT(60) DEF AioInv, FileInv, UnitInv
  <2>7. ASSUME NEW k \in 1..Len(ideal')
        PROVE  \/ Written(k)' /\ file'[k] = ideal'[k]
               \/ ~Written(k)' /\ \E p \in Mmaps, j \in Blocks : Covers(p, j, k)'
    <3>1. CASE k = n + 1
      <4>1. k \in Nat /\ Written(k)' /\ file'[k] = ROUND
        BY <2>5, <3>1, SMTT(60)
      <4> QED
        BY <2>3, <3>1, <4>1
    <3>2. CASE k # n + 1
      <4>1. k \in 1..n /\ k \in Nat \ {0} /\ k \notin (n + 1)..(n + 1)
        BY <1>1, <2>3, <3>2, SMTT(60)
      <4>2. \A p \in Mmaps, j \in Blocks : Covers(p, j, k)' <=> Covers(p, j, k)
        BY <1>1 DEF Covers
      <4>3. ideal'[k] = ideal[k]
        BY <2>3, <4>1
      <4>4. /\ Written(k)' <=> Written(k)
            /\ Written(k) => file'[k] = file[k]
        BY <2>4, <4>1
      <4> QED
        BY <4>1, <4>2, <4>3, <4>4 DEF AioInv, FileInv
    <3> QED
      BY <3>1, <3>2
  <2>8. FileInv'
    BY <2>6, <2>7 DEF FileInv
  <2>9. UnitInv' /\ OffsetInv'
    BY <1>1, <2>1, <2>3, <2>4 DEF AioInv, UnitInv, OffsetInv
  <2>10. RequestInv'
    <3> SUFFICES ASSUME NEW p \in Mmaps, NEW j \in Blocks, cblocks[p][j].busy
                 PROVE  LET b == cblocks[p][j]
                        IN  /\ b.nbytes \in 1..MaxUnits
                            /\ b.from > 0 /\ b.from + b.nbytes <= Len(copy[p][j]) + 1
                            /\ b.off + b.nbytes <= Len(ideal')
                            /\ \A q \in 0..(b.nbytes - 1) :
                                 copy[p][j][b.from + q] = ideal'[b.off + 1 + q]
      BY <1>1 DEF RequestInv
    <3> DEFINE b == cblocks[p][j]
    <3>1. /\ b.nbytes \in 1..MaxUnits
          /\ b.from > 0 /\ b.from + b.nbytes <= Len(copy[p][j]) + 1
          /\ b.off + b.nbytes <= n
          /\ \A q \in 0..(b.nbytes - 1) : copy[p][j][b.from + q] = ideal[b.off + 1 + q]
      BY DEF AioInv, RequestInv
    <3>2. b.off \in Nat /\ b.nbytes \in Nat
      BY DEF RefsInv, ControlInv, Cblock
    <3>3. \A q \in 0..(b.nbytes - 1) : b.off + 1 + q \in 1..n
      <4> SUFFICES ASSUME NEW q \in 0..(b.nbytes - 1) PROVE b.off + 1 + q \in 1..n
        OBVIOUS
      <4> HIDE DEF b, n
      <4> QED
        BY <1>1, <3>1, <3>2, SMTT(60)
    <3>4. b.off + b.nbytes <= Len(ideal')
      <4>1. n \in Nat /\ Len(ideal') = n + 1 /\ b.off + b.nbytes <= n
        BY <1>1, <2>3, <3>1
      <4> HIDE DEF b, n
      <4> QED
        BY <3>2, <4>1, SMTT(60)
    <3> QED
      BY <2>3, <3>1, <3>3, <3>4
  <2> QED
    BY <1>2, <2>8, <2>9, <2>10 DEF AioInv
<1> QED
  BY <1>3, <1>4 DEF AioInv, UnitInv

\* The steps of the program keep every unit of the file in its place.
LEMMA ProgramFile ==
  ASSUME RestartsAccepted, NoAux, RefsInv, AioInv, Program
  PROVE  AioInv'
<1> USE Sizes
<1>1. CASE PassBegin \/ OverwriteBegin
  <2>1. /\ UNCHANGED <<cblocks, copy, ideal, file, pos>> /\ wrote' \in BOOLEAN
        /\ pc \in {"loop", "overwrite"}
        /\ (pc' = "mmap" /\ off' = pos) \/ pc' = "loop"
    BY <1>1 DEF PassBegin, OverwriteBegin, AioInv, UnitInv
  <2>2. UnitInv' /\ RequestInv' /\ FileInv'
    BY <2>1, FileFrame
  <2>3. OffsetInv' /\ SyncInv'
    BY <2>1 DEF AioInv, OffsetInv, SyncInv
  <2> QED
    BY <2>2, <2>3 DEF AioInv
<1>2. CASE PassSync
  <2> idx \in Mmaps
    BY <1>2, BufferOf DEF PassSync, RefsInv
  <2>1. CASE SyncBlock(FALSE, "push")
    <3>1. UNCHANGED <<copy, ideal, file, wrote, off>> /\ pc' \in {"mmap", "push"}
      BY <1>2, <2>1 DEF PassSync, SyncBlock
    <3>2. RequestInv' /\ FileInv'
      BY <1>2, <2>1, <3>1, SyncBlockFile DEF PassSync
    <3>3. UnitInv' /\ OffsetInv' /\ SyncInv'
      BY <1>2, <3>1 DEF PassSync, AioInv, UnitInv, OffsetInv, SyncInv
    <3> QED
      BY <3>2, <3>3 DEF AioInv
  <2>2. CASE Suspend
    <3>1. UNCHANGED <<cblocks, copy, ideal, file, wrote, off, pos, pc, idx>>
      BY <1>2, <2>2 DEF PassSync, Suspend
    <3>2. UnitInv' /\ RequestInv' /\ FileInv'
      BY <3>1, FileFrame DEF AioInv, UnitInv
    <3> QED
      BY <3>1, <3>2 DEF AioInv, OffsetInv, SyncInv
  <2> QED
    BY <1>2, <2>1, <2>2 DEF PassSync
<1>3. CASE AioPush
  BY <1>3, AioPushFile
<1>4. CASE AuxRead
  <2>1. UNCHANGED <<cblocks, copy, ideal, file, wrote, off>> /\ pc' = "mmap" /\ pc = "aux"
    BY <1>4 DEF AuxRead, NoAux
  <2>2. UnitInv' /\ RequestInv' /\ FileInv'
    BY <2>1, FileFrame DEF AioInv, UnitInv
  <2> QED
    BY <2>1, <2>2 DEF AioInv, OffsetInv, SyncInv
<1>5. CASE PassEnd
  BY <1>5, PassEndFile
<1>6. CASE PassFail
  <2>1. UnitInv' /\ RequestInv' /\ FileInv'
    BY <1>6, FileFrame DEF PassFail, AioInv, UnitInv
  <2>2. OffsetInv' /\ SyncInv'
    BY <1>6, SMTT(60) DEF PassFail, OffsetInv, SyncInv
  <2> QED
    BY <2>1, <2>2 DEF AioInv
<1>7. CASE Finish
  <2>1. UnitInv' /\ RequestInv' /\ FileInv'
    BY <1>7, FileFrame DEF Finish, AioInv, UnitInv
  <2>2. OffsetInv' /\ SyncInv'
    BY <1>7, SMTT(60) DEF Finish, OffsetInv, SyncInv
  <2> QED
    BY <2>1, <2>2 DEF AioInv
<1>8. CASE SyncAll
  <2> idx \in Mmaps
    BY <1>8, BufferOf DEF SyncAll, RefsInv
  <2>1. CASE SyncBlock(TRUE, "sync_all")
    <3>1. /\ UNCHANGED <<copy, ideal, file, wrote, off, idx>>
          /\ pc' = "sync_all" /\ pc = "sync_all"
      BY <1>8, <2>1 DEF SyncAll, SyncBlock
    <3>2. /\ RequestInv' /\ FileInv'
          /\ \A p \in Mmaps, j \in Blocks : cblocks'[p][j].busy => cblocks[p][j].busy
      BY <1>8, <2>1, <3>1, SyncBlockFile DEF SyncAll
    <3>3. UnitInv' /\ OffsetInv' /\ SyncInv'
      BY <3>1, <3>2, Sizes DEF AioInv, UnitInv, OffsetInv, SyncInv
    <3> QED
      BY <3>2, <3>3 DEF AioInv
  <2>2. CASE Suspend
    <3>1. UNCHANGED <<cblocks, copy, ideal, file, wrote, off, pos, pc, idx>>
      BY <1>8, <2>2 DEF SyncAll, Suspend
    <3>2. UnitInv' /\ RequestInv' /\ FileInv'
      BY <3>1, FileFrame DEF AioInv, UnitInv
    <3> QED
      BY <3>1, <3>2 DEF AioInv, OffsetInv, SyncInv
  <2> QED
    BY <1>8, <2>1, <2>2 DEF SyncAll
<1>9. CASE SyncNext
  <2>1. UnitInv' /\ RequestInv' /\ FileInv'
    BY <1>9, FileFrame DEF SyncNext, AioInv, UnitInv
  <2>2. OffsetInv'
    BY <1>9 DEF SyncNext, OffsetInv
  <2>3. \A i \in Blocks : ~cblocks[idx][i].busy
    BY <1>9, BufferOf DEF SyncNext, RefsInv, RefInv
  <2>4. \A m \in 1..NrMmaps : m < idx' => m < idx \/ m = idx
    <3>1. idx' = idx + 1 /\ idx \in 1..NrMmaps
      BY <1>9, BufferOf DEF SyncNext, RefsInv
    <3> QED
      BY <3>1, SMTT(60)
  <2>5. SyncInv'
    BY <1>9, <2>3, <2>4 DEF SyncNext, AioInv, SyncInv
  <2> QED
    BY <2>1, <2>2, <2>5 DEF AioInv
<1>10. CASE SyncDone
  <2>1. UnitInv' /\ RequestInv' /\ FileInv'
    BY <1>10, FileFrame DEF SyncDone, AioInv, UnitInv
  <2>2. \A m \in 1..NrMmaps : m < idx
    BY <1>10, SMTT(60) DEF SyncDone
  <2>3. OffsetInv' /\ SyncInv'
    BY <1>10, <2>2 DEF SyncDone, AioInv, OffsetInv, SyncInv
  <2> QED
    BY <2>1, <2>3 DEF AioInv
<1> QED
  BY <1>1, <1>2, <1>3, <1>4, <1>5, <1>6, <1>7, <1>8, <1>9, <1>10 DEF Program

\* Nothing was output.
LEMMA InitFile == Init => AioInv
<1> SUFFICES ASSUME Init PROVE AioInv
  OBVIOUS
<1>1. ideal = <<>> /\ file = <<>> /\ Len(ideal) = 0 /\ Len(file) = 0
  BY DEF Init
<1>2. \A m \in Mmaps, i \in Blocks : ~cblocks[m][i].busy
  BY DEF Init, Free
<1>3. UnitInv
  <2>1. <<>> \in Seq(Unit) /\ <<>> \in Seq(Unit \cup {Hole})
    BY SMTT(60)
  <2>2. copy \in [Mmaps -> [Blocks -> Seq(Unit)]]
    BY <2>1 DEF Init
  <2> QED
    BY <1>1, <2>1, <2>2 DEF Init, UnitInv
<1>4. OffsetInv
  BY <1>1 DEF Init, OffsetInv
<1>5. RequestInv /\ SyncInv
  BY <1>2, Sizes DEF RequestInv, SyncInv
<1>6. FileInv
  BY <1>1, SMTT(60) DEF FileInv
<1> QED
  BY <1>3, <1>4, <1>5, <1>6 DEF AioInv

\* Whatever the order in which requests complete, in part or with an error, and
\* are restarted, each unit of perf.data is where a synchronous writer would have
\* put it, and when record__aio_mmap_read_sync returns only requests of
\* overwritable buffers have anything left to write: for any number of buffers of
\* both kinds, blocks, units and errors, when no restart is refused and there is
\* no AUX area data.
THEOREM NothingMisplacedCorrect ==
  RestartsAccepted /\ NoAux => (Spec => []NothingMisplaced)
<1> SUFFICES ASSUME RestartsAccepted, NoAux PROVE Spec => []NothingMisplaced
  OBVIOUS
<1>1. RefsInv /\ AioInv /\ [Next]_vars => RefsInv' /\ AioInv'
  <2> SUFFICES ASSUME RefsInv, AioInv, [Next]_vars PROVE RefsInv' /\ AioInv'
    OBVIOUS
  <2>1. CASE Program
    BY <2>1, ProgramRefs, ProgramFile
  <2>2. ASSUME NEW m \in Mmaps, KernelWrite(m) \/ FilterPollfd(m)
        PROVE  RefsInv' /\ AioInv'
    <3>1. UNCHANGED <<cblocks, copy, ideal, file, wrote, off, pos, pc, idx>>
      BY <2>2 DEF KernelWrite, FilterPollfd
    <3>2. UnitInv' /\ RequestInv' /\ FileInv'
      BY <3>1, FileFrame DEF AioInv, UnitInv
    <3>3. OffsetInv' /\ SyncInv'
      BY <3>1 DEF AioInv, OffsetInv, SyncInv
    <3> QED
      BY <2>2, <3>2, <3>3, OutsideRefs DEF AioInv
  <2>3. ASSUME NEW m \in Mmaps, NEW i \in Blocks, NEW n \in 0..MaxUnits, AioDone(m, i, n)
        PROVE  RefsInv' /\ AioInv'
    BY <2>3, OutsideRefs, AioDoneFile
  <2>4. CASE UNCHANGED vars
    <3>1. UnitInv' /\ RequestInv' /\ FileInv'
      BY <2>4, FileFrame DEF vars, AioInv, UnitInv
    <3>2. OffsetInv' /\ SyncInv'
      BY <2>4 DEF vars, AioInv, OffsetInv, SyncInv
    <3>3. RefsInv'
      BY <2>4 DEF vars, pass, RefsInv, ControlInv, BlockInv, RefInv, Busy
    <3> QED
      BY <3>1, <3>2, <3>3 DEF AioInv
  <2> QED
    BY <2>1, <2>2, <2>3, <2>4 DEF Next
<1>2. RefsInv /\ AioInv => NothingMisplaced
  <2> SUFFICES ASSUME RefsInv, AioInv PROVE NothingMisplaced
    OBVIOUS
  <2>1. TypeOK
    BY DEF TypeOK, RefsInv, ControlInv, RefInv, AioInv, UnitInv, RequestInv
  <2>2. /\ file \in Seq(Unit \cup {Hole}) /\ Len(file) \in Nat /\ Len(ideal) \in Nat
        /\ Len(file) <= Len(ideal) /\ DOMAIN file = 1..Len(file)
    BY SMTT(60) DEF AioInv, UnitInv, FileInv
  <2>3. ASSUME NEW k \in DOMAIN file, file[k] # Hole
        PROVE  k <= Len(ideal) /\ file[k] = ideal[k]
    <3>1. k \in 1..Len(ideal) /\ Written(k)
      BY <2>2, <2>3, SMTT(60) DEF Written
    <3> QED
      BY <3>1, SMTT(60) DEF AioInv, FileInv
  <2>4. ASSUME pc = "synced", NEW k \in 1..Len(ideal), ~Written(k)
        PROVE  \E m \in Overwritable, i \in Blocks : Covers(m, i, k)
    <3>1. PICK m \in Mmaps, i \in Blocks : Covers(m, i, k)
      BY <2>4 DEF AioInv, FileInv
    <3>2. m \notin 1..NrMmaps
      BY <2>4, <3>1 DEF AioInv, SyncInv, Covers
    <3> QED
      BY <3>1, <3>2 DEF Overwritable
  <2> QED
    BY <2>1, <2>3, <2>4 DEF NothingMisplaced
<1> QED
  BY <1>1, <1>2, InitRefs, InitFile, PTL DEF Spec
=============================================================================
