---------------------------- MODULE RecordRounds ----------------------------
(***************************************************************************)
(* perf record's passes over the ring buffers (builtin-record.c).  In each *)
(* turn of its loop __cmd_record reads the buffers of evlist->mmap one     *)
(* after the other and then, if they were paused for it, the overwritable  *)
(* ones of evlist->overwrite_mmap (record__mmap_read_all).  A buffer is    *)
(* written out whole, and a pass that wrote something ends with a          *)
(* PERF_RECORD_FINISHED_ROUND pseudo event.  perf_mmap__push reads the     *)
(* head twice: it writes up to the second and advances to the first.       *)
(*                                                                         *)
(* One output file, so without --switch-output: the overwritable buffers   *)
(* are paused and dumped once, when the recording is done.  The kernel's   *)
(* clock is monotonic across CPUs (the assumption that the comment of      *)
(* process_finished_round states) and an event is in its buffer by the     *)
(* time it has a timestamp.                                                *)
(***************************************************************************)
EXTENDS Integers, Sequences

CONSTANTS
  NrMmaps,      \* evlist->nr_mmaps
  NrOverwrite,  \* the buffers of evlist->overwrite_mmap; 0: no event is write_backward
  MaxTime,      \* bound: the last timestamp
  MaxSamples    \* bound: the events the kernel writes

ASSUME RecordRoundsAssumption ==
  /\ NrMmaps \in Nat \ {0} /\ NrOverwrite \in Nat
  /\ MaxTime \in Nat \ {0} /\ MaxSamples \in Nat

VARIABLES
  ktime,          \* the time of the latest event
  sampled,        \* events written by the kernel so far
  ring,           \* mmap -> its events, not consumed yet
  overwrite_mmap, \* overwritable mmap -> its events, the latest first
  bkw_mmap_state, \* of the overwritable buffers
  at,             \* the loop is at its "top", in the "forward" or the "overwrite" pass
  idx,            \* the mmap the forward pass is at, NrMmaps + 1 after the last
  oidx,           \* the same of the overwrite pass
  first_head,     \* events below the first head that perf_mmap__push read, or NotRead
  wrote,          \* rec->bytes_written changed in this pass
  samples,        \* rec->samples changed in this turn: hits # rec->samples
  file,           \* the items written to perf.data
  stopped,        \* the recording ended
  round_at,       \* history: ktime when the last forward pass wrote its FINISHED_ROUND
  round_before    \* history: ktime when the one before it did

backward_vars == <<overwrite_mmap, bkw_mmap_state, at, oidx, samples>>
forward_vars == <<ktime, sampled, ring, idx, first_head, wrote, file, stopped,
                  round_at, round_before>>
rounds_vars == <<forward_vars, backward_vars>>

Mmaps == 1..NrMmaps
OverwriteMmaps == 1..NrOverwrite
NotRead == -1

\* The items of the file.  The field from is history, a reader does not see it.
Event(from, t, n) == [type |-> "SAMPLE", from |-> from, time |-> t, nr |-> n]
FINISHED_ROUND(from) == [type |-> "FINISHED_ROUND", from |-> from, time |-> 0, nr |-> 0]
EventsOf(from) ==
  [type : {"SAMPLE"}, from : {from}, time : 1..MaxTime, nr : 1..MaxSamples]
Events == EventsOf("mmap")
BackwardEvents == EventsOf("overwrite_mmap")
Dumpable == BackwardEvents \cup {FINISHED_ROUND("overwrite_mmap")}
Items == Events \cup {FINISHED_ROUND("mmap")} \cup Dumpable

RoundsInit ==
  /\ ktime = 1 /\ sampled = 0
  /\ ring = [i \in Mmaps |-> <<>>]
  /\ overwrite_mmap = [i \in OverwriteMmaps |-> <<>>]
  /\ bkw_mmap_state = IF NrOverwrite = 0 THEN "NOTREADY" ELSE "RUNNING"
  /\ at = "top" /\ idx = 1 /\ oidx = 1 /\ first_head = NotRead
  /\ wrote = FALSE /\ samples = FALSE
  /\ file = <<>> /\ stopped = FALSE
  /\ round_at = 0 /\ round_before = 0

-----------------------------------------------------------------------------
(* The kernel, outside the repository.                                     *)

\* An event, not earlier than those before it.
Sample(i, t) ==
  /\ ~stopped /\ sampled < MaxSamples
  /\ sampled' = sampled + 1 /\ ktime' = t
  /\ ring' = [ring EXCEPT ![i] = Append(@, Event("mmap", t, sampled + 1))]
  /\ UNCHANGED <<idx, first_head, wrote, file, stopped, round_at, round_before,
                 backward_vars>>

\* An overwritable buffer is written backward and loses its oldest events.
SampleBackward(i, t) ==
  /\ ~stopped /\ sampled < MaxSamples /\ bkw_mmap_state = "RUNNING"
  /\ sampled' = sampled + 1 /\ ktime' = t
  /\ \E kept \in 0..Len(overwrite_mmap[i]) :
        overwrite_mmap' = [overwrite_mmap EXCEPT ![i] =
          <<Event("overwrite_mmap", t, sampled + 1)>> \o SubSeq(@, 1, kept)]
  /\ UNCHANGED <<ring, idx, first_head, wrote, file, stopped, round_at, round_before,
                 bkw_mmap_state, at, oidx, samples>>

-----------------------------------------------------------------------------
(* A turn of the loop.                                                     *)

\* if (done || draining): set at any time and never reset, so that it is set if the
\* buffers were paused for it.
DoneOrDraining(d) == d \in BOOLEAN /\ (bkw_mmap_state \in {"DATA_PENDING", "EMPTY"} => d)

\* The overwritable buffers are paused for the last dump; perf_evlist__toggle_bkw_mmap
\* does that once.
LoopTop ==
  /\ ~stopped /\ at = "top"
  /\ \E d \in BOOLEAN : /\ DoneOrDraining(d)
                        /\ bkw_mmap_state' = IF d /\ bkw_mmap_state = "RUNNING"
                                             THEN "DATA_PENDING" ELSE bkw_mmap_state
  /\ at' = "forward"
  /\ UNCHANGED <<forward_vars, overwrite_mmap, oidx, samples>>

\* perf_mmap__push reads the head ...
PushReadHead ==
  /\ at = "forward"
  /\ idx \in Mmaps /\ first_head = NotRead
  /\ first_head' = Len(ring[idx])
  /\ UNCHANGED <<ktime, sampled, ring, idx, wrote, file, stopped, round_at, round_before,
                 backward_vars>>

\* Mutant: a buffer whose read fails is passed over.
PushMayFail ==
  /\ at = "forward"
  /\ idx \in Mmaps /\ first_head # NotRead
  /\ \/ /\ file' = file \o ring[idx]
        /\ wrote' = (wrote \/ ring[idx] # <<>>)
        /\ samples' = (samples \/ ring[idx] # <<>>)
        /\ ring' = [ring EXCEPT ![idx] = SubSeq(@, first_head + 1, Len(@))]
     \/ UNCHANGED <<file, wrote, samples, ring>>
  /\ idx' = idx + 1 /\ first_head' = NotRead
  /\ UNCHANGED <<ktime, sampled, stopped, round_at, round_before, overwrite_mmap,
                 bkw_mmap_state, at, oidx>>

\* ... and __perf_mmap__read_init reads it again.
Push ==
  /\ at = "forward"
  /\ idx \in Mmaps /\ first_head # NotRead
  /\ file' = file \o ring[idx]
  /\ wrote' = (wrote \/ ring[idx] # <<>>)
  /\ samples' = (samples \/ ring[idx] # <<>>)
  /\ ring' = [ring EXCEPT ![idx] = SubSeq(@, first_head + 1, Len(@))]
  /\ idx' = idx + 1 /\ first_head' = NotRead
  /\ UNCHANGED <<ktime, sampled, stopped, round_at, round_before, overwrite_mmap,
                 bkw_mmap_state, at, oidx>>

\* if (bytes_written != rec->bytes_written) record__write(finished_round_event);
FinishRound ==
  /\ at = "forward" /\ idx = NrMmaps + 1
  /\ idx' = 1 /\ wrote' = FALSE /\ at' = "overwrite"
  /\ IF wrote
     THEN /\ file' = Append(file, FINISHED_ROUND("mmap"))
          /\ round_at' = ktime /\ round_before' = round_at
     ELSE UNCHANGED <<file, round_at, round_before>>
  /\ UNCHANGED <<ktime, sampled, ring, first_head, stopped, overwrite_mmap,
                 bkw_mmap_state, oidx, samples>>

\* The overwrite pass: a paused buffer is written from its latest event on.
PushBackward ==
  /\ at = "overwrite" /\ bkw_mmap_state = "DATA_PENDING" /\ oidx \in OverwriteMmaps
  /\ file' = file \o overwrite_mmap[oidx]
  /\ wrote' = (wrote \/ overwrite_mmap[oidx] # <<>>)
  /\ samples' = (samples \/ overwrite_mmap[oidx] # <<>>)
  /\ overwrite_mmap' = [overwrite_mmap EXCEPT ![oidx] = <<>>]
  /\ oidx' = oidx + 1
  /\ UNCHANGED <<ktime, sampled, ring, idx, first_head, stopped, round_at, round_before,
                 bkw_mmap_state, at>>

\* Its end, with a FINISHED_ROUND of its own, or its return at once; the loop of
\* __cmd_record ends after a turn that found nothing, whatever has come in since.
FinishBackward ==
  /\ at = "overwrite" /\ (bkw_mmap_state = "DATA_PENDING" => oidx = NrOverwrite + 1)
  /\ at' = "top" /\ oidx' = 1 /\ wrote' = FALSE /\ samples' = FALSE
  /\ file' = IF wrote THEN Append(file, FINISHED_ROUND("overwrite_mmap")) ELSE file
  /\ bkw_mmap_state' = IF bkw_mmap_state = "DATA_PENDING" THEN "EMPTY" ELSE bkw_mmap_state
  /\ \E d \in BOOLEAN : DoneOrDraining(d) /\ stopped' = (~samples /\ d)
  /\ UNCHANGED <<ktime, sampled, ring, idx, first_head, round_at, round_before,
                 overwrite_mmap>>

RoundsNext ==
  \/ \E i \in Mmaps, t \in ktime..MaxTime : Sample(i, t)
  \/ \E i \in OverwriteMmaps, t \in ktime..MaxTime : SampleBackward(i, t)
  \/ LoopTop \/ PushReadHead \/ Push \/ FinishRound
  \/ PushBackward \/ FinishBackward

RoundsSpec == RoundsInit /\ [][RoundsNext]_rounds_vars

-----------------------------------------------------------------------------
(* Properties                                                              *)

\* Every variable has its type.
RoundsTypeOK ==
  /\ ktime \in 1..MaxTime /\ sampled \in 0..MaxSamples
  /\ ring \in [Mmaps -> Seq(Events)]
  /\ overwrite_mmap \in [OverwriteMmaps -> Seq(BackwardEvents)]
  /\ bkw_mmap_state \in {"NOTREADY", "RUNNING", "DATA_PENDING", "EMPTY"}
  /\ at \in {"top", "forward", "overwrite"}
  /\ idx \in 1..(NrMmaps + 1) /\ oidx \in 1..(NrOverwrite + 1)
  /\ first_head \in Nat \cup {NotRead}
  /\ wrote \in BOOLEAN /\ samples \in BOOLEAN /\ stopped \in BOOLEAN
  /\ file \in Seq(Items)
  /\ round_at \in 0..ktime /\ round_before \in 0..round_at

\* The positions of the FINISHED_ROUND, of what overwrite passes wrote, of the
\* FINISHED_ROUND of forward passes and of the events of forward buffers.
Marks == {k \in DOMAIN file : file[k].type = "FINISHED_ROUND"}
Dumps == {k \in DOMAIN file : file[k].from = "overwrite_mmap"}
Rounds == Marks \ Dumps
Samples(from, to) ==
  {k \in from..to : k \in DOMAIN file /\ k \notin Marks /\ k \notin Dumps}

\* What process_finished_round relies on: of two events of forward buffers with the
\* FINISHED_ROUND of at least two forward passes between them, the first is not
\* the later one.  So when the pass n + 2 starts, everything up to the latest time
\* of pass n can go.  (A dump of the overwritable buffers is as old as it may be,
\* and its own FINISHED_ROUND says nothing about the forward buffers.)
TwoRoundsApart ==
  \A r1, r2 \in Rounds : r1 < r2 =>
     \A i \in Samples(1, r1), k \in Samples(r2, Len(file)) :
        file[i].time <= file[k].time

\* The same of what is still to be written: an event in a forward buffer is not
\* earlier than one of the file with two of these FINISHED_ROUND behind it.
RingsAfterTwoRounds ==
  \A r1, r2 \in Rounds : r1 < r2 =>
     \A i \in Samples(1, r1) : \A m \in Mmaps : \A k \in DOMAIN ring[m] :
        file[i].time <= ring[m][k].time

\* Why: the inductive invariant, of forward passes and buffers.  Events written
\* before a FINISHED_ROUND are not later than it, and a buffer holds only events
\* from after its last read, which is in this pass (after the last FINISHED_ROUND)
\* for the buffers the pass is done with, and in the pass before for the others.
PassInv ==
  /\ first_head # NotRead => idx \in Mmaps /\ first_head <= Len(ring[idx])
  /\ \A i \in Samples(1, Len(file)) : file[i].time <= ktime
  /\ \A r \in Rounds : \A i \in Samples(1, r) : file[i].time <= round_at
  /\ \A r1, r2 \in Rounds : r1 < r2 =>
        \A i \in Samples(1, r1) : file[i].time <= round_before
  /\ \A m \in Mmaps : \A k \in DOMAIN ring[m] :
        /\ ring[m][k].time <= ktime
        /\ ring[m][k].time >= round_before
        /\ m < idx \/ (m = idx /\ first_head # NotRead /\ k > first_head)
             => ring[m][k].time >= round_at
=============================================================================
