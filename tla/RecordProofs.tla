---------------------------- MODULE RecordProofs ----------------------------
(***************************************************************************)
(* Proofs about the main loop of perf record, for every way to call it and *)
(* every sequence of signals and faults; about the files that its          *)
(* --switch-output leaves, for every number of them that is kept; and      *)
(* about the snapshots of an overwritable buffer, for every size of the    *)
(* buffer and of the events.                                               *)
(***************************************************************************)
EXTENDS RecordLoop, SwitchOutput, BackwardMmap, FiniteSetTheorems, TLAPS

\* The provers: Zenon unless a step names the SMT solver.
USE ZenonT(60)

\* The places of the loop: a pass over the buffers, what follows it, sleeping.
Reading == {"read_forward", "read_overwrite"}
InPass == Reading \cup {"snapshot", "read_snapshot", "trigger"}
Collected == {"snapshot", "read_snapshot", "trigger", "switch", "check", "enter_poll",
              "poll", "filter", "disable", "out_child", "exit"}
Sleeping == {"enter_poll", "poll"}

\* The descriptors hang up only when the workload is gone, and nothing is
\* recorded any more then.
HupInv ==
  /\ draining => hup
  /\ hup => ~alive /\ Target = "workload"
  /\ alive => Target = "workload"
  /\ err => pc \in {"out_child", "exit"}

\* What the state of the overwritable buffers says about their events: they
\* are read while they are paused, and stay empty until they are resumed.
BkwInv ==
  /\ bkw \in {"EMPTY", "NOTREADY"} => ~ovw /\ ~owed /\ "ovw" \notin old
  /\ bkw = "DATA_PENDING" => err \/ pc \in Reading
  /\ pc \in Sleeping => ~Paused
  /\ Paused => done \/ draining \/ err \/ (switch_output = "HIT" /\ pc \in InPass)

\* The pass that began with done or draining set collects all that is older
\* than done; when draining there is nothing younger.
LastPassInv ==
  /\ seen => done \/ draining
  /\ seen /\ pc \in Reading => bkw # "RUNNING"
  /\ seen /\ pc = "read_overwrite" => "fwd" \notin old /\ (done \/ ~fwd)
  /\ seen /\ ~err /\ pc \in Collected => old = {} /\ (done \/ (~fwd /\ ~ovw))

\* --switch-output=<size> is only hit when the size is reached.
SizeInv ==
  SwitchOn = "size" =>
    /\ pc = "switch" => switch_output # "HIT"
    /\ ~TailSynth /\ (switch_output = "HIT" \/ pc = "switch") => bytes >= SwitchSize

\* The inductive invariant, beside the types.
Inv == HupInv /\ BkwInv /\ LastPassInv /\ SizeInv

-----------------------------------------------------------------------------
(* Types.                                                                  *)

\* The flags of __cmd_record's loop.
LoopFlags ==
  /\ done \in BOOLEAN /\ draining \in BOOLEAN /\ disabled \in BOOLEAN
  /\ err \in BOOLEAN /\ seen \in BOOLEAN

\* The flags of what was asked for and not done yet.
RequestFlags ==
  /\ snapshot_started \in BOOLEAN /\ hits0 \in BOOLEAN /\ alarm \in BOOLEAN
  /\ owed \in BOOLEAN

\* The flags of what the kernel holds and signals.
KernelFlags ==
  /\ fwd \in BOOLEAN /\ ovw \in BOOLEAN /\ pollin \in BOOLEAN
  /\ hup \in BOOLEAN /\ alive \in BOOLEAN /\ sigchld \in BOOLEAN

\* The configuration, the place of the loop, the states of the triggers and buffers.
NamesOK ==
  /\ opts \in Configs
  /\ pc \in {"setup", "top", "read_forward", "read_overwrite", "snapshot",
             "read_snapshot", "trigger", "switch", "check", "enter_poll", "poll", "filter",
             "disable", "out_child", "exit"}
  /\ switch_output \in Trigger /\ snapshot \in Trigger
  /\ bkw \in IF Overwrite THEN {"RUNNING", "DATA_PENDING", "EMPTY"} ELSE {"NOTREADY"}
  /\ samples \in {"zero", "hits", "more"}
  /\ bytes \in 0..SwitchSize
  /\ old \subseteq {"fwd", "ovw"}

\* All the parts.
TypeInv == LoopFlags /\ RequestFlags /\ KernelFlags /\ NamesOK

\* The parts make TypeOK, the type invariant of the variables of __cmd_record.
LEMMA TypeParts == TypeInv => TypeOK
BY SMTT(60) DEF TypeInv, LoopFlags, RequestFlags, KernelFlags, NamesOK, TypeOK

\* What the model says of a configuration.
LEMMA OptsFacts ==
  ASSUME opts \in Configs
  PROVE  /\ SwitchSize \in Nat /\ SwitchSize >= 2
         /\ Target \in {"workload", "system"} /\ Overwrite \in BOOLEAN
BY RecordLoopAssumption, SMTT(60) DEF SwitchSize, Target, Overwrite

\* A flag is only set to a truth value.
LEMMA LoopFlagsStep ==
  ASSUME LoopFlags, RequestFlags, KernelFlags, [Next]_vars
  PROVE  LoopFlags'
<1> USE DEF LoopFlags, RequestFlags, KernelFlags, kernel, triggers
<1>1. CASE Setup \/ LoopTop \/ ReadForward
  BY <1>1 DEF Setup, LoopTop, ReadForward, PauseWanted, record__write
<1>2. CASE ReadOverwrite \/ ReadFails \/ SnapshotTake \/ record__read_auxtrace_snapshot
  BY <1>2
  DEF ReadOverwrite, ReadFails, SnapshotTake, record__read_auxtrace_snapshot,
      record__write
<1>3. CASE TriggerCheck \/ SwitchFile \/ SwitchFails \/ IdleCheck
  BY <1>3 DEF TriggerCheck, SwitchFile, SwitchFails, IdleCheck
<1>4. CASE EnterPoll \/ PollWake \/ Filter \/ Disable \/ OutChild
  BY <1>4 DEF EnterPoll, PollWake, Filter, Disable, OutChild
<1>5. CASE SigInt \/ SigChld
  BY <1>5 DEF SigInt, SigChld, sig_handler
<1>6. CASE snapshot_sig_handler \/ alarm_sig_handler
  BY <1>6 DEF snapshot_sig_handler, alarm_sig_handler, HitSwitch, KeepSwitch
<1>7. CASE KernelOverwrite \/ WorkloadExit \/ UNCHANGED vars
  BY <1>7 DEF KernelOverwrite, WorkloadExit, vars
<1>8. CASE \E wake \in BOOLEAN : KernelForward(wake)
  BY <1>8 DEF KernelForward
<1> QED
  BY <1>1, <1>2, <1>3, <1>4, <1>5, <1>6, <1>7, <1>8 DEF Next, Loop, Signal

\* The same for those of the requests.
LEMMA RequestFlagsStep ==
  ASSUME LoopFlags, RequestFlags, KernelFlags, [Next]_vars
  PROVE  RequestFlags'
<1> USE DEF LoopFlags, RequestFlags, KernelFlags, kernel, triggers
<1>1. CASE Setup \/ LoopTop \/ ReadForward
  BY <1>1 DEF Setup, LoopTop, ReadForward, PauseWanted, record__write
<1>2. CASE ReadOverwrite \/ ReadFails \/ SnapshotTake \/ record__read_auxtrace_snapshot
  BY <1>2
  DEF ReadOverwrite, ReadFails, SnapshotTake, record__read_auxtrace_snapshot,
      record__write
<1>3. CASE TriggerCheck \/ SwitchFile \/ SwitchFails \/ IdleCheck
  BY <1>3 DEF TriggerCheck, SwitchFile, SwitchFails, IdleCheck
<1>4. CASE EnterPoll \/ PollWake \/ Filter \/ Disable \/ OutChild
  BY <1>4 DEF EnterPoll, PollWake, Filter, Disable, OutChild
<1>5. CASE SigInt \/ SigChld
  BY <1>5 DEF SigInt, SigChld, sig_handler
<1>6. CASE snapshot_sig_handler \/ alarm_sig_handler
  BY <1>6 DEF snapshot_sig_handler, alarm_sig_handler, HitSwitch, KeepSwitch
<1>7. CASE KernelOverwrite \/ WorkloadExit \/ UNCHANGED vars
  BY <1>7 DEF KernelOverwrite, WorkloadExit, vars
<1>8. CASE \E wake \in BOOLEAN : KernelForward(wake)
  BY <1>8 DEF KernelForward
<1> QED
  BY <1>1, <1>2, <1>3, <1>4, <1>5, <1>6, <1>7, <1>8 DEF Next, Loop, Signal

\* The same for those of the kernel.
LEMMA KernelFlagsStep ==
  ASSUME LoopFlags, RequestFlags, KernelFlags, [Next]_vars
  PROVE  KernelFlags'
<1> USE DEF LoopFlags, RequestFlags, KernelFlags, kernel, triggers
<1>1. CASE Setup \/ LoopTop \/ ReadForward
  BY <1>1 DEF Setup, LoopTop, ReadForward, PauseWanted, record__write
<1>2. CASE ReadOverwrite \/ ReadFails \/ SnapshotTake \/ record__read_auxtrace_snapshot
  BY <1>2
  DEF ReadOverwrite, ReadFails, SnapshotTake, record__read_auxtrace_snapshot,
      record__write
<1>3. CASE TriggerCheck \/ SwitchFile \/ SwitchFails \/ IdleCheck
  BY <1>3 DEF TriggerCheck, SwitchFile, SwitchFails, IdleCheck
<1>4. CASE EnterPoll \/ PollWake \/ Filter \/ Disable \/ OutChild
  BY <1>4 DEF EnterPoll, PollWake, Filter, Disable, OutChild
<1>5. CASE SigInt \/ SigChld
  BY <1>5 DEF SigInt, SigChld, sig_handler
<1>6. CASE snapshot_sig_handler \/ alarm_sig_handler
  BY <1>6 DEF snapshot_sig_handler, alarm_sig_handler, HitSwitch, KeepSwitch
<1>7. CASE KernelOverwrite \/ WorkloadExit \/ UNCHANGED vars
  BY <1>7 DEF KernelOverwrite, WorkloadExit, vars
<1>8. CASE \E wake \in BOOLEAN : KernelForward(wake)
  BY <1>8 DEF KernelForward
<1> QED
  BY <1>1, <1>2, <1>3, <1>4, <1>5, <1>6, <1>7, <1>8 DEF Next, Loop, Signal

\* The triggers, the state of the buffers and the counters keep their types.
LEMMA NamesStep ==
  ASSUME NamesOK, [Next]_vars
  PROVE  NamesOK'
<1> USE OptsFacts DEF NamesOK, Trigger, trigger_ready, trigger_hit, trigger_off,
        trigger_is_available, kernel, triggers, perf_evlist__toggle_bkw_mmap,
        Overwrite, SwitchSize
<1>1. CASE Setup
  BY <1>1 DEF Setup
<1>2. CASE LoopTop
  BY <1>2 DEF LoopTop, PauseWanted
<1>3. CASE ReadForward
  BY <1>3, SMTT(60) DEF ReadForward, record__write
<1>4. CASE ReadOverwrite
  <2>1. CASE bkw # "DATA_PENDING"
    BY <1>4, <2>1 DEF ReadOverwrite
  <2>2. CASE bkw = "DATA_PENDING"
    <3>1. /\ UNCHANGED <<opts, snapshot>> /\ pc' = "snapshot" /\ bkw' = "EMPTY"
          /\ old' \subseteq old /\ samples' \in {samples, "more"}
      BY <1>4, <2>2 DEF ReadOverwrite
    <3>2. PICK n \in 0..2 : record__write(n)
      BY <1>4, <2>2, SMTT(60) DEF ReadOverwrite
    <3>3. bytes' \in 0..SwitchSize /\ switch_output' \in Trigger
      BY <3>2, SMTT(60) DEF record__write
    <3> QED
      BY <2>2, <3>1, <3>3
  <2> QED
    BY <2>1, <2>2
<1>5. CASE ReadFails
  BY <1>5 DEF ReadFails
<1>6. CASE SnapshotTake
  BY <1>6 DEF SnapshotTake
<1>7. CASE record__read_auxtrace_snapshot
  <2>1. /\ UNCHANGED <<opts, bkw, old>> /\ pc' \in {"trigger", "out_child"}
        /\ snapshot' \in Trigger /\ samples' \in {samples, "more"}
    BY <1>7 DEF record__read_auxtrace_snapshot
  <2>2. PICK n \in 0..2 : record__write(n)
    BY <1>7, SMTT(60) DEF record__read_auxtrace_snapshot
  <2>3. bytes' \in 0..SwitchSize /\ switch_output' \in Trigger
    BY <2>2, SMTT(60) DEF record__write
  <2> QED
    BY <2>1, <2>3
<1>8. CASE TriggerCheck
  BY <1>8 DEF TriggerCheck
<1>9. CASE SwitchFile
  BY <1>9, SMTT(60) DEF SwitchFile
<1>10. CASE SwitchFails
  BY <1>10 DEF SwitchFails
<1>11. CASE IdleCheck
  BY <1>11 DEF IdleCheck
<1>12. CASE EnterPoll
  BY <1>12 DEF EnterPoll
<1>13. CASE PollWake
  BY <1>13 DEF PollWake
<1>14. CASE Filter
  BY <1>14 DEF Filter
<1>15. CASE Disable
  BY <1>15 DEF Disable
<1>16. CASE OutChild
  BY <1>16 DEF OutChild
<1>17. CASE SigInt
  BY <1>17 DEF SigInt, sig_handler, Interrupt
<1>18. CASE SigChld
  BY <1>18 DEF SigChld, sig_handler, Interrupt
<1>19. CASE snapshot_sig_handler
  BY <1>19 DEF snapshot_sig_handler, HitSwitch, KeepSwitch, Interrupt
<1>20. CASE alarm_sig_handler
  BY <1>20 DEF alarm_sig_handler, HitSwitch, KeepSwitch, Interrupt
<1>21. CASE \E wake \in BOOLEAN : KernelForward(wake)
  BY <1>21, SMTT(60) DEF KernelForward
<1>22. CASE KernelOverwrite
  BY <1>22, SMTT(60) DEF KernelOverwrite
<1>23. CASE WorkloadExit
  BY <1>23, SMTT(60) DEF WorkloadExit
<1>24. CASE UNCHANGED vars
  BY <1>24, SMTT(60) DEF vars
<1> QED
  BY <1>1, <1>2, <1>3, <1>4, <1>5, <1>6, <1>7, <1>8, <1>9, <1>10, <1>11, <1>12, <1>13,
     <1>14, <1>15, <1>16, <1>17, <1>18, <1>19, <1>20, <1>21, <1>22, <1>23, <1>24
  DEF Next, Loop, Signal

-----------------------------------------------------------------------------
(* The invariant.                                                          *)

\* Every step of the loop of __cmd_record, of a signal handler and of the kernel
\* keeps the invariant.
LEMMA InvStep ==
  ASSUME TypeInv, Inv, [Next]_vars
  PROVE  Inv'
<1> USE OptsFacts DEF TypeInv, LoopFlags, RequestFlags, KernelFlags, NamesOK, Inv,
        HupInv, BkwInv, LastPassInv, SizeInv, Paused,
        Reading, InPass, Collected, Sleeping, Trigger, trigger_ready, trigger_hit, trigger_off,
        trigger_is_available, kernel, triggers, perf_evlist__toggle_bkw_mmap,
        Overwrite, SwitchSize, SwitchOn, Target, TailSynth, Recording
<1>1. CASE Setup
  BY <1>1 DEF Setup
<1>2. CASE LoopTop
  BY <1>2 DEF LoopTop, PauseWanted
<1>3. CASE ReadForward
  BY <1>3, SMTT(60) DEF ReadForward, record__write
<1>4. CASE ReadOverwrite
  <2>1. CASE bkw # "DATA_PENDING"
    <3>1. /\ pc = "read_overwrite" /\ pc' = "snapshot"
          /\ UNCHANGED <<opts, done, draining, err, fwd, hup, alive, seen,
                         ovw, samples, old, bytes, switch_output, owed, bkw>>
      BY <1>4, <2>1 DEF ReadOverwrite
    <3>2. HupInv' /\ BkwInv'
      BY <2>1, <3>1
    <3>3. LastPassInv'
      BY <2>1, <3>1
    <3>4. SizeInv'
      BY <3>1
    <3> QED
      BY <3>2, <3>3, <3>4
  <2>2. CASE bkw = "DATA_PENDING"
    <3>1. /\ pc = "read_overwrite" /\ pc' = "snapshot" /\ bkw' = "EMPTY"
          /\ ~ovw' /\ ~owed' /\ old' = old \ {"ovw"}
          /\ UNCHANGED <<opts, done, draining, err, fwd, hup, alive, seen>>
      BY <1>4, <2>2 DEF ReadOverwrite
    <3>2. PICK n \in 0..2 : record__write(n)
      BY <1>4, <2>2, SMTT(60) DEF ReadOverwrite
    <3>3. /\ switch_output = "HIT" => switch_output' = "HIT"
          /\ SwitchOn = "size" /\ ~TailSynth /\ switch_output' = "HIT" => bytes' >= SwitchSize
      BY <3>2, SMTT(60) DEF record__write
    <3>4. HupInv' /\ BkwInv'
      BY <2>2, <3>1, <3>3
    <3>5. LastPassInv'
      BY <2>2, <3>1
    <3>6. SizeInv'
      BY <3>1, <3>3
    <3> QED
      BY <3>4, <3>5, <3>6
  <2> QED
    BY <2>1, <2>2
<1>5. CASE ReadFails
  BY <1>5 DEF ReadFails
<1>6. CASE SnapshotTake
  BY <1>6, SMTT(60) DEF SnapshotTake
<1>7. CASE record__read_auxtrace_snapshot
  <2>1. /\ pc = "read_snapshot"
        /\ (pc' = "trigger" /\ err' = err) \/ (pc' = "out_child" /\ err')
        /\ owed' => owed \/ ovw
        /\ UNCHANGED <<opts, done, draining, bkw, fwd, ovw, hup, alive, old, seen>>
    BY <1>7 DEF record__read_auxtrace_snapshot
  <2>2. PICK n \in 0..2 : record__write(n)
    BY <1>7, SMTT(60) DEF record__read_auxtrace_snapshot
  <2>3. /\ switch_output = "HIT" => switch_output' = "HIT"
        /\ SwitchOn = "size" /\ ~TailSynth /\ switch_output' = "HIT" => bytes' >= SwitchSize
    BY <2>2, SMTT(60) DEF record__write
  <2>4. HupInv'
    <3>1. err' => pc' = "out_child"
      BY <2>1
    <3> QED
      BY <2>1, <3>1
  <2>5. BkwInv'
    <3>1. bkw' \in {"EMPTY", "NOTREADY"} => ~ovw' /\ ~owed' /\ "ovw" \notin old'
      BY <2>1
    <3>2. bkw # "DATA_PENDING"
      BY <2>1
    <3>3. Paused => err' \/ done \/ draining \/ (switch_output' = "HIT" /\ pc' = "trigger")
      BY <2>1, <2>3
    <3> QED
      BY <2>1, <3>1, <3>2, <3>3
  <2>6. LastPassInv'
    BY <2>1
  <2>7. SizeInv'
    BY <2>1, <2>3
  <2> QED
    BY <2>4, <2>5, <2>6, <2>7
<1>8. CASE TriggerCheck
  BY <1>8, SMTT(60) DEF TriggerCheck
<1>9. CASE SwitchFile
  BY <1>9 DEF SwitchFile
<1>10. CASE SwitchFails
  BY <1>10 DEF SwitchFails
<1>11. CASE IdleCheck
  BY <1>11 DEF IdleCheck
<1>12. CASE EnterPoll
  BY <1>12 DEF EnterPoll
<1>13. CASE PollWake
  BY <1>13 DEF PollWake
<1>14. CASE Filter
  BY <1>14 DEF Filter
<1>15. CASE Disable
  BY <1>15 DEF Disable
<1>16. CASE OutChild
  BY <1>16 DEF OutChild
<1>17. CASE sig_handler
  <2>1. /\ done' = TRUE /\ pc' = (IF pc = "poll" THEN "filter" ELSE pc)
        /\ old' = IF done THEN old
                  ELSE {b \in {"fwd", "ovw"} : IF b = "fwd" THEN fwd ELSE ovw}
        /\ UNCHANGED <<opts, draining, err, switch_output, bkw, fwd, ovw, hup, alive, owed>>
        /\ UNCHANGED <<bytes, seen>>
    BY <1>17 DEF sig_handler, Interrupt
  <2>2. HupInv' /\ BkwInv'
    BY <2>1
  <2>3. LastPassInv'
    BY <2>1
  <2>4. SizeInv'
    BY <2>1
  <2> QED
    BY <2>2, <2>3, <2>4
<1>19. CASE snapshot_sig_handler
  BY <1>19, SMTT(60) DEF snapshot_sig_handler, HitSwitch, KeepSwitch, Interrupt
<1>20. CASE alarm_sig_handler
  BY <1>20, SMTT(60) DEF alarm_sig_handler, HitSwitch, KeepSwitch, Interrupt
<1>21. CASE \E wake \in BOOLEAN : KernelForward(wake)
  BY <1>21, SMTT(60) DEF KernelForward
<1>22. CASE KernelOverwrite
  BY <1>22 DEF KernelOverwrite
<1>23. CASE WorkloadExit
  BY <1>23 DEF WorkloadExit
<1>24. CASE UNCHANGED vars
  BY <1>24, SMTT(60) DEF vars
<1> QED
  BY <1>1, <1>2, <1>3, <1>4, <1>5, <1>6, <1>7, <1>8, <1>9, <1>10, <1>11, <1>12, <1>13,
     <1>14, <1>15, <1>16, <1>17, <1>19, <1>20, <1>21, <1>22, <1>23, <1>24
  DEF Next, Loop, Signal, SigInt, SigChld

-----------------------------------------------------------------------------
(* Theorems.                                                               *)

\* The types and the invariant hold in every state of a recording.
THEOREM Invariant == Spec => [](TypeInv /\ Inv)
<1>1. Init => TypeInv /\ Inv
  <2> SUFFICES ASSUME Init PROVE TypeInv /\ Inv
    OBVIOUS
  <2>1. LoopFlags /\ RequestFlags /\ KernelFlags
    BY DEF Init, LoopFlags, RequestFlags, KernelFlags
  <2>2. NamesOK
    BY OptsFacts, SMTT(60) DEF Init, NamesOK, Trigger
  <2>3. Inv
    BY DEF Init, Inv, HupInv, BkwInv, LastPassInv, SizeInv, Paused, Reading, InPass,
           Collected, Sleeping
  <2> QED
    BY <2>1, <2>2, <2>3 DEF TypeInv
<1>2. TypeInv /\ Inv /\ [Next]_vars => (TypeInv /\ Inv)'
  BY LoopFlagsStep, RequestFlagsStep, KernelFlagsStep, NamesStep, InvStep DEF TypeInv
<1> QED
  BY <1>1, <1>2, PTL DEF Spec

\* When perf record ends without an error, having begun its last pass with done
\* or draining set, it has collected every event that is older than the signal,
\* from the overwritable buffers too (the last pass of __cmd_record).
THEOREM ExitCollectsCorrect == Spec => []ExitCollects
<1>1. TypeInv /\ Inv => ExitCollects
  BY TypeParts DEF TypeInv, Inv, LastPassInv, Collected, ExitCollects
<1> QED
  BY <1>1, Invariant, PTL

\* The files are only switched when the overwritable buffers were collected since
\* the trigger was hit, and with --switch-output=<size> when the size is reached.
THEOREM SwitchCollectsCorrect == Spec => SwitchCollects
<1>1. ASSUME TypeInv, Inv, [Next]_vars
      PROVE  [/\ pc = "trigger" /\ pc' = "switch" => ~owed
              /\ pc = "switch" /\ pc' = "check" /\ SwitchOn = "size" /\ ~TailSynth
                   => bytes >= SwitchSize]_vars
  <2>1. ASSUME pc = "trigger", pc' = "switch" PROVE ~owed
    <3>1. TriggerCheck
      BY <1>1, <2>1
      DEF Next, Loop, Signal, Setup, LoopTop, ReadForward, ReadOverwrite, ReadFails,
          SnapshotTake, record__read_auxtrace_snapshot, SwitchFile, SwitchFails,
          IdleCheck, EnterPoll, PollWake, Filter, Disable, OutChild, SigInt, SigChld,
          sig_handler, snapshot_sig_handler, alarm_sig_handler, Interrupt, KernelForward,
          KernelOverwrite, WorkloadExit, vars
    <3>2. bkw # "RUNNING"
      BY <2>1, <3>1 DEF TriggerCheck
    <3> QED
      BY <1>1, <2>1, <3>2 DEF TypeInv, NamesOK, Inv, HupInv, BkwInv, Reading
  <2>2. ASSUME pc = "switch", SwitchOn = "size", ~TailSynth PROVE bytes >= SwitchSize
    BY <1>1, <2>2 DEF Inv, SizeInv
  <2> QED
    BY <2>1, <2>2
<1> QED
  BY <1>1, Invariant, PTL DEF SwitchCollects, Spec

\* perf record never sleeps in poll with the overwritable buffers paused, whatever
\* signals come between the pause and the poll.
THEOREM SleepsUnpaused == Spec => [](pc = "poll" => ~Paused)
<1>1. Inv => (pc = "poll" => ~Paused)
  BY DEF Inv, BkwInv, Sleeping
<1> QED
  BY <1>1, Invariant, PTL

-----------------------------------------------------------------------------
(* The files of --switch-output.                                           *)

\* rename(2) does not fail: perf_data__switch only warns when it does, and goes on
\* as if perf.data were gone.
Renames == ~RenameFails

\* The bounds.
LEMMA FileBounds == MaxClock \in Nat \ {0} /\ MaxDumps \in Nat /\ NumFiles \in Nat
BY SwitchOutputAssumption

\* The first dump that is kept when n were made.
First(n) == IF NumFiles = 0 \/ n <= NumFiles THEN 1 ELSE n - NumFiles + 1

\* perf.data is the file of the recording that is not dumped yet, and no backup is
\* made of it.
CurrentInv ==
  /\ fs \in [Names -> Int] /\ fs[Old] \in {-1, 0}
  /\ \A n \in Names : fs[n] \in -1..(MaxDumps + 1)
  /\ dumps \in Seq(Nat) /\ Len(dumps) <= MaxDumps
  /\ clock \in 1..MaxClock /\ running \in BOOLEAN
  /\ filenames \in [0..(NumFiles - 1) -> 0..MaxClock]
  /\ NumFiles > 0 => cur_file \in 0..(NumFiles - 1)
  /\ recording \in {Len(dumps), Len(dumps) + 1} /\ recording > 0
  /\ running => recording = Len(dumps) + 1
  /\ recording = Len(dumps) + 1 => fs[PerfData] = recording

\* The dumps are numbered in order, and the file of a dump that is kept has its
\* number.
DumpInv ==
  LET d == Len(dumps)
  IN  /\ \A i \in 1..d : dumps[i] = i
      /\ \A t \in 1..MaxClock : fs[t] = 0 \/ fs[t] \in First(d)..d
      /\ NumFiles = 0 => \A i \in 1..d : \E t \in 1..MaxClock : fs[t] = i

\* The name of the i-th dump is in slot i % num_files until the slot is reused.
RingInv ==
  LET d == Len(dumps)
  IN  NumFiles > 0 =>
        /\ cur_file = d % NumFiles
        /\ \A i \in First(d)..d : filenames[i % NumFiles] > 0
                                    /\ fs[filenames[i % NumFiles]] = i
        /\ \A t \in 1..MaxClock : fs[t] # 0 => filenames[fs[t] % NumFiles] = t
        /\ \A j \in 0..(NumFiles - 1) :
             filenames[j] # 0 => \E i \in First(d)..d : i % NumFiles = j

\* perf_data__switch opens no new perf.data.
Closed(at_exit, result) == at_exit \/ result = "OPEN_FAILED"

\* The next slot of filenames is one of them.
LEMMA SlotBounds ==
  ASSUME CurrentInv, NumFiles > 0
  PROVE  Slot \in 0..(NumFiles - 1)
<1>1. cur_file \in 0..(NumFiles - 1)
  BY DEF CurrentInv
<1> QED
  BY <1>1, FileBounds, SMTT(60) DEF Slot

\* What a dump leaves: the file has the name of its time, perf.data is the next
\* recording or gone (at exit, and when open fails), and the file whose slot is
\* reused is removed.
LEMMA DumpFiles ==
  ASSUME Renames, CurrentInv, NEW at_exit \in BOOLEAN, NEW renamed \in BOOLEAN,
         NEW result \in Results, record__switch_output(at_exit, renamed, result)
  PROVE  /\ running /\ Len(dumps) < MaxDumps
         /\ fs' \in [Names -> Int]
         /\ fs'[PerfData] = (IF Closed(at_exit, result) THEN 0 ELSE recording + 1)
         /\ fs'[Old] = fs[Old]
         /\ \A t \in 1..MaxClock :
              fs'[t] = IF NumFiles > 0 /\ t = filenames[Slot] THEN 0
                       ELSE IF t = clock THEN recording ELSE fs[t]
<1> DEFINE moved == [fs EXCEPT ![clock] = fs[0], ![0] = 0]
           sw == perf_data__switch(at_exit, renamed, result)
<1>1. running /\ Len(dumps) < MaxDumps /\ renamed = TRUE /\ clock \in 1..MaxClock
  BY DEF record__switch_output, Renames, CurrentInv
<1>2. /\ fs \in [Names -> Int] /\ fs[0] = recording /\ recording \in Int
      /\ 0 \in Names /\ -1 \in Names /\ clock \in Names /\ clock # 0
      /\ \A t \in 1..MaxClock : t \in Names /\ t # 0 /\ t # -1
  BY FileBounds, <1>1, SMTT(60) DEF CurrentInv, Names, Old, PerfData
<1>3. /\ moved \in [Names -> Int] /\ moved[0] = 0 /\ moved[-1] = fs[-1]
      /\ moved[clock] = recording
      /\ \A t \in 1..MaxClock : t # clock => moved[t] = fs[t]
  BY <1>1, <1>2, SMTT(60)
<1>4. sw = IF Closed(at_exit, result) THEN moved ELSE [moved EXCEPT ![0] = recording + 1]
  <2>1. Rename(fs, PerfData, clock) = moved
    BY DEF Rename, PerfData, None
  <2> HIDE DEF moved
  <2>2. check_backup(moved) = moved
    BY <1>3 DEF check_backup, PerfData, None
  <2> QED
    BY <1>1, <2>1, <2>2 DEF perf_data__switch, perf_data__open, PerfData, Closed
<1> HIDE DEF moved
<1>5. /\ sw \in [Names -> Int] /\ sw[0] = (IF Closed(at_exit, result) THEN 0 ELSE recording + 1)
      /\ sw[-1] = fs[-1]
      /\ \A t \in 1..MaxClock : sw[t] = IF t = clock THEN recording ELSE fs[t]
  <2>1. CASE Closed(at_exit, result)
    BY <1>3, <1>4, <2>1
  <2>2. CASE ~Closed(at_exit, result)
    <3>1. sw = [moved EXCEPT ![0] = recording + 1]
      BY <1>4, <2>2
    <3> QED
      BY <1>2, <1>3, <2>2, <3>1, SMTT(60)
  <2> QED
    BY <2>1, <2>2
<1> HIDE DEF sw
<1>6. CASE NumFiles = 0
  <2>1. fs' = sw
    BY <1>6, SMTT(60) DEF record__switch_output, sw
  <2> QED
    BY <1>1, <1>5, <1>6, <2>1, SMTT(60) DEF PerfData, Old
<1>7. CASE NumFiles # 0
  <2>1. NumFiles > 0 /\ fs' = Forget(sw)
    BY FileBounds, <1>7, SMTT(60) DEF record__switch_output, sw
  <2>2. CASE filenames[Slot] = 0
    <3>1. fs' = sw
      BY <2>1, <2>2 DEF Forget, None
    <3>2. \A t \in 1..MaxClock : t # filenames[Slot]
      BY <2>2, SMTT(60)
    <3> QED
      BY <1>1, <1>5, <3>1, <3>2 DEF PerfData, Old
  <2>3. CASE filenames[Slot] # 0
    <3>1. fs' = [sw EXCEPT ![filenames[Slot]] = 0]
      BY <2>1, <2>3 DEF Forget, None
    <3>2. Slot \in 0..(NumFiles - 1)
      BY <2>1, SlotBounds
    <3>3. filenames[Slot] \in 1..MaxClock
      BY <2>3, <3>2, SMTT(60) DEF CurrentInv
    <3> QED
      BY <1>1, <1>2, <1>5, <2>1, <3>1, <3>3, SMTT(60) DEF PerfData, Old
  <2> QED
    BY <2>2, <2>3
<1> QED
  BY <1>6, <1>7

\* A step keeps perf.data the file of the current recording.
LEMMA CurrentStep ==
  ASSUME Renames, CurrentInv, [FilesNext]_files_vars
  PROVE  CurrentInv'
<1>1. CASE Tick
  <2>1. /\ clock' \in 1..MaxClock
        /\ UNCHANGED <<fs, recording, filenames, cur_file, dumps, running>>
    BY FileBounds, <1>1, SMTT(60) DEF Tick, CurrentInv
  <2> QED
    BY <2>1 DEF CurrentInv, Names, Old, PerfData
<1>2. ASSUME NEW at_exit \in BOOLEAN, NEW renamed \in BOOLEAN, NEW result \in Results,
             record__switch_output(at_exit, renamed, result)
      PROVE  CurrentInv'
  <2>1. /\ running /\ Len(dumps) < MaxDumps
        /\ fs' \in [Names -> Int]
        /\ fs'[PerfData] = (IF Closed(at_exit, result) THEN 0 ELSE recording + 1)
        /\ fs'[Old] = fs[Old]
        /\ \A t \in 1..MaxClock :
             fs'[t] = IF NumFiles > 0 /\ t = filenames[Slot] THEN 0
                      ELSE IF t = clock THEN recording ELSE fs[t]
    BY <1>2, DumpFiles
  <2>2. /\ running' \in BOOLEAN
        /\ running' => ~Closed(at_exit, result)
        /\ recording' = (IF running' THEN recording + 1 ELSE recording)
        /\ dumps' = Append(dumps, recording) /\ UNCHANGED clock
    BY <1>2 DEF record__switch_output, Closed
  <2>3. /\ recording = Len(dumps) + 1 /\ Len(dumps) \in Nat /\ recording \in Nat
        /\ recording \in -1..(MaxDumps + 1) /\ recording + 1 \in -1..(MaxDumps + 1)
    BY FileBounds, <2>1, SMTT(60) DEF CurrentInv
  <2>4. /\ dumps' \in Seq(Nat) /\ Len(dumps') = Len(dumps) + 1 /\ Len(dumps') <= MaxDumps
        /\ Len(dumps') \in Nat
    BY FileBounds, <2>1, <2>2, <2>3, SMTT(60) DEF CurrentInv
  <2>5. /\ recording' \in {Len(dumps'), Len(dumps') + 1} /\ recording' > 0
        /\ running' => recording' = Len(dumps') + 1
        /\ recording' = Len(dumps') + 1 => running' /\ recording' = recording + 1
    <3>1. CASE ~running'
      <4>1. recording' = recording
        BY <2>2, <3>1
      <4> QED
        BY <2>3, <2>4, <3>1, <4>1, SMTT(60)
    <3>2. CASE running'
      <4>1. recording' = recording + 1
        BY <2>2, <3>2
      <4> QED
        BY <2>3, <2>4, <3>2, <4>1, SMTT(60)
    <3> QED
      BY <3>1, <3>2
  <2>6. /\ filenames' \in [0..(NumFiles - 1) -> 0..MaxClock]
        /\ NumFiles > 0 => cur_file' \in 0..(NumFiles - 1)
    <3>1. CASE NumFiles > 0
      <4>1. /\ cur_file' = Slot /\ filenames' = [filenames EXCEPT ![Slot] = clock]
        BY <1>2, <3>1 DEF record__switch_output
      <4>2. Slot \in 0..(NumFiles - 1)
        BY <3>1, SlotBounds
      <4> QED
        BY <4>1, <4>2, SMTT(60) DEF CurrentInv
    <3>2. CASE ~(NumFiles > 0)
      BY <1>2, <3>2 DEF record__switch_output, CurrentInv
    <3> QED
      BY <3>1, <3>2
  <2>7. \A n \in Names : fs'[n] \in -1..(MaxDumps + 1)
    <3> SUFFICES ASSUME NEW n \in Names PROVE fs'[n] \in -1..(MaxDumps + 1)
      OBVIOUS
    <3>1. n = Old \/ n = PerfData \/ n \in 1..MaxClock
      BY FileBounds, SMTT(60) DEF Names, Old, PerfData
    <3>2. 0 \in -1..(MaxDumps + 1) /\ fs[n] \in -1..(MaxDumps + 1)
      BY FileBounds, SMTT(60) DEF CurrentInv
    <3> QED
      BY <2>1, <2>3, <3>1, <3>2
  <2>8. recording' = Len(dumps') + 1 => fs'[PerfData] = recording'
    BY <2>1, <2>2, <2>5
  <2>9. fs'[Old] \in {-1, 0}
    BY <2>1 DEF CurrentInv
  <2>10. clock' \in 1..MaxClock /\ running' \in BOOLEAN
    BY <2>2 DEF CurrentInv
  <2>11. /\ fs' \in [Names -> Int] /\ dumps' \in Seq(Nat) /\ Len(dumps') <= MaxDumps
         /\ recording' \in {Len(dumps'), Len(dumps') + 1} /\ recording' > 0
         /\ running' => recording' = Len(dumps') + 1
    BY <2>1, <2>4, <2>5
  <2> QED
    BY <2>6, <2>7, <2>8, <2>9, <2>10, <2>11 DEF CurrentInv, Names, Old, PerfData
<1>3. CASE NoTimestamp
  BY <1>3 DEF NoTimestamp, CurrentInv, Names, Old, PerfData
<1>4. CASE UNCHANGED files_vars
  BY <1>4 DEF files_vars, CurrentInv, Names, Old, PerfData
<1> QED
  BY <1>1, <1>2, <1>3, <1>4 DEF FilesNext

\* Slots that are used one after the other, and begin again at 0.
LEMMA NextSlot ==
  ASSUME NEW N \in Nat \ {0}, NEW d \in Nat
  PROVE  (d + 1) % N = IF (d % N) + 1 >= N THEN 0 ELSE (d % N) + 1
<1> DEFINE q == d \div N
           r == d % N
<1>1. q \in Nat /\ r \in 0..(N - 1) /\ d = N * q + r
  BY SMTT(60)
<1>2. \A a \in Nat, b \in 0..(N - 1) : (N * a + b) % N = b
  BY SMTT(60)
<1>3. CASE r + 1 >= N
  <2>1. d + 1 = N * (q + 1) + 0
    BY <1>1, <1>3, SMTT(60)
  <2> QED
    BY <1>1, <1>2, <1>3, <2>1, SMTT(60)
<1>4. CASE ~(r + 1 >= N)
  <2>1. d + 1 = N * q + (r + 1) /\ r + 1 \in 0..(N - 1)
    BY <1>1, <1>4, SMTT(60)
  <2> QED
    BY <1>1, <1>2, <1>4, <2>1
<1> QED
  BY <1>3, <1>4

\* A slot is used again N dumps later.
LEMMA SameSlot ==
  ASSUME NEW N \in Nat \ {0}, NEW d \in Nat
  PROVE  (d + N) % N = d % N
<1>1. /\ d \div N \in Nat /\ d % N \in 0..(N - 1)
      /\ d = N * (d \div N) + (d % N)
  BY SMTT(60)
<1>2. \A a \in Nat, b \in 0..(N - 1) : (N * a + b) % N = b
  BY SMTT(60)
<1>3. d + N = N * ((d \div N) + 1) + (d % N) /\ (d \div N) + 1 \in Nat
  BY <1>1, SMTT(60)
<1>4. (N * ((d \div N) + 1) + (d % N)) % N = d % N
  BY <1>1, <1>2, <1>3
<1> QED
  BY <1>3, <1>4

\* Dumps of which fewer than N were made in between have different slots.
LEMMA OtherSlot ==
  ASSUME NEW N \in Nat \ {0}, NEW i \in Nat, NEW j \in Nat, i < j, j - i < N
  PROVE  i % N # j % N
<1> SUFFICES ASSUME i % N = j % N PROVE FALSE
  OBVIOUS
<1> DEFINE a == i \div N
           b == j \div N
<1>1. /\ a \in Nat /\ b \in Nat /\ i = N * a + (i % N) /\ j = N * b + (j % N)
      /\ i % N \in 0..(N - 1) /\ j % N \in 0..(N - 1)
  BY SMTT(60)
<1>2. j - i = N * (b - a) /\ b - a \in Int
  BY <1>1, SMTT(60)
<1> HIDE DEF a, b
<1>3. CASE b - a <= 0
  BY <1>1, <1>2, <1>3, SMTT(60)
<1>4. CASE b - a >= 1
  <2>1. N * (b - a) >= N
    BY <1>1, <1>4, SMTT(60)
  <2> QED
    BY <1>2, <2>1, SMTT(60)
<1> QED
  BY <1>2, <1>3, <1>4, SMTT(60)

\* The variables that a dump leaves to RingInv and DumpInv.
LEMMA DumpStep ==
  ASSUME Renames, CurrentInv, DumpInv, RingInv, DistinctTimes,
         NEW at_exit \in BOOLEAN, NEW renamed \in BOOLEAN, NEW result \in Results,
         record__switch_output(at_exit, renamed, result)
  PROVE  DumpInv' /\ RingInv'
<1> DEFINE d == Len(dumps)
           N == NumFiles
           s == Slot
           gone == filenames[s]
<1>1. /\ d \in Nat /\ N \in Nat /\ recording = d + 1 /\ running
      /\ clock \in 1..MaxClock /\ dumps \in Seq(Nat)
      /\ \A t \in 1..MaxClock :
           fs'[t] = IF N > 0 /\ t = gone THEN 0
                    ELSE IF t = clock THEN d + 1 ELSE fs[t]
  BY FileBounds, DumpFiles, SMTT(60) DEF CurrentInv
<1>2. dumps' = Append(dumps, d + 1) /\ fs[clock] = 0
  BY <1>1 DEF record__switch_output, None
<1>3. /\ Len(dumps') = d + 1 /\ dumps'[d + 1] = d + 1
      /\ \A i \in 1..d : dumps'[i] = dumps[i]
  BY <1>1, <1>2, SMTT(60)
<1>4. \A i \in 1..(d + 1) : dumps'[i] = i
  BY <1>1, <1>3, SMTT(60) DEF DumpInv
<1>5. CASE N = 0
  <2>1. First(d) = 1 /\ First(d + 1) = 1
    BY <1>5 DEF First
  <2>2. \A t \in 1..MaxClock : fs'[t] = IF t = clock THEN d + 1 ELSE fs[t]
    BY <1>1, <1>5, SMTT(60)
  <2>3. \A t \in 1..MaxClock : fs'[t] = 0 \/ fs'[t] \in 1..(d + 1)
    BY <1>1, <2>1, <2>2, SMTT(60) DEF DumpInv
  <2>4. \A i \in 1..(d + 1) : \E t \in 1..MaxClock : fs'[t] = i
    <3> SUFFICES ASSUME NEW i \in 1..(d + 1) PROVE \E t \in 1..MaxClock : fs'[t] = i
      OBVIOUS
    <3>1. CASE i = d + 1
      BY <1>1, <2>2, <3>1
    <3>2. CASE i # d + 1
      <4>1. i \in 1..d
        BY <1>1, <3>2, SMTT(60)
      <4>2. PICK t \in 1..MaxClock : fs[t] = i
        BY <1>5, <4>1 DEF DumpInv
      <4>3. t # clock
        BY <1>2, <4>1, <4>2, SMTT(60)
      <4> QED
        BY <2>2, <4>2, <4>3
    <3> QED
      BY <3>1, <3>2
  <2> QED
    BY <1>1, <1>3, <1>4, <1>5, <2>1, <2>3, <2>4, SMTT(60) DEF DumpInv, RingInv
<1>6. CASE N # 0
  <2>1. /\ N \in Nat \ {0} /\ cur_file' = s /\ filenames' = [filenames EXCEPT ![s] = clock]
        /\ \A j \in 0..(N - 1) : filenames[j] # clock
    <3>1. N > 0 /\ \A j \in DOMAIN filenames : filenames[j] # clock
      BY <1>1, <1>6, SMTT(60) DEF record__switch_output
    <3> QED
      BY <1>1, <1>6, <3>1 DEF record__switch_output, CurrentInv
  <2>2. /\ cur_file = d % N
        /\ \A i \in First(d)..d : filenames[i % N] > 0 /\ fs[filenames[i % N]] = i
        /\ \A t \in 1..MaxClock : fs[t] # 0 => filenames[fs[t] % N] = t
        /\ \A j \in 0..(N - 1) : filenames[j] # 0 => \E i \in First(d)..d : i % N = j
    BY <2>1, SMTT(60) DEF RingInv
  <2>3. s = (d + 1) % N
    BY <1>1, <2>1, <2>2, NextSlot DEF Slot
  <2>4. /\ filenames \in [0..(N - 1) -> 0..MaxClock]
        /\ \A i \in Nat : i % N \in 0..(N - 1)
    BY <2>1, SMTT(60) DEF CurrentInv
  <2>5. /\ First(d) \in Nat /\ First(d) >= 1 /\ First(d + 1) \in Nat /\ First(d + 1) >= 1
        /\ d - First(d) < N /\ (d + 1) - First(d + 1) < N
        /\ First(d) <= First(d + 1) /\ First(d + 1) <= d + 1
    <3> HIDE DEF d
    <3>1. First(d) = IF d <= N THEN 1 ELSE d - N + 1
      BY <1>6 DEF First
    <3>2. First(d + 1) = IF d + 1 <= N THEN 1 ELSE (d + 1) - N + 1
      BY <1>1, <1>6 DEF First
    <3> QED
      BY <1>1, <2>1, <3>1, <3>2, SMTT(60)
  <2> HIDE DEF s, d, N
  <2>6. /\ \A i \in First(d + 1)..d : i \in First(d)..d /\ i % N # s
        /\ \A i \in First(d + 1)..(d + 1) : i \in First(d + 1)..d \/ i = d + 1
    <3> SUFFICES ASSUME NEW i \in First(d + 1)..(d + 1)
                 PROVE  i # d + 1 => i \in First(d)..d /\ i \in First(d + 1)..d /\ i % N # s
      BY <1>1, <2>5, SMTT(60)
    <3>1. i \in Nat /\ (i # d + 1 => i < d + 1 /\ (d + 1) - i < N)
      BY <1>1, <2>1, <2>5, SMTT(60)
    <3>2. ASSUME i # d + 1 PROVE i % N # (d + 1) % N
      <4>1. d + 1 \in Nat /\ i < d + 1 /\ (d + 1) - i < N /\ i \in Nat
        BY <1>1, <3>1, <3>2, SMTT(60)
      <4>2. \A j \in Nat : i < j /\ j - i < N => i % N # j % N
        BY <2>1, <4>1, OtherSlot
      <4> QED
        BY <4>1, <4>2
    <3> QED
      BY <1>1, <2>3, <2>5, <3>1, <3>2, SMTT(60)
  <2>7. /\ filenames'[s] = clock /\ \A j \in 0..(N - 1) : j # s => filenames'[j] = filenames[j]
        /\ s \in 0..(N - 1)
    <3>1. d + 1 \in Nat
      BY <1>1, SMTT(60)
    <3>2. s \in 0..(N - 1)
      BY <2>3, <2>4, <3>1
    <3> QED
      BY <2>1, <2>4, <3>2
  <2>8. gone # clock /\ gone \in 0..MaxClock
    BY <2>1, <2>4, <2>7
  <2>9. ASSUME NEW t \in 1..MaxClock, t # clock, t # gone, fs[t] # 0
        PROVE  fs[t] \in First(d + 1)..d
    <3> DEFINE i == fs[t]
    <3>1. i \in First(d)..d /\ filenames[i % N] = t
      BY <2>2, <2>9 DEF DumpInv, d
    <3>2. CASE First(d + 1) = First(d)
      BY <3>1, <3>2
    <3>3. CASE First(d + 1) # First(d)
      <4>1. First(d + 1) = First(d) + 1 /\ First(d) + N = d + 1
        BY <1>1, <2>1, <3>3, SMTT(60) DEF First, N
      <4>2. First(d) % N = s
        BY <2>1, <2>3, <2>5, <4>1, SameSlot
      <4>3. i # First(d)
        BY <2>9, <3>1, <4>2
      <4>4. i \in First(d)..d
        BY <3>1
      <4> HIDE DEF i
      <4>5. i \in (First(d) + 1)..d
        BY <1>1, <2>5, <4>3, <4>4, SMTT(60)
      <4> QED
        BY <4>1, <4>5 DEF i
    <3> QED
      BY <3>2, <3>3
  <2>10. \A t \in 1..MaxClock : fs'[t] = IF t = gone THEN 0
                                         ELSE IF t = clock THEN d + 1 ELSE fs[t]
    BY <1>1, <2>1, SMTT(60)
  <2>11. ASSUME NEW t \in 1..MaxClock
         PROVE  /\ fs'[t] = 0 \/ fs'[t] \in First(d + 1)..(d + 1)
                /\ fs'[t] # 0 => filenames'[fs'[t] % N] = t
    <3>1. CASE t = gone
      BY <2>10, <3>1
    <3>2. CASE t # gone /\ t = clock
      <4>1. fs'[t] = d + 1
        BY <2>10, <3>2
      <4> QED
        BY <1>1, <2>3, <2>5, <2>7, <3>2, <4>1, SMTT(60)
    <3>3. CASE t # gone /\ t # clock /\ fs[t] # 0
      <4>1. fs'[t] = fs[t] /\ fs[t] \in First(d + 1)..d /\ fs[t] % N # s
        BY <2>6, <2>9, <2>10, <3>3
      <4>2. fs[t] \in Nat /\ fs[t] \in First(d + 1)..(d + 1)
        BY <1>1, <2>5, <4>1, SMTT(60)
      <4>3. filenames'[fs[t] % N] = filenames[fs[t] % N]
        BY <2>4, <2>7, <4>1, <4>2
      <4> QED
        BY <2>2, <3>3, <4>1, <4>2, <4>3
    <3>4. CASE t # gone /\ t # clock /\ fs[t] = 0
      BY <2>10, <3>4
    <3> QED
      BY <3>1, <3>2, <3>3, <3>4
  <2>12. ASSUME NEW i \in First(d + 1)..(d + 1)
         PROVE  filenames'[i % N] > 0 /\ fs'[filenames'[i % N]] = i
    <3>1. CASE i = d + 1
      <4>1. filenames'[i % N] = clock /\ fs'[clock] = d + 1
        BY <1>1, <2>3, <2>7, <2>8, <2>10, <3>1
      <4> QED
        BY <1>1, <3>1, <4>1, SMTT(60)
    <3>2. CASE i # d + 1
      <4> DEFINE t == filenames[i % N]
      <4>1. i \in First(d)..d /\ i % N # s /\ i \in Nat
        BY <2>5, <2>6, <3>2, SMTT(60)
      <4>2. filenames'[i % N] = t /\ t \in 1..MaxClock /\ fs[t] = i
        <5>1. t > 0 /\ fs[t] = i
          BY <2>2, <4>1
        <5>2. i % N \in 0..(N - 1)
          BY <2>4, <4>1
        <5>3. t \in 0..MaxClock /\ filenames'[i % N] = t
          BY <2>4, <2>7, <4>1, <5>2
        <5> HIDE DEF t
        <5> QED
          BY <5>1, <5>3, SMTT(60)
      <4>3. t # clock
        BY <2>1, <2>4, <4>1
      <4>4. t # gone
        <5> SUFFICES ASSUME t = gone PROVE FALSE
          OBVIOUS
        <5>1. filenames[s] # 0
          BY <4>2, SMTT(60)
        <5>2. PICK k \in First(d)..d : k % N = s
          BY <2>2, <2>7, <5>1
        <5>3. fs[filenames[s]] = k
          BY <2>2, <5>2
        <5> QED
          BY <4>1, <4>2, <5>2, <5>3
      <4> HIDE DEF t
      <4> QED
        BY <2>10, <4>2, <4>3, <4>4, SMTT(60)
    <3> QED
      BY <3>1, <3>2
  <2>13. ASSUME NEW j \in 0..(N - 1), filenames'[j] # 0
         PROVE  \E i \in First(d + 1)..(d + 1) : i % N = j
    <3>1. CASE j = s
      BY <1>1, <2>3, <2>5, <3>1, SMTT(60)
    <3>2. CASE j # s
      <4>1. PICK i \in First(d)..d : i % N = j
        BY <2>2, <2>7, <2>13, <3>2
      <4>2. CASE First(d + 1) = First(d)
        BY <1>1, <2>5, <4>1, <4>2, SMTT(60)
      <4>3. CASE First(d + 1) # First(d)
        <5>1. First(d + 1) = First(d) + 1 /\ First(d) + N = d + 1
          BY <1>1, <2>1, <4>3, SMTT(60) DEF First, N
        <5>2. First(d) % N = s
          BY <2>1, <2>3, <2>5, <5>1, SameSlot
        <5>3. i # First(d)
          BY <3>2, <4>1, <5>2
        <5>4. i \in First(d + 1)..(d + 1)
          BY <1>1, <2>5, <4>1, <5>1, <5>3, SMTT(60)
        <5> QED
          BY <4>1, <5>4
      <4> QED
        BY <4>2, <4>3
    <3> QED
      BY <3>1, <3>2
  <2>14. DumpInv'
    BY <1>3, <1>4, <1>6, <2>11 DEF DumpInv, N, First
  <2>15. RingInv'
    BY <1>3, <2>1, <2>3, <2>11, <2>12, <2>13, SMTT(60) DEF RingInv, N, First
  <2> QED
    BY <2>14, <2>15
<1> QED
  BY <1>5, <1>6

\* KeepsNewest is what the numbering of the dumps and the slots say.
LEMMA KeptNewest ==
  ASSUME CurrentInv, DumpInv, RingInv
  PROVE  KeepsNewest
<1> DEFINE d == Len(dumps)
           N == NumFiles
<1>1. d \in Nat /\ N \in Nat /\ First(d) \in Nat /\ First(d) >= 1
  BY FileBounds, SMTT(60) DEF CurrentInv, First
<1>2. Newest(NumFiles) = First(d)..d
  <2>1. Newest(NumFiles) = {dumps[i] : i \in First(d)..d}
    BY DEF Newest, First
  <2>2. \A i \in First(d)..d : dumps[i] = i
    BY <1>1, SMTT(60) DEF DumpInv
  <2> QED
    BY <2>1, <2>2
<1>3. ASSUME NEW t \in 1..MaxClock, fs[t] # 0
      PROVE  fs[t] \in First(d)..d
  BY <1>3 DEF DumpInv
<1>4. ASSUME NEW i \in First(d)..d
      PROVE  \E t \in 1..MaxClock : fs[t] = i
  <2>1. CASE N = 0
    <3>1. i \in 1..d
      BY <1>1, SMTT(60)
    <3> QED
      BY <2>1, <3>1 DEF DumpInv
  <2>2. CASE N # 0
    <3>1. filenames[i % N] > 0 /\ fs[filenames[i % N]] = i
      BY <1>1, <2>2, SMTT(60) DEF RingInv
    <3>2. i % N \in 0..(N - 1)
      BY <1>1, <2>2, SMTT(60)
    <3>3. filenames[i % N] \in 1..MaxClock
      BY <3>1, <3>2, SMTT(60) DEF CurrentInv
    <3> QED
      BY <3>1, <3>3
  <2> QED
    BY <2>1, <2>2
<1>5. \A i \in First(d)..d : i # 0
  BY <1>1, SMTT(60)
<1> HIDE DEF d
<1> QED
  BY <1>2, <1>3, <1>4, <1>5 DEF KeepsNewest, Kept, None

\* A fresh run has the invariants: nothing is dumped and perf.data is the first
\* recording.
LEMMA FirstRecording ==
  ASSUME FilesInit
  PROVE  CurrentInv /\ DumpInv /\ RingInv
<1>1. /\ dumps = <<>> /\ Len(dumps) = 0 /\ First(0) = 1 /\ running = TRUE
      /\ recording = 1 /\ clock = 1 /\ cur_file = 0
      /\ NumFiles \in Nat /\ MaxDumps \in Nat /\ MaxClock \in Nat \ {0}
  BY FileBounds, SMTT(60) DEF FilesInit, First
<1>2. PICK left \in {0, 1} :
        fs = [n \in Names |-> IF n = Old THEN -left
                                  ELSE IF n = PerfData THEN 1 ELSE None]
  BY DEF FilesInit
<1>3. /\ fs \in [Names -> Int] /\ fs[Old] \in {-1, 0} /\ fs[PerfData] = 1
      /\ \A n \in Names : fs[n] \in {-1, 0, 1}
      /\ \A t \in 1..MaxClock : fs[t] = 0
  BY <1>1, <1>2, SMTT(60) DEF Names, Old, PerfData, None
<1>4. /\ filenames \in [0..(NumFiles - 1) -> 0..MaxClock]
      /\ \A j \in 0..(NumFiles - 1) : filenames[j] = 0
  BY <1>1, SMTT(60) DEF FilesInit, None
<1>5. CurrentInv
  <2>1. \A n \in Names : fs[n] \in -1..(MaxDumps + 1)
    BY <1>1, <1>3, SMTT(60)
  <2> QED
    BY <1>1, <1>3, <1>4, <2>1, SMTT(60) DEF CurrentInv
<1>6. DumpInv
  BY <1>1, <1>3, SMTT(60) DEF DumpInv
<1>7. RingInv
  BY <1>1, <1>3, <1>4, SMTT(60) DEF RingInv
<1> QED
  BY <1>5, <1>6, <1>7

\* The invariants of the files.
FilesInv == CurrentInv /\ DumpInv /\ RingInv

\* A step keeps them, when no two dumps fall in the same hundredth of a second.
LEMMA FilesStep ==
  ASSUME Renames, DistinctTimes, FilesInv, [FilesNext]_files_vars
  PROVE  FilesInv'
<1>1. CurrentInv'
  BY CurrentStep DEF FilesInv
<1>2. CASE Tick \/ NoTimestamp \/ UNCHANGED files_vars
  <2>1. UNCHANGED <<fs, filenames, cur_file, dumps>>
    BY <1>2 DEF Tick, NoTimestamp, files_vars
  <2> QED
    BY <1>1, <2>1 DEF FilesInv, DumpInv, RingInv, First
<1>3. ASSUME NEW at_exit \in BOOLEAN, NEW renamed \in BOOLEAN, NEW result \in Results,
             record__switch_output(at_exit, renamed, result)
      PROVE  DumpInv' /\ RingInv'
  BY <1>3, DumpStep DEF FilesInv
<1> QED
  BY <1>1, <1>2, <1>3 DEF FilesNext, FilesInv

\* While perf record runs, perf.data is the file of the recording that is being
\* written; and however a switch ends, that recording is in some file.  For every
\* number of files that are kept and however often perf record switches.
THEOREM PerfDataIsCurrentCorrect ==
  Renames /\ DistinctTimes => (FilesSpec => []PerfDataIsCurrent)
<1> SUFFICES ASSUME Renames, DistinctTimes PROVE FilesSpec => []PerfDataIsCurrent
  OBVIOUS
<1>1. FilesInit => FilesInv
  BY FirstRecording DEF FilesInv
<1>2. FilesInv /\ [FilesNext]_files_vars => FilesInv'
  BY FilesStep
<1>3. FilesInv => PerfDataIsCurrent
  <2> SUFFICES ASSUME FilesInv PROVE PerfDataIsCurrent
    OBVIOUS
  <2>1. fs \in [Names -> -1..(MaxDumps + 1)]
    BY DEF FilesInv, CurrentInv
  <2>2. recording \in 1..(MaxDumps + 1)
    BY FileBounds, SMTT(60) DEF FilesInv, CurrentInv
  <2>3. \E n \in Names : fs[n] = recording
    <3>1. CASE recording = Len(dumps) + 1
      <4>1. PerfData \in Names
        BY FileBounds, SMTT(60) DEF Names, Old, PerfData
      <4> QED
        BY <3>1, <4>1 DEF FilesInv, CurrentInv
    <3>2. CASE recording = Len(dumps)
      <4>1. recording \in First(Len(dumps))..Len(dumps)
        BY FileBounds, <2>2, <3>2, SMTT(60) DEF First
      <4>2. dumps[recording] = recording /\ recording # 0
        BY <2>2, <3>2, SMTT(60) DEF FilesInv, DumpInv
      <4>3. recording \in Newest(NumFiles)
        BY <3>2, <4>1, <4>2 DEF Newest, First
      <4>4. recording \in Kept
        BY <4>3, KeptNewest DEF FilesInv, KeepsNewest
      <4>5. \A t \in 1..MaxClock : t \in Names
        BY FileBounds, SMTT(60) DEF Names, Old
      <4> QED
        BY <4>4, <4>5 DEF Kept
    <3> QED
      BY <3>1, <3>2 DEF FilesInv, CurrentInv
  <2> QED
    BY <2>1, <2>2, <2>3 DEF FilesInv, CurrentInv, PerfDataIsCurrent, FilesTypeOK, None
<1> QED
  BY <1>1, <1>2, <1>3, PTL DEF FilesSpec

\* --switch-max-files=N keeps exactly the N latest dumps, for every N, when no two
\* dumps fall in the same hundredth of a second.
THEOREM KeepsNewestCorrect ==
  Renames /\ DistinctTimes => (FilesSpec => []KeepsNewest)
<1> SUFFICES ASSUME Renames, DistinctTimes PROVE FilesSpec => []KeepsNewest
  OBVIOUS
<1>1. FilesInit => FilesInv
  BY FirstRecording DEF FilesInv
<1>2. FilesInv /\ [FilesNext]_files_vars => FilesInv'
  BY FilesStep
<1>3. FilesInv => KeepsNewest
  BY KeptNewest DEF FilesInv
<1> QED
  BY <1>1, <1>2, <1>3, PTL DEF FilesSpec

-----------------------------------------------------------------------------
(* Overwritable buffers: the inductive invariant.                          *)

\* An event starts at p, or nothing was written behind p.
Boundary(p) == p = 0 \/ (p \in Positions /\ sizes[p] > 0)

\* The last Size positions are in the buffer.
StoredInv == \A p \in Positions : head <= p /\ p < head + Size => data[p % Size] = p

\* The events lie behind each other from the head on: none starts inside another,
\* and every position belongs to one.
EventsInv ==
  /\ Boundary(head)
  /\ \A p \in Positions : sizes[p] > 0 => head <= p /\ Boundary(p + sizes[p])
  /\ \A p, q \in Positions :
       sizes[p] > 0 /\ sizes[q] > 0 /\ p < q => p + sizes[p] <= q
  /\ \A u \in Positions : head <= u =>
       \E p \in Positions : sizes[p] > 0 /\ p <= u /\ u < p + sizes[p]

\* The heads of the snapshots, and what the first one starts from.
Heads == {s[1] : s \in snapshots} \cup {0}

\* The snapshot of the buffer at h is the positions up to e.
Taken(h, e) == UnitsAt(h) = h..(e - 1) /\ \A t \in Heads : t > h => e <= t

\* The positions from h on, in order.
InOrder(h, o) == \A i \in DOMAIN o : o[i] = h + i - 1

SnapshotsInv ==
  /\ \A s \in snapshots :
       /\ head <= s[1] /\ InOrder(s[1], s[2])
       /\ s[2] # <<>> => Taken(s[1], s[1] + Len(s[2]))
  /\ \A s, t \in snapshots : s[1] = t[1] /\ s[2] # <<>> /\ t[2] # <<>> => s = t

\* The next snapshot ends where the last one started.
PrevInv ==
  /\ head <= prev /\ Boundary(prev) /\ \A h \in Heads : prev <= h
  /\ func # "empty" \/ state = "EMPTY" => prev \in Heads

\* The buffer is paused while it is read.
PausedInv ==
  /\ func = "idle" <=> state = "RUNNING"
  /\ state = "EMPTY" => func = "empty"

\* The walk of overwrite_rb_find_range, the reading that follows, and its end.
Walking == func \in {"push_walk", "read_walk"}
Finished == func = "read_done" \/ (func = "empty" /\ state = "DATA_PENDING")
Collecting == func \in {"push_first", "push_second", "read_event"} \/ Finished

\* The positions from the head up to start were collected, those up to end remain.
Gathered ==
  /\ head <= start /\ start <= end /\ end <= head + Size /\ Boundary(end)
  /\ Len(out) = start - head /\ InOrder(head, out)

\* The end is that of the snapshot, which is new unless it is empty.
Known ==
  /\ end > head => Taken(head, end) /\ head \notin Heads
  /\ end = head => head \in Heads

ReadingInv ==
  /\ ~Collecting => out = <<>>
  /\ Walking \/ Collecting => Gathered
  /\ Walking => start = head /\ prev - head > Size
  /\ Collecting => Known
  /\ func = "push_first" => start = head
  /\ func = "read_event" => Boundary(start)
  /\ Finished => start = end
  /\ func = "empty" => prev = head

BackwardInv ==
  BackwardTypeOK /\ StoredInv /\ EventsInv /\ SnapshotsInv /\ PrevInv /\ PausedInv /\ ReadingInv

-----------------------------------------------------------------------------
(* Positions of an overwritable buffer.                                    *)

\* The constants.
LEMMA BackwardFacts ==
  /\ Size \in Nat /\ Size > 0 /\ MaxUnits \in Nat /\ MinHead \in Int /\ MinHead < 0
  /\ \A size \in EventSizes : size \in 1..Size
<1>1. Size \in Nat \ {0} /\ MaxUnits \in Nat \ {0} /\ EventSizes \subseteq 1..Size
  BY BackwardMmapAssumption
<1>2. Size > 0 /\ -MaxUnits \in Int /\ -MaxUnits < 0
  BY <1>1, SMTT(60)
<1> QED
  BY <1>1, <1>2 DEF MinHead

\* A position is an integer below 0.
LEMMA PositionFacts ==
  \A p : p \in Positions <=> p \in Int /\ MinHead <= p /\ p < 0
BY BackwardFacts, SMTT(60) DEF Positions

\* Division with remainder.
LEMMA UnitOf ==
  ASSUME NEW p \in Int
  PROVE  /\ p % Size \in 0..(Size - 1) /\ p \div Size \in Int
         /\ p = Size * (p \div Size) + (p % Size)
BY BackwardFacts, SMTT(60)

\* The only multiple of Size nearer to 0 than Size is 0.
LEMMA NearMultiple ==
  ASSUME NEW k \in Int, NEW d \in Int, Size * k = d, d < Size, -Size < d
  PROVE  d = 0
BY BackwardFacts, SMTT(60)

\* Two positions less than Size apart are stored in different units.
LEMMA OneUnit ==
  ASSUME NEW p \in Int, NEW q \in Int, p % Size = q % Size, q - p < Size, p - q < Size
  PROVE  p = q
<1> DEFINE k == p \div Size
           l == q \div Size
           r == p % Size
<1>1. k \in Int /\ r \in Int /\ p = Size * k + r
  BY UnitOf, BackwardFacts, SMTT(60)
<1>2. l \in Int /\ q = Size * l + r
  BY UnitOf, BackwardFacts, SMTT(60)
<1> HIDE DEF k, l, r
<1>3. l - k \in Int /\ q - p \in Int /\ Size * (l - k) = q - p /\ -Size < q - p
  BY <1>1, <1>2, BackwardFacts, SMTT(60)
<1>4. q - p = 0
  BY <1>3, NearMultiple
<1> QED
  BY <1>4, SMTT(60)

\* The unit of a position d further on, if that is not behind the end.
LEMMA UnitFurther ==
  ASSUME NEW p \in Int, NEW d \in Nat, (p % Size) + d < Size
  PROVE  (p + d) % Size = (p % Size) + d
<1> DEFINE k == p \div Size
           l == (p + d) \div Size
           m == p % Size
           r == (p + d) % Size
<1>1. k \in Int /\ m \in 0..(Size - 1) /\ p = Size * k + m
  BY UnitOf
<1>2. l \in Int /\ r \in 0..(Size - 1) /\ p + d = Size * l + r
  <2>1. p + d \in Int
    BY SMTT(60)
  <2> QED
    BY <2>1, UnitOf
<1>3. m + d < Size
  OBVIOUS
<1> HIDE DEF k, l, m, r
<1>4. Size * (l - k) = m + d - r
  BY <1>1, <1>2, BackwardFacts, SMTT(60)
<1>5. /\ l - k \in Int /\ m + d - r \in Int
      /\ m + d - r < Size /\ -Size < m + d - r
  BY <1>1, <1>2, <1>3, BackwardFacts, SMTT(60)
<1>6. m + d - r = 0
  BY <1>4, <1>5, NearMultiple
<1>7. r = m + d
  BY <1>1, <1>2, <1>6, BackwardFacts, SMTT(60)
<1> QED
  BY <1>7 DEF r, m

\* The first part of perf_mmap__push ends at the end of the buffer, and not behind
\* the end of the data.
LEMMA PushFits ==
  ASSUME NEW from \in Int, NEW to \in Int, from <= to, to - from <= Size,
         (from % Size) + (to - from) # to % Size
  PROVE  /\ Size - (from % Size) \in Nat
         /\ from + (Size - (from % Size)) <= to
<1> DEFINE m == from % Size
           d == to - from
<1>1. m \in 0..(Size - 1)
  BY UnitOf
<1>2. d \in Nat /\ from + d = to
  BY SMTT(60)
<1>3. ~(m + d < Size)
  <2> SUFFICES ASSUME m + d < Size PROVE FALSE
    OBVIOUS
  <2> HIDE DEF d
  <2>1. (from + d) % Size = m + d
    BY <1>2, UnitFurther
  <2> QED
    BY <1>2, <2>1 DEF d
<1> HIDE DEF m, d
<1>4. Size - m \in Nat /\ from + (Size - m) <= from + d
  BY <1>1, <1>2, <1>3, BackwardFacts, SMTT(60)
<1> QED
  BY <1>2, <1>4 DEF m

-----------------------------------------------------------------------------
(* The kernel writes.                                                      *)

\* The types of the numbers.
LEMMA BackwardTypes ==
  ASSUME BackwardTypeOK
  PROVE  /\ head \in Int /\ MinHead <= head /\ head <= 0
         /\ prev \in Int /\ MinHead <= prev /\ prev <= 0
         /\ start \in Int /\ MinHead <= start /\ start <= 0
         /\ end \in Int /\ MinHead <= end /\ end <= 0
         /\ \A p \in Positions : sizes[p] \in 0..Size
         /\ DOMAIN data = 0..(Size - 1)
<1>1. \A n \in MinHead..0 : n \in Int /\ MinHead <= n /\ n <= 0
  BY BackwardFacts, SMTT(60)
<1> QED
  BY <1>1 DEF BackwardTypeOK

\* What KernelWrite does to the events.
LEMMA WriteEffect ==
  ASSUME BackwardTypeOK, NEW size \in EventSizes, KernelWrite(size)
  PROVE  /\ size \in 1..Size /\ head' = head - size /\ head' \in Positions
         /\ sizes'[head'] = size
         /\ \A p \in Positions : p # head' => sizes'[p] = sizes[p]
<1>1. size \in 1..Size /\ head' = head - size /\ head - size >= MinHead
  BY BackwardFacts DEF KernelWrite
<1>2. head' \in Positions
  <2>1. head - size \in Int /\ MinHead <= head - size /\ head - size < 0
    BY <1>1, BackwardTypes, BackwardFacts, SMTT(60)
  <2> QED
    BY <1>1, <2>1, PositionFacts
<1>3. sizes' = [sizes EXCEPT ![head'] = size] /\ DOMAIN sizes = Positions
  BY <1>1 DEF KernelWrite, BackwardTypeOK
<1> QED
  BY <1>1, <1>2, <1>3

\* An event overwrites none of the last Size positions, and its own are stored.
LEMMA WriteStores ==
  ASSUME BackwardTypeOK, StoredInv, NEW size \in EventSizes, KernelWrite(size)
  PROVE  StoredInv'
<1> DEFINE new == (head - size)..(head - 1)
<1>1. /\ head \in Int /\ size \in 1..Size /\ head' = head - size
      /\ DOMAIN data = 0..(Size - 1) /\ Size \in Nat /\ Size > 0
  BY BackwardTypes, WriteEffect, BackwardFacts
<1> SUFFICES ASSUME NEW p \in Positions, head - size <= p, p < head - size + Size
             PROVE  data'[p % Size] = p
  BY <1>1 DEF StoredInv, Positions, MinHead
<1>2. p \in Int /\ p % Size \in 0..(Size - 1)
  BY PositionFacts, UnitOf
<1>3. data'[p % Size] = IF \E q \in new : q % Size = p % Size
                        THEN CHOOSE q \in new : q % Size = p % Size
                        ELSE data[p % Size]
  BY <1>1, <1>2 DEF KernelWrite
<1>4. \A q \in new : q % Size = p % Size => q = p
  <2> SUFFICES ASSUME NEW q \in new, q % Size = p % Size PROVE q = p
    OBVIOUS
  <2>1. q \in Int /\ q - p < Size /\ p - q < Size
    BY <1>1, <1>2, SMTT(60)
  <2> QED
    BY <1>2, <2>1, OneUnit
<1>5. p \notin new => head <= p /\ p < head + Size
  BY <1>1, <1>2, SMTT(60)
<1> HIDE DEF new
<1>6. CASE p \in new
  BY <1>3, <1>4, <1>6
<1>7. CASE p \notin new
  <2>1. ~\E q \in new : q % Size = p % Size
    BY <1>4, <1>7
  <2>2. data[p % Size] = p
    BY <1>5, <1>7 DEF StoredInv
  <2> QED
    BY <1>3, <2>1, <2>2
<1> QED
  BY <1>6, <1>7

\* A new event lies before the others.
LEMMA WriteEvents ==
  ASSUME BackwardTypeOK, EventsInv, NEW size \in EventSizes, KernelWrite(size)
  PROVE  EventsInv' /\ \A p : Boundary(p) => Boundary(p)'
<1> DEFINE h == head'
<1>1. /\ size \in 1..Size /\ h = head - size /\ h \in Positions /\ sizes'[h] = size
      /\ \A p \in Positions : p # h => sizes'[p] = sizes[p]
  BY WriteEffect
<1>2. /\ head \in Int /\ h \in Int /\ h + size = head /\ h < head /\ size > 0
      /\ Size \in Nat /\ MinHead \in Int
  BY <1>1, BackwardTypes, BackwardFacts, PositionFacts, SMTT(60)
<1>3. \A p \in Positions : p \in Int /\ sizes[p] \in Int
  BY BackwardTypes, PositionFacts, BackwardFacts, SMTT(60)
<1>4. \A p \in Positions : sizes[p] > 0 => p # h /\ head <= p /\ sizes'[p] = sizes[p]
  <2>1. \A p \in Positions : sizes[p] > 0 => head <= p
    BY DEF EventsInv
  <2>2. \A p \in Positions : head <= p => p # h
    BY <1>2, <1>3, SMTT(60)
  <2> QED
    BY <1>1, <2>1, <2>2
<1>5. \A p \in Positions : sizes'[p] > 0 => p = h \/ (p # h /\ sizes[p] > 0)
  BY <1>1
<1>6. \A p : Boundary(p) => Boundary(p)'
  <2> SUFFICES ASSUME NEW p, Boundary(p) PROVE Boundary(p)'
    OBVIOUS
  <2>1. p = 0 \/ (p \in Positions /\ sizes[p] > 0)
    BY DEF Boundary
  <2>2. p = 0 \/ (p \in Positions /\ sizes'[p] > 0)
    BY <1>4, <2>1
  <2> QED
    BY <2>2 DEF Boundary, Positions, MinHead
<1> DEFINE NewBoundary(x) == x = 0 \/ (x \in Positions /\ sizes'[x] > 0)
<1>7. \A p \in Positions : sizes'[p] > 0 => h <= p /\ NewBoundary(p + sizes'[p])
  <2> SUFFICES ASSUME NEW p \in Positions, sizes'[p] > 0
               PROVE  h <= p /\ NewBoundary(p + sizes'[p])
    OBVIOUS
  <2>1. CASE p = h
    <3>1. h <= p
      BY <1>2, <2>1, SMTT(60)
    <3>2. p + sizes'[p] = head /\ Boundary(head)
      BY <1>1, <1>2, <2>1 DEF EventsInv
    <3>3. NewBoundary(head)
      BY <1>4, <3>2 DEF Boundary
    <3> QED
      BY <3>1, <3>2, <3>3
  <2>2. CASE p # h /\ sizes[p] > 0
    <3>1. sizes'[p] = sizes[p] /\ head <= p /\ Boundary(p + sizes[p])
      BY <1>1, <2>2 DEF EventsInv
    <3>2. h <= p
      BY <1>2, <1>3, <3>1, SMTT(60)
    <3>3. NewBoundary(p + sizes[p])
      BY <1>4, <3>1 DEF Boundary
    <3> QED
      BY <3>1, <3>2, <3>3
  <2> QED
    BY <1>5, <2>1, <2>2
<1>8. ASSUME NEW p \in Positions, NEW q \in Positions, sizes'[p] > 0, sizes'[q] > 0, p < q
      PROVE  p + sizes'[p] <= q
  <2>1. p = h \/ (p # h /\ sizes[p] > 0)
    BY <1>5, <1>8
  <2>2. q = h \/ (q # h /\ sizes[q] > 0)
    BY <1>5, <1>8
  <2>3. CASE p = h /\ q # h
    <3>1. head <= q /\ p + sizes'[p] = head
      BY <1>1, <1>2, <1>4, <2>2, <2>3
    <3> QED
      BY <3>1
  <2>4. CASE p # h /\ q # h
    <3>1. p + sizes[p] <= q /\ sizes'[p] = sizes[p]
      BY <1>1, <1>8, <2>1, <2>2, <2>4 DEF EventsInv
    <3> QED
      BY <3>1
  <2>5. CASE q = h
    <3>1. p # h => head <= p
      BY <1>4, <2>1
    <3>2. p < h /\ p \in Int
      BY <1>3, <1>8, <2>5
    <3>3. p # h /\ ~(head <= p)
      BY <1>2, <3>2, SMTT(60)
    <3> QED
      BY <3>1, <3>3
  <2> QED
    BY <2>3, <2>4, <2>5
<1>9. ASSUME NEW u \in Positions, h <= u
       PROVE  \E p \in Positions : sizes'[p] > 0 /\ p <= u /\ u < p + sizes'[p]
  <2>1. CASE head <= u
    <3>1. PICK p \in Positions : sizes[p] > 0 /\ p <= u /\ u < p + sizes[p]
      BY <2>1 DEF EventsInv
    <3>2. sizes'[p] = sizes[p]
      BY <1>4, <3>1
    <3> QED
      BY <3>1, <3>2
  <2>2. CASE ~(head <= u)
    <3>1. u < h + size
      BY <1>2, <1>3, <2>2, SMTT(60)
    <3> QED
      BY <1>1, <1>2, <1>9, <3>1
  <2> QED
    BY <2>1, <2>2
<1>10. NewBoundary(h)
  BY <1>1, <1>2
<1>11. EventsInv'
  BY <1>7, <1>8, <1>9, <1>10 DEF EventsInv, Boundary, Positions, MinHead
<1> QED
  BY <1>6, <1>11

-----------------------------------------------------------------------------
(* The tool reads.                                                         *)

\* The units from one position up to another hold these positions.
LEMMA UnitsStored ==
  ASSUME BackwardTypeOK, StoredInv, NEW from \in Int, NEW to \in Int,
         head <= from, from <= to, to <= head + Size, to <= 0
  PROVE  /\ Units(from, to) \in Seq(MinHead..0) /\ Len(Units(from, to)) = to - from
         /\ \A i \in 1..(to - from) : Units(from, to)[i] = from + i - 1
<1>1. head \in Int /\ MinHead <= head /\ MinHead \in Int /\ Size \in Nat /\ to - from \in Nat
  BY BackwardTypes, BackwardFacts, SMTT(60)
<1>2. ASSUME NEW i \in 1..(to - from)
      PROVE  data[(from + i - 1) % Size] = from + i - 1 /\ from + i - 1 \in MinHead..0
  <2> DEFINE p == from + i - 1
  <2>1. p \in Int /\ MinHead <= p /\ p < 0 /\ head <= p /\ p < head + Size /\ p \in MinHead..0
    BY <1>1, SMTT(60)
  <2> HIDE DEF p
  <2>2. data[p % Size] = p /\ p \in MinHead..0
    BY <2>1, PositionFacts DEF StoredInv
  <2> QED
    BY <2>2 DEF p
<1>3. Units(from, to) = [i \in 1..(to - from) |-> data[(from + i - 1) % Size]]
  BY DEF Units
<1>4. Units(from, to) \in [1..(to - from) -> MinHead..0]
  BY <1>2, <1>3
<1>5. \A i \in 1..(to - from) : Units(from, to)[i] = from + i - 1
  BY <1>2, <1>3
<1> HIDE DEF Units
<1>6. Units(from, to) \in Seq(MinHead..0) /\ Len(Units(from, to)) = to - from
  BY <1>1, <1>4, SMTT(60)
<1> QED
  BY <1>5, <1>6

\* Collecting the units up to a position.
LEMMA Collects ==
  ASSUME BackwardTypeOK, StoredInv, head <= start, Len(out) = start - head,
         InOrder(head, out),
         NEW to \in Int, start <= to, to <= head + Size, to <= 0
  PROVE  LET o == out \o Units(start, to)
         IN  o \in Seq(MinHead..0) /\ Len(o) = to - head /\ InOrder(head, o)
<1> DEFINE n == Units(start, to)
           o == out \o n
<1>1. head \in Int /\ start \in Int /\ out \in Seq(MinHead..0)
  BY BackwardTypes DEF BackwardTypeOK
<1>2. /\ n \in Seq(MinHead..0) /\ Len(n) = to - start
      /\ \A i \in 1..(to - start) : n[i] = start + i - 1
  BY <1>1, UnitsStored
<1>3. \A i \in 1..(start - head) : out[i] = head + i - 1
  <2>1. DOMAIN out = 1..(start - head)
    BY <1>1, SMTT(60)
  <2> QED
    BY <2>1 DEF InOrder
<1> HIDE DEF n
<1>4. o \in Seq(MinHead..0) /\ Len(o) = to - head /\ DOMAIN o = 1..(to - head)
  BY <1>1, <1>2, SMTT(60)
<1>5. ASSUME NEW i \in 1..(to - head) PROVE o[i] = head + i - 1
  <2>1. CASE i <= start - head
    <3>1. o[i] = out[i] /\ i \in 1..(start - head)
      BY <1>1, <1>2, <2>1, SMTT(60)
    <3> QED
      BY <1>3, <3>1
  <2>2. CASE i > start - head
    <3>1. o[i] = n[i - (start - head)] /\ i - (start - head) \in 1..(to - start)
      BY <1>1, <1>2, <2>2, SMTT(60)
    <3>2. n[i - (start - head)] = start + (i - (start - head)) - 1
      BY <1>2, <3>1
    <3>3. start + (i - (start - head)) - 1 = head + i - 1
      BY <1>1, SMTT(60)
    <3> QED
      BY <3>1, <3>2, <3>3
  <2>3. i <= start - head \/ i > start - head
    BY <1>1, SMTT(60)
  <2> QED
    BY <2>1, <2>2, <2>3
<1> QED
  BY <1>4, <1>5 DEF InOrder, n

\* The header of an event that is in the buffer.
LEMMA HeaderStored ==
  ASSUME BackwardTypeOK, StoredInv, NEW p \in Positions, head <= p, p < head + Size
  PROVE  header_size(p) = sizes[p]
<1>1. data[p % Size] = p
  BY DEF StoredInv
<1>2. p # NoUnit
  BY PositionFacts, SMTT(60) DEF NoUnit
<1> QED
  BY <1>1, <1>2 DEF header_size

\* The least of some numbers.
LEMMA LeastIs ==
  ASSUME NEW S, S \subseteq Int, NEW m \in S, \A y \in S : m <= y
  PROVE  Min(S) = m
<1>1. \A x \in S : (\A y \in S : x <= y) => x = m
  BY SMTT(60)
<1> QED
  BY <1>1 DEF Min

\* The events up to a position e are new and whole, those behind it are not: what
\* __perf_mmap__read_init finds.
LEMMA UnitsUpTo ==
  ASSUME BackwardTypeOK, EventsInv, PrevInv, prev \in Heads, head < prev,
         NEW e, Boundary(e), head < e, e <= prev, e <= head + Size,
         \/ e = prev \/ e = head + Size
         \/ e \in Positions /\ sizes[e] > 0 /\ e + sizes[e] > head + Size
  PROVE  UnitsAt(head) = head..(e - 1)
<1>1. /\ head \in Int /\ prev \in Int /\ Size \in Nat /\ MinHead \in Int /\ MinHead <= head
      /\ prev <= 0 /\ Size > 0
  BY BackwardTypes, BackwardFacts
<1>2. e \in Int
  BY PositionFacts, SMTT(60) DEF Boundary
<1>3. \A p \in Positions : p \in Int /\ sizes[p] \in Int /\ MinHead <= p /\ p < 0
  BY BackwardTypes, PositionFacts, BackwardFacts, SMTT(60)
<1>4. Min(EarlierHeads(head)) = prev
  <2> DEFINE E == EarlierHeads(head)
  <2>1. \A h \in E : h \in Heads
    BY DEF EarlierHeads, Heads
  <2>2. prev \in E
    <3>1. CASE prev = 0
      BY <3>1 DEF EarlierHeads
    <3>2. CASE prev # 0
      <4>1. PICK s \in snapshots : s[1] = prev
        BY <3>2 DEF Heads
      <4>2. prev > head
        BY <1>1, SMTT(60)
      <4> QED
        BY <4>1, <4>2 DEF EarlierHeads
    <3> QED
      BY <3>1, <3>2
  <2>3. \A h \in E : prev <= h
    BY <2>1 DEF PrevInv
  <2>4. E \subseteq Int
    <3>1. \A s \in snapshots : s[1] \in MinHead..0
      BY DEF BackwardTypeOK
    <3>2. \A h \in Heads : h \in Int
      BY <1>1, <3>1, SMTT(60) DEF Heads
    <3> QED
      BY <2>1, <3>2
  <2> HIDE DEF E
  <2> QED
    BY <2>2, <2>3, <2>4, LeastIs DEF E
<1>5. \A p : p \in WholeAt(head) <=> /\ p \in Positions /\ p >= head /\ sizes[p] > 0
                                     /\ p + sizes[p] <= prev /\ p + sizes[p] <= head + Size
  BY <1>4 DEF WholeAt, Fresh
<1>6. ASSUME NEW p \in Positions, sizes[p] > 0, p < e
      PROVE  p \in WholeAt(head) /\ p + sizes[p] <= e
  <2>1. p + sizes[p] <= e
    <3>1. CASE e = 0
      <4>1. Boundary(p + sizes[p])
        BY <1>6 DEF EventsInv
      <4>2. p + sizes[p] <= 0
        BY <1>1, <1>3, <4>1, SMTT(60) DEF Boundary
      <4> QED
        BY <3>1, <4>2
    <3>2. CASE e \in Positions /\ sizes[e] > 0
      BY <1>6, <3>2 DEF EventsInv
    <3> QED
      BY <3>1, <3>2 DEF Boundary
  <2>2. head <= p
    BY <1>6 DEF EventsInv
  <2>3. p >= head /\ p + sizes[p] <= prev /\ p + sizes[p] <= head + Size
    BY <1>1, <1>2, <1>3, <2>1, <2>2, SMTT(60)
  <2> QED
    BY <1>5, <1>6, <2>1, <2>3
<1>7. ASSUME NEW p \in WholeAt(head) PROVE p \in Positions /\ sizes[p] > 0 /\ p < e /\ head <= p
  <2>1. /\ p \in Positions /\ p >= head /\ sizes[p] > 0
        /\ p + sizes[p] <= prev /\ p + sizes[p] <= head + Size
    BY <1>5
  <2>2. CASE e = prev \/ e = head + Size
    BY <1>1, <1>3, <2>1, <2>2, SMTT(60)
  <2>3. CASE e \in Positions /\ sizes[e] > 0 /\ e + sizes[e] > head + Size
    <3>1. e < p => e + sizes[e] <= p
      BY <2>1, <2>3 DEF EventsInv
    <3>2. sizes[p] \in Int /\ sizes[e] \in Int /\ p \in Int
      BY <1>3, <2>1, <2>3
    <3>3. p = e => sizes[p] = sizes[e]
      OBVIOUS
    <3> QED
      BY <1>1, <1>2, <2>1, <2>3, <3>1, <3>2, <3>3, SMTT(60)
  <2> QED
    BY <2>2, <2>3
<1>8. ASSUME NEW u, u \in UnitsAt(head) PROVE u \in head..(e - 1)
  <2>1. PICK p \in WholeAt(head) : u \in p..(p + sizes[p] - 1)
    BY <1>8 DEF UnitsAt
  <2>2. p \in Positions /\ sizes[p] > 0 /\ p < e /\ head <= p /\ p + sizes[p] <= e
    BY <1>6, <1>7
  <2>3. p \in Int /\ sizes[p] \in Int
    BY <1>3, <2>2
  <2> QED
    BY <1>1, <1>2, <2>1, <2>2, <2>3, SMTT(60)
<1>9. ASSUME NEW u \in head..(e - 1) PROVE u \in UnitsAt(head)
  <2>1. u \in Int /\ MinHead <= u /\ u < 0 /\ head <= u /\ u < e
    BY <1>1, <1>2, SMTT(60)
  <2>2. PICK p \in Positions : sizes[p] > 0 /\ p <= u /\ u < p + sizes[p]
    BY <2>1, PositionFacts DEF EventsInv
  <2>3. p < e /\ u \in p..(p + sizes[p] - 1)
    BY <1>2, <1>3, <2>1, <2>2, SMTT(60)
  <2>4. p \in WholeAt(head)
    BY <1>6, <2>2, <2>3
  <2> QED
    BY <2>3, <2>4 DEF UnitsAt
<1> QED
  BY <1>8, <1>9

-----------------------------------------------------------------------------
(* What stays as it is.                                                    *)

\* The snapshot at h does not depend on what is written before h, nor on the
\* snapshots from there on.
LEMMA SameUnits ==
  ASSUME NEW h, EarlierHeads(h)' = EarlierHeads(h),
         \A p \in Positions : p >= h => sizes'[p] = sizes[p]
  PROVE  UnitsAt(h)' = UnitsAt(h)
<1> DEFINE m == Min(EarlierHeads(h))
<1>1. Min(EarlierHeads(h))' = m
  BY DEF Min
<1>2. WholeAt(h) = {p \in Positions : /\ p >= h /\ sizes[p] > 0
                                      /\ p + sizes[p] <= m /\ p + sizes[p] <= h + Size}
  BY DEF WholeAt, Fresh
<1>3. WholeAt(h)' = {p \in Positions : /\ p >= h /\ sizes'[p] > 0
                                       /\ p + sizes'[p] <= m /\ p + sizes'[p] <= h + Size}
  BY <1>1 DEF WholeAt, Fresh, Positions, MinHead
<1> HIDE DEF m
<1>4. WholeAt(h)' = WholeAt(h) /\ \A p \in WholeAt(h) : sizes'[p] = sizes[p]
  BY <1>2, <1>3
<1>5. UnitsAt(h)' = UNION {p..(p + sizes'[p] - 1) : p \in WholeAt(h)}
  BY <1>4 DEF UnitsAt
<1>6. UnitsAt(h) = UNION {p..(p + sizes[p] - 1) : p \in WholeAt(h)}
  BY DEF UnitsAt
<1> QED
  BY <1>4, <1>5, <1>6

\* The steps of the reader leave the buffer alone.
LEMMA SameBuffer ==
  ASSUME UNCHANGED mapped
  PROVE  /\ StoredInv => StoredInv'
         /\ EventsInv => EventsInv'
         /\ \A p : Boundary(p) <=> Boundary(p)'
<1>1. head' = head /\ data' = data /\ sizes' = sizes
  BY DEF mapped
<1>2. StoredInv => StoredInv'
  BY <1>1 DEF StoredInv, Positions, MinHead
<1>3. \A p : Boundary(p) <=> Boundary(p)'
  BY <1>1 DEF Boundary, Positions, MinHead
<1>4. EventsInv => EventsInv'
  BY <1>1 DEF EventsInv, Boundary, Positions, MinHead
<1> QED
  BY <1>2, <1>3, <1>4

\* And all but one the snapshots.
LEMMA SameHistory ==
  ASSUME UNCHANGED <<mapped, snapshots>>
  PROVE  /\ StoredInv => StoredInv'
         /\ EventsInv => EventsInv'
         /\ Heads' = Heads
         /\ \A p : Boundary(p) <=> Boundary(p)'
         /\ \A h, e : Taken(h, e) => Taken(h, e)'
         /\ SnapshotsInv => SnapshotsInv'
<1>1. head' = head /\ sizes' = sizes /\ snapshots' = snapshots /\ UNCHANGED mapped
  BY DEF mapped
<1>2. Heads' = Heads
  BY <1>1 DEF Heads
<1>3. ASSUME NEW h, NEW e, Taken(h, e) PROVE Taken(h, e)'
  <2>1. EarlierHeads(h)' = EarlierHeads(h)
    BY <1>1 DEF EarlierHeads
  <2>2. UnitsAt(h)' = UnitsAt(h)
    BY <1>1, <2>1, SameUnits
  <2> QED
    BY <1>2, <1>3, <2>2 DEF Taken
<1>4. SnapshotsInv => SnapshotsInv'
  <2> SUFFICES ASSUME SnapshotsInv PROVE SnapshotsInv'
    OBVIOUS
  <2>1. ASSUME NEW s \in snapshots, s[2] # <<>> PROVE Taken(s[1], s[1] + Len(s[2]))'
    BY <1>3, <2>1 DEF SnapshotsInv
  <2> QED
    BY <1>1, <2>1 DEF SnapshotsInv, InOrder
<1> QED
  BY <1>1, <1>2, <1>3, <1>4, SameBuffer

\* Nor do they change what is known of the end.
LEMMA SameKnown ==
  ASSUME UNCHANGED <<mapped, end, snapshots>>, Known
  PROVE  Known'
<1>1. head' = head /\ end' = end /\ snapshots' = snapshots /\ UNCHANGED <<mapped, snapshots>>
  BY DEF mapped
<1>2. PICK h, e : h = head /\ e = end
  OBVIOUS
<1>3. e > h => Taken(h, e)'
  <2>1. e > h => Taken(h, e)
    BY <1>2 DEF Known
  <2> QED
    BY <1>1, <2>1, SameHistory
<1>4. end' > head' => Taken(h, e)' /\ h = head' /\ e = end'
  BY <1>1, <1>2, <1>3
<1>5. /\ end' = head' => head' \in Heads'
      /\ end' > head' => head' \notin Heads'
  BY <1>1, SameHistory DEF Known
<1>6. (end > head => Taken(head, end))'
  BY <1>4
<1> QED
  BY <1>5, <1>6 DEF Known

-----------------------------------------------------------------------------
(* The steps.                                                              *)

\* A position of the reader.
LEMMA InRange == \A n \in Int : MinHead <= n /\ n <= 0 => n \in MinHead..0
BY BackwardFacts, SMTT(60)

\* The kernel writes only while the buffer is not read.
LEMMA KernelStep ==
  ASSUME BackwardInv, NEW size \in EventSizes, KernelWrite(size)
  PROVE  BackwardInv'
<1>1. /\ BackwardTypeOK /\ StoredInv /\ EventsInv /\ SnapshotsInv /\ PrevInv
      /\ PausedInv /\ ReadingInv
  BY DEF BackwardInv
<1>2. /\ size \in 1..Size /\ head' = head - size /\ head' \in Positions
      /\ sizes'[head'] = size
      /\ \A p \in Positions : p # head' => sizes'[p] = sizes[p]
  BY <1>1, WriteEffect
<1>3. /\ state = "RUNNING" /\ state' = state /\ prev' = prev /\ start' = start /\ end' = end
      /\ func' = func /\ out' = out /\ snapshots' = snapshots
  BY DEF KernelWrite
<1>4. head \in Int /\ head' \in Int /\ head' < head /\ head <= 0 /\ MinHead <= head - size
  BY <1>1, <1>2, BackwardTypes, BackwardFacts, PositionFacts, SMTT(60)
<1>5. StoredInv' /\ EventsInv' /\ \A p : Boundary(p) => Boundary(p)'
  BY <1>1, WriteStores, WriteEvents
<1>6. BackwardTypeOK'
  <2>1. head' \in MinHead..0
    BY <1>2, <1>4, BackwardFacts, SMTT(60)
  <2>2. data' \in [0..(Size - 1) -> MinHead..0]
    <3> DEFINE new == (head - size)..(head - 1)
    <3>1. \A p \in new : p \in MinHead..0
      BY <1>2, <1>4, BackwardFacts, SMTT(60)
    <3>2. data' = [u \in DOMAIN data |-> IF \E p \in new : p % Size = u
                                         THEN CHOOSE p \in new : p % Size = u ELSE data[u]]
      BY DEF KernelWrite
    <3>3. data \in [0..(Size - 1) -> MinHead..0]
      BY <1>1 DEF BackwardTypeOK
    <3> HIDE DEF new
    <3>4. \A u \in 0..(Size - 1) : (IF \E p \in new : p % Size = u
                                    THEN CHOOSE p \in new : p % Size = u
                                    ELSE data[u]) \in MinHead..0
      BY <3>1, <3>3
    <3> QED
      BY <3>2, <3>3, <3>4
  <2>3. sizes' \in [Positions -> 0..Size]
    <3>1. sizes \in [Positions -> 0..Size] /\ sizes' = [sizes EXCEPT ![head - size] = size]
      BY <1>1 DEF BackwardTypeOK, KernelWrite
    <3>2. size \in 0..Size
      BY <1>2, BackwardFacts, SMTT(60)
    <3> QED
      BY <3>1, <3>2
  <2> QED
    BY <1>1, <1>3, <2>1, <2>2, <2>3 DEF BackwardTypeOK, Positions, MinHead
<1>7. Heads' = Heads
  BY <1>3 DEF Heads
<1>8. SnapshotsInv'
  <2>1. ASSUME NEW s \in snapshots PROVE head' <= s[1] /\ InOrder(s[1], s[2])
    <3>1. s[1] \in MinHead..0 /\ head <= s[1] /\ InOrder(s[1], s[2])
      BY <1>1 DEF SnapshotsInv, BackwardTypeOK
    <3> QED
      BY <1>4, <3>1, BackwardFacts, SMTT(60)
  <2>2. ASSUME NEW s \in snapshots, s[2] # <<>> PROVE Taken(s[1], s[1] + Len(s[2]))'
    <3>1. s[1] \in MinHead..0 /\ head <= s[1] /\ Taken(s[1], s[1] + Len(s[2]))
      BY <1>1, <2>2 DEF SnapshotsInv, BackwardTypeOK
    <3>2. EarlierHeads(s[1])' = EarlierHeads(s[1])
      BY <1>3 DEF EarlierHeads
    <3>3. \A p \in Positions : p >= s[1] => p # head'
      BY <1>4, <3>1, BackwardFacts, PositionFacts, SMTT(60)
    <3>4. UnitsAt(s[1])' = UnitsAt(s[1])
      BY <1>2, <3>2, <3>3, SameUnits
    <3> QED
      BY <1>7, <3>1, <3>4 DEF Taken
  <2>3. \A s, t \in snapshots : s[1] = t[1] /\ s[2] # <<>> /\ t[2] # <<>> => s = t
    BY <1>1 DEF SnapshotsInv
  <2> QED
    BY <1>3, <2>1, <2>2, <2>3 DEF SnapshotsInv, InOrder
<1>9. PrevInv'
  <2>1. head <= prev /\ prev \in Int
    BY <1>1, BackwardTypes DEF PrevInv
  <2>2. head' <= prev
    BY <1>4, <2>1, SMTT(60)
  <2>3. PICK p : p = prev
    OBVIOUS
  <2>4. Boundary(p)' /\ p = prev'
    BY <1>1, <1>3, <1>5, <2>3 DEF PrevInv
  <2>5. Boundary(prev)'
    BY <2>4
  <2> QED
    BY <1>1, <1>3, <1>7, <2>2, <2>5 DEF PrevInv
<1>10. PausedInv' /\ ReadingInv'
  <2>1. func = "idle" /\ func' = "idle" /\ out' = <<>>
    BY <1>1, <1>3 DEF PausedInv, ReadingInv, Collecting, Finished
  <2> QED
    BY <1>1, <1>3, <2>1 DEF PausedInv, ReadingInv, Collecting, Finished, Walking
<1> QED
  BY <1>5, <1>6, <1>8, <1>9, <1>10 DEF BackwardInv

\* The types, in a step of the reader.
LEMMA ReaderTypes ==
  ASSUME BackwardTypeOK, UNCHANGED <<mapped, snapshots>>,
         prev' \in MinHead..0, start' \in MinHead..0, end' \in MinHead..0,
         state' \in {"RUNNING", "DATA_PENDING", "EMPTY"},
         func' \in {"idle", "push_init", "push_walk", "push_first", "push_second",
                    "read_init", "read_walk", "read_event", "read_done", "empty"},
         out' \in Seq(MinHead..0)
  PROVE  BackwardTypeOK'
BY DEF BackwardTypeOK, mapped, Positions, MinHead

\* prev stays where it is.
LEMMA PrevKept ==
  ASSUME PrevInv, UNCHANGED <<mapped, snapshots, prev>>, func # "empty" \/ state = "EMPTY"
  PROVE  PrevInv'
<1>1. head' = head /\ prev' = prev /\ Heads' = Heads
  BY SameHistory DEF mapped
<1>2. Boundary(prev)'
  <2>1. PICK p : p = prev
    OBVIOUS
  <2>2. Boundary(p)' /\ p = prev'
    BY <1>1, <2>1, SameHistory DEF PrevInv
  <2> QED
    BY <2>2
<1> QED
  BY <1>1, <1>2 DEF PrevInv

\* prev advances to the head, when all was read.
LEMMA PrevAdvances ==
  ASSUME BackwardInv, UNCHANGED <<mapped, snapshots>>, prev' = head,
         func' = "empty", state' = "DATA_PENDING"
  PROVE  PrevInv'
<1>1. head' = head /\ Heads' = Heads /\ head \in Int
  BY SameHistory, BackwardTypes DEF mapped, BackwardInv
<1>2. Boundary(prev)'
  <2>1. PICK p : p = head
    OBVIOUS
  <2>2. Boundary(p)' /\ p = prev'
    BY <1>1, <2>1, SameHistory DEF BackwardInv, EventsInv
  <2> QED
    BY <2>2
<1>3. head <= head /\ \A h \in Heads : head <= h
  <2>1. head <= 0 /\ head <= head
    BY <1>1, BackwardTypes, SMTT(60) DEF BackwardInv
  <2> QED
    BY <2>1 DEF Heads, BackwardInv, SnapshotsInv
<1> QED
  BY <1>1, <1>2, <1>3 DEF PrevInv

\* The end that is found is that of the snapshot.
LEMMA KnownEnd ==
  ASSUME BackwardInv, prev \in Heads, head < prev, UNCHANGED <<mapped, snapshots>>,
         end' \in Int, Boundary(end'), head < end', end' <= prev, end' <= head + Size,
         \/ end' = prev \/ end' = head + Size
         \/ end' \in Positions /\ sizes[end'] > 0 /\ end' + sizes[end'] > head + Size
  PROVE  Known'
<1>1. head' = head /\ head \in Int /\ prev \in Int
  BY BackwardTypes DEF mapped, BackwardInv
<1>2. PICK h, e : h = head /\ e = end'
  OBVIOUS
<1>3. UnitsAt(h) = h..(e - 1)
  BY <1>2, UnitsUpTo DEF BackwardInv
<1>4. \A t \in Heads : e <= t
  <2>1. \A t \in Heads : prev <= t /\ t \in Int
    <3>1. \A s \in snapshots : s[1] \in MinHead..0
      BY DEF BackwardInv, BackwardTypeOK
    <3>2. \A t \in Heads : t \in Int
      BY <3>1, BackwardFacts, SMTT(60) DEF Heads
    <3> QED
      BY <3>2 DEF BackwardInv, PrevInv
  <2> QED
    BY <1>1, <1>2, <2>1, SMTT(60)
<1>5. Taken(h, e)'
  <2>1. Taken(h, e)
    BY <1>3, <1>4 DEF Taken
  <2> QED
    BY <2>1, SameHistory
<1>6. Taken(head, end)'
  BY <1>1, <1>2, <1>5
<1>7. end' # head' /\ head' \notin Heads'
  <2>1. head \notin Heads
    BY <1>1, <1>2, <1>4, SMTT(60)
  <2> QED
    BY <1>1, <2>1, SameHistory, SMTT(60)
<1> QED
  BY <1>6, <1>7 DEF Known

\* __perf_mmap__read_init: the walk starts, the buffer is not full, or there is
\* nothing new.
LEMMA ReadInitEffect ==
  ASSUME BackwardInv, func \in {"push_init", "read_init"},
         NEW again, NEW walk, NEW next, ReadInit(again, walk, next)
  PROVE  /\ UNCHANGED <<mapped, snapshots, state, prev, out>>
         /\ start' \in MinHead..0 /\ end' \in MinHead..0
         /\ Gathered' /\ start' = head' /\ Boundary(start)'
         /\ \/ func' = walk /\ prev' - head' > Size
            \/ func' = next /\ Known'
            \/ func' = again /\ Known' /\ start' = end' /\ prev' = head'
<1>1. /\ UNCHANGED <<mapped, snapshots, state, prev, out>> /\ start' = head
      /\ \/ prev - head > Size /\ end' = head /\ func' = walk
         \/ ~(prev - head > Size) /\ end' = prev /\ func' = IF prev = head THEN again ELSE next
  BY DEF ReadInit
<1>2. /\ head' = head /\ head \in Int /\ prev \in Int /\ head <= prev /\ prev \in Heads
      /\ Boundary(prev) /\ Boundary(head) /\ out = <<>>
      /\ head \in MinHead..0 /\ prev \in MinHead..0
  BY <1>1, BackwardTypes DEF mapped, BackwardInv, PrevInv, EventsInv, ReadingInv, Collecting,
                             Finished, BackwardTypeOK
<1>3. start' \in MinHead..0 /\ end' \in MinHead..0 /\ end' \in Int /\ Boundary(end')
  BY <1>1, <1>2
<1>4. Boundary(start)' /\ Boundary(end)'
  <2>1. PICK s, e : s = head /\ e = end'
    OBVIOUS
  <2>2. Boundary(s) /\ Boundary(e)
    BY <1>2, <1>3, <2>1
  <2>3. Boundary(s)' /\ Boundary(e)' /\ s = start' /\ e = end'
    BY <1>1, <2>1, <2>2, SameHistory
  <2> QED
    BY <2>3
<1>5. Gathered'
  <2>1. head' <= start' /\ start' <= end' /\ end' <= head' + Size
    <3>1. CASE prev - head > Size /\ end' = head
      BY <1>1, <1>2, <3>1, BackwardFacts, SMTT(60)
    <3>2. CASE ~(prev - head > Size) /\ end' = prev
      BY <1>1, <1>2, <3>2, BackwardFacts, SMTT(60)
    <3> QED
      BY <1>1, <3>1, <3>2
  <2>2. out' = <<>> /\ Len(out') = start' - head'
    BY <1>1, <1>2, SMTT(60)
  <2>3. InOrder(head, out)'
    BY <2>2, SMTT(60) DEF InOrder
  <2> QED
    BY <1>4, <2>1, <2>2, <2>3 DEF Gathered
<1>6. ~(prev - head > Size) /\ end' = prev => Known'
  <2> SUFFICES ASSUME ~(prev - head > Size), end' = prev PROVE Known'
    OBVIOUS
  <2>1. CASE prev = head
    <3>1. end' = head' /\ head' \in Heads' /\ ~(end' > head')
      BY <1>1, <1>2, <2>1, SameHistory, SMTT(60)
    <3> QED
      BY <3>1 DEF Known
  <2>2. CASE prev # head
    <3>1. head < prev /\ prev <= head + Size /\ prev <= prev
      BY <1>2, <2>2, BackwardFacts, SMTT(60)
    <3> QED
      BY <1>1, <1>2, <1>3, <3>1, KnownEnd
  <2> QED
    BY <2>1, <2>2
<1> QED
  BY <1>1, <1>2, <1>3, <1>4, <1>5, <1>6

\* overwrite_rb_find_range: on to the next event, or the end is found.
LEMMA WalkEffect ==
  ASSUME BackwardInv, Walking, NEW next, overwrite_rb_find_range(next)
  PROVE  /\ UNCHANGED <<mapped, snapshots, state, prev, out, start>>
         /\ end' \in MinHead..0
         /\ Gathered' /\ start' = head' /\ Boundary(start)' /\ prev' - head' > Size
         /\ \/ func' = func
            \/ func' = next /\ Known'
<1> DEFINE size == header_size(end)
<1>1. /\ UNCHANGED <<mapped, snapshots, state, prev, out, start>>
      /\ \/ size \in 1..(start + Size - end) /\ end' = end + size /\ func' = func
         \/ size \notin 1..(start + Size - end) /\ end' = end /\ func' = next
  BY DEF overwrite_rb_find_range
<1>2. /\ head' = head /\ head \in Int /\ prev \in Int /\ end \in Int /\ prev <= 0
      /\ prev \in Heads /\ start = head /\ prev - head > Size /\ Gathered
      /\ Boundary(head) /\ end \in MinHead..0 /\ Size \in Nat /\ Size > 0
      /\ MinHead \in Int /\ MinHead <= head
  BY <1>1, BackwardTypes, BackwardFacts DEF mapped, BackwardInv, PrevInv, EventsInv, ReadingInv,
                             Walking, BackwardTypeOK
<1>3. Boundary(end) /\ head <= end /\ end <= head + Size /\ end < 0 /\ head < prev
  BY <1>2, SMTT(60) DEF Gathered
<1>4. end \in Positions /\ sizes[end] \in 1..Size
  <2>1. end # 0
    BY <1>2, <1>3, SMTT(60)
  <2>2. end \in Positions /\ sizes[end] > 0 /\ sizes[end] \in 0..Size
    BY <1>3, <2>1, BackwardTypes DEF Boundary, BackwardInv
  <2> QED
    BY <1>2, <2>2, SMTT(60)
<1>5. end < head + Size => size = sizes[end]
  BY <1>3, <1>4, HeaderStored DEF BackwardInv
<1> HIDE DEF size
<1>6. Boundary(start)'
  <2>1. PICK s : s = head
    OBVIOUS
  <2>2. Boundary(s)' /\ s = start'
    BY <1>1, <1>2, <2>1, SameHistory
  <2> QED
    BY <2>2
<1>7. ASSUME end' \in Int, Boundary(end'), head <= end', end' <= head + Size
      PROVE  Gathered'
  <2>1. PICK e : e = end'
    OBVIOUS
  <2>2. Boundary(e)' /\ e = end'
    BY <1>1, <1>7, <2>1, SameHistory
  <2>3. Boundary(end)'
    BY <2>2
  <2>4. out' = out /\ Len(out) = start - head /\ InOrder(head, out)
    BY <1>1, <1>2 DEF Gathered
  <2>5. InOrder(head, out)' /\ Len(out)' = start' - head'
    BY <1>1, <1>2, <2>4 DEF InOrder
  <2>6. head' <= start' /\ start' <= end' /\ end' <= head' + Size
    BY <1>1, <1>2, <1>7, SMTT(60)
  <2> QED
    BY <2>3, <2>5, <2>6 DEF Gathered
<1>8. CASE size \in 1..(start + Size - end) /\ end' = end + size /\ func' = func
  <2>1. end < head + Size
    BY <1>2, <1>8, SMTT(60)
  <2>2. size = sizes[end] /\ Boundary(end + sizes[end])
    <3>1. sizes[end] > 0
      BY <1>4, SMTT(60)
    <3> QED
      BY <1>4, <1>5, <2>1, <3>1 DEF BackwardInv, EventsInv
  <2>3. end' \in Int /\ head <= end' /\ end' <= head + Size /\ MinHead <= end' /\ end' <= 0
    BY <1>2, <1>3, <1>8, SMTT(60)
  <2> QED
    BY <1>1, <1>2, <1>6, <1>7, <1>8, <2>2, <2>3, InRange
<1>9. CASE size \notin 1..(start + Size - end) /\ end' = end /\ func' = next
  <2>1. end = head + Size \/ end + sizes[end] > head + Size
    BY <1>2, <1>3, <1>4, <1>5, <1>9, SMTT(60)
  <2>2. head < end
    BY <1>2, <1>3, <1>4, <2>1, SMTT(60)
  <2>3. end <= prev
    BY <1>2, <1>3, SMTT(60)
  <2>4. sizes[end] > 0
    BY <1>4, SMTT(60)
  <2>5. Known'
    BY <1>1, <1>2, <1>3, <1>4, <1>9, <2>1, <2>2, <2>3, <2>4, KnownEnd
  <2> QED
    BY <1>1, <1>2, <1>3, <1>6, <1>7, <1>9, <2>5
<1> QED
  BY <1>1, <1>8, <1>9

\* The state of a buffer that is being read.
LEMMA ReadingState ==
  ASSUME BackwardInv, func # "idle", func # "empty"
  PROVE  /\ state = "DATA_PENDING" /\ prev \in Heads
         /\ PrevInv /\ BackwardTypeOK /\ ReadingInv
         /\ prev \in MinHead..0 /\ start \in MinHead..0 /\ end \in MinHead..0
         /\ out \in Seq(MinHead..0)
BY DEF BackwardInv, BackwardTypeOK, PausedInv, PrevInv

\* The parts of the invariant, in a step of the reader.
LEMMA ReaderStep ==
  ASSUME BackwardInv, UNCHANGED <<mapped, snapshots>>,
         BackwardTypeOK', PrevInv', PausedInv', ReadingInv'
  PROVE  BackwardInv'
BY SameHistory DEF BackwardInv

\* perf_evlist__toggle_bkw_mmap(DATA_PENDING)
LEMMA PauseStep == BackwardInv /\ Pause => BackwardInv'
<1> SUFFICES ASSUME BackwardInv, Pause PROVE BackwardInv'
  OBVIOUS
<1>1. /\ func = "idle" /\ state' = "DATA_PENDING" /\ func' \in {"push_init", "read_init"}
      /\ UNCHANGED <<mapped, snapshots>> /\ prev' = prev /\ start' = start /\ end' = end
      /\ out' = out
  BY DEF Pause
<1>2. BackwardTypeOK'
  BY <1>1, ReaderTypes DEF BackwardInv, BackwardTypeOK
<1>3. PrevInv'
  BY <1>1, PrevKept DEF BackwardInv
<1>4. PausedInv'
  BY <1>1 DEF PausedInv
<1>5. ReadingInv'
  <2>1. out' = <<>>
    BY <1>1 DEF BackwardInv, ReadingInv, Collecting, Finished
  <2> QED
    BY <1>1, <2>1 DEF ReadingInv, Collecting, Finished, Walking
<1> QED
  BY <1>1, <1>2, <1>3, <1>4, <1>5, ReaderStep

\* perf_mmap__read_init in perf_mmap__push
LEMMA PushInitStep == BackwardInv /\ PushInit => BackwardInv'
<1> SUFFICES ASSUME BackwardInv, PushInit PROVE BackwardInv'
  OBVIOUS
<1>1. func = "push_init" /\ ReadInit("empty", "push_walk", "push_first")
  BY DEF PushInit
<1>2. /\ UNCHANGED <<mapped, snapshots>> /\ state' = state /\ prev' = prev /\ out' = out
      /\ start' \in MinHead..0 /\ end' \in MinHead..0
      /\ Gathered' /\ start' = head' /\ Boundary(start)'
      /\ \/ func' = "push_walk" /\ prev' - head' > Size
         \/ func' = "push_first" /\ Known'
         \/ func' = "empty" /\ Known' /\ start' = end' /\ prev' = head'
  BY <1>1, ReadInitEffect
<1>3. /\ state' = "DATA_PENDING" /\ PrevInv /\ BackwardTypeOK /\ ReadingInv
      /\ prev' \in MinHead..0 /\ out' \in Seq(MinHead..0)
  BY <1>1, <1>2, ReadingState
<1>4. BackwardTypeOK'
  BY <1>2, <1>3, ReaderTypes
<1>5. PrevInv'
  BY <1>1, <1>2, <1>3, PrevKept
<1>6. PausedInv'
  BY <1>2, <1>3 DEF PausedInv
<1>7. out' = <<>>
  BY <1>1, <1>2, <1>3 DEF ReadingInv, Collecting, Finished
<1>8. ReadingInv'
  BY <1>2, <1>3, <1>7 DEF ReadingInv, Collecting, Finished, Walking
<1> QED
  BY <1>2, <1>4, <1>5, <1>6, <1>8, ReaderStep

\* perf_mmap__read_init of the loop that reads by event
LEMMA ReadBeginStep == BackwardInv /\ ReadBegin => BackwardInv'
<1> SUFFICES ASSUME BackwardInv, ReadBegin PROVE BackwardInv'
  OBVIOUS
<1>1. func = "read_init" /\ ReadInit("read_done", "read_walk", "read_event")
  BY DEF ReadBegin
<1>2. /\ UNCHANGED <<mapped, snapshots>> /\ state' = state /\ prev' = prev /\ out' = out
      /\ start' \in MinHead..0 /\ end' \in MinHead..0
      /\ Gathered' /\ start' = head' /\ Boundary(start)'
      /\ \/ func' = "read_walk" /\ prev' - head' > Size
         \/ func' = "read_event" /\ Known'
         \/ func' = "read_done" /\ Known' /\ start' = end' /\ prev' = head'
  BY <1>1, ReadInitEffect
<1>3. /\ state' = "DATA_PENDING" /\ PrevInv /\ BackwardTypeOK /\ ReadingInv
      /\ prev' \in MinHead..0 /\ out' \in Seq(MinHead..0)
  BY <1>1, <1>2, ReadingState
<1>4. BackwardTypeOK'
  BY <1>2, <1>3, ReaderTypes
<1>5. PrevInv'
  BY <1>1, <1>2, <1>3, PrevKept
<1>6. PausedInv'
  BY <1>2, <1>3 DEF PausedInv
<1>7. out' = <<>>
  BY <1>1, <1>2, <1>3 DEF ReadingInv, Collecting, Finished
<1>8. ReadingInv'
  BY <1>2, <1>3, <1>7 DEF ReadingInv, Collecting, Finished, Walking
<1> QED
  BY <1>2, <1>4, <1>5, <1>6, <1>8, ReaderStep

\* The walk of overwrite_rb_find_range, called by either
LEMMA WalkStep == BackwardInv /\ (PushWalk \/ ReadWalk) => BackwardInv'
<1> SUFFICES ASSUME BackwardInv, PushWalk \/ ReadWalk PROVE BackwardInv'
  OBVIOUS
<1>1. Walking
  BY DEF PushWalk, ReadWalk, Walking
<1>2. /\ UNCHANGED <<mapped, snapshots>> /\ state' = state /\ prev' = prev /\ out' = out
      /\ start' = start /\ end' \in MinHead..0
      /\ Gathered' /\ start' = head' /\ Boundary(start)' /\ prev' - head' > Size
      /\ \/ func' = func
         \/ func = "push_walk" /\ func' = "push_first" /\ Known'
         \/ func = "read_walk" /\ func' = "read_event" /\ Known'
  <2>1. CASE PushWalk
    BY <1>1, <2>1, WalkEffect DEF PushWalk
  <2>2. CASE ReadWalk
    BY <1>1, <2>2, WalkEffect DEF ReadWalk
  <2> QED
    BY <2>1, <2>2
<1>3. func \in {"push_walk", "read_walk"} /\ func # "idle" /\ func # "empty"
  BY <1>1 DEF Walking
<1>4. /\ state' = "DATA_PENDING" /\ PrevInv /\ BackwardTypeOK /\ ReadingInv
      /\ prev' \in MinHead..0 /\ start' \in MinHead..0 /\ out' \in Seq(MinHead..0)
  BY <1>2, <1>3, ReadingState
<1>5. BackwardTypeOK'
  BY <1>2, <1>3, <1>4, ReaderTypes
<1>6. PrevInv'
  BY <1>2, <1>3, <1>4, PrevKept
<1>7. PausedInv'
  BY <1>2, <1>3, <1>4 DEF PausedInv
<1>8. out' = <<>>
  BY <1>2, <1>3, <1>4 DEF ReadingInv, Collecting, Finished
<1>9. ReadingInv'
  BY <1>2, <1>3, <1>4, <1>8 DEF ReadingInv, Collecting, Finished, Walking
<1> QED
  BY <1>2, <1>5, <1>6, <1>7, <1>9, ReaderStep

\* Units are collected, up to a position that is not behind the end.
LEMMA CollectEffect ==
  ASSUME BackwardInv, Collecting, UNCHANGED <<mapped, snapshots, end>>,
         NEW to \in Int, start <= to, to <= end, start' = to,
         out' = out \o Units(start, to)
  PROVE  /\ start' \in MinHead..0 /\ out' \in Seq(MinHead..0)
         /\ Gathered' /\ Known'
<1>1. BackwardTypeOK /\ StoredInv /\ Gathered /\ Known
  BY DEF BackwardInv, ReadingInv
<1>2. /\ head' = head /\ end' = end /\ head \in Int /\ start \in Int /\ end \in Int
      /\ MinHead <= head /\ end <= 0 /\ Size \in Nat /\ MinHead \in Int
      /\ UNCHANGED <<mapped, snapshots>> /\ UNCHANGED <<mapped, end, snapshots>>
  BY <1>1, BackwardTypes, BackwardFacts DEF mapped
<1>3. /\ head <= start /\ end <= head + Size /\ Boundary(end)
      /\ Len(out) = start - head /\ InOrder(head, out)
  BY <1>1 DEF Gathered
<1>4. to <= head + Size /\ to <= 0 /\ MinHead <= to /\ head <= to
  BY <1>2, <1>3, SMTT(60)
<1>5. out' \in Seq(MinHead..0) /\ Len(out') = to - head /\ InOrder(head, out')
  BY <1>1, <1>3, <1>4, Collects
<1>6. Boundary(end)'
  <2>1. PICK e : e = end
    OBVIOUS
  <2>2. Boundary(e)' /\ e = end'
    BY <1>2, <1>3, <2>1, SameHistory
  <2> QED
    BY <2>2
<1>7. InOrder(head, out)'
  BY <1>2, <1>5 DEF InOrder
<1>8. Gathered'
  BY <1>2, <1>3, <1>4, <1>5, <1>6, <1>7 DEF Gathered
<1>9. Known'
  BY <1>1, <1>2, SameKnown
<1> QED
  BY <1>4, <1>5, <1>8, <1>9, InRange

\* perf_mmap__push: the first part
LEMMA PushFirstStep == BackwardInv /\ PushFirst => BackwardInv'
<1> SUFFICES ASSUME BackwardInv, PushFirst PROVE BackwardInv'
  OBVIOUS
<1> DEFINE size == IF (start % Size) + (end - start) # end % Size
                   THEN Size - (start % Size) ELSE 0
<1>1. /\ func = "push_first" /\ func' = "push_second" /\ state' = state /\ prev' = prev
      /\ UNCHANGED <<mapped, snapshots, end>> /\ UNCHANGED <<mapped, snapshots>>
      /\ UNCHANGED <<mapped, snapshots, prev>> /\ end' = end
      /\ start' = start + size /\ out' = out \o Units(start, start + size)
  BY DEF PushFirst
<1>2. /\ state = "DATA_PENDING" /\ PrevInv /\ BackwardTypeOK /\ ReadingInv
      /\ prev \in MinHead..0 /\ end \in MinHead..0
  BY <1>1, ReadingState
<1>3. Collecting /\ Gathered /\ start \in Int /\ end \in Int /\ head \in Int /\ Size \in Nat
  BY <1>1, <1>2, BackwardTypes, BackwardFacts DEF ReadingInv, Collecting
<1>4. start + size \in Int /\ start <= start + size /\ start + size <= end
  <2>1. start <= end /\ end - start <= Size
    BY <1>3, SMTT(60) DEF Gathered
  <2>2. CASE (start % Size) + (end - start) # end % Size
    <3>1. size = Size - (start % Size)
      BY <2>2
    <3>2. size \in Nat /\ start + size <= end
      BY <1>3, <2>1, <2>2, <3>1, PushFits
    <3> HIDE DEF size
    <3> QED
      BY <1>3, <3>2, SMTT(60)
  <2>3. CASE (start % Size) + (end - start) = end % Size
    <3>1. size = 0
      BY <2>3
    <3> HIDE DEF size
    <3> QED
      BY <1>3, <2>1, <3>1, SMTT(60)
  <2> QED
    BY <2>2, <2>3
<1> HIDE DEF size
<1>5. start' \in MinHead..0 /\ out' \in Seq(MinHead..0) /\ Gathered' /\ Known'
  BY <1>1, <1>3, <1>4, CollectEffect
<1>6. BackwardTypeOK'
  BY <1>1, <1>2, <1>5, ReaderTypes
<1>7. PrevInv'
  BY <1>1, <1>2, PrevKept
<1>8. PausedInv'
  BY <1>1, <1>2 DEF PausedInv
<1>9. ReadingInv'
  BY <1>1, <1>5 DEF ReadingInv, Collecting, Finished, Walking
<1> QED
  BY <1>1, <1>6, <1>7, <1>8, <1>9, ReaderStep

\* perf_mmap__push: the second part
LEMMA PushSecondStep == BackwardInv /\ PushSecond => BackwardInv'
<1> SUFFICES ASSUME BackwardInv, PushSecond PROVE BackwardInv'
  OBVIOUS
<1>1. /\ func = "push_second" /\ func' = "empty" /\ state' = state /\ prev' = head
      /\ UNCHANGED <<mapped, snapshots, end>> /\ UNCHANGED <<mapped, snapshots>>
      /\ start' = end /\ end' = end /\ head' = head /\ out' = out \o Units(start, end)
  BY DEF PushSecond, mapped
<1>2. /\ state = "DATA_PENDING" /\ BackwardTypeOK /\ ReadingInv /\ end \in MinHead..0
  BY <1>1, ReadingState
<1>3. /\ Collecting /\ Gathered /\ start \in Int /\ end \in Int /\ end <= end
      /\ head \in MinHead..0
  BY <1>1, <1>2, BackwardTypes, SMTT(60) DEF ReadingInv, Collecting, BackwardTypeOK
<1>4. start' \in MinHead..0 /\ out' \in Seq(MinHead..0) /\ Gathered' /\ Known'
  <2>1. start <= end
    BY <1>3 DEF Gathered
  <2> QED
    BY <1>1, <1>3, <2>1, CollectEffect
<1>5. BackwardTypeOK'
  BY <1>1, <1>2, <1>3, <1>4, ReaderTypes
<1>6. PrevInv'
  BY <1>1, <1>2, PrevAdvances
<1>7. PausedInv'
  BY <1>1, <1>2 DEF PausedInv
<1>8. ReadingInv'
  BY <1>1, <1>2, <1>4 DEF ReadingInv, Collecting, Finished, Walking
<1> QED
  BY <1>1, <1>5, <1>6, <1>7, <1>8, ReaderStep

\* The header of the next event, and where it ends.
LEMMA NextEvent ==
  ASSUME BackwardInv, func = "read_event", start < end
  PROVE  /\ header_size(start) \in 1..(end - start)
         /\ Boundary(start + header_size(start))
<1>1. BackwardTypeOK /\ StoredInv /\ EventsInv /\ Gathered /\ Boundary(start)
  BY DEF BackwardInv, ReadingInv, Collecting
<1>2. /\ head \in Int /\ start \in Int /\ end \in Int /\ end <= 0 /\ Size \in Nat
      /\ head <= start /\ end <= head + Size /\ Boundary(end)
  BY <1>1, BackwardTypes, BackwardFacts DEF Gathered
<1>3. start # 0 /\ start < head + Size
  BY <1>2, SMTT(60)
<1>4. start \in Positions /\ sizes[start] > 0 /\ sizes[start] \in 0..Size
  BY <1>1, <1>3, BackwardTypes DEF Boundary
<1>5. header_size(start) = sizes[start]
  BY <1>1, <1>2, <1>3, <1>4, HeaderStored
<1>6. Boundary(start + sizes[start])
  BY <1>1, <1>4 DEF EventsInv
<1>7. start + sizes[start] <= end
  <2>1. CASE end = 0
    <3>1. \A p : Boundary(p) => p \in Int /\ p <= 0
      BY PositionFacts, SMTT(60) DEF Boundary
    <3> QED
      BY <1>6, <2>1, <3>1
  <2>2. CASE end \in Positions /\ sizes[end] > 0
    BY <1>1, <1>4, <2>2 DEF EventsInv
  <2> QED
    BY <1>2, <2>1, <2>2 DEF Boundary
<1>8. sizes[start] \in 1..(end - start)
  BY <1>2, <1>4, <1>7, SMTT(60)
<1> QED
  BY <1>5, <1>6, <1>8

\* perf_mmap__read_event returns an event
LEMMA ReadEventStep == BackwardInv /\ ReadEvent => BackwardInv'
<1> SUFFICES ASSUME BackwardInv, ReadEvent PROVE BackwardInv'
  OBVIOUS
<1> DEFINE to == start + header_size(start)
<1>1. /\ func = "read_event" /\ func' = "read_event" /\ state' = state /\ prev' = prev
      /\ UNCHANGED <<mapped, snapshots, end>> /\ UNCHANGED <<mapped, snapshots>>
      /\ UNCHANGED <<mapped, snapshots, prev>> /\ end' = end /\ end > start
      /\ start' = to /\ out' = out \o Units(start, to)
  BY DEF ReadEvent
<1>2. /\ state = "DATA_PENDING" /\ PrevInv /\ BackwardTypeOK /\ ReadingInv
      /\ prev \in MinHead..0 /\ end \in MinHead..0
  BY <1>1, ReadingState
<1>3. Collecting /\ start \in Int /\ end \in Int
  BY <1>1, <1>2, BackwardTypes DEF Collecting
<1>4. to \in Int /\ start <= to /\ to <= end /\ Boundary(to)
  <2>1. start < end
    BY <1>1, <1>3, SMTT(60)
  <2>2. header_size(start) \in 1..(end - start) /\ Boundary(to)
    BY <1>1, <2>1, NextEvent
  <2>3. \A n \in 1..(end - start) : start + n \in Int /\ start <= start + n /\ start + n <= end
    BY <1>3, SMTT(60)
  <2> QED
    BY <2>2, <2>3
<1> HIDE DEF to
<1>5. start' \in MinHead..0 /\ out' \in Seq(MinHead..0) /\ Gathered' /\ Known'
  BY <1>1, <1>3, <1>4, CollectEffect
<1>6. Boundary(start)'
  <2>1. PICK s : s = to
    OBVIOUS
  <2>2. Boundary(s)' /\ s = start'
    BY <1>1, <1>4, <2>1, SameHistory
  <2> QED
    BY <2>2
<1>7. BackwardTypeOK'
  BY <1>1, <1>2, <1>5, ReaderTypes
<1>8. PrevInv'
  BY <1>1, <1>2, PrevKept
<1>9. PausedInv'
  BY <1>1, <1>2 DEF PausedInv
<1>10. ReadingInv'
  BY <1>1, <1>5, <1>6 DEF ReadingInv, Collecting, Finished, Walking
<1> QED
  BY <1>1, <1>7, <1>8, <1>9, <1>10, ReaderStep

\* perf_mmap__read_event returns NULL: only at the end
LEMMA ReadEventNullStep == BackwardInv /\ ReadEventNull => BackwardInv'
<1> SUFFICES ASSUME BackwardInv, ReadEventNull PROVE BackwardInv'
  OBVIOUS
<1>1. /\ func = "read_event" /\ func' = "read_done" /\ state' = state /\ prev' = prev
      /\ UNCHANGED <<mapped, end, snapshots>> /\ UNCHANGED <<mapped, snapshots>>
      /\ UNCHANGED <<mapped, snapshots, prev>> /\ head' = head
      /\ start' = start /\ end' = end /\ out' = out
      /\ end = start \/ header_size(start) \notin 1..(end - start)
  BY DEF ReadEventNull, mapped
<1>2. /\ state = "DATA_PENDING" /\ PrevInv /\ BackwardTypeOK /\ ReadingInv
      /\ prev \in MinHead..0 /\ start \in MinHead..0 /\ end \in MinHead..0
      /\ out \in Seq(MinHead..0)
  BY <1>1, ReadingState
<1>3. Collecting /\ Gathered /\ Known /\ start \in Int /\ end \in Int
  BY <1>1, <1>2, BackwardTypes DEF ReadingInv, Collecting
<1>4. start = end
  <2>1. start <= end
    BY <1>3 DEF Gathered
  <2>2. start < end \/ start = end
    BY <1>3, <2>1, SMTT(60)
  <2> QED
    BY <1>1, <2>2, NextEvent
<1>5. Gathered'
  <2>1. UNCHANGED <<mapped, snapshots>> /\ Boundary(end)
    BY <1>1, <1>3 DEF Gathered
  <2>2. PICK e : e = end
    OBVIOUS
  <2>3. Boundary(e)' /\ e = end'
    BY <1>1, <2>1, <2>2, SameHistory
  <2>4. Boundary(end)'
    BY <2>3
  <2> QED
    BY <1>1, <1>3, <2>4 DEF Gathered, InOrder
<1>6. Known'
  BY <1>1, <1>3, SameKnown
<1>7. BackwardTypeOK'
  BY <1>1, <1>2, ReaderTypes
<1>8. PrevInv'
  BY <1>1, <1>2, PrevKept
<1>9. PausedInv'
  BY <1>1, <1>2 DEF PausedInv
<1>10. ReadingInv'
  BY <1>1, <1>4, <1>5, <1>6 DEF ReadingInv, Collecting, Finished, Walking
<1> QED
  BY <1>1, <1>7, <1>8, <1>9, <1>10, ReaderStep

\* perf_mmap__read_done
LEMMA ReadDoneStep == BackwardInv /\ perf_mmap__read_done => BackwardInv'
<1> SUFFICES ASSUME BackwardInv, perf_mmap__read_done PROVE BackwardInv'
  OBVIOUS
<1>1. /\ func = "read_done" /\ func' = "empty" /\ state' = state /\ prev' = head
      /\ UNCHANGED <<mapped, end, snapshots>> /\ UNCHANGED <<mapped, snapshots>>
      /\ head' = head /\ start' = start /\ end' = end /\ out' = out
  BY DEF perf_mmap__read_done, mapped
<1>2. /\ state = "DATA_PENDING" /\ BackwardTypeOK /\ ReadingInv
      /\ start \in MinHead..0 /\ end \in MinHead..0 /\ out \in Seq(MinHead..0)
      /\ head \in MinHead..0
  BY <1>1, ReadingState DEF BackwardTypeOK
<1>3. Finished /\ Collecting /\ Gathered /\ Known /\ start = end
  BY <1>1, <1>2 DEF ReadingInv, Collecting, Finished
<1>4. Gathered'
  <2>1. Boundary(end)
    BY <1>3 DEF Gathered
  <2>2. PICK e : e = end
    OBVIOUS
  <2>3. Boundary(e)' /\ e = end'
    BY <1>1, <2>1, <2>2, SameHistory
  <2>4. Boundary(end)'
    BY <2>3
  <2> QED
    BY <1>1, <1>3, <2>4 DEF Gathered, InOrder
<1>5. Known'
  BY <1>1, <1>3, SameKnown
<1>6. BackwardTypeOK'
  BY <1>1, <1>2, ReaderTypes
<1>7. PrevInv'
  BY <1>1, <1>2, PrevAdvances
<1>8. PausedInv'
  BY <1>1, <1>2 DEF PausedInv
<1>9. ReadingInv'
  BY <1>1, <1>2, <1>3, <1>4, <1>5 DEF ReadingInv, Collecting, Finished, Walking
<1> QED
  BY <1>1, <1>6, <1>7, <1>8, <1>9, ReaderStep

\* perf_evlist__toggle_bkw_mmap(RUNNING)
LEMMA ResumeStep == BackwardInv /\ Resume => BackwardInv'
<1> SUFFICES ASSUME BackwardInv, Resume PROVE BackwardInv'
  OBVIOUS
<1>1. /\ func = "empty" /\ state = "EMPTY" /\ state' = "RUNNING" /\ func' = "idle"
      /\ UNCHANGED <<mapped, snapshots, prev>> /\ UNCHANGED <<mapped, snapshots>>
      /\ prev' = prev /\ start' = start /\ end' = end /\ out' = out
  BY DEF Resume
<1>2. BackwardTypeOK'
  BY <1>1, ReaderTypes DEF BackwardInv, BackwardTypeOK
<1>3. PrevInv'
  BY <1>1, PrevKept DEF BackwardInv
<1>4. PausedInv'
  BY <1>1 DEF PausedInv
<1>5. ReadingInv'
  <2>1. out' = <<>>
    BY <1>1 DEF BackwardInv, ReadingInv, Collecting, Finished
  <2> QED
    BY <1>1, <2>1 DEF ReadingInv, Collecting, Finished, Walking
<1> QED
  BY <1>1, <1>2, <1>3, <1>4, <1>5, ReaderStep

\* perf_evlist__toggle_bkw_mmap(EMPTY): the snapshot is complete.
LEMMA EmptyStep == BackwardInv /\ Empty => BackwardInv'
<1> SUFFICES ASSUME BackwardInv, Empty PROVE BackwardInv'
  OBVIOUS
<1> DEFINE new == <<head, out>>
<1>1. /\ func = "empty" /\ func' = "empty" /\ state = "DATA_PENDING" /\ state' = "EMPTY"
      /\ snapshots' = snapshots \cup {new} /\ out' = <<>> /\ UNCHANGED mapped
      /\ head' = head /\ data' = data /\ sizes' = sizes
      /\ prev' = prev /\ start' = start /\ end' = end
  BY DEF Empty, mapped
<1>2. /\ BackwardTypeOK /\ StoredInv /\ EventsInv /\ SnapshotsInv /\ PrevInv /\ ReadingInv
  BY DEF BackwardInv
<1>3. /\ Finished /\ Collecting /\ Gathered /\ Known /\ start = end /\ prev = head
  BY <1>1, <1>2 DEF ReadingInv, Collecting, Finished
<1>4. /\ head \in Int /\ end \in Int /\ head \in MinHead..0 /\ out \in Seq(MinHead..0)
      /\ Len(out) = end - head /\ InOrder(head, out) /\ head <= end
  BY <1>2, <1>3, BackwardTypes DEF BackwardTypeOK, Gathered
<1>5. new[1] = head /\ new[2] = out /\ new \in (MinHead..0) \X Seq(MinHead..0)
  BY <1>4, SMTT(60)
<1> HIDE DEF new
<1>6. BackwardTypeOK'
  <2>1. snapshots' \subseteq (MinHead..0) \X Seq(MinHead..0)
    BY <1>1, <1>2, <1>5 DEF BackwardTypeOK
  <2>2. out' \in Seq(MinHead..0)
    BY <1>1, SMTT(60)
  <2> QED
    BY <1>1, <1>2, <2>1, <2>2 DEF BackwardTypeOK, Positions, MinHead
<1>7. StoredInv' /\ EventsInv' /\ \A p : Boundary(p) <=> Boundary(p)'
  BY <1>1, <1>2, SameBuffer
<1>8. \A t : t \in Heads' <=> t \in Heads \/ t = head
  BY <1>1, <1>5 DEF Heads
<1>9. ASSUME NEW h \in Int, NEW e, head <= h, Taken(h, e) PROVE Taken(h, e)'
  <2>1. ~(head > h)
    BY <1>4, <1>9, SMTT(60)
  <2>2. {t \in snapshots' : t[1] > h} = {t \in snapshots : t[1] > h}
    BY <1>1, <1>5, <2>1
  <2>3. EarlierHeads(h)' = EarlierHeads(h)
    BY <2>2 DEF EarlierHeads
  <2>4. UnitsAt(h)' = UnitsAt(h)
    BY <1>1, <2>3, SameUnits
  <2>5. \A t \in Heads' : t > h => e <= t
    BY <1>8, <1>9, <2>1 DEF Taken
  <2> QED
    BY <1>9, <2>4, <2>5 DEF Taken
<1>10. out # <<>> => Len(out) > 0 /\ end > head /\ end = head + Len(out)
  BY <1>4, SMTT(60)
<1>11. SnapshotsInv'
  <2>1. ASSUME NEW s \in snapshots
        PROVE  /\ head <= s[1] /\ InOrder(s[1], s[2])
               /\ s[2] # <<>> => Taken(s[1], s[1] + Len(s[2]))'
    <3>1. /\ head <= s[1] /\ InOrder(s[1], s[2]) /\ s[1] \in MinHead..0
          /\ s[2] # <<>> => Taken(s[1], s[1] + Len(s[2]))
      BY <1>2 DEF SnapshotsInv, BackwardTypeOK
    <3>2. s[1] \in Int
      BY <3>1, BackwardFacts, SMTT(60)
    <3> QED
      BY <1>9, <3>1, <3>2
  <2>2. head <= head
    BY <1>4, SMTT(60)
  <2>3. ASSUME NEW s, s = new, s[2] # <<>> PROVE Taken(s[1], s[1] + Len(s[2]))'
    <3>1. s[1] = head /\ s[2] = out /\ s[1] + Len(s[2]) = end /\ end > head
      BY <1>5, <1>10, <2>3
    <3>2. PICK h, e : h = head /\ e = end
      OBVIOUS
    <3>3. Taken(h, e)
      BY <1>3, <3>1, <3>2 DEF Known
    <3>4. Taken(h, e)'
      BY <1>4, <1>9, <2>2, <3>2, <3>3
    <3>5. s[1] = h /\ s[1] + Len(s[2]) = e
      BY <3>1, <3>2
    <3> QED
      BY <3>4, <3>5
  <2>4. ASSUME NEW s \in snapshots, out # <<>> PROVE s[1] # head
    <3>1. head \notin Heads
      BY <1>3, <1>10, <2>4 DEF Known
    <3> QED
      BY <3>1 DEF Heads
  <2>5. \A s \in snapshots' :
          /\ head <= s[1] /\ InOrder(s[1], s[2])
          /\ s[2] # <<>> => Taken(s[1], s[1] + Len(s[2]))'
    <3> SUFFICES ASSUME NEW s \in snapshots'
                 PROVE  /\ head <= s[1] /\ InOrder(s[1], s[2])
                        /\ s[2] # <<>> => Taken(s[1], s[1] + Len(s[2]))'
      OBVIOUS
    <3>1. CASE s \in snapshots
      BY <2>1, <3>1
    <3>2. CASE s = new
      BY <1>4, <1>5, <2>2, <2>3, <3>2
    <3> QED
      BY <1>1, <3>1, <3>2
  <2>6. \A s, t \in snapshots' : s[1] = t[1] /\ s[2] # <<>> /\ t[2] # <<>> => s = t
    <3>1. \A s, t \in snapshots : s[1] = t[1] /\ s[2] # <<>> /\ t[2] # <<>> => s = t
      BY <1>2 DEF SnapshotsInv
    <3> QED
      BY <1>1, <1>5, <2>4, <3>1
  <2> QED
    BY <1>1, <2>5, <2>6 DEF SnapshotsInv, InOrder
<1>12. PrevInv'
  <2>1. Boundary(prev)'
    <3>1. PICK p : p = prev
      OBVIOUS
    <3>2. Boundary(p)' /\ p = prev'
      BY <1>1, <1>2, <1>7, <3>1 DEF PrevInv
    <3> QED
      BY <3>2
  <2>2. head' <= prev' /\ \A t \in Heads' : prev' <= t
    <3>1. head <= head
      BY <1>4, SMTT(60)
    <3> QED
      BY <1>1, <1>2, <1>3, <1>8, <3>1 DEF PrevInv
  <2>3. prev' \in Heads'
    BY <1>1, <1>3, <1>8
  <2> QED
    BY <2>1, <2>2, <2>3 DEF PrevInv
<1>13. PausedInv'
  BY <1>1 DEF PausedInv
<1>14. ReadingInv'
  BY <1>1, <1>3 DEF ReadingInv, Collecting, Finished, Walking
<1> QED
  BY <1>6, <1>7, <1>11, <1>12, <1>13, <1>14 DEF BackwardInv

-----------------------------------------------------------------------------
(* The theorems on overwritable buffers.                                   *)

\* The invariant holds to begin with.
LEMMA BackwardStart == BackwardInit => BackwardInv
<1> SUFFICES ASSUME BackwardInit PROVE BackwardInv
  OBVIOUS
<1>1. /\ head = 0 /\ data = [u \in 0..(Size - 1) |-> NoUnit]
      /\ sizes = [p \in Positions |-> 0] /\ state = "RUNNING"
      /\ prev = 0 /\ start = 0 /\ end = 0 /\ func = "idle" /\ out = <<>> /\ snapshots = {}
  BY DEF BackwardInit
<1>2. 0 \in Int /\ 0 \in MinHead..0 /\ 0 \in 0..Size /\ ~(0 > 0) /\ 0 <= 0
  BY BackwardFacts, SMTT(60)
<1>3. BackwardTypeOK
  <2>1. out \in Seq(MinHead..0)
    BY <1>1, SMTT(60)
  <2> QED
    BY <1>1, <1>2, <2>1 DEF BackwardTypeOK, NoUnit
<1>4. \A p \in Positions : sizes[p] = 0 /\ ~(head <= p)
  <2>1. \A p \in Positions : ~(0 <= p)
    BY PositionFacts, SMTT(60)
  <2> QED
    BY <1>1, <2>1
<1>5. StoredInv /\ EventsInv
  BY <1>1, <1>2, <1>4 DEF StoredInv, EventsInv, Boundary
<1>6. SnapshotsInv /\ PrevInv
  BY <1>1, <1>2 DEF SnapshotsInv, PrevInv, Boundary, Heads
<1>7. PausedInv /\ ReadingInv
  BY <1>1 DEF PausedInv, ReadingInv, Walking, Collecting, Finished
<1> QED
  BY <1>3, <1>5, <1>6, <1>7 DEF BackwardInv

\* Every step keeps it.
LEMMA BackwardKeeps == BackwardInv /\ [BackwardNext]_backward_vars => BackwardInv'
<1> SUFFICES ASSUME BackwardInv, [BackwardNext]_backward_vars PROVE BackwardInv'
  OBVIOUS
<1>1. CASE \E size \in EventSizes : KernelWrite(size)
  BY <1>1, KernelStep
<1>2. CASE Tool
  BY <1>2, PauseStep, PushInitStep, WalkStep, PushFirstStep, PushSecondStep, ReadBeginStep,
     ReadEventStep, ReadEventNullStep, ReadDoneStep, EmptyStep, ResumeStep DEF Tool
<1>3. CASE UNCHANGED backward_vars
  <2>1. /\ UNCHANGED <<mapped, snapshots>> /\ UNCHANGED <<mapped, end, snapshots>>
        /\ state' = state /\ prev' = prev /\ start' = start /\ end' = end /\ func' = func
        /\ out' = out /\ head' = head
    BY <1>3 DEF backward_vars, mapped
  <2>2. BackwardTypeOK'
    BY <2>1, ReaderTypes DEF BackwardInv, BackwardTypeOK
  <2>3. Heads' = Heads /\ \A p : Boundary(p) <=> Boundary(p)'
    BY <2>1, SameHistory
  <2>4. PICK p, s, e : p = prev /\ s = start /\ e = end
    OBVIOUS
  <2>5. /\ (Boundary(p) <=> Boundary(p)') /\ p = prev'
        /\ (Boundary(s) <=> Boundary(s)') /\ s = start'
        /\ (Boundary(e) <=> Boundary(e)') /\ e = end'
    BY <2>1, <2>3, <2>4
  <2>6. /\ Boundary(prev) => Boundary(prev)'
        /\ Boundary(start) => Boundary(start)'
        /\ Boundary(end) => Boundary(end)'
    BY <2>4, <2>5
  <2>7. PrevInv'
    BY <2>1, <2>3, <2>6 DEF BackwardInv, PrevInv
  <2>8. PausedInv'
    BY <2>1 DEF BackwardInv, PausedInv
  <2>9. (Known => Known') /\ (Gathered => Gathered')
    BY <2>1, <2>6, SameKnown DEF Gathered, InOrder
  <2>10. ReadingInv'
    BY <2>1, <2>6, <2>9 DEF BackwardInv, ReadingInv, Walking, Collecting, Finished
  <2> QED
    BY <2>1, <2>2, <2>7, <2>8, <2>10, ReaderStep
<1> QED
  BY <1>1, <1>2, <1>3 DEF BackwardNext

\* The invariant, for every size of the buffer and of the events.
THEOREM BackwardInvariant == BackwardSpec => []BackwardInv
BY BackwardStart, BackwardKeeps, PTL DEF BackwardSpec

\* What perf record and perf top get from an overwritable buffer is exactly the
\* events that are new since the last snapshot and whole in the buffer.
THEOREM SnapshotIsWholeEventsCorrect == BackwardSpec => []SnapshotIsWholeEvents
<1>1. BackwardInv => SnapshotIsWholeEvents
  <2> SUFFICES ASSUME BackwardInv PROVE SnapshotIsWholeEvents
    OBVIOUS
  <2>1. BackwardTypeOK /\ SnapshotsInv /\ ReadingInv
    BY DEF BackwardInv
  <2>2. ASSUME NEW s \in snapshots, s[2] # <<>>
        PROVE  /\ Len(s[2]) = Cardinality(UnitsAt(s[1]))
               /\ \A i \in DOMAIN s[2] : s[2][i] = s[1] + i - 1
    <3> DEFINE h == s[1]
               n == Len(s[2])
    <3>1. s[1] \in MinHead..0 /\ s[2] \in Seq(MinHead..0)
      BY <2>1 DEF BackwardTypeOK
    <3>2. h \in Int /\ n \in Nat /\ (h + n) - 1 \in Int /\ n > 0
      BY <2>2, <3>1, BackwardFacts, SMTT(60)
    <3>3. Taken(h, h + n) /\ InOrder(s[1], s[2])
      BY <2>1, <2>2 DEF SnapshotsInv
    <3> HIDE DEF h, n
    <3>4. Cardinality(h..((h + n) - 1)) = IF h > (h + n) - 1 THEN 0 ELSE ((h + n) - 1) - h + 1
      BY <3>2, FS_Interval
    <3>5. Cardinality(h..((h + n) - 1)) = n
      BY <3>2, <3>4, SMTT(60)
    <3>6. UnitsAt(h) = h..((h + n) - 1)
      BY <3>3 DEF Taken
    <3>7. n = Cardinality(UnitsAt(h))
      BY <3>5, <3>6
    <3> QED
      BY <3>3, <3>7 DEF h, n, InOrder
  <2>3. ASSUME func = "empty", state = "DATA_PENDING", out = <<>>
        PROVE  \E s \in snapshots \cup {<<0, <<>>>>} : s[1] = head
    <3>1. Finished /\ Gathered /\ Known /\ start = end
      BY <2>1, <2>3 DEF ReadingInv, Collecting, Finished
    <3>2. Len(out) = 0 /\ Len(out) = end - head /\ head \in Int /\ end \in Int
      BY <2>1, <2>3, <3>1, BackwardTypes, SMTT(60) DEF Gathered
    <3>3. end = head
      BY <3>2, SMTT(60)
    <3>4. head \in Heads
      BY <3>1, <3>3 DEF Known
    <3>5. <<0, <<>>>>[1] = 0
      BY SMTT(60)
    <3> QED
      BY <3>4, <3>5 DEF Heads
  <2> QED
    BY <2>1, <2>2, <2>3 DEF SnapshotIsWholeEvents
<1> QED
  BY <1>1, BackwardInvariant, PTL

\* No position of the buffer is written out or returned twice.
THEOREM SnapshotsDisjointCorrect == BackwardSpec => []SnapshotsDisjoint
<1>1. BackwardInv => SnapshotsDisjoint
  <2> SUFFICES ASSUME BackwardInv, NEW s \in snapshots, NEW t \in snapshots, s # t,
                      NEW u \in Range(s[2]), u \in Range(t[2])
               PROVE  FALSE
    BY DEF SnapshotsDisjoint
  <2>1. BackwardTypeOK /\ SnapshotsInv
    BY DEF BackwardInv
  <2>2. ASSUME NEW x \in snapshots, u \in Range(x[2])
        PROVE  /\ x[1] \in Int /\ x[2] # <<>> /\ Len(x[2]) \in Nat /\ u \in Int
               /\ x[1] <= u /\ u < x[1] + Len(x[2])
    <3>1. x[1] \in MinHead..0 /\ x[2] \in Seq(MinHead..0)
      BY <2>1 DEF BackwardTypeOK
    <3>2. PICK i \in DOMAIN x[2] : u = x[2][i]
      BY <2>2 DEF Range
    <3>3. u = x[1] + i - 1
      BY <2>1, <3>2 DEF SnapshotsInv, InOrder
    <3>4. /\ x[1] \in Int /\ Len(x[2]) \in Nat /\ i \in Nat /\ 1 <= i /\ i <= Len(x[2])
          /\ x[2] # <<>>
      BY <3>1, <3>2, BackwardFacts, SMTT(60)
    <3> QED
      BY <3>3, <3>4, SMTT(60)
  <2>3. ASSUME NEW x \in snapshots, NEW y \in snapshots, x[2] # <<>>, y[1] > x[1]
        PROVE  x[1] + Len(x[2]) <= y[1]
    BY <2>1, <2>3 DEF SnapshotsInv, Taken, Heads
  <2>4. /\ s[1] \in Int /\ s[2] # <<>> /\ Len(s[2]) \in Nat /\ u \in Int
        /\ s[1] <= u /\ u < s[1] + Len(s[2])
    BY <2>2
  <2>5. /\ t[1] \in Int /\ t[2] # <<>> /\ Len(t[2]) \in Nat
        /\ t[1] <= u /\ u < t[1] + Len(t[2])
    BY <2>2
  <2>6. s[1] # t[1]
    BY <2>1, <2>4, <2>5 DEF SnapshotsInv
  <2>7. CASE t[1] > s[1]
    <3>1. s[1] + Len(s[2]) <= t[1]
      BY <2>3, <2>4, <2>7
    <3> QED
      BY <2>4, <2>5, <3>1, SMTT(60)
  <2>8. CASE s[1] > t[1]
    <3>1. t[1] + Len(t[2]) <= s[1]
      BY <2>3, <2>5, <2>8
    <3> QED
      BY <2>4, <2>5, <3>1, SMTT(60)
  <2> QED
    BY <2>4, <2>5, <2>6, <2>7, <2>8, SMTT(60)
<1> QED
  BY <1>1, BackwardInvariant, PTL
=============================================================================
