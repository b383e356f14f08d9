----------------------------- MODULE RecordLoop -----------------------------
(***************************************************************************)
(* The main loop of perf record (__cmd_record, builtin-record.c) with the  *)
(* signal handlers that race it, its two triggers (util/trigger.h) and the *)
(* state of the overwritable ring buffers (perf_evlist__toggle_bkw_mmap).  *)
(*                                                                         *)
(* A signal handler runs between any two steps of the loop; when the loop  *)
(* sleeps in poll it also wakes it up with EINTR.  The content of the ring *)
(* buffers is abstracted to "holds events that were not collected yet",    *)
(* together with "... which are older than the signal"; rec->samples to    *)
(* how it compares with the local 'hits', which is all the loop asks.      *)
(***************************************************************************)
EXTENDS Integers

CONSTANT
  Configs       \* the ways to call perf record that are considered, records of
                \*   target:   "workload" (target__none(), perf starts it) or "system"
                \*   overwrite: evlist->overwrite_mmap exists (--overwrite)
                \*   switch:   mode of --switch-output: "signal", "size", "time", "none"
                \*   size:     switch_output.size, in written chunks
                \*   tail:     opts.tail_synthesize
                \*   snapshot: opts.auxtrace_snapshot_mode
                \*   signals:  what the user may send: "INT", "USR2"
                \*   faults:   calls that may fail: "read", "snapshot", "switch"

ASSUME RecordLoopAssumption ==
  Configs \subseteq
    [target : {"workload", "system"}, overwrite : BOOLEAN,
     switch : {"none", "signal", "size", "time"}, size : Nat \ {0, 1},
     tail : BOOLEAN, snapshot : BOOLEAN,
     signals : SUBSET {"INT", "USR2"}, faults : SUBSET {"read", "snapshot", "switch"}]

VARIABLES
  opts,         \* the configuration, fixed when perf starts
  pc,           \* where __cmd_record is
  done, draining, disabled, err,
  switch_output, snapshot,      \* states of the two triggers
  snapshot_started,             \* auxtrace_record__snapshot_started
  bkw,          \* evlist->bkw_mmap_state
  hits0,        \* the local hits is 0
  samples,      \* rec->samples: "zero", "hits" (equal, not 0) or "more" than hits
  bytes,        \* rec->bytes_written, counted up to SwitchSize
  alarm,        \* an alarm(2) is pending
  fwd, ovw,     \* forward and overwritable buffers hold events
  pollin, hup,  \* what poll would report: watermark crossed, all events gone
  alive, sigchld, \* the workload runs; its SIGCHLD is pending
  old,          \* history: "fwd", "ovw" hold events older than done
  owed,         \* history: ovw holds events older than the switch signal
  seen          \* history: the last pass began with done or draining set

vars == <<opts, pc, done, draining, disabled, err, switch_output, snapshot,
          snapshot_started, bkw, hits0, samples, bytes, alarm, fwd, ovw,
          pollin, hup, alive, sigchld, old, owed, seen>>
kernel == <<fwd, ovw, pollin, hup, alive, sigchld>>
triggers == <<switch_output, snapshot, snapshot_started>>

Target     == opts.target
Overwrite  == opts.overwrite
SwitchOn   == opts.switch
SwitchSize == opts.size
TailSynth  == opts.tail
Snapshot   == opts.snapshot
Signals    == opts.signals
Faults     == opts.faults

Trigger == {"ERROR", "OFF", "ON", "READY", "HIT"}
trigger_is_available(t) == t \notin {"ERROR", "OFF"}
\* Mutant: only a trigger that is on becomes ready.
trigger_ready_once(t) == IF t = "ON" THEN "READY" ELSE t
\* Every change of a trigger that is not available is ignored.
trigger_ready(t) == IF trigger_is_available(t) THEN "READY" ELSE t
trigger_hit(t)   == IF trigger_is_available(t) THEN "HIT" ELSE t
trigger_off(t)   == IF trigger_is_available(t) THEN "OFF" ELSE t

\* The modes of perf_evlist__toggle_bkw_mmap that are not refused.
perf_evlist__toggle_bkw_mmap(state) ==
  IF <<bkw, state>> \in {<<"NOTREADY", "RUNNING">>, <<"RUNNING", "DATA_PENDING">>,
                         <<"DATA_PENDING", "EMPTY">>, <<"EMPTY", "RUNNING">>}
     /\ Overwrite
  THEN state ELSE bkw

Init ==
  /\ opts \in Configs
  /\ pc = "setup"
  /\ done = FALSE /\ draining = FALSE /\ disabled = FALSE /\ err = FALSE
  /\ switch_output = IF SwitchOn = "none" THEN "OFF" ELSE "ON"
  /\ snapshot = IF Snapshot THEN "ON" ELSE "OFF"
  /\ snapshot_started = FALSE
  /\ bkw = IF Overwrite THEN "RUNNING" ELSE "NOTREADY"
  /\ hits0 = TRUE /\ samples = "zero" /\ bytes = 0
  /\ alarm = (SwitchOn = "time")
  /\ fwd = FALSE /\ ovw = FALSE /\ pollin = FALSE /\ hup = FALSE
  /\ alive = (Target = "workload") /\ sigchld = FALSE
  /\ old = {} /\ owed = FALSE /\ seen = FALSE

-----------------------------------------------------------------------------
(* The kernel, outside the repository.                                     *)

Recording == ~disabled /\ (Target = "system" \/ alive)

\* An event goes to a forward buffer; the waiters of poll are woken when it
\* crosses the watermark.
KernelForward(wake) ==
  /\ Recording
  /\ fwd' = TRUE
  /\ pollin' = (pollin \/ wake)
  /\ <<fwd', pollin'>> # <<fwd, pollin>>
  /\ UNCHANGED <<opts, pc, done, draining, disabled, err, triggers, bkw, hits0, samples,
                 bytes, alarm, ovw, hup, alive, sigchld, old, owed, seen>>

\* An event goes to an overwritable buffer, unless it is paused.
KernelOverwrite ==
  /\ Recording /\ bkw = "RUNNING" /\ ~ovw
  /\ ovw' = TRUE
  /\ UNCHANGED <<opts, pc, done, draining, disabled, err, triggers, bkw, hits0, samples,
                 bytes, alarm, fwd, pollin, hup, alive, sigchld, old, owed, seen>>

\* The workload exits: its events die with it and SIGCHLD is sent.
WorkloadExit ==
  /\ alive
  /\ alive' = FALSE /\ hup' = TRUE /\ sigchld' = TRUE
  /\ UNCHANGED <<opts, pc, done, draining, disabled, err, triggers, bkw, hits0, samples,
                 bytes, alarm, fwd, ovw, pollin, old, owed, seen>>

-----------------------------------------------------------------------------
(* Signal handlers.                                                        *)

\* poll returns EINTR when a handler ran while it slept.
Interrupt == pc' = IF pc = "poll" THEN "filter" ELSE pc

\* sig_handler for SIGINT, SIGTERM and SIGCHLD.
sig_handler ==
  /\ done' = TRUE
  /\ old' = IF done THEN old
            ELSE {b \in {"fwd", "ovw"} : IF b = "fwd" THEN fwd ELSE ovw}
  /\ Interrupt
  /\ UNCHANGED <<opts, draining, disabled, err, triggers, bkw, hits0, samples, bytes,
                 alarm, fwd, ovw, pollin, hup, alive, owed, seen>>

SigInt  == "INT" \in Signals /\ ~done /\ pc # "exit" /\ sig_handler /\ UNCHANGED sigchld
SigChld == sigchld /\ pc # "exit" /\ sig_handler /\ sigchld' = FALSE

\* The trigger of --switch-output is hit, by a signal or by a write.
HitSwitch ==
  /\ switch_output' = trigger_hit(switch_output)
  /\ owed' = (owed \/ ovw)
KeepSwitch == UNCHANGED <<switch_output, owed>>

\* SIGUSR2: auxtrace_record__snapshot_start may fail.
snapshot_sig_handler ==
  /\ "USR2" \in Signals
  /\ Snapshot \/ SwitchOn # "none"
  /\ pc # "exit"
  /\ IF snapshot = "READY"
     THEN /\ snapshot' \in {"HIT"} \cup (IF "snapshot" \in Faults THEN {"ERROR"} ELSE {})
          /\ snapshot_started' = TRUE
     ELSE UNCHANGED <<snapshot, snapshot_started>>
  /\ IF SwitchOn = "signal" /\ switch_output = "READY" THEN HitSwitch ELSE KeepSwitch
  /\ Interrupt
  /\ UNCHANGED <<opts, done, draining, disabled, err, bkw, hits0, samples, bytes, alarm,
                 kernel, old, seen>>

\* SIGALRM; alarm(2) fires once.
alarm_sig_handler ==
  /\ alarm /\ pc # "exit"
  /\ alarm' = FALSE
  /\ IF SwitchOn = "time" /\ switch_output = "READY" THEN HitSwitch ELSE KeepSwitch
  /\ Interrupt
  /\ UNCHANGED <<opts, done, draining, disabled, err, snapshot, snapshot_started, bkw,
                 hits0, samples, bytes, kernel, old, seen>>

Signal == SigInt \/ SigChld \/ snapshot_sig_handler \/ alarm_sig_handler

-----------------------------------------------------------------------------
(* The loop.                                                               *)

\* From trigger_on to the loop: the session is set up, the side-band thread
\* and the workload are started, the initial delay is slept.
Setup ==
  /\ pc = "setup" /\ pc' = "top"
  /\ snapshot' = trigger_ready(snapshot)
  /\ switch_output' = trigger_ready(switch_output)
  /\ UNCHANGED <<opts, done, draining, disabled, err, snapshot_started, bkw, hits0,
                 samples, bytes, alarm, kernel, old, owed, seen>>

\* Mutant: the buffers are not paused for the last pass.
PauseForSwitchOnly == switch_output = "HIT"

\* trigger_is_hit(&switch_output_trigger) || done || draining
PauseWanted == switch_output = "HIT" \/ done \/ draining

LoopTop ==
  /\ pc = "top" /\ pc' = "read_forward"
  /\ hits0' = (samples = "zero" \/ (samples = "hits" /\ hits0))
  /\ samples' = IF hits0' THEN "zero" ELSE "hits"
  /\ seen' = (done \/ draining)
  /\ bkw' = IF PauseWanted THEN perf_evlist__toggle_bkw_mmap("DATA_PENDING") ELSE bkw
  /\ UNCHANGED <<opts, done, draining, disabled, err, triggers, bytes, alarm, kernel,
                 old, owed>>

\* record__write: n chunks are appended to the file, and the size is checked
\* after each.
record__write(n) ==
  /\ bytes' = IF bytes + n > SwitchSize THEN SwitchSize ELSE bytes + n
  /\ IF n > 0 /\ SwitchOn = "size" /\ switch_output = "READY" /\ bytes' >= SwitchSize
     THEN switch_output' = trigger_hit(switch_output)
     ELSE UNCHANGED switch_output

\* record__mmap_read_evlist(rec, evlist, false): the events, then the
\* FINISHED_ROUND.
ReadForward ==
  /\ pc = "read_forward" /\ pc' = "read_overwrite"
  /\ fwd' = FALSE
  /\ samples' = IF fwd THEN "more" ELSE samples
  /\ old' = old \ {"fwd"}
  /\ record__write(IF fwd THEN 2 ELSE 0)
  /\ owed' = IF switch_output' # switch_output THEN owed \/ ovw ELSE owed
  /\ UNCHANGED <<opts, done, draining, disabled, err, snapshot, snapshot_started, bkw,
                 hits0, alarm, ovw, pollin, hup, alive, sigchld, seen>>

\* record__mmap_read_evlist(rec, evlist, true).
ReadOverwrite ==
  /\ pc = "read_overwrite" /\ pc' = "snapshot"
  /\ IF bkw = "DATA_PENDING"
     THEN /\ ovw' = FALSE
          /\ samples' = IF ovw THEN "more" ELSE samples
          /\ old' = old \ {"ovw"}
          /\ record__write(IF ovw THEN 2 ELSE 0)
          /\ owed' = FALSE
          /\ bkw' = perf_evlist__toggle_bkw_mmap("EMPTY")
     ELSE UNCHANGED <<ovw, samples, old, bytes, switch_output, owed, bkw>>
  /\ UNCHANGED <<opts, done, draining, disabled, err, snapshot, snapshot_started, hits0,
                 alarm, fwd, pollin, hup, alive, sigchld, seen>>

\* record__mmap_read_all failed in one of the two.
ReadFails ==
  /\ "read" \in Faults
  /\ pc \in {"read_forward", "read_overwrite"} /\ pc' = "out_child"
  /\ snapshot' = "ERROR" /\ switch_output' = "ERROR"
  /\ err' = TRUE
  /\ UNCHANGED <<opts, done, draining, disabled, snapshot_started, bkw, hits0, samples,
                 bytes, alarm, kernel, old, owed, seen>>

SnapshotTake ==
  /\ pc = "snapshot"
  /\ snapshot_started' = FALSE
  /\ pc' = IF ~snapshot_started THEN "trigger"
           ELSE IF snapshot = "ERROR" THEN "out_child" ELSE "read_snapshot"
  /\ err' = (err \/ (snapshot_started /\ snapshot = "ERROR"))
  /\ UNCHANGED <<opts, done, draining, disabled, switch_output, snapshot, bkw, hits0,
                 samples, bytes, alarm, kernel, old, owed, seen>>

\* The AUX area data of the snapshot, if there is any, is written and counts as
\* new samples; a buffer may fail after others were written.
record__read_auxtrace_snapshot ==
  /\ pc = "read_snapshot"
  /\ \E read \in BOOLEAN :
       /\ samples' = IF read THEN "more" ELSE samples
       /\ record__write(IF read THEN 2 ELSE 0)
  /\ owed' = IF switch_output' # switch_output THEN owed \/ ovw ELSE owed
  /\ \/ /\ pc' = "trigger" /\ snapshot' = trigger_ready(snapshot)
        /\ UNCHANGED err
     \/ /\ "snapshot" \in Faults
        /\ pc' = "out_child" /\ snapshot' = "ERROR"
        /\ err' = TRUE
  /\ UNCHANGED <<opts, done, draining, disabled, snapshot_started, bkw, hits0, alarm,
                 kernel, old, seen>>

\* Mutants: the buffers are not read again when the signal came late; they
\* are not resumed.
TriggerCheckAtOnce ==
  /\ pc = "trigger"
  /\ pc' = IF switch_output # "HIT" THEN "check" ELSE "switch"
  /\ IF pc' = "switch"
     THEN /\ switch_output' = trigger_ready(switch_output)
          /\ bkw' = perf_evlist__toggle_bkw_mmap("RUNNING")
     ELSE UNCHANGED <<switch_output, bkw>>
  /\ UNCHANGED <<opts, done, draining, disabled, err, snapshot, snapshot_started, hits0,
                 samples, bytes, alarm, kernel, old, owed, seen>>
TriggerCheckStays ==
  /\ pc = "trigger"
  /\ pc' = IF switch_output # "HIT" THEN "check"
           ELSE IF bkw = "RUNNING" THEN "top" ELSE "switch"
  /\ switch_output' = IF pc' = "switch" THEN trigger_ready(switch_output) ELSE switch_output
  /\ UNCHANGED <<opts, done, draining, disabled, err, snapshot, snapshot_started, bkw, hits0,
                 samples, bytes, alarm, kernel, old, owed, seen>>

\* if (trigger_is_hit(&switch_output_trigger)) ...
TriggerCheck ==
  /\ pc = "trigger"
  /\ pc' = IF switch_output # "HIT" THEN "check"
           ELSE IF bkw = "RUNNING" THEN "top" ELSE "switch"
  /\ IF pc' = "switch"
     THEN /\ switch_output' = trigger_ready(switch_output)
          /\ bkw' = perf_evlist__toggle_bkw_mmap("RUNNING")
     ELSE UNCHANGED <<switch_output, bkw>>
  /\ UNCHANGED <<opts, done, draining, disabled, err, snapshot, snapshot_started, hits0,
                 samples, bytes, alarm, kernel, old, owed, seen>>

\* record__switch_output: the tracking events are written before the switch, when
\* asked for at the tail, and at the head of the new file otherwise.
SwitchFile ==
  /\ pc = "switch" /\ pc' = "check"
  /\ samples' = "zero"
  /\ IF TailSynth
     THEN /\ IF SwitchOn = "size" /\ switch_output = "READY" /\ bytes + 1 >= SwitchSize
             THEN switch_output' = trigger_hit(switch_output)
             ELSE UNCHANGED switch_output
          /\ bytes' = 0
     ELSE /\ bytes' = 1
          /\ UNCHANGED switch_output
  /\ owed' = IF switch_output' # switch_output THEN owed \/ ovw ELSE owed
  /\ alarm' = (SwitchOn = "time")
  /\ UNCHANGED <<opts, done, draining, disabled, err, snapshot, snapshot_started, bkw,
                 hits0, kernel, old, seen>>

SwitchFails ==
  /\ "switch" \in Faults
  /\ pc = "switch" /\ pc' = "out_child"
  /\ samples' = "zero"
  /\ switch_output' = "ERROR"
  /\ err' = TRUE
  /\ UNCHANGED <<opts, done, draining, disabled, snapshot, snapshot_started, bkw, hits0,
                 bytes, alarm, kernel, old, owed, seen>>

\* hits == rec->samples
NoNewSamples == samples = "hits" \/ (samples = "zero" /\ hits0)

\* Mutant: the loop is never left.
IdleCheckNever ==
  /\ pc = "check"
  /\ pc' = IF ~NoNewSamples THEN "disable" ELSE "enter_poll"
  /\ UNCHANGED <<opts, done, draining, disabled, err, triggers, bkw, hits0,
                 samples, bytes, alarm, kernel, old, owed, seen>>

\* if (hits == rec->samples) { if (done || draining) break; ...
IdleCheck ==
  /\ pc = "check"
  /\ pc' = IF ~NoNewSamples THEN "disable"
           ELSE IF done \/ draining THEN "out_child" ELSE "enter_poll"
  /\ IF pc' = "out_child"
     THEN /\ snapshot' = trigger_off(snapshot)
          /\ switch_output' = trigger_off(switch_output)
     ELSE UNCHANGED <<snapshot, switch_output>>
  /\ UNCHANGED <<opts, done, draining, disabled, err, snapshot_started, bkw, hits0,
                 samples, bytes, alarm, kernel, old, owed, seen>>

\* The system call is entered: a handler that ran before cannot interrupt it.
EnterPoll ==
  /\ pc = "enter_poll" /\ pc' = "poll"
  /\ UNCHANGED <<opts, done, draining, disabled, err, triggers, bkw, hits0, samples, bytes,
                 alarm, kernel, old, owed, seen>>

\* perf_evlist__poll(evlist, -1) returns with events.
PollWake ==
  /\ pc = "poll" /\ pc' = "filter"
  /\ pollin \/ hup
  /\ pollin' = FALSE
  /\ UNCHANGED <<opts, done, draining, disabled, err, triggers, bkw, hits0, samples, bytes,
                 alarm, fwd, ovw, hup, alive, sigchld, old, owed, seen>>

\* perf_evlist__filter_pollfd leaves no descriptor: only what is buffered is left.
Filter ==
  /\ pc = "filter" /\ pc' = "disable"
  /\ draining' = (draining \/ hup)
  /\ UNCHANGED <<opts, done, disabled, err, triggers, bkw, hits0, samples, bytes, alarm,
                 kernel, old, owed, seen>>

Disable ==
  /\ pc = "disable" /\ pc' = "top"
  /\ IF done /\ ~disabled /\ Target = "system"
     THEN snapshot' = trigger_off(snapshot) /\ disabled' = TRUE
     ELSE UNCHANGED <<snapshot, disabled>>
  /\ UNCHANGED <<opts, done, draining, err, switch_output, snapshot_started, bkw, hits0,
                 samples, bytes, alarm, kernel, old, owed, seen>>

\* The workload is told to stop, unless it has, and waited for.  SIGTERM is
\* taken to end it.
OutChild ==
  /\ pc = "out_child" /\ pc' = "exit"
  /\ alive' = FALSE /\ hup' = (hup \/ alive) /\ sigchld' = FALSE
  /\ UNCHANGED <<opts, done, draining, disabled, err, triggers, bkw, hits0, samples, bytes,
                 alarm, fwd, ovw, pollin, old, owed, seen>>

Loop ==
  \/ Setup \/ LoopTop \/ ReadForward \/ ReadOverwrite \/ ReadFails
  \/ SnapshotTake \/ record__read_auxtrace_snapshot
  \/ TriggerCheck \/ SwitchFile \/ SwitchFails
  \/ IdleCheck \/ EnterPoll \/ PollWake \/ Filter \/ Disable \/ OutChild

Next ==
  \/ Loop
  \/ Signal
  \/ \E wake \in BOOLEAN : KernelForward(wake)
  \/ KernelOverwrite
  \/ WorkloadExit

Spec == Init /\ [][Next]_vars

\* The loop runs, and a pending SIGCHLD is delivered.
FairSpec == Spec /\ WF_vars(Loop) /\ WF_vars(SigChld)

\* The monitored system never falls silent: some forward buffer crosses its
\* watermark again and again.
Busy == WF_vars(KernelForward(TRUE))

-----------------------------------------------------------------------------
(* Properties.                                                             *)

\* Every variable has the type its C counterpart has.
TypeOK ==
  /\ pc \in {"setup", "top", "read_forward", "read_overwrite", "snapshot",
             "read_snapshot", "trigger", "switch", "check", "enter_poll", "poll", "filter",
             "disable", "out_child", "exit"}
  /\ {done, draining, disabled, err, snapshot_started, hits0, alarm, fwd, ovw,
      pollin, hup, alive, sigchld, owed, seen} \subseteq BOOLEAN
  /\ {switch_output, snapshot} \subseteq Trigger
  /\ bkw \in IF Overwrite THEN {"RUNNING", "DATA_PENDING", "EMPTY"} ELSE {"NOTREADY"}
  /\ samples \in {"zero", "hits", "more"}
  /\ bytes \in 0..SwitchSize
  /\ old \subseteq {"fwd", "ovw"}

\* When the loop decides to switch files because the trigger is hit, the
\* overwritable buffers have been collected since the hit: no event older
\* than the signal is left behind in them, even if the signal came while the
\* buffers were being read (the comment before "Read again").  And for
\* --switch-output=<size> the file has reached the size.  With --tail-synthesize
\* it need not: the tracking events that end the old file hit the trigger again
\* before bytes_written is reset.
SwitchCollects ==
  [][/\ pc = "trigger" /\ pc' = "switch" => ~owed
     /\ pc = "switch" /\ pc' = "check" /\ SwitchOn = "size" /\ ~TailSynth
          => bytes >= SwitchSize]_vars

\* Once the loop ends without an error, having started its last pass with
\* done or draining set, no buffer holds an event older than done.
ExitCollects ==
  /\ TypeOK
  /\ pc = "exit" /\ ~err /\ seen => old = {}

\* A hit trigger is served: the output is switched, the AUX area snapshot that
\* the handler accepted is taken, or perf exits.  As the signal may come just
\* before poll, something has to wake perf up.
RequestsServed ==
  Busy =>
    /\ (switch_output = "HIT") ~> (switch_output # "HIT" \/ pc = "exit")
    /\ (snapshot = "HIT") ~> (snapshot # "HIT" \/ pc = "exit")

\* The recording ends: with the workload, or, when the system is recorded,
\* after SIGINT or SIGTERM with the same proviso.  Every AUX area snapshot that
\* finds data makes the loop take another turn, and only a recording of the
\* system turns the snapshot trigger off when it is done: a workload's recording
\* ends once the user stops asking for snapshots.
RecordingEnds ==
  /\ <>[](snapshot # "HIT") =>
       ((Target = "workload" /\ ~alive) ~> (pc = "exit"))
  /\ Busy => ((Target = "system" /\ done) ~> (pc = "exit"))

Paused == bkw \in {"DATA_PENDING", "EMPTY"}

\* A paused overwritable buffer is resumed, unless the recording is ending, and
\* the loop never sleeps in poll before: the flight recorder would miss
\* everything until the next wake-up.
Resumed ==
  /\ Paused ~> (bkw = "RUNNING" \/ done \/ draining \/ err)
  /\ [](pc = "poll" => ~Paused)
=============================================================================
