---------------------------- MODULE SwitchOutput ----------------------------
(***************************************************************************)
(* The files of perf record --switch-output: record__switch_output         *)
(* (builtin-record.c), perf_data__switch, perf_data__open and check_backup *)
(* (util/data.c).  A dump renames perf.data to perf.data.<timestamp>, opens*)
(* a new perf.data, and with --switch-max-files forgets the oldest dump.   *)
(*                                                                         *)
(* The content of a file is the number of the recording that filled it.    *)
(***************************************************************************)
EXTENDS Integers, Sequences

CONSTANTS
  MaxClock,       \* bound: timestamps, in the hundredths of a second of the name
  MaxDumps,       \* bound: files switched
  NumFiles,       \* switch_output.num_files: 0 keeps them all
  DistinctTimes,  \* two dumps never happen in the same hundredth of a second
  RenameFails     \* rename(2) to the timestamped name may fail

ASSUME SwitchOutputAssumption ==
  /\ MaxClock \in Nat \ {0} /\ {MaxDumps, NumFiles} \subseteq Nat
  /\ {DistinctTimes, RenameFails} \subseteq BOOLEAN

None == 0
PerfData == 0                     \* the name perf.data
Old == -1                         \* the name perf.data.old
Names == Old..MaxClock            \* t > 0 is the name perf.data.<t>

VARIABLES
  fs,             \* name -> the recording in it
  recording,      \* the one that is being written
  filenames, cur_file,            \* of rec->switch_output
  clock,
  dumps,          \* history: the recordings that were dumped, in order
  running

files_vars == <<fs, recording, filenames, cur_file, clock, dumps, running>>

\* perf_data__open of a fresh run; an earlier run may have left its file.
FilesInit ==
  /\ \E left \in {0, 1} :
        fs = [n \in Names |-> IF n = Old THEN -left ELSE IF n = PerfData THEN 1 ELSE None]
  /\ recording = 1
  /\ filenames = [i \in 0..(NumFiles - 1) |-> None] /\ cur_file = 0
  /\ clock = 1 /\ dumps = <<>> /\ running = TRUE

Tick ==
  /\ clock < MaxClock
  /\ clock' = clock + 1
  /\ UNCHANGED <<fs, recording, filenames, cur_file, dumps, running>>

-----------------------------------------------------------------------------
\* rename(2): what was at the new name is gone.
Rename(f, from, to) == [f EXCEPT ![to] = f[from], ![from] = None]

\* check_backup: a file that exists and is not empty is moved out of the way.
check_backup(f) == IF f[PerfData] # None THEN Rename(f, PerfData, Old) ELSE f

\* Mutant: the backup is made of the new file.
perf_data__open_first(f, new) == check_backup([f EXCEPT ![PerfData] = new])

\* perf_data__open: a new file, truncated, for the next recording.
perf_data__open(f, new) == [check_backup(f) EXCEPT ![PerfData] = new]

\* How perf_data__switch gets on with the new file: open may fail, or lseek to the
\* place of the first event.
Results == {"OK", "OPEN_FAILED", "LSEEK_FAILED"}

\* perf_data__switch: a rename that fails is only warned about.
perf_data__switch(at_exit, renamed, result) ==
  LET moved == IF renamed THEN Rename(fs, PerfData, clock) ELSE fs
  IN  IF at_exit THEN moved
      ELSE IF result = "OPEN_FAILED" THEN check_backup(moved)
      ELSE perf_data__open(moved, recording + 1)

\* Mutant: the last slot is never used.
SlotShort == IF cur_file + 1 >= NumFiles - 1 THEN 0 ELSE cur_file + 1

\* The next slot of filenames; the dump that had it is removed.
Slot == IF cur_file + 1 >= NumFiles THEN 0 ELSE cur_file + 1
Forget(f) == IF filenames[Slot] = None THEN f ELSE [f EXCEPT ![filenames[Slot]] = None]

\* A dump that fails after the rename is one all the same, and ends the recording.
record__switch_output(at_exit, renamed, result) ==
  /\ running /\ Len(dumps) < MaxDumps
  /\ ~renamed => RenameFails
  /\ at_exit => result = "OK"
  /\ DistinctTimes => fs[clock] = None /\ \A i \in DOMAIN filenames : filenames[i] # clock
  /\ IF NumFiles > 0
     THEN /\ fs' = Forget(perf_data__switch(at_exit, renamed, result))
          /\ cur_file' = Slot
          /\ filenames' = [filenames EXCEPT ![Slot] = clock]
     ELSE /\ fs' = perf_data__switch(at_exit, renamed, result)
          /\ UNCHANGED <<cur_file, filenames>>
  /\ running' = (~at_exit /\ result = "OK")
  /\ recording' = IF running' THEN recording + 1 ELSE recording
  /\ dumps' = Append(dumps, recording)
  /\ UNCHANGED clock

\* fetch_current_timestamp fails: the recording ends, its data stays in perf.data.
NoTimestamp ==
  /\ running
  /\ running' = FALSE
  /\ UNCHANGED <<fs, recording, filenames, cur_file, clock, dumps>>

FilesNext ==
  \/ Tick
  \/ \E at_exit, renamed \in BOOLEAN, result \in Results :
        record__switch_output(at_exit, renamed, result)
  \/ NoTimestamp

FilesSpec == FilesInit /\ [][FilesNext]_files_vars

-----------------------------------------------------------------------------
(* Properties                                                              *)

\* Every variable has its type.  perf.data.old is the file of an earlier run: a
\* switch finds no perf.data to back up, having renamed it.
FilesTypeOK ==
  /\ fs \in [Names -> -1..(MaxDumps + 1)] /\ fs[Old] \in {-1, None}
  /\ filenames \in [0..(NumFiles - 1) -> 0..MaxClock]
  /\ NumFiles > 0 => cur_file \in 0..(NumFiles - 1)
  /\ recording \in 1..(MaxDumps + 1)

Kept == {fs[t] : t \in 1..MaxClock} \ {None}
Newest(n) ==
  {dumps[i] : i \in (IF n = 0 \/ Len(dumps) <= n THEN 1 ELSE Len(dumps) - n + 1)..Len(dumps)}

\* --switch-max-files=N keeps exactly the N latest dumps, and without it all
\* dumps are kept: no dump replaces or removes another one before its turn.
KeepsNewest == Kept = Newest(NumFiles)

\* While perf runs, perf.data is the file of the current recording; and however a
\* switch ends, the recording it was about to dump is in a file.
PerfDataIsCurrent ==
  /\ FilesTypeOK
  /\ running => fs[PerfData] = recording
  /\ \E n \in Names : fs[n] = recording
=============================================================================
