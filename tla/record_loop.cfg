\* perf record in its modes, with every signal at every step.
SPECIFICATION FairSpec
CONSTANT Configs <- AllModes
CHECK_DEADLOCK FALSE
INVARIANTS ExitCollects
PROPERTIES SwitchCollects RequestsServed RecordingEnds Resumed
