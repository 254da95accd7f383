CONSTANTS
  MaxAttempts = 2
  HostLeaves = {"claude", "codex", "script"}
  DockerLeaves = {"codex"}
SPECIFICATION Spec
INVARIANTS OneBackend AttemptsJustified SuccessHasCause
INVARIANTS StopReachesGroup SnapshotOutlivesContainer TimersDieWithRun
PROPERTIES LeafEnds RunSettles
CHECK_DEADLOCK FALSE
