SPECIFICATION ScenesSafety
CONSTANTS
  a = a
  b = b
  c = c
  m = m
  Workers = {a, b, c}
  Jobs = {1, 2, 3, 4}
  Of <- MCOf
  Ephemeral = {}
  Machine <- MCMachine
  Slots <- MCSlots
  Procs <- MCProcs2
  MaxJobs = 3
  MaxControls = 3
  MaxFaults = 1
  Scenes = {"pool", "controls"}
INVARIANTS
  ProcessPermits
  StopConfirmed
  InterruptsHold
  TasksOwnJobs
PROPERTIES
  ImplementsJobLedger
CHECK_DEADLOCK FALSE
