SPECIFICATION ScenesSpec
CONSTANTS
  a = a
  b = b
  c = c
  m = m
  Workers = {a, b}
  Jobs = {1, 2}
  Of <- MCOf
  Ephemeral = {b}
  Machine <- MCMachine
  Slots <- MCSlots
  Procs <- MCProcs
  MaxJobs = 2
  MaxControls = 2
  MaxFaults = 1
  Scenes = {"served"}
PROPERTIES
  ControlsComplete
  JobsEnd
CHECK_DEADLOCK FALSE
