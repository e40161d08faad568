SPECIFICATION RunsSpec
CONSTANTS
  Files <- MCFiles
  TMIN_SET_STEPS = 2
  TMIN_SET_MIN_SIZE = 2
  TRIM_START_STEPS = 2
  Modes = {"server"}
  MaxRuns = 1
  MaxPid = 1
  MaxFiles = 2
INVARIANT NothingMissed
CHECK_DEADLOCK FALSE
