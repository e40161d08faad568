SPECIFICATION RunsSpec
CONSTANTS
  Files <- MCFiles
  TMIN_SET_STEPS = 2
  TMIN_SET_MIN_SIZE = 2
  TRIM_START_STEPS = 2
  Modes = {"server", "persistent", "dumb", "showmap", "untimed", "tmin", "analyze"}
  MaxRuns = 3
  MaxPid = 3
  MaxFiles = 3
INVARIANTS VerdictTrue OneChild TminMinimal SyncedWasRun
PROPERTIES RunsEnd
CHECK_DEADLOCK FALSE
