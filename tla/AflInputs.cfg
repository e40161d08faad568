SPECIFICATION InputsSpec
CONSTANTS
  HAVOC_CYCLES = 1
  HAVOC_CYCLES_INIT = 2
  SPLICE_HAVOC = 1
  HAVOC_MIN = 1
  havoc_div = 2
  HAVOC_MAX_MULT = 1
  HAVOC_STACK_POW2 = 2
  HAVOC_BLK_SMALL = 1
  HAVOC_BLK_MEDIUM = 2
  HAVOC_BLK_LARGE = 4
  SPLICE_CYCLES = 2
  MAX_FILE = 9
  Entries <- HavocEntries
  MIN_AUTO_EXTRA = 2
  MAX_AUTO_EXTRA = 3
  MAX_AUTO_EXTRAS = 2
  USE_AUTO_EXTRAS = 2
  MAX_DET_EXTRAS = 2
  MaxLen = 9
  Files <- DictFiles
  Dictionaries <- DictTokens
  EffMaps <- DictEffMaps
  Cksums <- DictCksums
  Builtin <- DictBuiltin
  tolower <- DictLower
  Lens = {1, 4}
  Targets = {1, 3, 5}
  Extras = {2, 3}
  MapSize = 2
  MaxClass = 1
  Variable = TRUE
  InputLens = {4, 5}
  Speeds = {1, 2}
  Seeds = {1}
  MaxQueue = 3
  CAL_CHANCES = 2
  HANG_LIMIT = 0
  TRIM_MIN_BYTES = 2
  TRIM_START_STEPS = 2
  TRIM_END_STEPS = 4
INVARIANTS FavoredCover QueueConsistent PendingExact SkippedWasTried TokensAreRows OneTokenEach HavocInBounds
CHECK_DEADLOCK FALSE
