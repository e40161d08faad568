SPECIFICATION PassesSpec
CONSTANTS
  Main = main
  Nobody = Nobody
  Graphs = {main, f, g}
  Builtins = {print_int}
  MaxCalls = 2
  Bodies <- MCBodies
  Methods <- MCMethods
  IntMin <- MCIntMin
  IntMax = 1
INVARIANTS KeptIsClosed KeptIsLeast OperandsFirst ValuesPreserved TakenEdgesKept
PROPERTIES WorklistsEmpty
