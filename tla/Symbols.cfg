SPECIFICATION SymbolsSpec
CONSTANTS
  Symbols = {"x", "y"}
  Defs <- Definitions
  NullDef = NullDef
  Addrs = {a1, a2, a3, a4}
  NullScope = NullScope
  MaxChanges = 7
  MaxParams = 2
  MaxLocals = 3
  MaxBlocks = 2
  FieldLists <- MCFieldLists
  TableAddrs = {a1, a2, a3}
  TableChanges = 4
INVARIANTS QueriesAgree NoDanglingScope NamesMeanInnermost ReferencesUsable
PROPERTIES RefinesScopedEnv
