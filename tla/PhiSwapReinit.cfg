SPECIFICATION BackendSpec
CONSTANTS
  Blocks <- MCBlocks
  Start = "s"
  CfgPreds <- MCPreds
  Dominators <- MCDominators
  Phis <- MCPhis
  Defs <- MCDefs
  Consts <- MCConsts
  NodeBlock <- MCNodeBlock
  Methods <- MCMethods
  Orders <- MCOrders
  Values <- MCValues
  ConstValue <- MCConstValue
INVARIANTS SwapsReinitialised
