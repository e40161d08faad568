SPECIFICATION Spec
CONSTANTS
  Files <- MCFiles
  MaxBufferSize = 2
  MaxLineLength = 4
  Keywords <- MCKeywords
INVARIANTS TokensTileFile PositionsExact ErrorsJustified
PROPERTIES CallsReturn
