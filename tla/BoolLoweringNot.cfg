SPECIFICATION VisitorSpec
CONSTANTS
  Families <- MCFamilies
INVARIANTS LoweringCorrect
