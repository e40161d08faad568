SPECIFICATION VisitorSpec
CONSTANTS
  Families <- MCFamilies
INVARIANTS ShortCircuitCorrect OneWayOut SameBehaviour NoCriticalEdges
PROPERTIES BlocksStayClosed
