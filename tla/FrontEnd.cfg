SPECIFICATION FrontSpec
CONSTANTS
  MaxInt <- MCMaxInt
  StringName = 3
  SystemName = 20
  OutName = 21
  InName = 22
  PrintlnName = 23
  WriteName = 24
  FlushName = 25
  ReadName = 26
  MainName = 27
  ToggleName = 5
  Families <- MCFamilies
INVARIANTS ParsesLanguage PrintIsIdempotent PrintKeepsProgram AcceptsWellTyped SameMemory
CHECK_DEADLOCK FALSE
