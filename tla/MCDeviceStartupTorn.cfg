SPECIFICATION Spec
CONSTANTS
  Main = main
  Console = {c1}
  Id = {d1, d2}
  Document <- TwoGroups
  Garbled <- CutShort
  MaxRetries = 3
  MaxLives = 2
  Absent = absent
  Torn = torn
  None = none
CHECK_DEADLOCK FALSE
INVARIANT SavedTokenIsRead
