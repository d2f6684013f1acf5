SPECIFICATION Spec
CONSTANTS
  Slots = 2
  X = {x1, x2}
  Y = {y1, y2}
  MaxContacts = 3
  MaxQueue = 9
  MaxBacklog = 2
  ReadRecords = 4
  RecordBudget = 4
  RenewAt = 1
  OpenedWhile = "unused"
  IdFirst = FALSE
  Emulates = FALSE
SYMMETRY Values
INVARIANT EveryTouchPresses
CHECK_DEADLOCK FALSE
