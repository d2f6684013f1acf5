SPECIFICATION Spec
CONSTANTS
  p1 = p1
  p2 = p2
  Pids <- TwoPids
  MaximumUnprovenStarts = 2
  Window = 2
  MaxTimestamp = 4
  TemporaryAttempts = 2
  MaxLives = 5
INVARIANTS
  BudgetBound
  StateStaysReadable
  StartIsDurable
PROPERTY RetryIsExact
CHECK_DEADLOCK FALSE
