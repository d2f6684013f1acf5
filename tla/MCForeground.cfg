SPECIFICATION Spec
CONSTANTS
  a1 = a1
  a2 = a2
  c1 = c1
  Awesome <- TwoAwesome
  Cvm <- OneCvm
  MaxIdentities = 2
  MaxLives = 2
INVARIANTS
  EveryMutationAccounted
  ReturnedExactly
  InhibitorFollowsLease
  PausedUnderInhibitor
PROPERTIES
  StockResumesInOrder
  ImplementsStockLease
  RestoreReachesEveryProcess
CHECK_DEADLOCK FALSE
