SPECIFICATION Spec
CONSTANTS
  none = none
  awake = awake
  plain = plain
  unlisted = unlisted
  NoApp = none
  Indices <- AnyIndex
  Apps <- AllApps
  PreventsSuspend <- AwakeApps
  MaxShells = 3
INVARIANTS
  OneForeground
  SuspendFollowsForeground
  SignalVetoes
  ClearedWhenProven
  EndAccountsForStock
PROPERTY SignalEndsGuardian
CHECK_DEADLOCK FALSE
