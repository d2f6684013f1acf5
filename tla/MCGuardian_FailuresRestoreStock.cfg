SPECIFICATION Spec
CONSTANTS
  none = none
  awake = awake
  plain = plain
  unlisted = unlisted
  NoApp = none
  Indices <- AllApps
  Apps <- AllApps
  PreventsSuspend <- AwakeApps
  MaxShells = 3
INVARIANT FailuresRestoreStock
CHECK_DEADLOCK FALSE
