SPECIFICATION Spec
CONSTANTS
  Capability <- Capabilities
  Refresh <- Refreshes
  Completion <- Completions
  Transform <- Transforms
  Color <- Colors
  Bilevel = 0
  MaxU32 = 31
  MaxMarker = 3
INVARIANTS
  TouchedIsShown
  TouchLandsOnPanel
PROPERTY OnlyVisibleBytesChange
CHECK_DEADLOCK FALSE
