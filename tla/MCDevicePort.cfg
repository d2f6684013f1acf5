SPECIFICATION Spec
CONSTANTS
  Preference <- OnePreference
  Values <- Images
  Default <- Pattern
  Sensed <- OnePreference
  Offered <- OnePreference
  LightMaximum = 2
  Pids <- TwoPids
  MaxLives = 2
INVARIANTS
  ChosenSurvives
  WifiNeverHalfOn
CHECK_DEADLOCK FALSE
