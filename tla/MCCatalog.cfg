SPECIFICATION SessionSpec
CONSTANTS
  Applications = {0, 1}
  Alerts = {"ApplicationStopped", "RecoveryCountdown"}
  Paths = {p1, p2}
  Contents <- MCContents
  MaxApplications = 2
  MaxReplacements = 1
INVARIANTS
  ShownNoticeTruthful
  TappedIsLaunched
  TappedIsRegistered
PROPERTY PowerOnlyConfirmed
SYMMETRY Symmetry
CHECK_DEADLOCK FALSE
