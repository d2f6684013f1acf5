SPECIFICATION ShellSpec
INVARIANTS
  LightboxTracksPanel
  HandoverIsClean
  TouchAwaitsFrame
PROPERTIES
  ImplementsShellProcess
  AcceptedCommandEnds
CHECK_DEADLOCK FALSE
