SPECIFICATION ShellSpec
INVARIANT DrawerStaysSharp
CHECK_DEADLOCK FALSE
