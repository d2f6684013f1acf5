--------------------------- MODULE GuardianProofs ---------------------------
(***************************************************************************)
(* The safety of one guardian life, for any set of applications, any       *)
(* suspend and handoff policies and any number of shells, and of the shell *)
(* process that it runs.                                                   *)
(***************************************************************************)
EXTENDS Guardian, Shell, TLAPS

(***************************************************************************)
(* The inductive invariant: the types, and what is so at each program      *)
(* point, in six parts, one per concern of the loop.                       *)
(***************************************************************************)
\* The points before the signal guard.
Before    == {"Begin", "Preflight", "Install"}
\* The points at which a shell may run.
WithShell == {"AwaitReadiness", "AllowSuspend", "Supervise"}
\* The points of a launched application.
Launching == {"SpawnApplication", "SuperviseApplication", "AfterApplication"}
\* The points of a reboot or a power-off.
Acting    == {"MarkAction", "FinishAction", "Exec", "Rebooting"}

\* Where the lease is owned, and what has been restored where it is not.
Leased ==
  /\ pc \in WithShell \cup Acting \cup {"Choose", "Dispatch", "HandOff", "Restore"}
       => lease
  /\ pc \in Before \cup {"Acquire", "MarkReturned", "FinishReturned", "Finish", "Exit"}
       => ~lease
  /\ pc \in Launching => (lease <=> Selected \notin mediated)
  /\ pc \in {"MarkReturned", "FinishReturned"} => restored

\* Which command leads to which point.
Commanded ==
  /\ pc \in Acting => command \in SystemAction
  /\ pc = "Dispatch" => command \in Request
  /\ pc \in Launching \cup {"HandOff"} =>
       command.kind = "LaunchApplication" /\ Selected \in Apps
  /\ pc \in {"MarkReturned", "FinishReturned"} => command.kind = "ReturnToStock"
  /\ pc = "Restore" /\ after = "MarkReturned" => command.kind = "ReturnToStock"
  /\ pc = "Restore" /\ after = "SpawnApplication" =>
       command.kind = "LaunchApplication" /\ Selected \in mediated

\* Where the children live.
Children ==
  /\ shell # "none" => pc \in WithShell \cup {"Killed"} /\ lease /\ app = NoApp
  /\ app # NoApp =>
       /\ pc \in {"SuperviseApplication", "Killed"}
       /\ app = Selected /\ command.kind = "LaunchApplication"
       /\ lease <=> Selected \notin mediated
       /\ lease => (inhibited <=> Selected \in PreventsSuspend)

\* The suspend policy of each point.
Suspend ==
  /\ pc \in {"Choose", "AwaitReadiness"} => inhibited
  /\ pc = "Supervise" => ~inhibited
  /\ pc \in {"SpawnApplication", "SuperviseApplication"} /\ lease =>
       (inhibited <=> Selected \in PreventsSuspend)

\* A signal that is no longer pending has already decided the end.
Signalled ==
  /\ pc \in Before \cup {"Exec", "Rebooting"} => ~signalled
  /\ pc \in Before \cup {"Exec", "Rebooting"} => ~deferring
  /\ signalled /\ ~pending =>
       \/ pc \in {"Exit", "Exited", "Killed"}
       \/ pc = "Restore" /\ after = "Exit"
  /\ result # "none" => pc = "Exited"
  /\ result = "ok" => ~signalled

\* The attempt, its record, and the result.
Recorded ==
  /\ record = "unproven" => budget \/ result = "err"
  /\ pc = "Begin" => ~budget /\ record = "none"
  /\ pc = "FinishReturned" => ~budget
  /\ result = "ok" => ~lease /\ restored /\ record # "unproven"
  /\ result = "err" /\ lease =>
       \/ command \in SystemAction
       \/ command.kind = "LaunchApplication" /\ Selected \notin Apps
  /\ record = "cleared" /\ ~proven =>
       /\ shell = "none"
       /\ \/ /\ pc \in {"FinishReturned", "Exited", "Killed"}
             /\ command.kind = "ReturnToStock" /\ restored /\ ~lease
          \/ /\ command \in SystemAction
             /\ \/ pc \in {"FinishAction", "Exec", "Rebooting", "Exit", "Exited", "Killed"}
                \/ pc = "Restore" /\ after = "Exit"

\* The types, the booleans apart from the rest.
Booleans ==
  /\ lease \in BOOLEAN /\ inhibited \in BOOLEAN
  /\ deferring \in BOOLEAN /\ pending \in BOOLEAN /\ signalled \in BOOLEAN
  /\ budget \in BOOLEAN /\ restored \in BOOLEAN /\ proven \in BOOLEAN

\* The other types.
Values ==
  /\ startup \in {"StockRunning", "StockStarting"} /\ mediated \subseteq Apps
  /\ pc \in Before \cup WithShell \cup Launching \cup Acting \cup
       {"Acquire", "Choose", "Dispatch", "Restore", "MarkReturned", "FinishReturned",
        "Finish", "HandOff", "Exit", "Exited", "Killed"}
  /\ after \in {"Finish", "MarkReturned", "SpawnApplication", "Exit"}
  /\ result \in {"none", "ok", "err"}
  /\ record \in {"none", "unproven", "cleared"}
  /\ shell \in {"none", "starting", "stillborn", "ready", "clean", "failed"}
  /\ command \in Request \cup {NoRequest}
  /\ app \in Apps \cup {NoApp}
  /\ shells \in 0 .. MaxShells

\* The inductive invariant.
IInv == Booleans /\ Values /\ Leased /\ Commanded /\ Children /\ Suspend
          /\ Signalled /\ Recorded

(***************************************************************************)
(* Every action of the guardian and of the processes around it preserves   *)
(* the invariant, one lemma each.                                          *)
(***************************************************************************)
\* Their kinds tell commands apart, and only a launch carries an index.
LEMMA Commands ==
  /\ SystemAction \subseteq Request /\ NoRequest \notin Request
  /\ \A c \in Request : c.kind = "LaunchApplication" => c.index \in Indices
  /\ \A c \in SystemAction : c.kind \notin {"LaunchApplication", "ReturnToStock"}
  /\ NoRequest.kind = "Unusable"
BY GuardianAssumption DEF SystemAction, Request, NoRequest

\* A guardian that has not begun has recorded, owns and runs nothing.
LEMMA BeginIInv == IInv /\ Begin => IInv'
<1> SUFFICES ASSUME IInv, Begin PROVE IInv'
  OBVIOUS
<1> USE Commands, GuardianAssumption DEF IInv, Begin, ExitWith,
      arguments, owned, signals, children
<1>1. Booleans'
  BY Zenon DEF Booleans
<1>2. Values' /\ Leased' /\ Commanded'
  BY DEF Values, Leased, Commanded, Children, Before, WithShell, Acting,
      Launching, Selected
<1>3. Children' /\ Suspend'
  BY DEF Values, Leased, Commanded, Children, Suspend, Before, WithShell,
      Acting, Launching, Selected
<1>4. Signalled' /\ Recorded'
  BY DEF Booleans, Values, Signalled, Recorded, Leased, Commanded, Children,
      Before, WithShell, Acting, Launching, Selected
<1> QED BY <1>1, <1>2, <1>3, <1>4 DEF IInv

\* A refused preflight leaves before anything is owned.
LEMMA PreflightIInv == IInv /\ Preflight => IInv'
<1> SUFFICES ASSUME IInv, Preflight PROVE IInv'
  OBVIOUS
<1> USE Commands, GuardianAssumption DEF IInv, Preflight, ExitWith,
      arguments, owned, signals, crash, children
<1>1. Booleans'
  BY Zenon DEF Booleans
<1>2. Values' /\ Leased' /\ Commanded'
  BY DEF Values, Leased, Commanded, Children, Before, WithShell, Acting,
      Launching, Selected
<1>3. Children' /\ Suspend'
  BY DEF Values, Leased, Commanded, Children, Suspend, Before, WithShell,
      Acting, Launching, Selected
<1>4. Signalled' /\ Recorded'
  BY DEF Booleans, Values, Signalled, Recorded, Leased, Commanded, Children,
      Before, WithShell, Acting, Launching, Selected
<1> QED BY <1>1, <1>2, <1>3, <1>4 DEF IInv

\* No signal can have been deferred before the guard is there.
LEMMA InstallSignalGuardIInv == IInv /\ InstallSignalGuard => IInv'
<1> SUFFICES ASSUME IInv, InstallSignalGuard PROVE IInv'
  OBVIOUS
<1> USE Commands, GuardianAssumption DEF IInv, InstallSignalGuard, ExitWith,
      arguments, owned, signals, crash, children
<1>1. Booleans'
  BY Zenon DEF Booleans
<1>2. Values' /\ Leased' /\ Commanded'
  BY DEF Values, Leased, Commanded, Children, Before, WithShell, Acting,
      Launching, Selected
<1>3. Children' /\ Suspend'
  BY DEF Values, Leased, Commanded, Children, Suspend, Before, WithShell,
      Acting, Launching, Selected
<1>4. Signalled' /\ Recorded'
  BY DEF Booleans, Values, Signalled, Recorded, Leased, Commanded, Children,
      Before, WithShell, Acting, Launching, Selected
<1> QED BY <1>1, <1>2, <1>3, <1>4 DEF IInv

\* A new lease starts with suspend inhibited.
LEMMA AcquireIInv == IInv /\ Acquire => IInv'
<1> SUFFICES ASSUME IInv, Acquire PROVE IInv'
  OBVIOUS
<1> USE Commands, GuardianAssumption DEF IInv, Acquire,
      arguments, owned, signals, crash, children
<1>1. Booleans'
  BY Zenon DEF Booleans
<1>2. Values' /\ Leased' /\ Commanded'
  BY DEF Values, Leased, Commanded, Children, Before, WithShell, Acting,
      Launching, Selected
<1>3. Children' /\ Suspend'
  BY DEF Values, Leased, Commanded, Children, Suspend, Before, WithShell,
      Acting, Launching, Selected
<1>4. Signalled' /\ Recorded'
  BY DEF Booleans, Values, Signalled, Recorded, Leased, Commanded, Children,
      Before, WithShell, Acting, Launching, Selected
<1> QED BY <1>1, <1>2, <1>3, <1>4 DEF IInv

\* A shell starts only under the lease, suspend inhibited and no application there.
LEMMA ChooseIInv == IInv /\ Choose => IInv'
<1> SUFFICES ASSUME IInv, Choose PROVE IInv'
  OBVIOUS
<1> USE Commands, GuardianAssumption DEF IInv, Choose, RestoreTo, WithoutShell,
      arguments, owned, signals, crash
<1>1. Booleans'
  BY Zenon DEF Booleans
<1>2. Values' /\ Leased' /\ Commanded'
  BY DEF Values, Leased, Commanded, Children, Before, WithShell, Acting,
      Launching, Selected
<1>3. Children' /\ Suspend'
  BY DEF Values, Leased, Commanded, Children, Suspend, Before, WithShell,
      Acting, Launching, Selected
<1>4. Signalled' /\ Recorded'
  BY DEF Booleans, Values, Signalled, Recorded, Leased, Commanded, Children,
      Before, WithShell, Acting, Launching, Selected
<1> QED BY <1>1, <1>2, <1>3, <1>4 DEF IInv

\* A shell that does not become ready is gone before stock is restored.
LEMMA AwaitReadinessIInv == IInv /\ AwaitReadiness => IInv'
<1> SUFFICES ASSUME IInv, AwaitReadiness PROVE IInv'
  OBVIOUS
<1> USE Commands, GuardianAssumption DEF IInv, AwaitReadiness, RestoreTo,
      WithoutShell,
      arguments, owned, signals, crash, children
<1>1. Booleans'
  BY Zenon DEF Booleans
<1>2. Values' /\ Leased' /\ Commanded'
  BY DEF Values, Leased, Commanded, Children, Before, WithShell, Acting,
      Launching, Selected
<1>3. Children' /\ Suspend'
  BY DEF Values, Leased, Commanded, Children, Suspend, Before, WithShell,
      Acting, Launching, Selected
<1>4. Signalled' /\ Recorded'
  BY DEF Booleans, Values, Signalled, Recorded, Leased, Commanded, Children,
      Before, WithShell, Acting, Launching, Selected
<1> QED BY <1>1, <1>2, <1>3, <1>4 DEF IInv

\* Suspend is allowed before the shell is supervised, or the lease is given back.
LEMMA AllowSuspendIInv == IInv /\ AllowSuspend => IInv'
<1> SUFFICES ASSUME IInv, AllowSuspend PROVE IInv'
  OBVIOUS
<1> USE Commands, GuardianAssumption DEF IInv, AllowSuspend, RestoreTo,
      WithoutShell,
      arguments, signals, crash, children
<1>1. Booleans'
  BY Zenon DEF Booleans
<1>2. Values' /\ Leased' /\ Commanded'
  BY DEF Values, Leased, Commanded, Children, Before, WithShell, Acting,
      Launching, Selected
<1>3. Children' /\ Suspend'
  BY DEF Values, Leased, Commanded, Children, Suspend, Before, WithShell,
      Acting, Launching, Selected
<1>4. Signalled' /\ Recorded'
  BY DEF Booleans, Values, Signalled, Recorded, Leased, Commanded, Children,
      Before, WithShell, Acting, Launching, Selected
<1> QED BY <1>1, <1>2, <1>3, <1>4 DEF IInv

\* The command is read when the shell is gone.
LEMMA SupervisedShellEndsIInv == IInv /\ SupervisedShellEnds => IInv'
<1> SUFFICES ASSUME IInv, SupervisedShellEnds PROVE IInv'
  OBVIOUS
<1> USE Commands, GuardianAssumption DEF IInv, SupervisedShellEnds, RestoreTo,
      WithoutShell,
      arguments, owned, signals, crash
<1>1. Booleans'
  BY Zenon DEF Booleans
<1>2. Values' /\ Leased' /\ Commanded'
  BY DEF Values, Leased, Commanded, Children, Before, WithShell, Acting,
      Launching, Selected
<1>3. Children' /\ Suspend'
  BY DEF Values, Leased, Commanded, Children, Suspend, Before, WithShell,
      Acting, Launching, Selected
<1>4. Signalled' /\ Recorded'
  BY DEF Booleans, Values, Signalled, Recorded, Leased, Commanded, Children,
      Before, WithShell, Acting, Launching, Selected
<1> QED BY <1>1, <1>2, <1>3, <1>4 DEF IInv

\* So does a pending signal.
LEMMA SuperviseSignalledIInv == IInv /\ SuperviseSignalled => IInv'
<1> SUFFICES ASSUME IInv, SuperviseSignalled PROVE IInv'
  OBVIOUS
<1> USE Commands, GuardianAssumption DEF IInv, SuperviseSignalled, RestoreTo,
      WithoutShell,
      arguments, owned, signals, crash
<1>1. Booleans'
  BY Zenon DEF Booleans
<1>2. Values' /\ Leased' /\ Commanded'
  BY DEF Values, Leased, Commanded, Children, Before, WithShell, Acting,
      Launching, Selected
<1>3. Children' /\ Suspend'
  BY DEF Values, Leased, Commanded, Children, Suspend, Before, WithShell,
      Acting, Launching, Selected
<1>4. Signalled' /\ Recorded'
  BY DEF Booleans, Values, Signalled, Recorded, Leased, Commanded, Children,
      Before, WithShell, Acting, Launching, Selected
<1> QED BY <1>1, <1>2, <1>3, <1>4 DEF IInv

\* Each command leads to the points that expect it.
LEMMA DispatchIInv == IInv /\ Dispatch => IInv'
<1> SUFFICES ASSUME IInv, Dispatch PROVE IInv'
  OBVIOUS
<1> USE Commands, GuardianAssumption DEF IInv, Dispatch,
      arguments, owned, signals, crash, children
<1>1. Booleans'
  BY Zenon DEF Booleans
<1>2. Values' /\ Leased' /\ Commanded'
  BY DEF Values, Leased, Commanded, Children, Before, WithShell, Acting,
      Launching, Selected
<1>3. Children' /\ Suspend'
  BY DEF Values, Leased, Commanded, Children, Suspend, Before, WithShell,
      Acting, Launching, Selected
<1>4. Signalled' /\ Recorded'
  BY DEF Booleans, Values, Signalled, Recorded, Leased, Commanded, Children,
      Before, WithShell, Acting, Launching, Selected
<1> QED BY <1>1, <1>2, <1>3, <1>4 DEF IInv

\* An index outside the catalog ends the guardian where it stands, under the lease.
LEMMA RefuseLaunchIInv == IInv /\ RefuseLaunch => IInv'
<1> SUFFICES ASSUME IInv, RefuseLaunch PROVE IInv'
  OBVIOUS
<1> USE Commands, GuardianAssumption DEF IInv, RefuseLaunch,
      ExitWith, arguments, owned, signals, crash, children
<1>1. Booleans'
  BY Zenon DEF Booleans
<1>2. Values' /\ Leased' /\ Commanded'
  BY DEF Values, Leased, Commanded, Children, Before, WithShell, Acting,
      Launching, Selected
<1>3. Children' /\ Suspend'
  BY DEF Values, Leased, Commanded, Children, Suspend, Before, WithShell,
      Acting, Launching, Selected
<1>4. Signalled' /\ Recorded'
  BY DEF Booleans, Values, Signalled, Recorded, Leased, Commanded, Children,
      Before, WithShell, Acting, Launching, Selected
<1> QED BY <1>1, <1>2, <1>3, <1>4 DEF IInv

\* After a restoration nothing is owned, whether it succeeded or not.
LEMMA RestoreIInv == IInv /\ Restore => IInv'
<1> SUFFICES ASSUME IInv, Restore PROVE IInv'
  OBVIOUS
<1> USE Commands, GuardianAssumption DEF IInv, Restore, ExitWith,
      arguments, signals, crash, children
<1>1. Booleans'
  BY Zenon DEF Booleans
<1>2. Values' /\ Leased' /\ Commanded'
  BY DEF Values, Leased, Commanded, Children, Before, WithShell, Acting,
      Launching, Selected
<1>3. Children' /\ Suspend'
  BY DEF Values, Leased, Commanded, Children, Suspend, Before, WithShell,
      Acting, Launching, Selected
<1>4. Signalled' /\ Recorded'
  BY DEF Booleans, Values, Signalled, Recorded, Leased, Commanded, Children,
      Before, WithShell, Acting, Launching, Selected
<1> QED BY <1>1, <1>2, <1>3, <1>4 DEF IInv

\* The record is cleared for a return to stock that has happened.
LEMMA MarkReturnedIInv == IInv /\ MarkReturned => IInv'
<1> SUFFICES ASSUME IInv, MarkReturned PROVE IInv'
  OBVIOUS
<1> USE Commands, GuardianAssumption DEF IInv, MarkReturned, ExitWith,
      MarkStable,
      arguments, owned, signals, children
<1>1. Booleans'
  BY Zenon DEF Booleans
<1>2. Values' /\ Leased' /\ Commanded'
  BY DEF Values, Leased, Commanded, Children, Before, WithShell, Acting,
      Launching, Selected
<1>3. Children' /\ Suspend'
  BY DEF Values, Leased, Commanded, Children, Suspend, Before, WithShell,
      Acting, Launching, Selected
<1>4. Signalled' /\ Recorded'
  BY DEF Booleans, Values, Signalled, Recorded, Leased, Commanded, Children,
      Before, WithShell, Acting, Launching, Selected
<1> QED BY <1>1, <1>2, <1>3, <1>4 DEF IInv

\* Success needs no pending signal, and so no signal at all.
LEMMA FinishReturnedIInv == IInv /\ FinishReturned => IInv'
<1> SUFFICES ASSUME IInv, FinishReturned PROVE IInv'
  OBVIOUS
<1> USE Commands, GuardianAssumption DEF IInv, FinishReturned, ExitWith,
      arguments, owned, signals, crash
<1>1. Booleans'
  BY Zenon DEF Booleans
<1>2. Values' /\ Leased' /\ Commanded'
  BY DEF Values, Leased, Commanded, Children, Before, WithShell, Acting,
      Launching, Selected
<1>3. Children' /\ Suspend'
  BY DEF Values, Leased, Commanded, Children, Suspend, Before, WithShell,
      Acting, Launching, Selected
<1>4. Signalled' /\ Recorded'
  BY DEF Booleans, Values, Signalled, Recorded, Leased, Commanded, Children,
      Before, WithShell, Acting, Launching, Selected
<1> QED BY <1>1, <1>2, <1>3, <1>4 DEF IInv

\* An error needs nothing but an end.
LEMMA FinishIInv == IInv /\ Finish => IInv'
<1> SUFFICES ASSUME IInv, Finish PROVE IInv'
  OBVIOUS
<1> USE Commands, GuardianAssumption DEF IInv, Finish, ExitWith,
      arguments, owned, signals, crash
<1>1. Booleans'
  BY Zenon DEF Booleans
<1>2. Values' /\ Leased' /\ Commanded'
  BY DEF Values, Leased, Commanded, Children, Before, WithShell, Acting,
      Launching, Selected
<1>3. Children' /\ Suspend'
  BY DEF Values, Leased, Commanded, Children, Suspend, Before, WithShell,
      Acting, Launching, Selected
<1>4. Signalled' /\ Recorded'
  BY DEF Booleans, Values, Signalled, Recorded, Leased, Commanded, Children,
      Before, WithShell, Acting, Launching, Selected
<1> QED BY <1>1, <1>2, <1>3, <1>4 DEF IInv

\* The selected application's suspend policy is in force before it is spawned.
LEMMA HandOffIInv == IInv /\ HandOff => IInv'
<1> SUFFICES ASSUME IInv, HandOff PROVE IInv'
  OBVIOUS
<1> USE Commands, GuardianAssumption DEF IInv, HandOff,
      arguments, signals, crash, children
<1>1. Booleans'
  <2>1. \/ UNCHANGED inhibited \/ inhibited' \in BOOLEAN
        \/ inhibited' = (Selected \in PreventsSuspend)
    BY Zenon
  <2>2. CASE inhibited' = (Selected \in PreventsSuspend)
    <3>1. \/ (Selected \in PreventsSuspend) = TRUE
          \/ (Selected \in PreventsSuspend) = FALSE
      BY SMT
    <3>2. inhibited' = TRUE \/ inhibited' = FALSE
      BY ONLY <3>1, <2>2, Zenon
    <3>3. inhibited' \in BOOLEAN
      BY ONLY <3>2, Zenon
    <3> QED BY Zenon, <3>3 DEF Booleans
  <2>3. CASE UNCHANGED inhibited \/ inhibited' \in BOOLEAN
    BY Zenon, <2>3 DEF Booleans
  <2> QED BY <2>1, <2>2, <2>3
<1>2. Values' /\ Leased' /\ Commanded'
  BY DEF Values, Leased, Commanded, Children, Before, WithShell, Acting,
      Launching, Selected
<1>3. Children' /\ Suspend'
  BY DEF Values, Leased, Commanded, Children, Suspend, Before, WithShell,
      Acting, Launching, Selected
<1>4. Signalled' /\ Recorded'
  BY DEF Booleans, Values, Signalled, Recorded, Leased, Commanded, Children,
      Before, WithShell, Acting, Launching, Selected
<1> QED BY <1>1, <1>2, <1>3, <1>4 DEF IInv

\* The application is the one that was selected.
LEMMA SpawnApplicationIInv == IInv /\ SpawnApplication => IInv'
<1> SUFFICES ASSUME IInv, SpawnApplication PROVE IInv'
  OBVIOUS
<1> USE Commands, GuardianAssumption DEF IInv, SpawnApplication,
      arguments, owned, signals, crash
<1>1. Booleans'
  BY Zenon DEF Booleans
<1>2. Values' /\ Leased' /\ Commanded'
  BY DEF Values, Leased, Commanded, Children, Before, WithShell, Acting,
      Launching, Selected
<1>3. Children' /\ Suspend'
  BY DEF Values, Leased, Commanded, Children, Suspend, Before, WithShell,
      Acting, Launching, Selected
<1>4. Signalled' /\ Recorded'
  BY DEF Booleans, Values, Signalled, Recorded, Leased, Commanded, Children,
      Before, WithShell, Acting, Launching, Selected
<1> QED BY <1>1, <1>2, <1>3, <1>4 DEF IInv

\* So it is when a signal is pending.
LEMMA ApplicationSignalledIInv == IInv /\ ApplicationSignalled => IInv'
<1> SUFFICES ASSUME IInv, ApplicationSignalled PROVE IInv'
  OBVIOUS
<1> USE Commands, GuardianAssumption DEF IInv, ApplicationSignalled,
      Interrupted,
      arguments, owned, signals, crash
<1>1. Booleans'
  BY Zenon DEF Booleans
<1>2. Values' /\ Leased' /\ Commanded'
  BY DEF Values, Leased, Commanded, Children, Before, WithShell, Acting,
      Launching, Selected
<1>3. Children' /\ Suspend'
  BY DEF Values, Leased, Commanded, Children, Suspend, Before, WithShell,
      Acting, Launching, Selected
<1>4. Signalled' /\ Recorded'
  BY DEF Booleans, Values, Signalled, Recorded, Leased, Commanded, Children,
      Before, WithShell, Acting, Launching, Selected
<1> QED BY <1>1, <1>2, <1>3, <1>4 DEF IInv

\* An ended application leaves the lease as it was.
LEMMA ApplicationEndedIInv == IInv /\ ApplicationEnded => IInv'
<1> SUFFICES ASSUME IInv, ApplicationEnded PROVE IInv'
  OBVIOUS
<1> USE Commands, GuardianAssumption DEF IInv, ApplicationEnded,
      arguments, owned, signals, crash, children
<1>1. Booleans'
  BY Zenon DEF Booleans
<1>2. Values' /\ Leased' /\ Commanded'
  BY DEF Values, Leased, Commanded, Children, Before, WithShell, Acting,
      Launching, Selected
<1>3. Children' /\ Suspend'
  BY DEF Values, Leased, Commanded, Children, Suspend, Before, WithShell,
      Acting, Launching, Selected
<1>4. Signalled' /\ Recorded'
  BY DEF Booleans, Values, Signalled, Recorded, Leased, Commanded, Children,
      Before, WithShell, Acting, Launching, Selected
<1> QED BY <1>1, <1>2, <1>3, <1>4 DEF IInv

\* The next shell starts with suspend inhibited again, whatever ran before.
LEMMA AfterApplicationIInv == IInv /\ AfterApplication => IInv'
<1> SUFFICES ASSUME IInv, AfterApplication PROVE IInv'
  OBVIOUS
<1> USE Commands, GuardianAssumption DEF IInv, AfterApplication, Interrupted,
      arguments, signals, crash, children
<1>1. Booleans'
  BY Zenon DEF Booleans
<1>2. Values' /\ Leased' /\ Commanded'
  BY DEF Values, Leased, Commanded, Children, Before, WithShell, Acting,
      Launching, Selected
<1>3. Children' /\ Suspend'
  BY DEF Values, Leased, Commanded, Children, Suspend, Before, WithShell,
      Acting, Launching, Selected
<1>4. Signalled' /\ Recorded'
  BY DEF Booleans, Values, Signalled, Recorded, Leased, Commanded, Children,
      Before, WithShell, Acting, Launching, Selected
<1> QED BY <1>1, <1>2, <1>3, <1>4 DEF IInv

\* An error return leaves no child.
LEMMA ExitIInv == IInv /\ Exit => IInv'
<1> SUFFICES ASSUME IInv, Exit PROVE IInv'
  OBVIOUS
<1> USE Commands, GuardianAssumption DEF IInv, Exit, ExitWith,
      arguments, owned, signals, crash
<1>1. Booleans'
  BY Zenon DEF Booleans
<1>2. Values' /\ Leased' /\ Commanded'
  BY DEF Values, Leased, Commanded, Children, Before, WithShell, Acting,
      Launching, Selected
<1>3. Children' /\ Suspend'
  BY DEF Values, Leased, Commanded, Children, Suspend, Before, WithShell,
      Acting, Launching, Selected
<1>4. Signalled' /\ Recorded'
  BY DEF Booleans, Values, Signalled, Recorded, Leased, Commanded, Children,
      Before, WithShell, Acting, Launching, Selected
<1> QED BY <1>1, <1>2, <1>3, <1>4 DEF IInv

\* The record is cleared for a system action.
LEMMA MarkActionIInv == IInv /\ MarkAction => IInv'
<1> SUFFICES ASSUME IInv, MarkAction PROVE IInv'
  OBVIOUS
<1> USE Commands, GuardianAssumption DEF IInv, MarkAction, ExitWith, MarkStable,
      arguments, owned, signals, children
<1>1. Booleans'
  BY Zenon DEF Booleans
<1>2. Values' /\ Leased' /\ Commanded'
  BY DEF Values, Leased, Commanded, Children, Before, WithShell, Acting,
      Launching, Selected
<1>3. Children' /\ Suspend'
  BY DEF Values, Leased, Commanded, Children, Suspend, Before, WithShell,
      Acting, Launching, Selected
<1>4. Signalled' /\ Recorded'
  BY DEF Booleans, Values, Signalled, Recorded, Leased, Commanded, Children,
      Before, WithShell, Acting, Launching, Selected
<1> QED BY <1>1, <1>2, <1>3, <1>4 DEF IInv

\* A signal that arrived by now turns the action into a restoration.
LEMMA FinishActionIInv == IInv /\ FinishAction => IInv'
<1> SUFFICES ASSUME IInv, FinishAction PROVE IInv'
  OBVIOUS
<1> USE Commands, GuardianAssumption DEF IInv, FinishAction, ExitWith,
      arguments, owned, signals, crash, children
<1>1. Booleans'
  BY Zenon DEF Booleans
<1>2. Values' /\ Leased' /\ Commanded'
  BY DEF Values, Leased, Commanded, Children, Before, WithShell, Acting,
      Launching, Selected
<1>3. Children' /\ Suspend'
  BY DEF Values, Leased, Commanded, Children, Suspend, Before, WithShell,
      Acting, Launching, Selected
<1>4. Signalled' /\ Recorded'
  BY DEF Booleans, Values, Signalled, Recorded, Leased, Commanded, Children,
      Before, WithShell, Acting, Launching, Selected
<1> QED BY <1>1, <1>2, <1>3, <1>4 DEF IInv

\* A failed exec restores.
LEMMA ExecIInv == IInv /\ Exec => IInv'
<1> SUFFICES ASSUME IInv, Exec PROVE IInv'
  OBVIOUS
<1> USE Commands, GuardianAssumption DEF IInv, Exec,
      arguments, owned, signals, crash, children
<1>1. Booleans'
  BY Zenon DEF Booleans
<1>2. Values' /\ Leased' /\ Commanded'
  BY DEF Values, Leased, Commanded, Children, Before, WithShell, Acting,
      Launching, Selected
<1>3. Children' /\ Suspend'
  BY DEF Values, Leased, Commanded, Children, Suspend, Before, WithShell,
      Acting, Launching, Selected
<1>4. Signalled' /\ Recorded'
  BY DEF Booleans, Values, Signalled, Recorded, Leased, Commanded, Children,
      Before, WithShell, Acting, Launching, Selected
<1> QED BY <1>1, <1>2, <1>3, <1>4 DEF IInv

\* The record is cleared here only when the stable time has been reached.
LEMMA SuperviseMarksStableIInv == IInv /\ SuperviseMarksStable => IInv'
<1> SUFFICES ASSUME IInv, SuperviseMarksStable PROVE IInv'
  OBVIOUS
<1> USE Commands, GuardianAssumption DEF IInv, SuperviseMarksStable,
      RestoreTo, MarkStable, WithoutShell,
      arguments, process, owned, signals, children
<1>1. Booleans'
  BY Zenon DEF Booleans
<1>2. Values'
  <2>1. pc' \in {pc, "Restore"} /\ after' \in {after, "Finish"}
    OBVIOUS
  <2>2. shell' \in {shell, "none"} /\ record' \in {record, "cleared"}
    OBVIOUS
  <2> QED BY <2>1, <2>2 DEF Values
<1>3. Leased'
  BY DEF Values, Leased, Commanded, Children, Before, WithShell, Acting,
      Launching, Selected
<1>4. Commanded'
  BY DEF Values, Commanded, Leased, Acting, Launching, Selected
<1>5. Children'
  BY DEF Values, Children, Commanded, Leased, Suspend, WithShell, Launching,
      Selected
<1>6. Suspend'
  BY DEF Values, Suspend, Commanded, Leased, Children, Launching, Selected
<1>7. Signalled'
  <2>1. (pc \in Before \cup {"Exec", "Rebooting"} => ~signalled)'
    BY DEF Values, Booleans, Signalled, Before, Ended
  <2>2. (pc \in Before \cup {"Exec", "Rebooting"} => ~deferring)'
    BY DEF Values, Booleans, Signalled, Before, Ended
  <2>3. (signalled /\ ~pending =>
           \/ pc \in {"Exit", "Exited", "Killed"}
           \/ pc = "Restore" /\ after = "Exit")'
    <3>1. ~(signalled /\ ~pending)
      BY DEF Signalled
    <3>2. UNCHANGED signals
      BY Zenon
    <3> QED BY Zenon, <3>1, <3>2
  <2>4. (result # "none" => pc = "Exited")' /\ (result = "ok" => ~signalled)'
    BY DEF Values, Booleans, Signalled, Before, Ended
  <2> QED BY <2>1, <2>2, <2>3, <2>4 DEF Signalled
<1>8. Recorded'
  BY DEF Values, Booleans, Recorded, Leased, Commanded, Children, Signalled,
      Acting, Launching, WithShell
<1> QED BY <1>1, <1>2, <1>3, <1>4, <1>5, <1>6, <1>7, <1>8 DEF IInv

\* A failing poll terminates the shell and restores.
LEMMA SupervisePollFailsIInv == IInv /\ SupervisePollFails => IInv'
<1> SUFFICES ASSUME IInv, SupervisePollFails PROVE IInv'
  OBVIOUS
<1> USE Commands, GuardianAssumption DEF IInv, SupervisePollFails, RestoreTo,
      WithoutShell,
      arguments, owned, signals, crash
<1>1. Booleans'
  BY Zenon DEF Booleans
<1>2. Values' /\ Leased' /\ Commanded'
  BY DEF Values, Leased, Commanded, Children, Before, WithShell, Acting,
      Launching, Selected
<1>3. Children' /\ Suspend'
  BY DEF Values, Leased, Commanded, Children, Suspend, Before, WithShell,
      Acting, Launching, Selected
<1>4. Signalled' /\ Recorded'
  BY DEF Booleans, Values, Signalled, Recorded, Leased, Commanded, Children,
      Before, WithShell, Acting, Launching, Selected
<1> QED BY <1>1, <1>2, <1>3, <1>4 DEF IInv

\* The stable time may be reached under an application too.
LEMMA ApplicationMarksStableIInv == IInv /\ ApplicationMarksStable => IInv'
<1> SUFFICES ASSUME IInv, ApplicationMarksStable PROVE IInv'
  OBVIOUS
<1> USE Commands, GuardianAssumption DEF IInv, ApplicationMarksStable,
      MarkStable, Interrupted,
      arguments, owned, signals
<1>1. Booleans'
  BY Zenon DEF Booleans
<1>2. Values' /\ Leased' /\ Commanded'
  <2>1. pc' \in {pc, "Restore", "Finish"} /\ after' \in {after, "Finish"}
    OBVIOUS
  <2>2. app' \in {app, NoApp} /\ record' \in {record, "cleared"}
    OBVIOUS
  <2>3. Values'
    BY <2>1, <2>2 DEF Values
  <2>4. Commanded'
    BY <2>1 DEF Commanded, Acting, Launching, Selected
  <2>5. Leased'
    BY DEF Values, Leased, Before, WithShell, Acting, Launching, Selected
  <2> QED BY <2>3, <2>4, <2>5
<1>3. Children' /\ Suspend'
  BY DEF Values, Leased, Commanded, Children, Suspend, Before, WithShell,
      Acting, Launching, Selected
<1>4. Signalled' /\ Recorded'
  BY DEF Booleans, Values, Signalled, Recorded, Leased, Commanded, Children,
      Before, WithShell, Acting, Launching, Selected
<1> QED BY <1>1, <1>2, <1>3, <1>4 DEF IInv

\* A lease that is still owned is given back.
LEMMA ApplicationPollFailsIInv == IInv /\ ApplicationPollFails => IInv'
<1> SUFFICES ASSUME IInv, ApplicationPollFails PROVE IInv'
  OBVIOUS
<1> USE Commands, GuardianAssumption DEF IInv, ApplicationPollFails,
      Interrupted,
      arguments, owned, signals, crash
<1>1. Booleans'
  BY Zenon DEF Booleans
<1>2. Values' /\ Leased' /\ Commanded'
  BY DEF Values, Leased, Commanded, Children, Before, WithShell, Acting,
      Launching, Selected
<1>3. Children' /\ Suspend'
  BY DEF Values, Leased, Commanded, Children, Suspend, Before, WithShell,
      Acting, Launching, Selected
<1>4. Signalled' /\ Recorded'
  BY DEF Booleans, Values, Signalled, Recorded, Leased, Commanded, Children,
      Before, WithShell, Acting, Launching, Selected
<1> QED BY <1>1, <1>2, <1>3, <1>4 DEF IInv

\* A shell that becomes ready changes nothing else.
LEMMA ShellBecomesReadyIInv == IInv /\ ShellBecomesReady => IInv'
<1> SUFFICES ASSUME IInv, ShellBecomesReady PROVE IInv'
  OBVIOUS
<1> USE Commands, GuardianAssumption DEF IInv, ShellBecomesReady, Child!BecomesReady,
      arguments, process, owned, signals, crash
<1>1. Booleans'
  BY Zenon DEF Booleans
<1>2. Values' /\ Leased' /\ Commanded'
  BY DEF Values, Leased, Commanded, Children, Before, WithShell, Acting,
      Launching, Selected
<1>3. Children' /\ Suspend'
  BY DEF Values, Leased, Commanded, Children, Suspend, Before, WithShell,
      Acting, Launching, Selected
<1>4. Signalled' /\ Recorded'
  BY DEF Booleans, Values, Signalled, Recorded, Leased, Commanded, Children,
      Before, WithShell, Acting, Launching, Selected
<1> QED BY <1>1, <1>2, <1>3, <1>4 DEF IInv

\* A shell's exit leaves a command only to a guardian that has not read one.
LEMMA ShellExitsIInv == IInv /\ ShellExits => IInv'
<1> SUFFICES ASSUME IInv, ShellExits PROVE IInv'
  OBVIOUS
<1> USE Commands, GuardianAssumption DEF IInv, ShellExits, Child!Exits,
      arguments, process, owned, signals, crash
<1>1. Booleans'
  BY Zenon DEF Booleans
<1>2. Values' /\ Leased' /\ Commanded'
  BY DEF Values, Leased, Commanded, Children, Before, WithShell, Acting,
      Launching, Selected
<1>3. Children' /\ Suspend'
  BY DEF Values, Leased, Commanded, Children, Suspend, Before, WithShell,
      Acting, Launching, Selected
<1>4. Signalled' /\ Recorded'
  BY DEF Booleans, Values, Signalled, Recorded, Leased, Commanded, Children,
      Before, WithShell, Acting, Launching, Selected
<1> QED BY <1>1, <1>2, <1>3, <1>4 DEF IInv

\* An application that ends by itself changes nothing else.
LEMMA ApplicationExitsIInv == IInv /\ ApplicationExits => IInv'
<1> SUFFICES ASSUME IInv, ApplicationExits PROVE IInv'
  OBVIOUS
<1> USE Commands, GuardianAssumption DEF IInv, ApplicationExits,
      arguments, process, owned, signals, crash
<1>1. Booleans'
  BY Zenon DEF Booleans
<1>2. Values' /\ Leased' /\ Commanded'
  BY DEF Values, Leased, Commanded, Children, Before, WithShell, Acting,
      Launching, Selected
<1>3. Children' /\ Suspend'
  BY DEF Values, Leased, Commanded, Children, Suspend, Before, WithShell,
      Acting, Launching, Selected
<1>4. Signalled' /\ Recorded'
  BY DEF Booleans, Values, Signalled, Recorded, Leased, Commanded, Children,
      Before, WithShell, Acting, Launching, Selected
<1> QED BY <1>1, <1>2, <1>3, <1>4 DEF IInv

\* A signal that arrives is pending.
LEMMA SignalArrivesIInv == IInv /\ SignalArrives => IInv'
<1> SUFFICES ASSUME IInv, SignalArrives PROVE IInv'
  OBVIOUS
<1> USE Commands, GuardianAssumption DEF IInv, SignalArrives,
      arguments, process, owned, crash, children
<1>1. Booleans'
  BY Zenon DEF Booleans
<1>2. Values'
  BY DEF Values, Commanded, Before, WithShell, Acting, Launching, Selected
<1>3. Leased'
  BY DEF Values, Leased, Commanded, Children, Before, WithShell, Acting,
      Launching, Selected
<1>4. Commanded'
  BY DEF Values, Commanded, Leased, Acting, Launching, Selected
<1>5. Children'
  BY DEF Values, Children, Commanded, Leased, Suspend, WithShell, Launching,
      Selected
<1>6. Suspend'
  BY DEF Values, Suspend, Commanded, Leased, Children, Launching, Selected
<1>7. Signalled'
  <2>1. (pc \in Before \cup {"Exec", "Rebooting"} => ~signalled)'
    BY DEF Values, Booleans, Signalled, Before, Ended
  <2>2. (pc \in Before \cup {"Exec", "Rebooting"} => ~deferring)'
    BY DEF Values, Booleans, Signalled, Before, Ended
  <2>3. (signalled /\ ~pending =>
           \/ pc \in {"Exit", "Exited", "Killed"}
           \/ pc = "Restore" /\ after = "Exit")'
    BY DEF Values, Booleans, Signalled, Before, Ended
  <2>4. (result # "none" => pc = "Exited")' /\ (result = "ok" => ~signalled)'
    BY DEF Values, Booleans, Signalled, Before, Ended
  <2> QED BY <2>1, <2>2, <2>3, <2>4 DEF Signalled
<1>8. Recorded'
  BY DEF Values, Booleans, Recorded, Leased, Commanded, Children, Signalled,
      Acting, Launching, WithShell, Selected
<1> QED BY <1>1, <1>2, <1>3, <1>4, <1>5, <1>6, <1>7, <1>8 DEF IInv

\* A killed guardian keeps what it owned, and stops.
LEMMA GuardianKilledIInv == IInv /\ GuardianKilled => IInv'
<1> SUFFICES ASSUME IInv, GuardianKilled PROVE IInv'
  OBVIOUS
<1> USE Commands, GuardianAssumption DEF IInv, GuardianKilled,
      arguments, owned, signals, crash, children
<1>1. Booleans'
  BY Zenon DEF Booleans
<1>2. Values'
  BY DEF Values, Commanded, Before, WithShell, Acting, Launching, Selected
<1>3. Leased'
  BY DEF Values, Leased, Commanded, Children, Before, WithShell, Acting,
      Launching, Selected
<1>4. Commanded'
  BY DEF Values, Commanded, Leased, Acting, Launching, Selected
<1>5. Children'
  BY DEF Values, Children, Commanded, Leased, Suspend, WithShell, Launching,
      Selected
<1>6. Suspend'
  BY DEF Values, Suspend, Commanded, Leased, Children, Launching, Selected
<1>7. Signalled'
  <2>1. (pc \in Before \cup {"Exec", "Rebooting"} => ~signalled)'
    BY DEF Values, Booleans, Signalled, Before, Ended
  <2>2. (pc \in Before \cup {"Exec", "Rebooting"} => ~deferring)'
    BY DEF Values, Booleans, Signalled, Before, Ended
  <2>3. (signalled /\ ~pending =>
           \/ pc \in {"Exit", "Exited", "Killed"}
           \/ pc = "Restore" /\ after = "Exit")'
    BY DEF Values, Booleans, Signalled, Before, Ended
  <2>4. (result # "none" => pc = "Exited")' /\ (result = "ok" => ~signalled)'
    BY DEF Values, Booleans, Signalled, Before, Ended
  <2> QED BY <2>1, <2>2, <2>3, <2>4 DEF Signalled
<1>8. Recorded'
  BY DEF Values, Booleans, Recorded, Leased, Commanded, Children, Signalled,
      Acting, Launching, WithShell, Selected
<1> QED BY <1>1, <1>2, <1>3, <1>4, <1>5, <1>6, <1>7, <1>8 DEF IInv

(***************************************************************************)
(* The invariant is inductive.                                             *)
(***************************************************************************)
\* It holds at the start of every life, for every startup mode and any set of
\* stock-mediated applications.
LEMMA InitIInv == Init => IInv
<1> SUFFICES ASSUME Init PROVE IInv
  OBVIOUS
<1> USE Commands, GuardianAssumption DEF Init
<1>1. Booleans
  BY Zenon DEF Booleans
<1>2. Values /\ Leased /\ Commanded
  BY DEF Values, Leased, Commanded, Before, WithShell, Acting, Launching
<1>3. Children /\ Suspend
  BY DEF Children, Suspend
<1>4. Signalled /\ Recorded
  BY DEF Signalled, Recorded
<1> QED BY <1>1, <1>2, <1>3, <1>4 DEF IInv

\* It depends on the variables alone.
LEMMA StutterIInv == IInv /\ UNCHANGED vars => IInv'
<1> SUFFICES ASSUME IInv, UNCHANGED vars PROVE IInv'
  OBVIOUS
<1> USE DEF vars, arguments, process, owned, signals, crash, children
<1>1. Booleans'
  BY Zenon DEF IInv, Booleans
<1>2. Values' /\ Leased'
  BY DEF IInv, Values, Leased, Selected
<1>3. Commanded' /\ Children' /\ Suspend'
  BY Zenon DEF IInv, Commanded, Children, Suspend, Selected
<1>4. Signalled' /\ Recorded'
  BY Zenon DEF IInv, Signalled, Recorded, Selected
<1> QED BY <1>1, <1>2, <1>3, <1>4 DEF IInv

\* Every step preserves it.
LEMMA NextIInv == IInv /\ [Next]_vars => IInv'
<1> SUFFICES ASSUME IInv, [Next]_vars PROVE IInv'
  OBVIOUS
<1>1. CASE Guardian
  BY <1>1,
     BeginIInv, PreflightIInv, InstallSignalGuardIInv, AcquireIInv,
     ChooseIInv, AwaitReadinessIInv, AllowSuspendIInv,
     SupervisedShellEndsIInv, SuperviseSignalledIInv, DispatchIInv, RefuseLaunchIInv,
     RestoreIInv, MarkReturnedIInv, FinishReturnedIInv, FinishIInv,
     HandOffIInv, SpawnApplicationIInv, ApplicationSignalledIInv,
     ApplicationEndedIInv, AfterApplicationIInv, ExitIInv, MarkActionIInv,
     FinishActionIInv, ExecIInv
  DEF Guardian
<1>2. CASE Supervision
  BY <1>2,
     SuperviseMarksStableIInv, SupervisePollFailsIInv,
     ApplicationMarksStableIInv, ApplicationPollFailsIInv
  DEF Supervision
<1>3. CASE Environment
  BY <1>3,
     ShellBecomesReadyIInv, ShellExitsIInv, ApplicationExitsIInv,
     SignalArrivesIInv, GuardianKilledIInv
  DEF Environment
<1>4. CASE UNCHANGED vars
  BY <1>4, StutterIInv
<1> QED BY <1>1, <1>2, <1>3, <1>4 DEF Next

\* The invariant holds in every state of every life of the guardian.
THEOREM Inductive == Spec => []IInv
<1> QED BY InitIInv, NextIInv, PTL DEF Spec

(***************************************************************************)
(* What follows from it.                                                   *)
(***************************************************************************)
\* Every variable keeps its type (the guardian's locals, its children, the record).
THEOREM TypeCorrect == Spec => []TypeOK
<1>1. IInv => TypeOK
  BY DEF IInv, TypeOK, Booleans, Values, Before, WithShell, Acting, Launching, Ended
<1> QED BY <1>1, Inductive, PTL

\* For every application list and handoff policy: the shell runs only under the
\* lease and never beside an application, and an application runs under the lease
\* exactly when the supervisor hands off to it (run_on_target).
THEOREM ScreenHasOneOwner == Spec => []OneForeground
<1>1. IInv => OneForeground
  BY DEF IInv, OneForeground, Children
<1> QED BY <1>1, Inductive, PTL

\* For every suspend policy: automatic suspend is off while a shell starts, on
\* while it runs, and follows the application's manifest under the lease
\* (set_suspend_inhibited before each spawn).
THEOREM SuspendPolicy == Spec => []SuspendFollowsForeground
<1>1. IInv => SuspendFollowsForeground
  BY DEF IInv, SuspendFollowsForeground, Suspend, Children, Leased
<1> QED BY <1>1, Inductive, PTL

\* A deferred signal leads to neither success nor a reboot, whenever it arrives
\* (DeferredSignalGuard::finish and the checks between the steps).
THEOREM SignalIsNeverLost == Spec => []SignalVetoes
<1>1. IInv => SignalVetoes
  BY DEF IInv, SignalVetoes, Signalled
<1> QED BY <1>1, Inductive, PTL

\* A guardian that reports success has given the lease back in a restoration
\* that reported no failure, and its start no longer counts.
THEOREM SuccessIsClean == Spec => []SuccessMeansStock
<1>1. IInv => SuccessMeansStock
  BY DEF IInv, SuccessMeansStock, Recorded
<1> QED BY <1>1, Inductive, PTL

\* A start stops counting against the crash budget only for a reason: the stable
\* time, a completed return to stock, or a system action (mark_stable).
THEOREM RecordIsEarned == Spec => []ClearedWhenProven
<1>1. IInv => ClearedWhenProven
  BY DEF IInv, ClearedWhenProven, Recorded
<1> QED BY <1>1, Inductive, PTL

\* An error leaves the lease owned, and stock stopped, only after a reboot or a
\* power-off was asked for (mark_stable_if_due and finish before the exec) or after a
\* launch whose index is not in the catalog (applications.get): every other error
\* comes after an attempt to restore stock, whatever any shell and any call do.
THEOREM OtherFailuresRestore == Spec => []KeptOnTwoWaysOut
<1>1. IInv => KeptOnTwoWaysOut
  BY DEF IInv, KeptOnTwoWaysOut, Recorded
<1> QED BY <1>1, Inductive, PTL

\* What the guardian reports at its end, success or an error, is true of stock.
THEOREM EndAccounts == Spec => []EndAccountsForStock
<1>1. SuccessMeansStock /\ KeptOnTwoWaysOut => EndAccountsForStock
  BY DEF EndAccountsForStock
<1> QED BY <1>1, SuccessIsClean, OtherFailuresRestore, PTL

(***************************************************************************)
(* The shell that the guardian runs: a process with variables of its own,  *)
(* of which nothing is assumed but its specification, ShellSpec.           *)
(***************************************************************************)

\* The shell may start over a region that a former owner left behind.
LEMMA ShellInitIInv == ShellInit => ShellIInv
<1> SUFFICES ASSUME ShellInit PROVE ShellIInv
  OBVIOUS
<1> USE DEF ShellInit
<1>1. LoopFlags /\ ViewFlags /\ SensorFlags /\ DeviceFlags
  BY Zenon DEF LoopFlags, ViewFlags, SensorFlags, DeviceFlags
<1>2. Notes /\ ShellValues
  BY DEF Notes, ShellValues, Light, NoLight, NotShown, Orientation
<1>3. ErrorsEndTheLoop /\ ToldInOrder /\ Framed /\ PanelFollows
  BY DEF ErrorsEndTheLoop, ToldInOrder, Framed, PanelFollows, NotShown,
      Taking, Loop
<1>4. KernelFollows /\ BeforeReady /\ GivenBack
  BY DEF KernelFollows, BeforeReady, GivenBack, Taking, Gone
<1> QED BY <1>1, <1>2, <1>3, <1>4 DEF ShellIInv, ShellTypeOK

\* A step that changes no variable of the shell.
LEMMA ShellStutterIInv == ShellIInv /\ UNCHANGED shell_vars => ShellIInv'
<1> SUFFICES ASSUME ShellIInv, UNCHANGED shell_vars PROVE ShellIInv'
  OBVIOUS
<1> USE DEF ShellIInv, ShellTypeOK, shell_vars, loop, guardian, ui, turning,
      sensors, lightbox, device, frame
<1>1. LoopFlags' /\ ViewFlags' /\ SensorFlags' /\ DeviceFlags'
  BY DEF LoopFlags, ViewFlags, SensorFlags, DeviceFlags
<1>2. Notes' /\ ShellValues' /\ ErrorsEndTheLoop' /\ ToldInOrder' /\ KernelFollows'
  BY DEF Notes, ShellValues, ErrorsEndTheLoop, ToldInOrder, KernelFollows
<1>3. Framed' /\ BeforeReady' /\ PanelFollows' /\ GivenBack'
  BY DEF Framed, BeforeReady, PanelFollows, GivenBack, Desired
<1> QED BY <1>1, <1>2, <1>3

\* Taking the device, or failing to, tells nobody anything and touches no lightbox.
LEMMA ShellTakeDeviceIInv == ShellIInv /\ TakeDevice => ShellIInv'
<1> SUFFICES ASSUME ShellIInv, TakeDevice PROVE ShellIInv'
  OBVIOUS
<1> USE DEF ShellIInv, ShellTypeOK, TakeDevice, OpenTarget, Grab, Setup, guardian,
      ui, turning, sensors, lightbox, frame
<1>1. LoopFlags' /\ ViewFlags'
  <2>1. LoopFlags'
    BY Zenon DEF LoopFlags
  <2>2. ViewFlags'
    BY Zenon DEF ViewFlags
  <2> QED BY <2>1, <2>2
<1>2. SensorFlags' /\ DeviceFlags'
  <2>1. SensorFlags'
    BY Zenon DEF SensorFlags
  <2>2. DeviceFlags'
    BY Zenon DEF DeviceFlags
  <2> QED BY <2>1, <2>2
<1>3. Notes' /\ ShellValues'
  <2>1. Notes'
    BY DEF Notes
  <2>2. ShellValues'
    BY DEF ShellValues, Light, NoLight, Orientation, Taking, Loop, Teardown,
        Gone
  <2> QED BY <2>1, <2>2
<1>4. ErrorsEndTheLoop' /\ ToldInOrder'
  BY DEF ErrorsEndTheLoop, ToldInOrder, Taking, Loop, Teardown, Gone
<1>5. KernelFollows' /\ GivenBack'
  BY DEF DeviceFlags, ShellValues, KernelFollows, GivenBack, ErrorsEndTheLoop,
      ToldInOrder, BeforeReady, PanelFollows, Light, NoLight, Taking,
      Loop, Gone
<1>6. BeforeReady' /\ Framed'
  BY DEF ViewFlags, ShellValues, BeforeReady, Framed, ToldInOrder, Orientation,
      NoLight, Taking
<1>7. PanelFollows'
  BY DEF PanelFollows, BeforeReady, ToldInOrder, Loop, Taking
<1> QED BY <1>1, <1>2, <1>3, <1>4, <1>5, <1>6, <1>7

\* The intent is published before anything is drawn.
LEMMA ShellUpdateTimersIInv == ShellIInv /\ UpdateTimers => ShellIInv'
<1> SUFFICES ASSUME ShellIInv, UpdateTimers PROVE ShellIInv'
  OBVIOUS
<1> USE DEF ShellIInv, ShellTypeOK, UpdateTimers, guardian, turning, sensors,
      lightbox, device, frame
<1>1. LoopFlags' /\ ViewFlags'
  <2>1. LoopFlags'
    BY Zenon DEF LoopFlags
  <2>2. ViewFlags'
    BY Zenon DEF ViewFlags
  <2> QED BY <2>1, <2>2
<1>2. SensorFlags' /\ DeviceFlags'
  <2>1. SensorFlags'
    BY Zenon DEF SensorFlags
  <2>2. DeviceFlags'
    BY Zenon DEF DeviceFlags
  <2> QED BY <2>1, <2>2
<1>3. Notes' /\ ShellValues'
  <2>1. Notes'
    BY DEF Notes
  <2>2. ShellValues'
    BY DEF ShellValues, Light, NoLight, Orientation, Taking, Loop, Teardown,
        Gone
  <2> QED BY <2>1, <2>2
<1>4. ErrorsEndTheLoop' /\ ToldInOrder'
  BY DEF ErrorsEndTheLoop, ToldInOrder, Taking, Loop, Teardown, Gone
<1>5. KernelFollows' /\ GivenBack'
  BY DEF DeviceFlags, ShellValues, KernelFollows, GivenBack, ErrorsEndTheLoop,
      ToldInOrder, BeforeReady, PanelFollows, Light, NoLight, Taking,
      Loop, Gone
<1>6. BeforeReady' /\ Framed'
  BY DEF ViewFlags, ShellValues, BeforeReady, Framed, ToldInOrder, Orientation,
      NoLight, Taking
<1>7. PanelFollows'
  BY DEF LoopFlags, ViewFlags, ShellValues, PanelFollows, Desired, BeforeReady,
      KernelFollows, ErrorsEndTheLoop, Light, NoLight, Loop, Taking
<1> QED BY <1>1, <1>2, <1>3, <1>4, <1>5, <1>6, <1>7

\* A request is left waiting exactly when the intent differs from what is presented.
LEMMA ShellPrepareIInv == ShellIInv /\ Prepare => ShellIInv'
<1> SUFFICES ASSUME ShellIInv, Prepare PROVE ShellIInv'
  OBVIOUS
<1> USE DEF ShellIInv, ShellTypeOK, Prepare, Desired, Submit, LoopFails, loop,
      guardian, ui, turning, sensors, lightbox, device, frame
<1>1. LoopFlags' /\ ViewFlags'
  <2>1. LoopFlags'
    BY Zenon DEF LoopFlags
  <2>2. ViewFlags'
    BY Zenon DEF ViewFlags
  <2> QED BY <2>1, <2>2
<1>2. SensorFlags' /\ DeviceFlags'
  <2>1. SensorFlags'
    BY Zenon DEF SensorFlags
  <2>2. DeviceFlags'
    BY Zenon DEF DeviceFlags
  <2> QED BY <2>1, <2>2
<1>3. Notes' /\ ShellValues'
  <2>1. Notes'
    BY DEF Notes
  <2>2. ShellValues'
    BY DEF ShellValues, Light, NoLight, Orientation, Taking, Loop, Teardown,
        Gone
  <2> QED BY <2>1, <2>2
<1>4. ErrorsEndTheLoop' /\ ToldInOrder'
  BY DEF ErrorsEndTheLoop, ToldInOrder, Taking, Loop, Teardown, Gone
<1>5. KernelFollows' /\ GivenBack'
  BY DEF DeviceFlags, ShellValues, KernelFollows, GivenBack, ErrorsEndTheLoop,
      ToldInOrder, BeforeReady, PanelFollows, Light, NoLight, Taking,
      Loop, Gone
<1>6. BeforeReady' /\ Framed'
  BY DEF ViewFlags, ShellValues, BeforeReady, Framed, ToldInOrder, Orientation,
      NoLight, Taking
<1>7. PanelFollows'
  BY DEF LoopFlags, ViewFlags, ShellValues, PanelFollows, Desired, BeforeReady,
      KernelFollows, ErrorsEndTheLoop, Light, NoLight, Loop, Taking
<1> QED BY <1>1, <1>2, <1>3, <1>4, <1>5, <1>6, <1>7

\* A frame with a request waiting is a full one: panel, kernel and controller meet.
LEMMA ShellDrawFrameIInv == ShellIInv /\ DrawFrame => ShellIInv'
<1> SUFFICES ASSUME ShellIInv, DrawFrame PROVE ShellIInv'
  OBVIOUS
<1> USE DEF ShellIInv, ShellTypeOK, DrawFrame, Transition, FrameOnPanel, AfterFrame,
      guardian, turning, sensors, device
<1>1. LoopFlags' /\ ViewFlags'
  <2>1. LoopFlags'
    BY Zenon DEF LoopFlags
  <2>2. ViewFlags'
    BY Zenon DEF ViewFlags
  <2> QED BY <2>1, <2>2
<1>2. SensorFlags' /\ DeviceFlags'
  <2>1. SensorFlags'
    BY Zenon DEF SensorFlags
  <2>2. DeviceFlags'
    BY Zenon DEF DeviceFlags
  <2> QED BY <2>1, <2>2
<1>3. Notes' /\ ShellValues'
  <2>1. Notes'
    BY DEF Notes
  <2>2. ShellValues'
    BY DEF ViewFlags, ShellValues, Light, NoLight, Orientation, Taking, Loop,
        Teardown, Gone
  <2> QED BY <2>1, <2>2
<1>4. ErrorsEndTheLoop' /\ ToldInOrder'
  BY DEF ErrorsEndTheLoop, ToldInOrder, Taking, Loop, Teardown, Gone
<1>5. KernelFollows' /\ GivenBack'
  BY DEF DeviceFlags, ShellValues, KernelFollows, GivenBack, ErrorsEndTheLoop,
      ToldInOrder, BeforeReady, PanelFollows, Light, NoLight, Taking,
      Loop, Gone
<1>6. BeforeReady' /\ Framed'
  BY DEF ViewFlags, ShellValues, BeforeReady, Framed, ToldInOrder, Orientation,
      NoLight, Taking
<1>7. PanelFollows'
  BY DEF LoopFlags, ViewFlags, ShellValues, PanelFollows, Desired, BeforeReady,
      KernelFollows, ErrorsEndTheLoop, Light, NoLight, Loop, Taking
<1> QED BY <1>1, <1>2, <1>3, <1>4, <1>5, <1>6, <1>7

\* Without pixels a waiting request is taken back and the loop fails.
LEMMA ShellDrawNothingIInv == ShellIInv /\ DrawNothing => ShellIInv'
<1> SUFFICES ASSUME ShellIInv, DrawNothing PROVE ShellIInv'
  OBVIOUS
<1> USE DEF ShellIInv, ShellTypeOK, DrawNothing, LoopFails, loop, ClearForHandoff,
      NothingToClear, Transition, AfterFrame, guardian, turning, sensors,
      lightbox, device, frame
<1>1. LoopFlags' /\ ViewFlags'
  <2>1. LoopFlags'
    BY Zenon DEF LoopFlags
  <2>2. ViewFlags'
    BY Zenon DEF ViewFlags
  <2> QED BY <2>1, <2>2
<1>2. SensorFlags' /\ DeviceFlags'
  <2>1. SensorFlags'
    BY Zenon DEF SensorFlags
  <2>2. DeviceFlags'
    BY Zenon DEF DeviceFlags
  <2> QED BY <2>1, <2>2
<1>3. Notes' /\ ShellValues'
  <2>1. Notes'
    BY DEF Notes
  <2>2. ShellValues'
    BY DEF ShellValues, Light, NoLight, Orientation, Taking, Loop, Teardown,
        Gone
  <2> QED BY <2>1, <2>2
<1>4. ErrorsEndTheLoop' /\ ToldInOrder'
  BY DEF ErrorsEndTheLoop, ToldInOrder, Taking, Loop, Teardown, Gone
<1>5. KernelFollows' /\ GivenBack'
  BY DEF DeviceFlags, ShellValues, KernelFollows, GivenBack, ErrorsEndTheLoop,
      ToldInOrder, BeforeReady, PanelFollows, Light, NoLight, Taking,
      Loop, Gone
<1>6. BeforeReady' /\ Framed'
  BY DEF ViewFlags, ShellValues, BeforeReady, Framed, ToldInOrder, Orientation,
      NoLight, Taking
<1>7. PanelFollows'
  BY DEF LoopFlags, ViewFlags, ShellValues, PanelFollows, Desired, BeforeReady,
      KernelFollows, ErrorsEndTheLoop, Light, NoLight, Loop, Taking
<1> QED BY <1>1, <1>2, <1>3, <1>4, <1>5, <1>6, <1>7

\* A frame that fails ends the loop with the lightbox cleared or refused.
LEMMA ShellDrawFailsIInv == ShellIInv /\ DrawFails => ShellIInv'
<1> SUFFICES ASSUME ShellIInv, DrawFails PROVE ShellIInv'
  OBVIOUS
<1> USE DEF ShellIInv, ShellTypeOK, DrawFails, LoopFails, loop, ClearForHandoff,
      NothingToClear, guardian, turning, sensors, device, frame
<1>1. LoopFlags' /\ ViewFlags'
  <2>1. LoopFlags'
    BY Zenon DEF LoopFlags
  <2>2. ViewFlags'
    BY Zenon DEF ViewFlags
  <2> QED BY <2>1, <2>2
<1>2. SensorFlags' /\ DeviceFlags'
  <2>1. SensorFlags'
    BY Zenon DEF SensorFlags
  <2>2. DeviceFlags'
    BY Zenon DEF DeviceFlags
  <2> QED BY <2>1, <2>2
<1>3. Notes' /\ ShellValues'
  <2>1. Notes'
    BY DEF Notes
  <2>2. ShellValues'
    BY DEF ShellValues, Light, NoLight, Orientation, Taking, Loop, Teardown,
        Gone
  <2> QED BY <2>1, <2>2
<1>4. ErrorsEndTheLoop' /\ ToldInOrder'
  BY DEF ErrorsEndTheLoop, ToldInOrder, Taking, Loop, Teardown, Gone
<1>5. KernelFollows' /\ GivenBack'
  BY DEF DeviceFlags, ShellValues, KernelFollows, GivenBack, ErrorsEndTheLoop,
      ToldInOrder, BeforeReady, PanelFollows, Light, NoLight, Taking,
      Loop, Gone
<1>6. BeforeReady' /\ Framed'
  BY DEF ViewFlags, ShellValues, BeforeReady, Framed, ToldInOrder, Orientation,
      NoLight, Taking
<1>7. PanelFollows'
  BY DEF LoopFlags, ViewFlags, ShellValues, PanelFollows, Desired, BeforeReady,
      KernelFollows, ErrorsEndTheLoop, Light, NoLight, Loop, Taking
<1> QED BY <1>1, <1>2, <1>3, <1>4, <1>5, <1>6, <1>7

\* Readiness is signalled over the first frame, and starts the loop.
LEMMA ShellSignalReadyIInv == ShellIInv /\ SignalReady => ShellIInv'
<1> SUFFICES ASSUME ShellIInv, SignalReady PROVE ShellIInv'
  OBVIOUS
<1> USE DEF ShellIInv, ShellTypeOK, SignalReady, LoopFails, loop, ui, turning,
      sensors, lightbox, device, frame
<1>1. LoopFlags' /\ ViewFlags'
  <2>1. LoopFlags'
    BY Zenon DEF LoopFlags
  <2>2. ViewFlags'
    BY Zenon DEF ViewFlags
  <2> QED BY <2>1, <2>2
<1>2. SensorFlags' /\ DeviceFlags'
  <2>1. SensorFlags'
    BY Zenon DEF SensorFlags
  <2>2. DeviceFlags'
    BY Zenon DEF DeviceFlags
  <2> QED BY <2>1, <2>2
<1>3. Notes' /\ ShellValues'
  <2>1. Notes'
    BY DEF Notes
  <2>2. ShellValues'
    BY DEF ShellValues, Light, NoLight, Orientation, Loop, Teardown
  <2> QED BY <2>1, <2>2
<1>4. ErrorsEndTheLoop' /\ ToldInOrder'
  BY DEF ErrorsEndTheLoop, ToldInOrder, Taking, Loop, Teardown, Gone
<1>5. KernelFollows' /\ GivenBack'
  BY DEF DeviceFlags, ShellValues, KernelFollows, GivenBack, ErrorsEndTheLoop,
      ToldInOrder, BeforeReady, PanelFollows, Light, NoLight, Taking,
      Loop, Gone
<1>6. BeforeReady' /\ Framed'
  BY DEF ViewFlags, ShellValues, BeforeReady, Framed, ToldInOrder, Orientation,
      NoLight, Taking
<1>7. PanelFollows'
  BY DEF LoopFlags, ViewFlags, ShellValues, PanelFollows, Desired, BeforeReady,
      KernelFollows, ErrorsEndTheLoop, Light, NoLight, Loop, Taking
<1> QED BY <1>1, <1>2, <1>3, <1>4, <1>5, <1>6, <1>7

\* A contact changes what the next frame shows, and may accept one command.
LEMMA ShellDispatchContactIInv == ShellIInv /\ DispatchContact => ShellIInv'
<1> SUFFICES ASSUME ShellIInv, DispatchContact PROVE ShellIInv'
  OBVIOUS
<1> USE DEF ShellIInv, ShellTypeOK, DispatchContact, Activate, SubmitCommand,
      ToggleRotationLock, sensors, lightbox, device, frame, loop
<1>1. LoopFlags' /\ ViewFlags'
  <2>1. LoopFlags'
    BY Zenon DEF LoopFlags
  <2>2. ViewFlags'
    BY Zenon DEF ViewFlags
  <2> QED BY <2>1, <2>2
<1>2. SensorFlags' /\ DeviceFlags'
  <2>1. SensorFlags'
    BY Zenon DEF SensorFlags
  <2>2. DeviceFlags'
    BY Zenon DEF DeviceFlags
  <2> QED BY <2>1, <2>2
<1>3. Notes' /\ ShellValues'
  <2>1. Notes'
    BY DEF Notes
  <2>2. ShellValues'
    BY DEF ShellValues, Light, NoLight, Orientation, Taking, Loop, Teardown,
        Gone
  <2> QED BY <2>1, <2>2
<1>4. ErrorsEndTheLoop' /\ ToldInOrder'
  BY DEF ErrorsEndTheLoop, ToldInOrder, Taking, Loop, Teardown, Gone
<1>5. KernelFollows' /\ GivenBack'
  BY DEF DeviceFlags, ShellValues, KernelFollows, GivenBack, ErrorsEndTheLoop,
      ToldInOrder, BeforeReady, PanelFollows, Light, NoLight, Taking,
      Loop, Gone
<1>6. BeforeReady' /\ Framed'
  BY DEF ViewFlags, ShellValues, BeforeReady, Framed, ToldInOrder, Orientation,
      NoLight, Taking
<1>7. PanelFollows'
  BY DEF LoopFlags, ViewFlags, ShellValues, PanelFollows, Desired, BeforeReady,
      KernelFollows, ErrorsEndTheLoop, Light, NoLight, Loop, Taking
<1> QED BY <1>1, <1>2, <1>3, <1>4, <1>5, <1>6, <1>7

\* The end of a read, and the decision to go on, touch nothing else.
LEMMA ShellTurnGoesOnIInv ==
  ShellIInv /\ (PumpReturns \/ PumpFails \/ CheckExit) => ShellIInv'
<1> SUFFICES ASSUME ShellIInv, (PumpReturns \/ PumpFails \/ CheckExit) PROVE ShellIInv'
  OBVIOUS
<1> USE DEF ShellIInv, ShellTypeOK, PumpReturns, PumpFails, CheckExit, guardian,
      ui, turning, sensors, lightbox, device, frame, LoopFails, loop
<1>1. LoopFlags' /\ ViewFlags'
  <2>1. LoopFlags'
    BY Zenon DEF LoopFlags
  <2>2. ViewFlags'
    BY Zenon DEF ViewFlags
  <2> QED BY <2>1, <2>2
<1>2. SensorFlags' /\ DeviceFlags'
  <2>1. SensorFlags'
    BY Zenon DEF SensorFlags
  <2>2. DeviceFlags'
    BY Zenon DEF DeviceFlags
  <2> QED BY <2>1, <2>2
<1>3. Notes' /\ ShellValues'
  <2>1. Notes'
    BY DEF Notes
  <2>2. ShellValues'
    BY DEF ShellValues, Light, NoLight, Orientation, Taking, Loop, Teardown,
        Gone
  <2> QED BY <2>1, <2>2
<1>4. ErrorsEndTheLoop' /\ ToldInOrder'
  BY DEF ErrorsEndTheLoop, ToldInOrder, Taking, Loop, Teardown, Gone
<1>5. KernelFollows' /\ GivenBack'
  BY DEF DeviceFlags, ShellValues, KernelFollows, GivenBack, ErrorsEndTheLoop,
      ToldInOrder, BeforeReady, PanelFollows, Light, NoLight, Taking,
      Loop, Gone
<1>6. BeforeReady' /\ Framed'
  BY DEF ViewFlags, ShellValues, BeforeReady, Framed, ToldInOrder, Orientation,
      NoLight, Taking
<1>7. PanelFollows'
  BY DEF LoopFlags, ViewFlags, ShellValues, PanelFollows, Desired, BeforeReady,
      KernelFollows, ErrorsEndTheLoop, Light, NoLight, Loop, Taking
<1> QED BY <1>1, <1>2, <1>3, <1>4, <1>5, <1>6, <1>7

\* The cover asks for a full frame.
LEMMA ShellReadCoverIInv == ShellIInv /\ ReadCover => ShellIInv'
<1> SUFFICES ASSUME ShellIInv, ReadCover PROVE ShellIInv'
  OBVIOUS
<1> USE DEF ShellIInv, ShellTypeOK, ReadCover, Redraw, guardian, turning,
      lightbox, device
<1>1. LoopFlags' /\ ViewFlags'
  <2>1. LoopFlags'
    BY Zenon DEF LoopFlags
  <2>2. ViewFlags'
    BY Zenon DEF ViewFlags
  <2> QED BY <2>1, <2>2
<1>2. SensorFlags' /\ DeviceFlags'
  <2>1. SensorFlags'
    BY Zenon DEF SensorFlags
  <2>2. DeviceFlags'
    BY Zenon DEF DeviceFlags
  <2> QED BY <2>1, <2>2
<1>3. Notes' /\ ShellValues'
  <2>1. Notes'
    BY DEF Notes
  <2>2. ShellValues'
    BY DEF ShellValues, Light, NoLight, Orientation, Taking, Loop, Teardown,
        Gone
  <2> QED BY <2>1, <2>2
<1>4. ErrorsEndTheLoop' /\ ToldInOrder'
  BY DEF ErrorsEndTheLoop, ToldInOrder, Taking, Loop, Teardown, Gone
<1>5. KernelFollows' /\ GivenBack'
  BY DEF DeviceFlags, ShellValues, KernelFollows, GivenBack, ErrorsEndTheLoop,
      ToldInOrder, BeforeReady, PanelFollows, Light, NoLight, Taking,
      Loop, Gone
<1>6. BeforeReady' /\ Framed'
  BY DEF ViewFlags, ShellValues, BeforeReady, Framed, ToldInOrder, Orientation,
      NoLight, Taking
<1>7. PanelFollows'
  BY DEF LoopFlags, ViewFlags, ShellValues, PanelFollows, Desired, BeforeReady,
      KernelFollows, ErrorsEndTheLoop, Light, NoLight, Loop, Taking
<1> QED BY <1>1, <1>2, <1>3, <1>4, <1>5, <1>6, <1>7

\* A turn asks for a full frame.
LEMMA ShellReadGyroIInv == ShellIInv /\ ReadGyro => ShellIInv'
<1> SUFFICES ASSUME ShellIInv, ReadGyro PROVE ShellIInv'
  OBVIOUS
<1> USE DEF ShellIInv, ShellTypeOK, ReadGyro, Redraw, guardian, turning, lightbox,
      device
<1>1. LoopFlags' /\ ViewFlags'
  <2>1. LoopFlags'
    BY Zenon DEF LoopFlags
  <2>2. ViewFlags'
    BY Zenon DEF ViewFlags
  <2> QED BY <2>1, <2>2
<1>2. SensorFlags' /\ DeviceFlags'
  <2>1. SensorFlags'
    BY Zenon DEF SensorFlags
  <2>2. DeviceFlags'
    BY Zenon DEF DeviceFlags
  <2> QED BY <2>1, <2>2
<1>3. Notes' /\ ShellValues'
  <2>1. Notes'
    BY DEF Notes
  <2>2. ShellValues'
    BY DEF ShellValues, Light, NoLight, Orientation, Taking, Loop, Teardown,
        Gone
  <2> QED BY <2>1, <2>2
<1>4. ErrorsEndTheLoop' /\ ToldInOrder'
  BY DEF ErrorsEndTheLoop, ToldInOrder, Taking, Loop, Teardown, Gone
<1>5. KernelFollows' /\ GivenBack'
  BY DEF DeviceFlags, ShellValues, KernelFollows, GivenBack, ErrorsEndTheLoop,
      ToldInOrder, BeforeReady, PanelFollows, Light, NoLight, Taking,
      Loop, Gone
<1>6. BeforeReady' /\ Framed'
  BY DEF ViewFlags, ShellValues, BeforeReady, Framed, ToldInOrder, Orientation,
      NoLight, Taking
<1>7. PanelFollows'
  BY DEF LoopFlags, ViewFlags, ShellValues, PanelFollows, Desired, BeforeReady,
      KernelFollows, ErrorsEndTheLoop, Light, NoLight, Loop, Taking
<1> QED BY <1>1, <1>2, <1>3, <1>4, <1>5, <1>6, <1>7

\* What the teardown gives back besides the lightbox.
LEMMA ShellGiveBackIInv == ShellIInv /\ (StopPointer \/ Release \/ Close) => ShellIInv'
<1> SUFFICES ASSUME ShellIInv, (StopPointer \/ Release \/ Close) PROVE ShellIInv'
  OBVIOUS
<1> USE DEF ShellIInv, ShellTypeOK, StopPointer, Release, Close, Try, guardian,
      ui, turning, sensors, lightbox, frame
<1>1. LoopFlags' /\ ViewFlags'
  <2>1. LoopFlags'
    BY Zenon DEF LoopFlags
  <2>2. ViewFlags'
    BY Zenon DEF ViewFlags
  <2> QED BY <2>1, <2>2
<1>2. SensorFlags' /\ DeviceFlags'
  <2>1. SensorFlags'
    BY Zenon DEF SensorFlags
  <2>2. DeviceFlags'
    BY Zenon DEF DeviceFlags
  <2> QED BY <2>1, <2>2
<1>3. Notes' /\ ShellValues'
  <2>1. Notes'
    BY DEF Notes
  <2>2. ShellValues'
    BY DEF ShellValues, Light, NoLight, Orientation, Taking, Loop, Teardown,
        Gone
  <2> QED BY <2>1, <2>2
<1>4. ErrorsEndTheLoop' /\ ToldInOrder'
  BY DEF ErrorsEndTheLoop, ToldInOrder, Taking, Loop, Teardown, Gone
<1>5. KernelFollows' /\ GivenBack'
  BY DEF DeviceFlags, ShellValues, KernelFollows, GivenBack, ErrorsEndTheLoop,
      ToldInOrder, BeforeReady, PanelFollows, Light, NoLight, Taking,
      Loop, Gone
<1>6. BeforeReady' /\ Framed'
  BY DEF ViewFlags, ShellValues, BeforeReady, Framed, ToldInOrder, Orientation,
      NoLight, Taking
<1>7. PanelFollows'
  BY DEF LoopFlags, ViewFlags, ShellValues, PanelFollows, Desired, BeforeReady,
      KernelFollows, ErrorsEndTheLoop, Light, NoLight, Loop, Taking
<1> QED BY <1>1, <1>2, <1>3, <1>4, <1>5, <1>6, <1>7

\* After it the controller is clear, or an ioctl was refused.
LEMMA ShellClearLightboxIInv == ShellIInv /\ ClearLightbox => ShellIInv'
<1> SUFFICES ASSUME ShellIInv, ClearLightbox PROVE ShellIInv'
  OBVIOUS
<1> USE DEF ShellIInv, ShellTypeOK, ClearLightbox, ClearForHandoff, NothingToClear,
      guardian, ui, turning, sensors, lightbox, device, frame
<1>1. LoopFlags' /\ ViewFlags'
  <2>1. LoopFlags'
    BY Zenon DEF LoopFlags
  <2>2. ViewFlags'
    BY Zenon DEF ViewFlags
  <2> QED BY <2>1, <2>2
<1>2. SensorFlags' /\ DeviceFlags'
  <2>1. SensorFlags'
    BY Zenon DEF SensorFlags
  <2>2. DeviceFlags'
    BY Zenon DEF DeviceFlags
  <2> QED BY <2>1, <2>2
<1>3. Notes' /\ ShellValues'
  <2>1. Notes'
    BY DEF Notes
  <2>2. ShellValues'
    BY DEF ShellValues, Light, NoLight, Orientation, Taking, Loop, Teardown,
        Gone
  <2> QED BY <2>1, <2>2
<1>4. ErrorsEndTheLoop' /\ ToldInOrder'
  BY DEF ErrorsEndTheLoop, ToldInOrder, Taking, Loop, Teardown, Gone
<1>5. KernelFollows' /\ GivenBack'
  BY DEF DeviceFlags, ShellValues, KernelFollows, GivenBack, ErrorsEndTheLoop,
      ToldInOrder, BeforeReady, PanelFollows, Light, NoLight, Taking,
      Loop, Gone
<1>6. BeforeReady' /\ Framed'
  BY DEF ViewFlags, ShellValues, BeforeReady, Framed, ToldInOrder, Orientation,
      NoLight, Taking
<1>7. PanelFollows'
  BY DEF LoopFlags, ViewFlags, ShellValues, PanelFollows, Desired, BeforeReady,
      KernelFollows, ErrorsEndTheLoop, Light, NoLight, Loop, Taking
<1> QED BY <1>1, <1>2, <1>3, <1>4, <1>5, <1>6, <1>7

\* A command is written last, by a shell without errors.
LEMMA ShellWriteCommandIInv == ShellIInv /\ WriteCommand => ShellIInv'
<1> SUFFICES ASSUME ShellIInv, WriteCommand PROVE ShellIInv'
  OBVIOUS
<1> USE DEF ShellIInv, ShellTypeOK, WriteCommand, ui, turning, sensors, lightbox,
      frame
<1>1. LoopFlags' /\ ViewFlags'
  <2>1. LoopFlags'
    BY Zenon DEF LoopFlags
  <2>2. ViewFlags'
    BY Zenon DEF ViewFlags
  <2> QED BY <2>1, <2>2
<1>2. SensorFlags' /\ DeviceFlags'
  <2>1. SensorFlags'
    BY Zenon DEF SensorFlags
  <2>2. DeviceFlags'
    BY Zenon DEF DeviceFlags
  <2> QED BY <2>1, <2>2
<1>3. Notes' /\ ShellValues'
  <2>1. Notes'
    BY DEF Notes
  <2>2. ShellValues'
    BY DEF ShellValues, Light, NoLight, Orientation, Taking, Loop, Teardown,
        Gone
  <2> QED BY <2>1, <2>2
<1>4. ErrorsEndTheLoop' /\ ToldInOrder'
  BY DEF ErrorsEndTheLoop, ToldInOrder, Taking, Loop, Teardown, Gone
<1>5. KernelFollows' /\ GivenBack'
  BY DEF DeviceFlags, ShellValues, KernelFollows, GivenBack, ErrorsEndTheLoop,
      ToldInOrder, BeforeReady, PanelFollows, Light, NoLight, Taking,
      Loop, Gone
<1>6. BeforeReady' /\ Framed'
  BY DEF ViewFlags, ShellValues, BeforeReady, Framed, ToldInOrder, Orientation,
      NoLight, Taking
<1>7. PanelFollows'
  BY DEF LoopFlags, ViewFlags, ShellValues, PanelFollows, Desired, BeforeReady,
      KernelFollows, ErrorsEndTheLoop, Light, NoLight, Loop, Taking
<1> QED BY <1>1, <1>2, <1>3, <1>4, <1>5, <1>6, <1>7

\* A signal closes everything and tells nothing.
LEMMA ShellKilledIInv == ShellIInv /\ Killed => ShellIInv'
<1> SUFFICES ASSUME ShellIInv, Killed PROVE ShellIInv'
  OBVIOUS
<1> USE DEF ShellIInv, ShellTypeOK, Killed, guardian, ui, turning, sensors,
      lightbox, frame
<1>1. LoopFlags' /\ ViewFlags'
  <2>1. LoopFlags'
    BY Zenon DEF LoopFlags
  <2>2. ViewFlags'
    BY Zenon DEF ViewFlags
  <2> QED BY <2>1, <2>2
<1>2. SensorFlags' /\ DeviceFlags'
  <2>1. SensorFlags'
    BY Zenon DEF SensorFlags
  <2>2. DeviceFlags'
    BY Zenon DEF DeviceFlags
  <2> QED BY <2>1, <2>2
<1>3. Notes' /\ ShellValues'
  <2>1. Notes'
    BY DEF Notes
  <2>2. ShellValues'
    BY DEF ShellValues, Light, NoLight, Orientation, Taking, Loop, Teardown,
        Gone
  <2> QED BY <2>1, <2>2
<1>4. ErrorsEndTheLoop' /\ ToldInOrder'
  BY DEF ErrorsEndTheLoop, ToldInOrder, Taking, Loop, Teardown, Gone
<1>5. KernelFollows' /\ GivenBack'
  BY DEF DeviceFlags, ShellValues, KernelFollows, GivenBack, ErrorsEndTheLoop,
      ToldInOrder, BeforeReady, PanelFollows, Light, NoLight, Taking,
      Loop, Gone
<1>6. BeforeReady' /\ Framed'
  BY DEF ViewFlags, ShellValues, BeforeReady, Framed, ToldInOrder, Orientation,
      NoLight, Taking
<1>7. PanelFollows'
  BY DEF LoopFlags, ViewFlags, ShellValues, PanelFollows, Desired, BeforeReady,
      KernelFollows, ErrorsEndTheLoop, Light, NoLight, Loop, Taking
<1> QED BY <1>1, <1>2, <1>3, <1>4, <1>5, <1>6, <1>7

\* Every step of the shell's loop keeps the invariant.
LEMMA ShellNextIInv == ShellIInv /\ [ShellNext]_shell_vars => ShellIInv'
<1> SUFFICES ASSUME ShellIInv, [ShellNext]_shell_vars PROVE ShellIInv'
  OBVIOUS
<1>1. CASE TakeDevice \/ UpdateTimers \/ Present \/ SignalReady
  BY <1>1, ShellTakeDeviceIInv, ShellUpdateTimersIInv, ShellPrepareIInv,
     ShellDrawFrameIInv, ShellDrawNothingIInv, ShellDrawFailsIInv, ShellSignalReadyIInv
  DEF Present
<1>2. CASE Input \/ CheckExit \/ DispatchContact
  BY <1>2, ShellTurnGoesOnIInv, ShellReadCoverIInv, ShellReadGyroIInv,
     ShellDispatchContactIInv
  DEF Input
<1>3. CASE Return \/ Killed
  BY <1>3, ShellGiveBackIInv, ShellClearLightboxIInv, ShellWriteCommandIInv,
     ShellKilledIInv
  DEF Return
<1>4. CASE UNCHANGED shell_vars
  BY <1>4, ShellStutterIInv
<1> QED BY <1>1, <1>2, <1>3, <1>4 DEF ShellNext, Process

\* The invariant holds in every state of every run of the shell.
THEOREM ShellInductive == ShellSpec => []ShellIInv
<1> QED BY ShellInitIInv, ShellNextIInv, PTL DEF ShellSpec

\* Every variable of the shell keeps its type (RuntimeState, the controller, the
\* device).
THEOREM ShellTypeCorrect == ShellSpec => []ShellTypeOK
<1>1. ShellIInv => ShellTypeOK
  BY DEF ShellIInv
<1> QED BY <1>1, ShellInductive, PTL

\* Between frames the kernel and the panel agree on the lightbox, nothing waits
\* for its repaint, the drawer is shown exactly under it, and the controller is
\* wrong about nothing but a region it has inherited (prepare, present, commit).
THEOREM PanelIsTracked == ShellSpec => []LightboxTracksPanel
<1>1. ShellIInv => LightboxTracksPanel
  BY DEF ShellIInv, LightboxTracksPanel, PanelFollows, KernelFollows,
      ErrorsEndTheLoop, Loop, ShellTypeOK, DeviceFlags
<1> QED BY <1>1, ShellInductive, PTL

\* The shell is on the panel before it says so, and its device is given back
\* before its command is left or, errors or not, its process ends (signal_ready,
\* run_on_target's teardown).
THEOREM HandsOverClean == ShellSpec => []HandoverIsClean
<1>1. ASSUME ShellIInv PROVE HandoverIsClean
  <2> USE <1>1 DEF ShellIInv
  <2>1. step = "Exited" => kernel = "Clear" \/ inherited \/ refused
    BY DEF GivenBack, KernelFollows, NoLight
  <2>2. "ready" \in told => shown.orientation \in Orientation
    BY DEF ToldInOrder, Framed
  <2>3. "command" \in told => ~refused
    BY DEF ToldInOrder, ErrorsEndTheLoop
  <2> QED
    BY <2>1, <2>2, <2>3 DEF HandoverIsClean, GivenBack, ToldInOrder, Gone
<1> QED BY <1>1, ShellInductive, PTL

(***************************************************************************)
(* The shell is the process the guardian counts on.                        *)
(***************************************************************************)
\* A step that goes on and tells nothing is not seen.
LEMMA ShellUnseen ==
  step \notin Gone /\ step' \notin Gone /\ told' = told
    => UNCHANGED <<Watched, Left>>
BY DEF Watched, Left

\* A step that ends the process and leaves no command is an exit.
LEMMA ShellGone ==
  (/\ step \notin Gone /\ step' \in Gone /\ told' = told
   /\ step' = "Exited" => errors' # {})
    => Supervised!Exits
BY DEF Watched, Left, Gone, Supervised!Exits

\* Signalling readiness is becoming ready, and a loop that fails there is not seen.
LEMMA ShellSignals ==
  ShellIInv /\ SignalReady => Supervised!BecomesReady \/ UNCHANGED <<Watched, Left>>
<1> SUFFICES ASSUME ShellIInv, SignalReady
             PROVE  Supervised!BecomesReady \/ UNCHANGED <<Watched, Left>>
  OBVIOUS
<1> USE DEF SignalReady, LoopFails, Gone
<1>1. CASE told' = told
  BY <1>1, ShellUnseen
<1>2. CASE told' # told
  <2>1. told' = told \cup {"ready"} /\ step = "Ready" /\ step' = "Pump"
    BY <1>2
  <2>2. "ready" \notin told /\ ("command" \in told' <=> "command" \in told)
    BY <1>2, <2>1
  <2> QED BY <2>1, <2>2 DEF Watched, Left, Supervised!BecomesReady
<1> QED BY <1>1, <1>2

\* A command is written by a shell that was ready, and is the end of a clean exit.
LEMMA ShellReports == ShellIInv /\ WriteCommand => Supervised!Exits
<1> SUFFICES ASSUME ShellIInv, WriteCommand PROVE Supervised!Exits
  OBVIOUS
<1> USE DEF WriteCommand, Gone
<1>1. CASE errors = {} /\ exit_requested /\ told' = told \cup {"command"} /\ errors' = {}
  <2>1. "ready" \in told /\ "command" \notin told
    BY <1>1 DEF ShellIInv, ToldInOrder
  <2> QED BY <1>1, <2>1 DEF Watched, Left, Supervised!Exits
<1>2. CASE told' = told /\ errors' # {}
  BY <1>2, ShellGone
<1> QED BY <1>1, <1>2

\* Step by step, what the shell does is what the guardian's model of it may do: a
\* readiness byte once and first, then one exit, with a command only after a clean
\* one (signal_ready, run_on_target against await_readiness, supervise, request).
THEOREM ServesGuardian == ShellSpec => ImplementsShellProcess
<1>1. ShellInit => Supervised!Init
  BY DEF ShellInit, Supervised!Init, Watched, Left, Gone
<1>2. ShellIInv /\ [ShellNext]_shell_vars => [Supervised!Next]_<<Watched, Left>>
  <2> SUFFICES ASSUME ShellIInv, [ShellNext]_shell_vars
               PROVE  Supervised!Next \/ UNCHANGED <<Watched, Left>>
    OBVIOUS
  <2> USE ShellUnseen DEF guardian, Gone
  <2>1. CASE TakeDevice \/ Killed
    <3>1. step \notin Gone /\ told' = told
      BY <2>1 DEF TakeDevice, OpenTarget, Grab, Setup, Killed
    <3>2. step' = "Exited" => errors' # {}
      BY <2>1 DEF TakeDevice, OpenTarget, Grab, Setup, Killed
    <3> QED BY <3>1, <3>2, ShellGone DEF Supervised!Next
  <2>2. CASE UpdateTimers \/ Present
    BY <2>2 DEF UpdateTimers, Present, Prepare, DrawFrame, DrawNothing,
        DrawFails, Submit, ClearForHandoff, LoopFails, AfterFrame
  <2>3. CASE SignalReady
    BY <2>3, ShellSignals DEF Supervised!Next
  <2>4. CASE Input \/ CheckExit \/ DispatchContact
    BY <2>4 DEF Input, PumpReturns, PumpFails, ReadCover, ReadGyro,
        CheckExit, DispatchContact, LoopFails, loop
  <2>5. CASE StopPointer \/ ClearLightbox \/ Release \/ Close
    BY <2>5 DEF StopPointer, ClearLightbox, Release, Close
  <2>6. CASE WriteCommand
    BY <2>6, ShellReports DEF Supervised!Next
  <2>7. CASE UNCHANGED shell_vars
    BY <2>7 DEF shell_vars, loop, Watched, Left
  <2> QED
    BY <2>1, <2>2, <2>3, <2>4, <2>5, <2>6, <2>7 DEF ShellNext, Process, Return
<1> QED
  BY <1>1, <1>2, ShellInductive, PTL
  DEF ShellSpec, ImplementsShellProcess, Supervised!Spec

\* How far the loop departs from the contract of the turn: an upright drawer is
\* always inside the sharp region (present, after prepare).
THEOREM UprightIsSharp == ShellSpec => []SharpWhenUpright
<1>1. ShellIInv => SharpWhenUpright
  BY DEF ShellIInv, SharpWhenUpright, PanelFollows, DrawerAt
<1> QED BY <1>1, ShellInductive, PTL

\* Contacts are turned ahead of the panel only while the full frame that a turn
\* has asked for is still to come (apply_gyro, present).
THEOREM TouchWaitsForFrame == ShellSpec => []TouchAwaitsFrame
<1>1. ShellIInv => TouchAwaitsFrame
  BY DEF ShellIInv, TouchAwaitsFrame, Framed
<1> QED BY <1>1, ShellInductive, PTL
=============================================================================
