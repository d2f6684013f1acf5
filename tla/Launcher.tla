------------------------------ MODULE Launcher ------------------------------
(***************************************************************************)
(* The shell's policy: ShellController decides which tap may become a      *)
(* command, the command port accepts at most one, and sync_shell_ui copies *)
(* both into the view the next frame shows.                                *)
(*                                                                         *)
(* Taps are handled one after the other, as many as one read of the panel  *)
(* holds; only then does the loop look for an accepted command, and only   *)
(* after that does it draw.  Which element a tap hits is decided by Slint: *)
(* any action of the view may be dispatched at any time, also one that the *)
(* page on the panel does not offer.                                       *)
(***************************************************************************)
EXTENDS Naturals, FiniteSets

CONSTANTS
  Applications,  \* positions of the launcher's rows
  Alerts         \* conditions a supervisor may present

None        == "none"
PowerAction == {"Reboot", "PowerOff"}
ShellView   == {"Home", "Sample", "Settings", "Maintenance"}
Recoverable == {"ApplicationUnavailable", "ApplicationStopped"}
ShellAlert  == Recoverable \cup {"RecoveryCountdown"}

Command(kind) == [kind |-> kind, index |-> 0]
Launch(index) == [kind |-> "LaunchApplication", index |-> index]
ShellCommand  == {Command(k) : k \in PowerAction \cup {"ReturnToStock"}}
                   \cup {Launch(i) : i \in Applications}
NoCommand     == Command(None)

ASSUME LauncherAssumption ==
  Applications \subseteq Nat /\ IsFiniteSet(Applications) /\ Alerts \subseteq ShellAlert

VARIABLES
  attached,   \* GuardianCommandPort.guardian_attached
  view,       \* ShellController.view
  power,      \* ShellController.pending_power_action
  alert,      \* ShellController.alert
  notice,     \* ShellController.notice: the command it is about, and its outcome
  request,    \* GuardianCommandPort.request; exit_requested is set with it
  drawer,     \* Slint: quick-settings-open
  sleeping,   \* Slint: the sleep overlay
  pc,         \* the loop: Input, Check, Draw, Ended
  panel,      \* device: notice and modal surfaces of the last frame
  asked       \* history: the power action asked for and neither refused,
              \* cancelled nor superseded since

controller == <<view, power, alert>>
port       == <<attached, request>>
overlays   == <<drawer, sleeping>>
vars       == <<controller, notice, port, overlays, pc, panel, asked>>

Ready  == [outcome |-> "DeviceReady", command |-> NoCommand]
Notice == {Ready} \cup [outcome : {"Accepted", "Unavailable"}, command : ShellCommand]

Modal == {s \in {"drawer", "confirmation", "alert"} :
            \/ s = "drawer" /\ drawer
            \/ s = "confirmation" /\ power # None
            \/ s = "alert" /\ alert # None}

Init ==
  /\ attached \in BOOLEAN
  /\ view = "Home" /\ power = None /\ alert = None /\ notice = Ready
  /\ request = NoCommand
  /\ drawer = FALSE /\ sleeping = FALSE
  /\ pc = "Draw" /\ panel = [notice |-> Ready, modal |-> {}]
  /\ asked = None

(***************************************************************************)
(* dispatch_shell_action: dispatch, submit, note_command_outcome, sync.    *)
(***************************************************************************)
\* sync_shell_ui: a modal surface closes the drawer.
Sync(modal) == drawer' = (drawer /\ ~modal)

\* GuardianCommandPort::submit.
Accepts == attached /\ request = NoCommand

Submit(command) ==
  /\ request' = IF Accepts THEN command ELSE request
  /\ notice' = [outcome |-> IF Accepts THEN "Accepted" ELSE "Unavailable",
                command |-> command]

NoSubmit == UNCHANGED <<request, notice>>

\* Requests that an alert or a confirmation ignores.
Free == alert = None /\ power = None

\* ReturnHome, OpenSample, OpenSettings and OpenMaintenance.
Open(v) ==
  /\ view' = IF Free THEN v ELSE view
  /\ UNCHANGED <<power, alert, asked>> /\ NoSubmit

LaunchApplication(index) ==
  /\ IF Free THEN Submit(Launch(index)) ELSE NoSubmit
  /\ UNCHANGED <<controller, asked>>

\* The one action a recovery countdown accepts.
RequestStock ==
  /\ \/ /\ alert = "RecoveryCountdown" /\ alert' = None /\ view' = "Home"
        /\ Submit(Command("ReturnToStock"))
     \/ Free /\ Submit(Command("ReturnToStock")) /\ UNCHANGED <<view, alert>>
     \/ ~Free /\ alert # "RecoveryCountdown" /\ NoSubmit /\ UNCHANGED <<view, alert>>
  /\ UNCHANGED <<power, asked>>

\* Mutant: a second request replaces the prompt that is waiting.
RequestPowerReplacing(action) ==
  /\ power' = IF alert = None THEN action ELSE power
  /\ asked' = IF Free THEN action ELSE asked
  /\ UNCHANGED <<view, alert>> /\ NoSubmit

RequestPower(action) ==
  /\ power' = IF Free THEN action ELSE power
  /\ asked' = IF Free THEN action ELSE asked
  /\ UNCHANGED <<view, alert>> /\ NoSubmit

ConfirmPowerAction ==
  /\ \/ /\ alert = None /\ power # None
        /\ power' = None /\ Submit(Command(power))
     \/ (alert # None \/ power = None) /\ NoSubmit /\ UNCHANGED power
  /\ UNCHANGED <<view, alert, asked>>

CancelPowerAction ==
  /\ power' = IF alert = None THEN None ELSE power
  /\ asked' = None
  /\ UNCHANGED <<view, alert>> /\ NoSubmit

DismissAlert ==
  /\ \/ alert \in Recoverable /\ alert' = None /\ view' = "Home"
     \/ alert \notin Recoverable /\ UNCHANGED <<view, alert>>
  /\ UNCHANGED <<power, asked>> /\ NoSubmit

Tap ==
  /\ pc = "Input"
  /\ \/ \E v \in ShellView : Open(v)
     \/ \E i \in Applications : LaunchApplication(i)
     \/ RequestStock
     \/ \E a \in PowerAction : RequestPower(a)
     \/ ConfirmPowerAction
     \/ CancelPowerAction
     \/ DismissAlert
  /\ Sync(power' # None \/ alert' # None)
  /\ UNCHANGED <<attached, sleeping, pc, panel>>

\* The handle of the drawer is on the launcher's bar, and dead beneath a
\* confirmation or an alert; the sleep overlay takes every touch.
ToggleDrawer ==
  /\ pc = "Input" /\ view = "Home" /\ Free /\ ~sleeping
  /\ drawer' = ~drawer
  /\ UNCHANGED <<controller, notice, port, sleeping, pc, panel, asked>>

\* present_alert, and the sync that shows it.
PresentAlert(a) ==
  /\ pc = "Input"
  /\ power' = None /\ alert' = a /\ asked' = None /\ Sync(TRUE)
  /\ UNCHANGED <<view, notice, port, sleeping, pc, panel>>

(***************************************************************************)
(* The turn of the loop: input, cover, the check, the frame.               *)
(***************************************************************************)
\* The cover closes the drawer whichever way it moves.
InputEnds ==
  /\ pc = "Input" /\ pc' = "Check"
  /\ \/ sleeping' \in BOOLEAN /\ drawer' = FALSE
     \/ UNCHANGED overlays
  /\ UNCHANGED <<controller, notice, port, panel, asked>>

\* Mutant: the turn is drawn before an accepted command ends the loop.
CheckExitAfterDrawing ==
  /\ pc = "Check" /\ pc' = "Draw"
  /\ UNCHANGED <<controller, notice, port, overlays, panel, asked>>

CheckExit ==
  /\ pc = "Check"
  /\ pc' = IF request # NoCommand THEN "Ended" ELSE "Draw"
  /\ UNCHANGED <<controller, notice, port, overlays, panel, asked>>

Draw ==
  /\ pc = "Draw" /\ pc' = "Input"
  /\ panel' = [notice |-> notice, modal |-> Modal]
  /\ UNCHANGED <<controller, notice, port, overlays, asked>>

Next ==
  \/ Tap \/ ToggleDrawer \/ (\E a \in Alerts : PresentAlert(a))
  \/ InputEnds \/ CheckExit \/ Draw

Spec == Init /\ [][Next]_vars

(***************************************************************************)
(* Properties                                                              *)
(***************************************************************************)
TypeOK ==
  /\ attached \in BOOLEAN /\ view \in ShellView
  /\ power \in PowerAction \cup {None} /\ alert \in ShellAlert \cup {None}
  /\ notice \in Notice /\ request \in ShellCommand \cup {NoCommand}
  /\ drawer \in BOOLEAN /\ sleeping \in BOOLEAN
  /\ pc \in {"Input", "Check", "Draw", "Ended"}
  /\ panel \in [notice : Notice, modal : SUBSET {"drawer", "confirmation", "alert"}]
  /\ asked \in PowerAction \cup {None}

\* "Producing a command" for a power action needs both taps: whatever other taps,
\* prompts and alerts come in between, the guardian is asked to reboot or power
\* off only for the action whose request the operator made last and did not
\* cancel, and that no alert has superseded.
PowerOnlyConfirmed ==
  [][request' # request /\ request'.kind \in PowerAction => asked = request'.kind]_vars

\* "two modal decisions can never compete for input": one surface at most is
\* modal, in the view and on every frame, the drawer included.
OneModal ==
  Cardinality(Modal) <= 1 /\ Cardinality(panel.modal) <= 1

\* "exposes only what the shell needs to present a truthful status": no frame
\* says that a command was not executed while one is on its way to the guardian.
\* A second tap of one read does get that answer; the loop ends before it shows.
ShownNoticeTruthful ==
  panel.notice.outcome = "Unavailable" => request = NoCommand \/ ~attached
=============================================================================
