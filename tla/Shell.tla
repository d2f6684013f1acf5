------------------------------- MODULE Shell -------------------------------
(***************************************************************************)
(* The event loop of ferrink-shell-kindle (RuntimeState): input, cover,    *)
(* gyro and timers, one frame per turn, and the teardown that hands the    *)
(* device back before the shell leaves its one command to the guardian.    *)
(*                                                                         *)
(* The lightbox is kept twice: Koa3LightboxController remembers the state  *)
(* whose full repaint was submitted, the kernel holds the state of the     *)
(* last ioctl, and the panel shows what the kernel held at the last full   *)
(* refresh.  Frames are turned as they are written, touches as they are    *)
(* read; `orientation` is what both use.                                   *)
(*                                                                         *)
(* Init, Next and the rest carry the shell's name, so that the guardian,   *)
(* which runs this process, can be reasoned about beside it.               *)
(*                                                                         *)
(* Slint is external.  A window that needs a redraw may or may not have    *)
(* changed items, and only changed items yield pixels.                     *)
(***************************************************************************)
EXTENDS Naturals

VARIABLES
  attached,        \* the shell was given the guardian's descriptors
  step,            \* the next step of run_on_target, run and run_loop
  started,         \* the loop proper has begun: signal_ready returned
  errors,          \* results of run that are Err
  exit_requested,  \* GuardianCommandPort accepted a command
  told,            \* what has been written to the guardian
  drawer,          \* Slint: quick-settings-open
  intent,          \* QuickSettingsIntent
  sleeping,        \* Slint: the sleep overlay
  window,          \* Slint: idle, redraw (nothing changed) or changed
  first_frame,     \* the next frame is a full refresh
  orientation,     \* RuntimeState.orientation
  rotation_locked,
  touch_active,    \* RuntimeState.touch_active
  gyro, cover,     \* the optional inputs are still read
  presented,       \* Koa3LightboxController.presented
  pending_light,   \* Koa3LightboxController.pending
  kernel,          \* device: lightbox state of the kernel
  refused,         \* history: a lightbox ioctl has failed
  inherited,       \* history: the region of a former owner is still applied
  shown,           \* device: what the panel shows
  grabbed,         \* device: input goes to the shell alone
  mapped,          \* device: the framebuffer is mapped
  pointer          \* SlintPointerBridge: FALSE once stopped

loop     == <<step, started, errors>>
guardian == <<exit_requested, told>>
ui       == <<drawer, intent, sleeping, window>>
turning  == <<orientation, rotation_locked>>
sensors  == <<gyro, cover>>
lightbox == <<presented, pending_light, kernel, refused, inherited>>
device   == <<grabbed, mapped, pointer>>
frame    == <<first_frame, shown>>
shell_vars == <<attached, loop, guardian, ui, turning, touch_active, sensors,
                lightbox, device, frame>>

Light       == {"Clear", "Top"}   \* the sharp region is in panel coordinates
NoLight     == "none"
Orientation == {"Upright", "UpsideDown"}
NotShown    == [light |-> "Clear", drawer |-> FALSE, orientation |-> "stock"]

Loop     == {"Timers", "Prepare", "Draw", "Ready", "Pump", "Cover", "Gyro", "Check"}
Teardown == {"StopPointer", "ClearLightbox", "Release", "Close", "Report"}
Gone    == {"Exited", "Killed"}

\* A turn of the panel moves the drawer, which Slint draws at its own top.
DrawerAt(o) == IF o = "UpsideDown" THEN "Bottom" ELSE "Top"

\* A restoration clears the lightbox, an acquisition does not, and a guardian
\* that was killed restored nothing: the region may still be applied.
ShellInit ==
  /\ attached \in BOOLEAN
  /\ step = "Open" /\ started = FALSE /\ errors = {}
  /\ exit_requested = FALSE /\ told = {}
  /\ drawer = FALSE /\ intent = FALSE /\ sleeping = FALSE
  /\ window \in {"redraw", "changed"}
  /\ first_frame = TRUE /\ shown = NotShown
  /\ orientation = "Upright" /\ rotation_locked \in BOOLEAN /\ touch_active = FALSE
  /\ gyro \in BOOLEAN /\ cover = TRUE
  /\ presented = "Clear" /\ pending_light = NoLight /\ refused = FALSE
  /\ kernel \in Light /\ inherited = (kernel # "Clear")
  /\ grabbed = FALSE /\ mapped = FALSE /\ pointer = TRUE

Redraw == IF window = "idle" THEN "redraw" ELSE window

(***************************************************************************)
(* Taking the device.  What an error drops is closed by the kernel.        *)
(***************************************************************************)
OpenTarget ==
  /\ step = "Open"
  /\ \/ step' = "Grab" /\ mapped' = TRUE
     \/ step' = "Exited" /\ UNCHANGED mapped
  /\ errors' = IF step' = "Exited" THEN {"open"} ELSE errors
  /\ UNCHANGED <<attached, started, guardian, ui, turning, touch_active, sensors,
                 lightbox, grabbed, pointer, frame>>

Grab ==
  /\ step = "Grab"
  /\ \/ step' = "Setup" /\ grabbed' = TRUE /\ UNCHANGED <<mapped, errors>>
     \/ step' = "Exited" /\ mapped' = FALSE /\ errors' = {"grab"} /\ UNCHANGED grabbed
  /\ UNCHANGED <<attached, started, guardian, ui, turning, touch_active, sensors,
                 lightbox, pointer, frame>>

\* Gyro, cover, fonts, the window and its handlers: any may fail, and neither
\* release nor close is then called.
Setup ==
  /\ step = "Setup"
  /\ \/ step' = "Timers" /\ UNCHANGED <<grabbed, mapped, errors>>
     \/ step' = "Exited" /\ grabbed' = FALSE /\ mapped' = FALSE /\ errors' = {"setup"}
  /\ UNCHANGED <<attached, started, guardian, ui, turning, touch_active, sensors,
                 lightbox, pointer, frame>>

(***************************************************************************)
(* One frame.                                                              *)
(***************************************************************************)
LoopFails == step' = "StopPointer" /\ errors' = errors \cup {"loop"}

\* Timers may change what is drawn; change callbacks publish the intent.
UpdateTimers ==
  /\ step = "Timers" /\ step' = "Prepare"
  /\ intent' = drawer
  /\ window' \in {window, "changed"}
  /\ UNCHANGED <<attached, started, errors, guardian, drawer, sleeping, turning,
                 touch_active, sensors, lightbox, device, frame>>

Desired == IF intent THEN "Top" ELSE "Clear"

\* An ioctl that fails may have had its effect.
Submit(light, accepted) ==
  \/ kernel' = light /\ inherited' = FALSE /\ accepted /\ UNCHANGED refused
  \/ kernel' \in {kernel, light} /\ refused' = TRUE
     /\ UNCHANGED <<presented, pending_light, inherited>> /\ LoopFails

\* TransitionPending is left out: LightboxTracksPanel has no request wait here.
Prepare ==
  /\ step = "Prepare" /\ pending_light = NoLight
  /\ \/ /\ Desired = presented
        /\ step' = "Draw" /\ UNCHANGED <<errors, lightbox>>
     \/ /\ Desired # presented
        /\ Submit(Desired, /\ pending_light' = Desired /\ step' = "Draw"
                           /\ UNCHANGED <<presented, errors>>)
  /\ UNCHANGED <<attached, started, guardian, ui, turning, touch_active, sensors,
                 device, frame>>

NothingToClear == presented = "Clear" /\ pending_light \in {NoLight, "Clear"}

\* clear_for_handoff: no ioctl when the controller is clear already.
ClearForHandoff(cleared, failed) ==
  \/ /\ NothingToClear /\ cleared
     /\ pending_light' = NoLight /\ UNCHANGED <<presented, kernel, refused, inherited>>
  \/ /\ ~NothingToClear /\ cleared
     /\ kernel' = "Clear" /\ inherited' = FALSE
     /\ presented' = "Clear" /\ pending_light' = NoLight /\ UNCHANGED refused
  \/ /\ ~NothingToClear /\ failed
     /\ kernel' \in {kernel, "Clear"} /\ refused' = TRUE
     /\ UNCHANGED <<presented, pending_light, inherited>>

Transition == pending_light # NoLight   \* present's transition_prepared
AfterFrame == IF started THEN "Pump" ELSE "Ready"

\* Mutant: a lightbox transition is refreshed like any other frame.
FrameOnPanelFirstOnly ==
  IF first_frame
  THEN [light |-> kernel, drawer |-> drawer, orientation |-> orientation]
  ELSE [shown EXCEPT !.drawer = drawer,
                     !.orientation = IF @ = orientation THEN @ ELSE "mixed"]

\* A full refresh paints everything; a partial one leaves the rest as it was.
FrameOnPanel ==
  IF first_frame \/ Transition
  THEN [light |-> kernel, drawer |-> drawer, orientation |-> orientation]
  ELSE [shown EXCEPT !.drawer = drawer,
                     !.orientation = IF @ = orientation THEN @ ELSE "mixed"]

DrawFrame ==
  /\ step = "Draw" /\ window = "changed"
  /\ step' = AfterFrame
  /\ shown' = FrameOnPanel
  /\ presented' = IF Transition THEN pending_light ELSE presented
  /\ pending_light' = NoLight
  /\ first_frame' = FALSE /\ window' = "idle"
  /\ UNCHANGED <<attached, started, errors, guardian, drawer, intent, sleeping, turning,
                 touch_active, sensors, kernel, refused, inherited, device>>

\* Mutant: once started, every redraw counts as the full frame a turn asked for.
DrawNothingCounted ==
  /\ step = "Draw" /\ window # "changed" /\ window' = "idle"
  /\ \/ Transition /\ ClearForHandoff(LoopFails, LoopFails)
     \/ ~Transition /\ step' = AfterFrame /\ UNCHANGED <<errors, lightbox>>
  /\ first_frame' = (first_frame /\ ~started)
  /\ UNCHANGED <<attached, started, guardian, drawer, intent, sleeping, turning,
                 touch_active, sensors, device, shown>>

\* Idle, or redrawn without pixels: no frame, and first_frame stays.
DrawNothing ==
  /\ step = "Draw" /\ window # "changed" /\ window' = "idle"
  /\ \/ Transition /\ ClearForHandoff(LoopFails, LoopFails)
     \/ ~Transition /\ step' = AfterFrame /\ UNCHANGED <<errors, lightbox>>
  /\ UNCHANGED <<attached, started, guardian, drawer, intent, sleeping, turning,
                 touch_active, sensors, device, frame>>

DrawFails ==
  /\ step = "Draw" /\ window' \in {window, "idle"}
  /\ ClearForHandoff(LoopFails, LoopFails)
  /\ UNCHANGED <<attached, started, guardian, drawer, intent, sleeping, turning,
                 touch_active, sensors, device, frame>>

\* Mutant: the first present is taken for the first frame.
SignalReadyUnchecked ==
  /\ step = "Ready"
  /\ step' = "Pump" /\ started' = TRUE /\ UNCHANGED errors
  /\ told' = IF attached THEN told \cup {"ready"} ELSE told
  /\ UNCHANGED <<attached, exit_requested, ui, turning, touch_active, sensors,
                 lightbox, device, frame>>

\* The readiness byte follows the first frame.
SignalReady ==
  /\ step = "Ready"
  /\ \/ first_frame /\ LoopFails /\ UNCHANGED <<started, told>>
     \/ /\ ~first_frame /\ step' = "Pump" /\ started' = TRUE /\ UNCHANGED errors
        /\ told' = IF attached THEN told \cup {"ready"} ELSE told
     \/ ~first_frame /\ attached /\ LoopFails /\ UNCHANGED <<started, told>>
  /\ UNCHANGED <<attached, exit_requested, ui, turning, touch_active, sensors,
                 lightbox, device, frame>>

(***************************************************************************)
(* Input.  One read carries any number of contacts.                        *)
(***************************************************************************)
\* GuardianCommandPort: the first command of an attached shell is accepted.
SubmitCommand == exit_requested' = attached

\* ToggleRotationLock, when its preference file is written.
ToggleRotationLock == gyro /\ rotation_locked' = ~rotation_locked

\* What the released touch activates: nothing, the drawer, the lock, a command.
Activate ==
  \/ UNCHANGED <<exit_requested, drawer, rotation_locked>>
  \/ drawer' = ~drawer /\ UNCHANGED <<exit_requested, rotation_locked>>
  \/ ToggleRotationLock /\ UNCHANGED <<exit_requested, drawer>>
  \/ ~exit_requested /\ SubmitCommand /\ UNCHANGED <<drawer, rotation_locked>>

DispatchContact ==
  /\ step = "Pump" /\ started
  /\ \/ touch_active' = TRUE /\ UNCHANGED <<exit_requested, drawer, rotation_locked>>
     \/ touch_active /\ touch_active' = FALSE /\ Activate
  /\ window' \in IF drawer' = drawer THEN {window, "changed"} ELSE {"changed"}
  /\ UNCHANGED <<attached, loop, told, intent, sleeping, orientation, sensors,
                 lightbox, device, frame>>

\* A timeout, an interrupt, or the end of the contacts read.
PumpReturns ==
  /\ step = "Pump" /\ step' = "Cover"
  /\ UNCHANGED <<attached, started, errors, guardian, ui, turning, touch_active,
                 sensors, lightbox, device, frame>>

\* The pump, a contact outside the display, or the dispatch.
PumpFails ==
  /\ step = "Pump" /\ LoopFails
  /\ UNCHANGED <<attached, started, guardian, ui, turning, touch_active, sensors,
                 lightbox, device, frame>>

ReadCover ==
  /\ step = "Cover" /\ step' = "Gyro"
  /\ \/ UNCHANGED <<drawer, sleeping, window, first_frame, cover>>
     \/ cover /\ cover' = FALSE /\ UNCHANGED <<drawer, sleeping, window, first_frame>>
     \/ /\ cover /\ drawer' = FALSE /\ sleeping' \in BOOLEAN
        /\ first_frame' = TRUE /\ UNCHANGED cover
        /\ window' = IF drawer \/ sleeping' # sleeping THEN "changed" ELSE Redraw
  /\ UNCHANGED <<attached, started, errors, guardian, intent, turning, touch_active,
                 gyro, lightbox, device, shown>>

\* A turn while a finger is down, or while locked, is dropped.
ReadGyro ==
  /\ step = "Gyro" /\ step' = "Check"
  /\ \/ UNCHANGED <<turning, gyro, window, first_frame>>
     \/ /\ gyro /\ ~rotation_locked /\ ~touch_active
        /\ orientation' \in Orientation \ {orientation}
        /\ first_frame' = TRUE /\ window' = Redraw
        /\ UNCHANGED <<rotation_locked, gyro>>
     \/ /\ gyro /\ gyro' = FALSE /\ rotation_locked' = TRUE
        /\ UNCHANGED <<orientation, window, first_frame>>
  /\ UNCHANGED <<attached, started, errors, guardian, drawer, intent, sleeping,
                 touch_active, cover, lightbox, device, shown>>

\* Mutant: an accepted command ends the loop only when no finger is down.
CheckExitUntouched ==
  /\ step = "Check"
  /\ step' = IF exit_requested /\ ~touch_active THEN "StopPointer" ELSE "Timers"
  /\ UNCHANGED <<attached, started, errors, guardian, ui, turning, touch_active,
                 sensors, lightbox, device, frame>>

CheckExit ==
  /\ step = "Check"
  /\ step' = IF exit_requested THEN "StopPointer" ELSE "Timers"
  /\ UNCHANGED <<attached, started, errors, guardian, ui, turning, touch_active,
                 sensors, lightbox, device, frame>>

(***************************************************************************)
(* Teardown: every step is tried whatever the others return.               *)
(***************************************************************************)
Try(stage) == errors' \in {errors, errors \cup {stage}}

StopPointer ==
  /\ step = "StopPointer" /\ step' = "ClearLightbox"
  /\ pointer' = FALSE /\ Try("pointer")
  /\ UNCHANGED <<attached, started, guardian, ui, turning, touch_active, sensors,
                 lightbox, grabbed, mapped, frame>>

ClearLightbox ==
  /\ step = "ClearLightbox" /\ step' = "Release"
  /\ ClearForHandoff(UNCHANGED errors, errors' = errors \cup {"lightbox"})
  /\ UNCHANGED <<attached, started, guardian, ui, turning, touch_active, sensors,
                 device, frame>>

\* The descriptors close whether EVIOCGRAB(0) succeeds or not.
Release ==
  /\ step = "Release" /\ step' = "Close"
  /\ grabbed' = FALSE /\ Try("release")
  /\ UNCHANGED <<attached, started, guardian, ui, turning, touch_active, sensors,
                 lightbox, mapped, pointer, frame>>

Close ==
  /\ step = "Close" /\ step' = "Report"
  /\ \/ mapped' = FALSE /\ UNCHANGED errors
     \/ errors' = errors \cup {"close"} /\ UNCHANGED mapped
  /\ UNCHANGED <<attached, started, guardian, ui, turning, touch_active, sensors,
                 lightbox, grabbed, pointer, frame>>

\* Mutant: a lightbox that could not be cleared is not a failure.
WriteCommandAnyway ==
  /\ step = "Report" /\ step' = "Exited" /\ mapped' = FALSE
  /\ \/ /\ errors \subseteq {"lightbox"} /\ exit_requested
        /\ told' = told \cup {"command"} /\ UNCHANGED errors
     \/ errors' = errors \cup {"command"} /\ UNCHANGED told
  /\ UNCHANGED <<attached, started, exit_requested, ui, turning, touch_active,
                 sensors, lightbox, grabbed, pointer, frame>>

\* After run returned without an error, and only then, the accepted command is
\* written; the write may fail.
WriteCommand ==
  /\ step = "Report" /\ step' = "Exited" /\ mapped' = FALSE
  /\ \/ /\ errors = {} /\ exit_requested
        /\ told' = told \cup {"command"} /\ UNCHANGED errors
     \/ errors = {} /\ errors' = {"command"} /\ UNCHANGED told
     \/ errors # {} /\ UNCHANGED <<errors, told>>
  /\ UNCHANGED <<attached, started, exit_requested, ui, turning, touch_active,
                 sensors, lightbox, grabbed, pointer, frame>>

\* A signal: the kernel closes what was open and nothing else runs.
Killed ==
  /\ step \notin Gone /\ step' = "Killed"
  /\ grabbed' = FALSE /\ mapped' = FALSE
  /\ UNCHANGED <<attached, started, errors, guardian, ui, turning, touch_active,
                 sensors, lightbox, pointer, frame>>

TakeDevice == OpenTarget \/ Grab \/ Setup
Present    == Prepare \/ DrawFrame \/ DrawNothing \/ DrawFails
Input      == PumpReturns \/ PumpFails \/ ReadCover \/ ReadGyro
Return     == StopPointer \/ ClearLightbox \/ Release \/ Close \/ WriteCommand
Process    == TakeDevice \/ UpdateTimers \/ Present \/ SignalReady \/ Input
                \/ CheckExit \/ Return

ShellNext == Process \/ DispatchContact \/ Killed

\* The process runs, polls for at most 100 ms and reads at most 4096 bytes.
ShellSpec == ShellInit /\ [][ShellNext]_shell_vars /\ WF_shell_vars(Process)

(***************************************************************************)
(* Properties                                                              *)
(***************************************************************************)
LoopFlags   == attached \in BOOLEAN /\ started \in BOOLEAN /\ exit_requested \in BOOLEAN
ViewFlags   == drawer \in BOOLEAN /\ intent \in BOOLEAN /\ sleeping \in BOOLEAN
                 /\ first_frame \in BOOLEAN
SensorFlags == rotation_locked \in BOOLEAN /\ touch_active \in BOOLEAN
                 /\ gyro \in BOOLEAN /\ cover \in BOOLEAN
DeviceFlags == refused \in BOOLEAN /\ inherited \in BOOLEAN /\ grabbed \in BOOLEAN
                 /\ mapped \in BOOLEAN /\ pointer \in BOOLEAN

Notes ==
  /\ errors \subseteq {"open", "grab", "setup", "loop", "command"}
                      \cup {"pointer", "lightbox", "release", "close"}
  /\ told \subseteq {"ready", "command"}

ShellValues ==
  /\ step \in {"Open", "Grab", "Setup"} \cup Loop \cup Teardown \cup Gone
  /\ window \in {"idle", "redraw", "changed"}
  /\ shown \in [light : Light, drawer : BOOLEAN,
                orientation : Orientation \cup {"stock", "mixed"}]
  /\ orientation \in Orientation
  /\ presented \in Light /\ pending_light \in (Light \cup {NoLight}) \ {presented}
  /\ kernel \in Light

ShellTypeOK == LoopFlags /\ ViewFlags /\ SensorFlags /\ DeviceFlags /\ Notes /\ ShellValues

\* Between frames the controller, the kernel and the panel agree on the
\* lightbox, no request waits for its repaint, and the drawer is on the panel
\* exactly when the lightbox is: apply before the drawer's frame, clear before
\* the closed one, commit after.  The controller alone may be wrong, about a
\* region that somebody else applied and the shell has not touched yet.
LightboxTracksPanel ==
  started /\ step \in {"Pump", "Cover", "Gyro", "Check", "Timers", "Prepare"} =>
    /\ pending_light = NoLight
    /\ kernel = shown.light /\ (presented = kernel \/ inherited)
    /\ shown.drawer <=> presented # "Clear"

\* What the shell owes the guardian.  It says that it is ready only after a
\* whole frame of its own was submitted, never over one that mixes two owners or
\* two orientations.  It leaves a command only when it has given back lightbox,
\* input and framebuffer ("clear before launching an application, returning to
\* stock, releasing the foreground lease").  And whatever ended the loop, a shell
\* that returns has nothing grabbed or mapped and leaves the lightbox clear,
\* unless an ioctl failed unexpectedly.  A region it inherited is not its own.
HandoverIsClean ==
  /\ "ready" \in told => shown.orientation \in Orientation
  /\ "command" \in told =>
       (kernel = "Clear" \/ inherited) /\ ~grabbed /\ ~mapped /\ ~pointer
  /\ step = "Exited" =>
       (kernel = "Clear" \/ inherited \/ refused) /\ ~grabbed /\ ~mapped

\* To the guardian this is a process that becomes ready, and leaves its command
\* with a clean exit, or ends.
Watched ==
  IF step \notin Gone THEN IF "ready" \in told THEN "ready" ELSE "starting"
  ELSE IF "ready" \notin told THEN "stillborn"
  ELSE IF step = "Exited" /\ errors = {} THEN "clean" ELSE "failed"

Left == IF "command" \in told THEN "command" ELSE "nothing"

Supervised == INSTANCE ShellProcess WITH
  shell <- Watched, command <- Left,
  Requests <- {"command"}, NoRequest <- "nothing"

ImplementsShellProcess == Supervised!Spec

(***************************************************************************)
(* What makes these invariants inductive.                                  *)
(***************************************************************************)
Taking == {"Open", "Grab", "Setup"}

\* Errors belong to the teardown, and a failed ioctl always leaves one.
ErrorsEndTheLoop ==
  /\ step \in Taking \cup Loop => errors = {}
  /\ refused => errors # {}

\* The loop starts by signalling readiness; only then are commands accepted, and
\* one is written last.
ToldInOrder ==
  /\ "ready" \in told => started
  /\ started /\ attached => "ready" \in told
  /\ started => step \notin Taking \cup {"Ready"}
  /\ exit_requested => started /\ attached
  /\ "command" \in told => exit_requested /\ errors = {} /\ step = "Exited"

\* The kernel holds the light of the request that waits, or else the one
\* presented, unless the shell has not touched it or was refused.
KernelFollows ==
  /\ inherited => presented = "Clear" /\ pending_light = NoLight
  /\ refused \/ inherited
       \/ kernel = (IF pending_light = NoLight THEN presented ELSE pending_light)

\* A frame leaves nothing of another orientation; a turn asks for a full one.
Framed ==
  /\ first_frame \/ shown.orientation = orientation
  /\ started => shown.orientation \in Orientation

\* Until the loop has started there is no drawer and no request, and one frame at
\* most.
BeforeReady ==
  ~started =>
    /\ step \notin {"Pump", "Cover", "Gyro", "Check"}
    /\ ~drawer /\ ~intent /\ presented = "Clear" /\ pending_light = NoLight
    /\ step \in Taking \cup {"Timers", "Prepare", "Draw"} => first_frame
    /\ ~first_frame => shown.light = kernel /\ ~shown.drawer

\* The panel while the loop runs: at Draw a request may wait for the frame that
\* shows it.  What was shown last stays shown.
PanelFollows ==
  /\ shown.drawer => shown.light = "Top"
  /\ step \in {"Prepare", "Draw"} => intent = drawer
  /\ step = "Draw" =>
       Desired = (IF pending_light = NoLight THEN presented ELSE pending_light)
  /\ step \in Loop \ {"Draw"} => pending_light = NoLight
  /\ (started /\ step \in Loop /\ pending_light = NoLight) =>
       kernel = shown.light /\ (shown.drawer <=> presented # "Clear")

\* What the teardown has done so far.
GivenBack ==
  /\ step \in {"Open", "Grab", "Close", "Report"} \cup Gone => ~grabbed
  /\ step \in {"Open"} \cup Gone => ~mapped
  /\ (step \in {"ClearLightbox", "Release", "Close", "Report"} \/ "command" \in told)
       => ~pointer
  /\ step \in {"Release", "Close", "Report", "Exited"} =>
       refused \/ (presented = "Clear" /\ pending_light = NoLight)

ShellIInv ==
  /\ ShellTypeOK /\ ErrorsEndTheLoop /\ ToldInOrder /\ KernelFollows /\ Framed
  /\ BeforeReady /\ PanelFollows /\ GivenBack

\* An accepted command ends the process, with the command written or with an
\* error, whatever the finger, the cover and the gyro do.
AcceptedCommandEnds == exit_requested ~> step \in Gone

\* "Applies the same portrait orientation used by framebuffer presentation to
\* touch": when contacts are turned, the panel shows the orientation they are
\* turned by.
TouchFollowsPanel ==
  started /\ step = "Pump" => shown.orientation = orientation

\* "One validated foreground region remains sharp while its exterior is
\* halftoned": a drawer on the panel is inside the sharp region.
DrawerStaysSharp ==
  shown.drawer => shown.light = DrawerAt(shown.orientation)

\* How far these two go wrong.  A drawer shown upright is inside the sharp region.
SharpWhenUpright ==
  shown.orientation = "Upright" /\ shown.drawer => shown.light = DrawerAt("Upright")

\* Contacts run ahead of the panel only until the full frame that a turn has asked
\* for: whatever is drawn, redrawn without pixels, put to sleep or turned back in
\* between, the loop still owes that frame.
TouchAwaitsFrame ==
  started /\ shown.orientation # orientation => first_frame

\* "Clear before launching an application, returning to stock": taken literally,
\* the lightbox is clear whenever a command is left.
CommandLeavesClear ==
  "command" \in told => kernel = "Clear"
=============================================================================
