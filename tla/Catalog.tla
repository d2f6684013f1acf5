------------------------------ MODULE Catalog ------------------------------
(***************************************************************************)
(* A session of launcher and guardian over the application manifests.      *)
(*                                                                         *)
(* The guardian reads the manifests once, before its first lease.  Every   *)
(* shell it spawns reads them again, in the order the guardian passes the  *)
(* paths, and the two tell each other only a position: the row that was    *)
(* tapped becomes an index into the guardian's own list.  In between a     *)
(* package may be installed over another one.                              *)
(*                                                                         *)
(* One shell life is Launcher; the lease, the signals and the crash budget *)
(* of the guardian are Guardian's.                                         *)
(***************************************************************************)
EXTENDS Launcher, SequencesExt

CONSTANTS
  Paths,             \* --application-manifest
  Contents,          \* what a manifest file may hold
  MaxApplications,   \* MAX_APPLICATIONS
  MaxReplacements    \* bound: manifests replaced in one behaviour

\* The fields of a manifest anything here depends on; id and launcher_position are
\* numbers, for only their order matters.
StartupMode    == {"StockRunning", "StockStarting"}
DisplayMode    == {"Framebuffer", "Stock", "Background", "X11"}
DisplayHandoff == {"Supervisor", "StockMediated"}
IconFile       == {"png", "truncated", "missing"}

\* Rules of schema version 1 a file may break.
Violation ==
  {"size", "toml", "manifest_version", "id", "name", "description", "icon", "spdx_license",
   "command", "requirements", "lifecycle", "environment"}

ApplicationManifest ==
  [id : Nat, launcher_position : Nat, mode : DisplayMode, handoff : DisplayHandoff,
   executable : BOOLEAN, icon_file : IconFile, violations : SUBSET Violation]

ASSUME CatalogAssumption ==
  /\ IsFiniteSet(Paths)
  /\ Contents \subseteq ApplicationManifest
  /\ MaxApplications \in Nat /\ 0 .. MaxApplications - 1 = Applications
  /\ MaxReplacements \in Nat

VARIABLES
  files,          \* disk: the manifests
  phase,          \* guardian: Start, Shell, Application, Ended
  applications,   \* guardian: the registered applications
  manifestPaths,  \* guardian: the paths it passes to every shell
  rows,           \* shell: the applications of its launcher
  launched,       \* guardian: the application that runs, or None
  replaced        \* history: manifests replaced since the guardian read them

registry == <<applications, manifestPaths>>
catalogs == <<files, phase, registry, rows, launched, replaced>>

SessionInit ==
  /\ Init /\ attached
  /\ files \in [Paths -> Contents] /\ phase = "Start"
  /\ applications = <<>> /\ manifestPaths = <<>> /\ rows = <<>>
  /\ launched = None /\ replaced = 0

(***************************************************************************)
(* ApplicationCatalog                                                      *)
(***************************************************************************)
\* validate_manifest, after the size bound and the TOML parser.
Valid(manifest) == manifest.violations = {}

\* register, over all the paths: every file validates, and no two have one ID.
Registers(paths) ==
  /\ Len(paths) <= MaxApplications
  /\ \A i \in DOMAIN paths : Valid(files[paths[i]])
  /\ \A i, j \in DOMAIN paths : files[paths[i]].id = files[paths[j]].id => i = j

\* iter: launcher position first, ID among equals.
Before(a, b) ==
  \/ a.launcher_position < b.launcher_position
  \/ a.launcher_position = b.launcher_position /\ a.id < b.id

\* The elements of S by a strict order, a set of pairs: each at the place that the
\* number of those before it gives.
InOrder(S, order) ==
  [i \in 1 .. Cardinality(S) |->
     CHOOSE x \in S : Cardinality({y \in S : <<y, x>> \in order}) = i - 1]

Iterated(paths) ==
  LET manifests == {files[p] : p \in ToSet(paths)}
  IN  InOrder(manifests, {e \in manifests \X manifests : Before(e[1], e[2])})

(***************************************************************************)
(* The guardian's own reading                                              *)
(***************************************************************************)
\* What it asks of a manifest beyond the schema.
Launchable(manifest) ==
  /\ manifest.mode = "Framebuffer"
  /\ manifest.executable
  /\ manifest.icon_file \in {"png", "truncated"}   \* a PNG signature is enough

\* The manifest paths of the shells are in the order of the IDs.
PathsById(paths) ==
  LET given == ToSet(paths)
  IN  InOrder(given, {e \in given \X given : files[e[1]].id < files[e[2]].id})

\* Mutant: the list an index is looked up in is in the order of the IDs, too.
RegisteredById(paths) ==
  LET manifests == {files[p] : p \in ToSet(paths)}
  IN  InOrder(manifests, {e \in manifests \X manifests : e[1].id < e[2].id})

Registered(paths) == Iterated(paths)

\* Mutant: a manifest that cannot be launched is left out, not refused.
GuardianReadsSkipping(mode, paths) ==
  /\ phase = "Start" /\ phase' = "Shell" /\ Registers(paths)
  /\ applications' = SelectSeq(Registered(paths), Launchable)
  /\ manifestPaths' = PathsById(paths) /\ rows' = <<>>
  /\ UNCHANGED <<vars, files, launched, replaced>>

GuardianReads(mode, paths) ==
  /\ phase = "Start"
  /\ \/ /\ paths # <<>> /\ Registers(paths)
        /\ \A i \in DOMAIN paths :
             /\ Launchable(files[paths[i]])
             /\ mode = "StockStarting" => files[paths[i]].handoff = "Supervisor"
        /\ applications' = Registered(paths) /\ manifestPaths' = PathsById(paths)
        /\ phase' = "Shell"
     \/ phase' = "Ended" /\ UNCHANGED registry
  /\ UNCHANGED <<vars, files, rows, launched, replaced>>

(***************************************************************************)
(* The shell                                                               *)
(***************************************************************************)
\* decode_application_icon takes the file apart.
Drawable(manifest) == manifest.icon_file = "png"

\* read_application_catalog and configure_application_catalog; a shell that refuses a
\* manifest exits before it is ready, and the guardian restores stock.
ShellReads ==
  /\ phase = "Shell" /\ rows = <<>>
  /\ \/ /\ Registers(manifestPaths)
        /\ \A i \in DOMAIN manifestPaths : Drawable(files[manifestPaths[i]])
        /\ rows' = Iterated(manifestPaths) /\ UNCHANGED phase
     \/ phase' = "Ended" /\ UNCHANGED rows
  /\ UNCHANGED <<vars, files, registry, launched, replaced>>

\* Any action may be dispatched, but a row only if the launcher has it.
OnRow == notice' # notice /\ notice'.command.kind = "LaunchApplication" =>
           notice'.command.index < Len(rows)

ShellTurn(step) == phase = "Shell" /\ rows # <<>> /\ step /\ UNCHANGED catalogs

ShellTurns ==
  \/ ShellTurn(Tap /\ OnRow)
  \/ ShellTurn(ToggleDrawer)
  \/ \E a \in Alerts : ShellTurn(PresentAlert(a))
  \/ ShellTurn(InputEnds)
  \/ ShellTurn(CheckExit)
  \/ ShellTurn(Draw)

(***************************************************************************)
(* The hand-off                                                            *)
(***************************************************************************)
\* decode_shell_request and the lookup: the byte is an index into the guardian's list.
\* Every other command, and a shell that fails on its way out, ends the session.
Dispatch ==
  /\ phase = "Shell" /\ pc = "Ended"
  /\ \/ /\ request.kind = "LaunchApplication" /\ request.index + 1 \in DOMAIN applications
        /\ launched' = applications[request.index + 1] /\ phase' = "Application"
     \/ phase' = "Ended" /\ UNCHANGED launched
  /\ UNCHANGED <<vars, files, registry, rows, replaced>>

\* The application ends, or could not be spawned, and the next shell starts afresh,
\* unless a signal or a lost lease ends the session, too.
ApplicationEnds ==
  /\ phase = "Application"
  /\ phase' \in {"Shell", "Ended"} /\ rows' = <<>> /\ launched' = None
  /\ view' = "Home" /\ power' = None /\ alert' = None /\ notice' = Ready
  /\ request' = NoCommand /\ drawer' = FALSE /\ sleeping' = FALSE
  /\ pc' = "Draw" /\ panel' = [notice |-> Ready, modal |-> {}] /\ asked' = None
  /\ UNCHANGED <<attached, files, registry, replaced>>

\* A package is installed over another.  Manifests are read when the guardian and when
\* a shell start; what is replaced while a launcher runs is as good as replaced after.
Replace(p, manifest) ==
  /\ phase = "Application" \/ (phase = "Shell" /\ rows = <<>>)
  /\ replaced < MaxReplacements
  /\ replaced' = replaced + 1 /\ files' = [files EXCEPT ![p] = manifest]
  /\ UNCHANGED <<vars, phase, registry, rows, launched>>

SessionNext ==
  \/ \E mode \in StartupMode : \E given \in SUBSET Paths :
       \E paths \in SetToSeqs(given) : GuardianReads(mode, paths)
  \/ ShellReads \/ ShellTurns \/ Dispatch \/ ApplicationEnds
  \/ \E p \in Paths, m \in Contents : Replace(p, m)

SessionSpec == SessionInit /\ [][SessionNext]_<<vars, catalogs>>

(***************************************************************************)
(* Properties                                                              *)
(***************************************************************************)
\* The guardian and the shell sort their lists independently and exchange a position:
\* as long as no manifest is replaced, the application that starts is the one whose row
\* was tapped, in whatever order the paths were given.
TappedIsLaunched ==
  phase = "Application" /\ replaced = 0 => launched.id = rows[request.index + 1].id

\* "Stable position in the supervisor's ID-sorted application catalog"
\* (ApplicationIndex): the position that was tapped leads to the same ID there,
\* whenever it is looked up.
PositionIsStable ==
  phase = "Application" => launched.id = rows[request.index + 1].id

\* Whatever became of the manifests in the meantime: a launcher that came up has as many
\* rows as the guardian has applications, so no tap ends the guardian, lease and all,
\* with "an application outside the registered catalog".
TappedIsRegistered ==
  request.kind = "LaunchApplication" => request.index + 1 \in DOMAIN applications
=============================================================================
