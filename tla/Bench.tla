-------------------------------- MODULE Bench --------------------------------
(***************************************************************************)
(* The bench cards: programs an operator runs one at a time in a terminal, *)
(* each of which tries one thing on the device once and leaves evidence.   *)
(* A card resolves the profile against a fresh report, revalidates the     *)
(* devices, asks for every confirmation, claims its result file, operates, *)
(* asks what the operator saw and writes whether it passed.  The           *)
(* characterization goes by a plan instead, and revalidates nothing.       *)
(*                                                                         *)
(* Around it the stock programs draw, the operator taps, KOReader leaves   *)
(* the panel inverted, signals come in, the card is killed, the device     *)
(* reboots and numbers its inputs anew, and another terminal may claim the *)
(* result file first.                                                      *)
(***************************************************************************)
EXTENDS Characterization

CONSTANTS
  Plans,      \* active display plans an operator may pass
  PlanOutput, \* the one result file a characterization may have
  Profiles,   \* profiles an operator may pass
  Devices,    \* the device as a boot may number it
  Results,    \* result files an operator may name
  MaxTaps,    \* bound: taps while a card holds the touchscreen
  MaxSteps    \* MAXIMUM_STEPS of the pump

Cards == {"revalidate", "repaint", "pixel", "touch", "grab", "foreground"}

ASSUME OutputAssumption == PlanOutput \in Results

\* What every framebuffer and every input answers a query with.
Answering(d) ==
  /\ {"framebuffers", "inputs"} \subseteq DOMAIN d
  /\ \A n \in DOMAIN d.framebuffers :
       {"driver", "extent", "bits", "pixels", "rotation"} \subseteq DOMAIN d.framebuffers[n]
  /\ \A n \in DOMAIN d.inputs : {"name", "axes"} \subseteq DOMAIN d.inputs[n]

ASSUME DeviceAssumption == \A d \in Devices : Answering(d)

NoResult == "no result"

VARIABLES
  device,    \* device: what answers at each node
  memory,    \* device: the pixels at the place of the pattern
  panel,     \* device: what the panel shows there
  paused,    \* device: the stock programs are stopped by a lease
  grabbed,   \* device: the card's descriptor has the touchscreen to itself
  profile,   \* files: the profile
  report,    \* files: the last report and its age
  result,    \* files: absent, empty, failed or passed
  card,      \* card: which one runs
  pc,        \* card: its next stage
  path,      \* card: its result file
  runtime,   \* card: ResolvedRuntimeDevice, or the plan and its report
  input,     \* card: the input it holds open
  guard,     \* card: signals are deferred
  signal,    \* card: one was
  saved,     \* card: the pixels it will restore
  steps,     \* card: remaining_steps of the pump
  facts,     \* card: what succeeded and what the operator answered
  taps,      \* history: how each tap in the open descriptor was delivered
  read,      \* history: how many of them the card has read
  wounded    \* history: a card was killed, or a device call failed, amid its operation

screen  == <<memory, panel>>
files   == <<profile, report, result>>
held    == <<input, grabbed, taps, read, steps>>
signals == <<guard, signal>>
claim   == <<card, path, runtime>>
vars    == <<device, screen, paused, files, held, signals, claim, pc, saved, facts, wounded>>

NoReport == [age |-> "none"]

Init ==
  /\ device \in Devices /\ memory = "stock" /\ panel = "stock"
  /\ paused = FALSE /\ grabbed = FALSE
  /\ profile \in Profiles /\ report = NoReport /\ result = [r \in Results |-> "absent"]
  /\ card = Absent /\ pc = "Idle" /\ path = NoResult /\ runtime = Absent /\ input = Absent
  /\ guard = FALSE /\ signal = FALSE /\ saved = Absent /\ steps = 0 /\ facts = {}
  /\ taps = <<>> /\ read = 0 /\ wounded = FALSE

(***************************************************************************)
(* The cards                                                               *)
(***************************************************************************)
\* What each evidence file requires for "passed".
PixelFacts == {"open", "operation", "close", "repaint", "guard", "no signal", "seen", "healthy"}
TouchFacts == {"read", "responded", "healthy"}
GrabFacts  == {"grab", "read", "release", "blocked", "responded", "healthy"}
RepaintFacts == {"repaint", "healthy"}
ForegroundFacts == {"acquire", "open", "presented", "held", "close", "restore", "hide",
                    "guard", "no signal", "seen", "healthy"}
PlanFacts  == {"submitted", "seen", "healthy"}

\* Mutant: a pixel card passes whatever became of the stock repaint.
RequiredWithoutRepaint(c) ==
  CASE c = "pixel"      -> PixelFacts \ {"repaint"}
    [] c = "touch"      -> TouchFacts
    [] c = "grab"       -> GrabFacts
    [] c = "repaint"    -> RepaintFacts
    [] c = "foreground" -> ForegroundFacts
    [] c = "characterize" -> PlanFacts

Required(c) ==
  CASE c = "pixel"      -> PixelFacts
    [] c = "touch"      -> TouchFacts
    [] c = "grab"       -> GrabFacts
    [] c = "repaint"    -> RepaintFacts
    [] c = "foreground" -> ForegroundFacts
    [] c = "characterize" -> PlanFacts

\* Cards whose operation a signal must not cut short.
Guarded == {"pixel", "foreground"}

\* Cards that keep the revalidated descriptors; the others drop them at once.
Keeps == {"touch", "grab"}

\* Koa3PixelCard::try_from_runtime.
PixelPrerequisite(r) ==
  /\ r.id = "reference" /\ r.repaint # Absent
  /\ r.framebuffer.extent = <<1264, 1680>> /\ r.framebuffer.virtual = <<1280, 3584>>
  /\ r.framebuffer.offset = <<0, 0>> /\ r.framebuffer.line = 1280
  /\ r.framebuffer.memory = 4587520
  /\ r.refresh # Absent /\ r.refresh.partial /\ r.refresh.abi = "zelda88"

\* LinuxKindleForegroundSystem::try_new and L0DisplayCore::try_from_runtime.
ForegroundPrerequisite(r) ==
  r.id = "reference" /\ r.repaint # Absent /\ r.refresh # Absent /\ r.refresh.full

\* koa3_card_candidate: not to be repeated once the profile has the mechanism.
RepaintPrerequisite(r) == r.id = "reference" /\ r.repaint = Absent

Prerequisite(c, r) ==
  CASE c = "pixel"      -> PixelPrerequisite(r)
    [] c = "foreground" -> ForegroundPrerequisite(r)
    [] c = "repaint"    -> RepaintPrerequisite(r)
    [] c \in Keeps      -> r.id = "reference"
    [] c = "revalidate" -> TRUE

(***************************************************************************)
(* Before the operation                                                    *)
(***************************************************************************)
\* The process is gone: the kernel closes what it had open.
Gone ==
  /\ pc' = "Idle" /\ card' = Absent /\ path' = NoResult /\ runtime' = Absent
  /\ input' = Absent /\ grabbed' = FALSE /\ taps' = <<>> /\ read' = 0 /\ steps' = 0
  /\ guard' = FALSE /\ signal' = FALSE /\ saved' = Absent /\ facts' = {}

\* parse_arguments and the profile and report that are read: a report is fresh for
\* fifteen minutes, and never when it comes from the future.
Start(c, r) ==
  /\ pc = "Idle" /\ report.age = "fresh"
  /\ Resolves(profile, report) /\ Prerequisite(c, Resolved(profile, report))
  /\ pc' = "OpenFramebuffer" /\ card' = c /\ path' = r
  /\ runtime' = Resolved(profile, report)
  /\ UNCHANGED <<device, screen, paused, files, held, signals, saved, facts, wounded>>

\* revalidate_read_only, its first half.
OpenFramebuffer ==
  /\ pc = "OpenFramebuffer"
  /\ \/ /\ runtime.framebuffer.device \in DOMAIN device.framebuffers
        /\ FramebufferSame(device.framebuffers[runtime.framebuffer.device], runtime)
        /\ pc' = "OpenInput"
        /\ UNCHANGED <<held, signals, claim, saved, facts>>
     \/ Gone
  /\ UNCHANGED <<device, screen, paused, files, wounded>>

\* Its second half, and validate_result_path.  A card that keeps the session has a
\* descriptor the kernel queues taps in from now on.
OpenInput ==
  /\ pc = "OpenInput" /\ card # "revalidate"
  /\ \/ /\ runtime.input.device \in DOMAIN device.inputs
        /\ InputSame(device.inputs[runtime.input.device], runtime)
        /\ result[path] = "absent"
        /\ pc' = "Confirm"
        /\ input' = IF card \in Keeps THEN device.inputs[runtime.input.device] ELSE Absent
        /\ UNCHANGED <<grabbed, taps, read, steps, signals, claim, saved, facts>>
     \/ Gone
  /\ UNCHANGED <<device, screen, paused, files, wounded>>

\* The revalidation card drops its session and prints what it found.
Revalidated ==
  /\ pc = "OpenInput" /\ card = "revalidate" /\ Gone
  /\ UNCHANGED <<device, screen, paused, files, wounded>>

\* REQUIRED_CORE_PROCESSES.
CoreProcesses == {"lipc-daemon", "volumd", "powerd", "Xorg", "awesome", "wifid"}

\* The characterization: a report no older than ten minutes (or from a clock ahead by
\* one at most, which is not told apart), a user store to write to and the core stock
\* processes at work, and one file name.
StartPlan(plan) ==
  /\ pc = "Idle" /\ report.age = "fresh"
  /\ Planned(plan, profile, report)
  /\ report.userstore /\ CoreProcesses \subseteq report.processes /\ result[PlanOutput] = "absent"
  /\ pc' = "Confirm" /\ card' = "characterize" /\ path' = PlanOutput
  /\ runtime' = [plan |-> plan, report |-> report]
  /\ UNCHANGED <<device, screen, paused, files, held, signals, saved, facts, wounded>>

\* collect_preflight_confirmations: every YES and the EXECUTE line, or the card ends.
Confirm ==
  /\ pc = "Confirm"
  /\ \/ pc' = "Guard" /\ UNCHANGED <<held, signals, claim, saved, facts>>
     \/ Gone
  /\ UNCHANGED <<device, screen, paused, files, wounded>>

\* Mutant: the foreground card is not guarded.
InstallGuardPixelOnly ==
  /\ pc = "Guard" /\ pc' = "Create"
  /\ guard' = (card = "pixel") /\ signal' = FALSE
  /\ UNCHANGED <<device, screen, paused, files, held, claim, saved, facts, wounded>>

\* LinuxPixelSignalGuard::install, for the cards that have one.
InstallGuard ==
  /\ pc = "Guard" /\ pc' = "Create"
  /\ guard' = (card \in Guarded) /\ signal' = FALSE
  /\ UNCHANGED <<device, screen, paused, files, held, claim, saved, facts, wounded>>

\* The first stage of each operation.
First(c) ==
  CASE c = "pixel" -> "OpenTarget" [] c = "repaint" -> "Repaint" [] c = "touch" -> "Pump"
    [] c = "grab" -> "Acquire" [] c = "foreground" -> "Lease"
    [] c = "characterize" -> "Request"

\* create_new and sync_all: the file is claimed before anything is tried, or the card
\* ends and its guard is dropped.
CreateResult ==
  /\ pc = "Create"
  /\ \/ /\ result[path] = "absent"
        /\ result' = [result EXCEPT ![path] = "empty"] /\ pc' = First(card)
        /\ steps' = MaxSteps
        /\ UNCHANGED <<input, grabbed, taps, read, signals, claim, saved, facts>>
     \/ Gone /\ UNCHANGED result
  /\ UNCHANGED <<device, screen, paused, profile, report, wounded>>

(***************************************************************************)
(* The pixel card                                                          *)
(***************************************************************************)
\* Steps of an operation differ in these alone.
Stage(from, to) ==
  /\ pc = from /\ pc' = to
  /\ UNCHANGED <<device, files, signals, claim>>

Learn(new) == facts' = facts \cup new

Quiet == UNCHANGED <<paused, held, saved, wounded>>

\* LinuxKoa3PixelTarget::open and LinuxForegroundDisplayTarget::open query the
\* framebuffer again before they map it; either may fail.  An unopened pixel target
\* is not followed by a repaint.
TargetSame ==
  FramebufferSame(device.framebuffers[runtime.framebuffer.device], runtime)

OpenTarget ==
  /\ \/ /\ Stage("OpenTarget", IF card = "pixel" THEN "Snapshot" ELSE "Present")
        /\ TargetSame /\ Learn({"open"})
     \/ /\ Stage("OpenTarget", IF card = "pixel" THEN "Finish" ELSE "Return")
        /\ UNCHANGED facts
  /\ Quiet /\ UNCHANGED screen

\* execute, one call after the other: snapshot_region,
Snapshot ==
  /\ Stage("Snapshot", "Paint") /\ saved' = memory
  /\ UNCHANGED <<screen, paused, held, facts, wounded>>

\* write_region with the pattern,
Paint ==
  /\ Stage("Paint", "Submit") /\ memory' = "pattern" /\ Quiet /\ UNCHANGED <<panel, facts>>

\* submit_refresh, whose failure skips the dwell,
Submit ==
  /\ \/ Stage("Submit", "Dwell") /\ panel' = memory
     \/ Stage("Submit", "Restore") /\ UNCHANGED panel
  /\ Quiet /\ UNCHANGED <<memory, facts>>

\* three seconds for the operator,
Dwell == Stage("Dwell", "Restore") /\ Learn({"operation"}) /\ Quiet /\ UNCHANGED screen

\* and write_region again, whatever happened before.
Restore ==
  /\ Stage("Restore", "Close") /\ memory' = saved /\ Quiet /\ UNCHANGED <<panel, facts>>

\* close: munmap, which may fail and then only spoils the evidence.
Close ==
  /\ Stage("Close", IF card = "pixel" THEN "Repaint" ELSE "Return")
  /\ \E new \in {{}, {"close"}} : Learn(new)
  /\ Quiet /\ UNCHANGED screen

(***************************************************************************)
(* The stock repaint                                                       *)
(***************************************************************************)
\* run_exact: xrefresh within five seconds, or killed and reaped.  The stock programs
\* draw everything anew, if they are not stopped.
Repaint ==
  /\ Stage("Repaint", IF card \in Guarded THEN "Finish" ELSE "Prompt")
  /\ \/ /\ Learn({"repaint"}) /\ UNCHANGED wounded
        /\ IF paused THEN UNCHANGED screen ELSE memory' = "stock" /\ panel' = "stock"
     \/ wounded' = TRUE /\ UNCHANGED <<screen, facts>>
  /\ UNCHANGED <<paused, held, saved>>

(***************************************************************************)
(* The characterization                                                    *)
(***************************************************************************)
\* execute_once: the node opened for reading and one ioctl, which shows what is in the
\* memory; either may fail, and nothing is undone.
Request ==
  /\ \/ Stage("Request", "Prompt") /\ Learn({"submitted"}) /\ panel' = memory
     \/ Stage("Request", "Prompt") /\ UNCHANGED <<facts, panel>>
  /\ Quiet /\ UNCHANGED memory

(***************************************************************************)
(* The touch cards                                                         *)
(***************************************************************************)
\* ExclusiveInputSession::acquire: EVIOCGRAB, whose failure closes the descriptor.
Acquire ==
  /\ \/ /\ Stage("Acquire", "Pump") /\ Learn({"grab"})
        /\ grabbed' = TRUE /\ UNCHANGED <<input, taps, read>>
     \/ /\ Stage("Acquire", "Write") /\ input' = Absent /\ taps' = <<>>
        /\ UNCHANGED <<facts, grabbed, read>>
  /\ UNCHANGED <<screen, paused, saved, steps, wounded>>

\* Koa3TouchReadCard::observe: the state after one more phase, and after the contacts
\* of n taps.
Observed(state, phase) ==
  CASE state = "waiting" /\ phase = "Pressed"  -> "active"
    [] state = "active"  /\ phase = "Moved"    -> "active"
    [] state = "active"  /\ phase = "Released" -> "complete"
    [] OTHER -> "refused"

Observe(n) ==
  FoldLeft(Observed, "waiting", FlattenSeq([i \in 1 .. n |-> <<"Pressed", "Released">>]))

AfterPump == IF card = "grab" THEN "Release" ELSE "Close input"

\* Mutant: the loop waits for its touch and nothing else.
PumpUntilTouched ==
  /\ Stage("Pump", AfterPump) /\ read < Len(taps) /\ read' = Len(taps)
  /\ IF Observe(Len(taps) - read) = "complete" THEN Learn({"read"}) ELSE UNCHANGED facts
  /\ UNCHANGED <<screen, paused, input, grabbed, taps, steps, saved, wounded>>

\* step_at: nothing to read, or everything queued at once, of which one complete
\* sequence is what the card wants and more is an error; the deadline, the end of the
\* steps and any failure end the loop.
Pump ==
  /\ \/ Stage("Pump", "Pump") /\ steps > 0 /\ steps' = steps - 1 /\ UNCHANGED <<read, facts>>
     \/ /\ steps > 0 /\ read < Len(taps) /\ steps' = steps - 1 /\ read' = Len(taps)
        /\ Stage("Pump", AfterPump)
        /\ IF Observe(Len(taps) - read) = "complete" THEN Learn({"read"}) ELSE UNCHANGED facts
     \/ Stage("Pump", AfterPump) /\ UNCHANGED <<steps, read, facts>>
  /\ UNCHANGED <<screen, paused, input, grabbed, taps, saved, wounded>>

\* release: one EVIOCGRAB, and the descriptors closed whether it succeeds or not.
Release ==
  /\ pc = "Release" /\ \E new \in {{}, {"release"}} : Learn(new)
  /\ Stage("Release", IF {"read", "release"} \subseteq facts' THEN "Prompt" ELSE "Write")
  /\ grabbed' = FALSE /\ input' = Absent
  /\ UNCHANGED <<screen, paused, taps, read, steps, saved, wounded>>

\* The touch card drops its session, then asks if it classified a touch.
CloseInput ==
  /\ Stage("Close input", IF "read" \in facts THEN "Prompt" ELSE "Write")
  /\ input' = Absent
  /\ UNCHANGED <<screen, paused, grabbed, taps, read, steps, saved, facts, wounded>>

(***************************************************************************)
(* The foreground card                                                     *)
(***************************************************************************)
\* The device with its panel upright (1) or inverted (2).
Polarised(d, g) == [d EXCEPT !.framebuffers = [n \in DOMAIN @ |-> [@[n] EXCEPT !.gray = g]]]

DayMode(d) == Polarised(d, 1)

\* acquire_foreground (Foreground has its steps): the stock programs are stopped and
\* the inversion cleared, unless the report itself was taken of an inverted panel.  A
\* failure is rolled back, and the roll-back may fail.
Lease ==
  /\ pc = "Lease"
  /\ \/ /\ runtime.framebuffer.gray = 1 /\ ~paused
        /\ Learn({"acquire"}) /\ pc' = "OpenTarget"
        /\ paused' = TRUE /\ device' = DayMode(device) /\ UNCHANGED wounded
     \/ /\ pc' = "Hide" /\ UNCHANGED <<facts, device>>
        /\ \/ UNCHANGED <<paused, wounded>>
           \/ paused' = TRUE /\ wounded' = TRUE
  /\ UNCHANGED <<screen, files, held, signals, claim, saved>>

\* present_if_needed: one full frame (Display has its steps).
Present ==
  /\ \/ /\ Stage("Present", "Hold") /\ Learn({"presented"})
        /\ memory' = "shell" /\ panel' = "shell"
     \/ /\ Stage("Present", "Close") /\ UNCHANGED <<panel, facts>>
        /\ memory' \in {memory, "shell"}
  /\ Quiet

\* Twenty seconds, or until a signal is pending.
Hold ==
  /\ \/ Stage("Hold", "Close") /\ Learn({"held"})
     \/ Stage("Hold", "Close") /\ signal /\ UNCHANGED facts
  /\ Quiet /\ UNCHANGED screen

\* lease.restore: stock continues and is repainted; any of it may fail.
Return ==
  /\ Stage("Return", "Hide")
  /\ \/ /\ Learn({"restore"}) /\ paused' = FALSE /\ UNCHANGED wounded
        /\ memory' = "stock" /\ panel' = "stock"
     \/ /\ wounded' = TRUE /\ paused' \in BOOLEAN /\ UNCHANGED <<facts, screen>>
  /\ UNCHANGED <<held, saved>>

\* ui.hide.
Hide ==
  /\ Stage("Hide", "Finish") /\ \E new \in {{}, {"hide"}} : Learn(new)
  /\ Quiet /\ UNCHANGED screen

(***************************************************************************)
(* After the operation                                                     *)
(***************************************************************************)
\* finish: the handlers first, the deferred signal next.  The pixel card asks nothing
\* after a signal, the foreground card does; neither does when a handler is not restored.
Finish ==
  /\ pc = "Finish" /\ guard' = FALSE
  /\ \/ /\ Learn({"guard"} \cup (IF signal THEN {} ELSE {"no signal"}))
        /\ pc' = IF signal /\ card = "pixel" THEN "Write" ELSE "Prompt"
     \/ pc' = "Write" /\ UNCHANGED facts
  /\ UNCHANGED <<device, screen, paused, files, held, signal, claim, saved, wounded>>

\* What an operator can truthfully answer.  Healthy: the display shows stock, and
\* touching it does what it should.
Healthy == IF panel = "stock" /\ ~paused /\ ~grabbed THEN {"healthy"} ELSE {}

PixelAnswers == (IF "operation" \in facts THEN {"seen"} ELSE {}) \cup Healthy

\* Blocked: a tap made under the grab; responded: one made now.
GrabAnswers ==
  (IF \E i \in DOMAIN taps : taps[i] = "card" THEN {"blocked"} ELSE {})
    \cup (IF paused THEN {} ELSE {"responded"}) \cup Healthy

\* The touch card grabs nothing: the tap it read is stock's too.
TouchAnswers ==
  (IF (\E i \in DOMAIN taps : taps[i] = "everyone") /\ ~paused THEN {"responded"} ELSE {})
    \cup Healthy

RepaintAnswers == Healthy

\* Unchanged, updated or flashed: asked of a request that was made.
PlanAnswers == (IF "submitted" \in facts THEN {"seen"} ELSE {}) \cup Healthy

\* Asked only of a frame that was presented.
ForegroundAnswers == (IF "presented" \in facts THEN {"seen"} ELSE {}) \cup Healthy

Answers ==
  CASE card = "pixel" -> PixelAnswers [] card = "grab" -> GrabAnswers
    [] card = "touch" -> TouchAnswers [] card = "repaint" -> RepaintAnswers
    [] card = "foreground" -> ForegroundAnswers [] card = "characterize" -> PlanAnswers

\* The truth, or "uncertain" to all of it.
Prompt ==
  /\ Stage("Prompt", "Write") /\ (Learn(Answers) \/ UNCHANGED facts)
  /\ Quiet /\ UNCHANGED screen

\* A trace that does not validate is not written: the claimed file stays empty.
WriteTrace ==
  /\ pc = "Write" /\ card = "characterize" /\ Gone
  /\ result' = [result EXCEPT ![path] =
                  IF ~BuildsTrace(runtime.plan, runtime.report) THEN "empty"
                  ELSE IF PlanFacts \subseteq facts THEN "passed" ELSE "failed"]
  /\ UNCHANGED <<device, screen, paused, profile, report, wounded>>

\* The evidence, synced; the card ends.
Write ==
  /\ pc = "Write" /\ card # "characterize" /\ Gone
  /\ result' = [result EXCEPT ![path] = IF Required(card) \subseteq facts THEN "passed"
                                        ELSE "failed"]
  /\ UNCHANGED <<device, screen, paused, profile, report, wounded>>

(***************************************************************************)
(* Around the card                                                         *)
(***************************************************************************)
Running == pc # "Idle"

\* Something of a card is left on the device.
Dirty == paused \/ {memory, panel} \cap {"pattern", "shell"} # {}

\* A report of the device as it is; what cannot be read is missing from it.
Probe ==
  /\ ~Running /\ report.age # "fresh"
  /\ \E faults \in SUBSET ProbeFault :
       /\ Cardinality(faults) <= 1
       /\ report' = Collect(device, faults) @@ [age |-> "fresh"]
  /\ UNCHANGED <<device, screen, paused, profile, result, held, signals, claim, pc, saved,
                 facts, wounded>>

\* The minutes a card allows pass, or the clock is set back: what it says matters no
\* more.
Age ==
  /\ ~Running /\ report.age = "fresh"
  /\ report' = [age |-> "other"]
  /\ UNCHANGED <<device, screen, paused, profile, result, held, signals, claim, pc, saved,
                 facts, wounded>>

\* A passed repaint card is reviewed and its mechanism put into the profile.
Promote ==
  /\ ~Running /\ \E r \in Results : result[r] = "passed"
  /\ profile.runtime # Absent /\ profile.runtime.repaint = Absent
  /\ profile' = [profile EXCEPT !.runtime.repaint = "xrefresh"]
  /\ UNCHANGED <<device, screen, paused, report, result, held, signals, claim, pc, saved,
                 facts, wounded>>

\* A page turn, a clock, a banner: stock draws where the pattern goes.
StockDraws ==
  /\ ~paused /\ memory' = "stock" /\ panel' = "stock"
  /\ saved' = IF saved = "stock" THEN "stale" ELSE saved
  /\ UNCHANGED <<device, paused, files, held, signals, claim, pc, facts, wounded>>

\* A tap, delivered to every open descriptor, or to the card alone under its grab.
Tap ==
  /\ input # Absent /\ Len(taps) < MaxTaps
  /\ taps' = Append(taps, IF grabbed THEN "card" ELSE "everyone")
  /\ UNCHANGED <<device, screen, paused, files, input, grabbed, read, steps, signals, claim,
                 pc, saved, facts, wounded>>

\* KOReader, or stock's own night mode.
Invert ==
  /\ ~paused
  /\ \E g \in {1, 2} : device' = Polarised(device, g)
  /\ UNCHANGED <<screen, paused, files, held, signals, claim, pc, saved, facts, wounded>>

\* SIGHUP, SIGINT or SIGTERM: deferred under a guard, else the end of the card.
Signal ==
  /\ Running
  /\ IF guard THEN signal' = TRUE /\ UNCHANGED <<guard, held, claim, pc, saved, facts>>
     ELSE Gone
  /\ UNCHANGED <<device, screen, paused, files, wounded>>

\* SIGKILL, or a panic: what it did to the screen and to the stock programs stays.
Kill ==
  /\ Running /\ Gone /\ wounded' = (wounded \/ Dirty)
  /\ UNCHANGED <<device, screen, paused, files>>

\* The device starts again, its inputs in any order; files keep.
Reboot ==
  /\ Gone /\ device' \in Devices
  /\ memory' = "stock" /\ panel' = "stock" /\ paused' = FALSE
  /\ wounded' = FALSE
  /\ UNCHANGED files

\* A card in another terminal claims a result file.
OtherTerminal ==
  /\ \E r \in Results :
       /\ result[r] = "absent"
       /\ result' = [result EXCEPT ![r] = "empty"]
  /\ UNCHANGED <<device, screen, paused, profile, report, held, signals, claim, pc, saved,
                 facts, wounded>>

Operation ==
  OpenTarget \/ Snapshot \/ Paint \/ Submit \/ Dwell \/ Restore \/ Close \/ Repaint
  \/ Request \/ Acquire \/ Pump \/ Release \/ CloseInput \/ Lease \/ Present \/ Hold \/ Return \/ Hide
  \/ Finish

Card ==
  \/ \E c \in Cards, r \in Results : Start(c, r)
  \/ \E plan \in Plans : StartPlan(plan)
  \/ OpenFramebuffer \/ OpenInput \/ Revalidated \/ Confirm \/ InstallGuard \/ CreateResult
  \/ Operation \/ Prompt \/ Write \/ WriteTrace

Around ==
  Probe \/ Age \/ Promote \/ StockDraws \/ Tap \/ Invert \/ Signal \/ Kill \/ Reboot
  \/ OtherTerminal

Next == Card \/ Around

\* An operation waits for nobody: its loops are bounded and its calls return.
Spec == Init /\ [][Next]_vars /\ WF_vars(Operation)

(***************************************************************************)
(* Properties                                                              *)
(***************************************************************************)
\* The numbered path in a report may lead elsewhere by the time a card runs.  What a
\* card holds, grabs and maps is what the review named: an input of that name with both
\* axes, a framebuffer of that driver, geometry and rotation.
OperationOnReviewedDevice ==
  LET fb == device.framebuffers[runtime.framebuffer.device]
  IN /\ input # Absent =>
          /\ input.name = profile.runtime.touch
          /\ {profile.runtime.xAxis, profile.runtime.yAxis} \subseteq Codes(input)
     /\ pc \in {"Snapshot", "Paint", "Submit", "Dwell", "Restore", "Present", "Hold"} =>
          fb.driver = profile.runtime.driver /\ SameDisplay(fb, profile)

\* "passed" of a card that writes to the display means the pixels are stock's own
\* again, those in memory too, which nobody sees: what stock drew while the card had
\* its snapshot is not overwritten by it.
PassedLeavesStock ==
  [][\A r \in Results :
       result'[r] = "passed" /\ result[r] # "passed" /\ card \in Guarded \cup {"repaint"} =>
         memory = "stock" /\ panel = "stock" /\ ~paused]_vars

\* Signals come at any moment: unless a card is killed outright, or the device refuses
\* a call, no card ends with its pattern, its frame or a stopped stock program behind.
CleanAfterCard == ~Running /\ Dirty => wounded

InOperation ==
  pc \in {"OpenTarget", "Snapshot", "Paint", "Submit", "Dwell", "Restore", "Close",
          "Repaint", "Acquire", "Pump", "Release", "Close input", "Lease", "Present",
          "Hold", "Return", "Hide", "Finish", "Request"}

\* Whatever is read or not, an operation ends: the touchscreen is not kept, nor the
\* stock programs stopped, for longer than the card's own bounds.
OperationEnds == InOperation ~> ~InOperation

\* The trace of a characterization is built when its request can no longer be taken
\* back: whatever the plan and the report, it is never refused then.
EvidenceIsKept ==
  pc = "Write" /\ card = "characterize" => BuildsTrace(runtime.plan, runtime.report)

\* "It acquires the exact input grab once, classifies one coordinate-redacted touch":
\* the touch it classifies is one that the grab kept from the stock programs.
ClassifiedUnderGrab == card = "grab" /\ "read" \in facts => taps[1] = "card"
=============================================================================
