----------------------------- MODULE Resolution -----------------------------
(***************************************************************************)
(* From a device to the authority to use it: the passive probe describes   *)
(* the device in a report, a reviewed profile says which framebuffer and   *)
(* which touchscreen are meant, and one is resolved against the other.     *)
(* Everything is refused that is missing, ambiguous or contradictory.      *)
(*                                                                         *)
(* A device is a function from device nodes to what answers there; a       *)
(* report is the sequences of what a probe read of it.                     *)
(***************************************************************************)
EXTENDS Integers, Sequences, FiniteSets, SequencesExt

CONSTANTS
  InputNodes,       \* /dev/input/event*, in the order of the directory
  FramebufferNodes, \* /dev/fb*, in the order of the directory
  Absent            \* what a field holds that the report or the profile does not have

ASSUME NodesAssumption == IsInjective(InputNodes) /\ IsInjective(FramebufferNodes)

(***************************************************************************)
(* The probe                                                               *)
(***************************************************************************)
\* What may go wrong while collect runs.  A name that cannot be read, of an input or of
\* a process, is left out without a warning.
ProbeFault == {"serial", "axes", "framebuffer", "name", "executable", "mounts"}
Silent     == {"name"}

\* query_input_axes: the axes whose range the kernel told, none when the node cannot
\* be opened; collect_inputs warns of it.
Axes(input, faults) == IF "axes" \in faults THEN <<>> ELSE input.axes

\* collect_inputs: one entry per node, in order.
CollectInputs(device, faults) ==
  LET present == SelectSeq(InputNodes, LAMBDA n : n \in DOMAIN device.inputs)
      entry(n) == [device.inputs[n] EXCEPT
                     !.name = IF "name" \in faults THEN Absent ELSE @,
                     !.axes = Axes(device.inputs[n], faults)] @@ [device |-> n]
  IN [i \in DOMAIN present |-> entry(present[i])]

\* collect_framebuffers: a node that cannot be opened or queried is left out.
CollectFramebuffers(device, faults) ==
  LET present == SelectSeq(FramebufferNodes, LAMBDA n : n \in DOMAIN device.framebuffers)
  IN IF "framebuffer" \in faults THEN <<>>
     ELSE [i \in DOMAIN present |-> device.framebuffers[present[i]] @@ [device |-> present[i]]]

\* collect_system: the pointer width is the probe's own, the class is read from its
\* executable.
CollectClass(device, faults) == IF "executable" \in faults THEN Absent ELSE device.class

\* collect_identity.
CollectSerial(device, faults) == IF "serial" \in faults THEN Absent ELSE device.serial

\* collect_power: what a profile may ask for.
CollectPower(device) == [wakealarm |-> device.wakealarm, suspend |-> device.suspend]

\* collect_storage: the user store is there, mounted and writable.
CollectStorage(faults) == "mounts" \notin faults

\* collect_processes, of the core stock ones.
CollectProcesses(device, faults) == IF "name" \in faults THEN {} ELSE device.processes

\* collect: a list that comes out empty is one more warning.
Collect(device, faults) ==
  LET inputs       == CollectInputs(device, faults)
      framebuffers == CollectFramebuffers(device, faults)
  IN [serial       |-> CollectSerial(device, faults),
      firmware     |-> device.firmware,
      inputs       |-> inputs,
      framebuffers |-> framebuffers,
      power        |-> CollectPower(device),
      class        |-> CollectClass(device, faults),
      pointer      |-> device.pointer,
      userstore    |-> CollectStorage(faults),
      processes    |-> CollectProcesses(device, faults),
      warnings     |-> (faults \ Silent)
                         \cup (IF inputs = <<>> THEN {"no input"} ELSE {})
                         \cup (IF framebuffers = <<>> THEN {"no framebuffer"} ELSE {})]

(***************************************************************************)
(* The profile                                                             *)
(***************************************************************************)
\* RefreshCapabilities::try_new.
RefreshOk(refresh) == refresh.partial \/ refresh.full

\* validate_runtime_selection: the two axes differ, a refresh names a mode and the
\* update ABI the display of the profile has.
SelectionOk(runtime, profile) ==
  /\ runtime.driver # Absent /\ runtime.touch # Absent
  /\ runtime.xAxis # runtime.yAxis
  /\ runtime.refresh # Absent =>
       RefreshOk(runtime.refresh) /\ profile.abi = runtime.refresh.abi

\* DeviceProfile::validate.
ProfileOk(profile) ==
  /\ profile.serials # {} \/ profile.review = "EvidencePending"
  /\ profile.extent[1] > 0 /\ profile.extent[2] > 0 /\ profile.bits > 0
  /\ profile.runtime # Absent => SelectionOk(profile.runtime, profile)

\* ProbeReport::validate, of a report the probe wrote: no framebuffer without an
\* extent or with lines shorter than its pixels.
ReportOk(report) ==
  \A i \in DOMAIN report.framebuffers :
    LET fb == report.framebuffers[i]
    IN /\ fb.extent[1] > 0 /\ fb.extent[2] > 0
       /\ 8 * fb.line >= fb.extent[1] * fb.bits

\* The geometry both evaluate and select_framebuffer ask for.
SameDisplay(fb, profile) ==
  /\ fb.extent = profile.extent /\ fb.bits = profile.bits
  /\ profile.pixels \in {Absent, fb.pixels}
  /\ profile.rotation \in {Absent, fb.rotation}

MultitouchAxes == {53, 54}

Codes(input) == {input.axes[i].code : i \in DOMAIN input.axes}

\* evaluate, its status being Match.  Some input has to have the two axes, not the
\* one the runtime selection will name.
Matches(profile, report) ==
  /\ report.serial \in profile.serials
  /\ profile.firmware = {} \/ report.firmware \cap profile.firmware # {}
  /\ \E i \in DOMAIN report.framebuffers : SameDisplay(report.framebuffers[i], profile)
  /\ profile.multitouch =>
       \E i \in DOMAIN report.inputs : MultitouchAxes \subseteq Codes(report.inputs[i])
  /\ profile.wakealarm => report.power.wakealarm
  /\ profile.suspend => report.power.suspend

(***************************************************************************)
(* Resolution                                                              *)
(***************************************************************************)
\* select_framebuffer: the places in the report of the framebuffers to choose from.
Framebuffers(profile, report) ==
  {i \in DOMAIN report.framebuffers :
     /\ report.framebuffers[i].driver = profile.runtime.driver
     /\ SameDisplay(report.framebuffers[i], profile)}

\* select_touch: the places of the inputs to choose from.
Touches(profile, report) ==
  {i \in DOMAIN report.inputs : report.inputs[i].name = profile.runtime.touch}

\* The one that is chosen, nothing being ambiguous.
ChosenFramebuffer(profile, report) ==
  report.framebuffers[CHOOSE i \in Framebuffers(profile, report) : TRUE]

ChosenTouch(profile, report) ==
  report.inputs[CHOOSE i \in Touches(profile, report) : TRUE]

\* select_axis: told once, with a range that is not empty.
AxisOk(input, code) ==
  LET told == {i \in DOMAIN input.axes : input.axes[i].code = code}
  IN /\ Cardinality(told) = 1
     /\ \A i \in told : input.axes[i].minimum < input.axes[i].maximum

\* Gray8FramebufferLayout::try_from_capability (see Display for the bounds).
LayoutOk(fb) == fb.bits = 8 /\ fb.pixels = "gray8" /\ fb.memory >= fb.line * fb.extent[2]

\* ResolvedRuntimeDevice::resolve: the conditions, in the order of the code.
Resolves(profile, report) ==
  /\ ProfileOk(profile) /\ ReportOk(report) /\ report.warnings = {}
  /\ profile.review # "EvidencePending"
  /\ Matches(profile, report)
  /\ profile.runtime # Absent
  /\ Cardinality(Framebuffers(profile, report)) = 1
  /\ LET fb == ChosenFramebuffer(profile, report)
     IN LayoutOk(fb) /\ fb.rotation \in 0 .. 3
  /\ Cardinality(Touches(profile, report)) = 1
  /\ LET touch == ChosenTouch(profile, report)
     IN AxisOk(touch, profile.runtime.xAxis) /\ AxisOk(touch, profile.runtime.yAxis)
  /\ <<report.class, report.pointer>> \in {<<"elf32", 32>>, <<"elf64", 64>>}
  /\ profile.runtime.refresh # Absent => RefreshOk(profile.runtime.refresh)

\* The fields of ResolvedRuntimeDevice a caller goes by.
Resolved(profile, report) ==
  [id          |-> profile.id,
   framebuffer |-> ChosenFramebuffer(profile, report),
   input       |-> ChosenTouch(profile, report),
   refresh     |-> profile.runtime.refresh,
   repaint     |-> profile.runtime.repaint]

(***************************************************************************)
(* Revalidation                                                            *)
(***************************************************************************)
\* query_capability of an open framebuffer against the resolved one, whose device is
\* where it was opened.
FramebufferSame(fb, runtime) ==
  \A field \in DOMAIN fb : fb[field] = runtime.framebuffer[field]

\* Mutant: what opens at the resolved path is taken for the resolved input.
InputSamePath(input, runtime) == TRUE

\* query_snapshot of an open input against the resolved one: it asks for the axes that
\* one lists and for no others, and each answers as it did.
InputSame(input, runtime) ==
  /\ \A field \in DOMAIN input \ {"axes"} : input[field] = runtime.input[field]
  /\ ToSet(runtime.input.axes) \subseteq ToSet(input.axes)
=============================================================================
