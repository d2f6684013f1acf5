-------------------------- MODULE Characterization --------------------------
(***************************************************************************)
(* The single-use display characterization: a plan whose every field is    *)
(* pinned by the code, held against a profile and a report before one      *)
(* update request is sent, and the trace that is left of it.  The trace is *)
(* built after the request, and refused when it is not consistent.         *)
(***************************************************************************)
EXTENDS Resolution

(***************************************************************************)
(* The plan                                                                *)
(***************************************************************************)
\* expected_request_size; the ioctl number of each kind is another one, and is
\* written as its kind.
RequestSize == [legacy72 |-> 72, rex80 |-> 80, zelda88 |-> 88]

ExpectedFramebuffer ==
  [device |-> "fb0", driver |-> "mxc_epdc_fb", extent |-> <<1264, 1680>>,
   virtual |-> <<1280, 3584>>, offset |-> <<0, 0>>, line |-> 1280, memory |-> 4587520,
   bits |-> 8, gray |-> 1, pixels |-> "gray8", rotation |-> 0]

\* A region is its left, top, width and height.
ExpectedRequest ==
  [device |-> "fb0", openMode |-> "read only", memory |-> "none", ioctl |-> "zelda88",
   region |-> <<600, 808, 64, 64>>, kind |-> "zelda88", size |-> 88, wait |-> Absent,
   attempts |-> 1]

FramebufferPinned(fb) == fb = ExpectedFramebuffer

\* Mutant: the region of a plan is its author's to choose.
RequestPinnedElsewhere(request) ==
  [request EXCEPT !.region = ExpectedRequest.region] = ExpectedRequest

RequestPinned(request) == request = ExpectedRequest

\* validate_definition.
DefinitionOk(plan) ==
  /\ plan.singleUse /\ plan.profile = "reference" /\ plan.serial = "G0"
  /\ plan.firmware = "5.10" /\ plan.class = <<"elf32", 32>>
  /\ FramebufferPinned(plan.framebuffer)
  /\ RequestPinned(plan.request)

\* validate_against: the profile is the one the plan was written for, field by field,
PlannedProfile(plan, profile) ==
  /\ ProfileOk(profile) /\ profile.id = plan.profile
  /\ profile.review = "ObservedForeground"
  /\ profile.serials = {plan.serial} /\ profile.firmware = {plan.firmware}
  /\ profile.extent = plan.framebuffer.extent /\ profile.bits = plan.framebuffer.bits
  /\ profile.pixels = plan.framebuffer.pixels
  /\ profile.rotation = plan.framebuffer.rotation /\ profile.abi = "zelda88"
  /\ profile.multitouch /\ ~profile.wakealarm /\ ~profile.suspend

\* What the report has at the planned node.
AtPlannedNode(plan, report) ==
  SelectSeq(report.framebuffers, LAMBDA fb : fb.device = plan.request.device)

\* and so is the report: one framebuffer at the planned node, and exactly that one.
PlannedReport(plan, report) ==
  /\ ReportOk(report) /\ report.warnings = {}
  /\ report.serial = plan.serial /\ plan.firmware \in report.firmware
  /\ <<report.class, report.pointer>> = plan.class
  /\ AtPlannedNode(plan, report) = <<plan.framebuffer>>

Planned(plan, profile, report) ==
  /\ DefinitionOk(plan)
  /\ PlannedProfile(plan, profile) /\ PlannedReport(plan, report)
  /\ Matches(profile, report)

(***************************************************************************)
(* The trace                                                               *)
(***************************************************************************)
MaxRegionPixels == 4096

\* framebuffer_fingerprint and validate_framebuffer: the virtual screen holds the
\* visible one, a line holds its pixels and the memory holds the lines.
FingerprintOk(fb) ==
  /\ fb.extent[1] > 0 /\ fb.extent[2] > 0 /\ fb.rotation \in 0 .. 3
  /\ fb.virtual[1] >= fb.extent[1] /\ fb.virtual[2] >= fb.extent[2]
  /\ 8 * fb.line >= fb.extent[1] * fb.bits
  /\ fb.memory >= fb.line * fb.virtual[2]

\* validate_attempt.
AttemptOk(request, completion, fb) ==
  /\ request.region[1] + request.region[3] <= fb.extent[1]
  /\ request.region[2] + request.region[4] <= fb.extent[2]
  /\ request.region[3] * request.region[4] <= MaxRegionPixels
  /\ request.size = RequestSize[request.kind] /\ request.ioctl = request.kind
  /\ request.wait = Absent => completion = Absent

\* build_trace: the framebuffer of the report and the request of the plan, one
\* attempt, no completion, under validate.
BuildsTrace(plan, report) ==
  LET reported == AtPlannedNode(plan, report)
  IN /\ reported # <<>> /\ FingerprintOk(reported[1])
     /\ AttemptOk(plan.request, Absent, reported[1])
=============================================================================
