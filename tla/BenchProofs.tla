----------------------------- MODULE BenchProofs -----------------------------
(***************************************************************************)
(* What the bench cards promise, for every device, profile, plan and       *)
(* result file, and for any number of taps and steps: authority that stays *)
(* what the review named, evidence that is never refused, a device left    *)
(* clean, and "passed" only of a display that is the stock programs' own.  *)
(***************************************************************************)
EXTENDS Bench, FiniteSetTheorems, TLAPS

(***************************************************************************)
(* The inductive invariant                                                 *)
(***************************************************************************)
\* The stages of an operation.
OperationStage(c, p) ==
  \/ c = "pixel" /\ p \in {"OpenTarget", "Snapshot", "Paint", "Submit", "Dwell", "Restore",
                           "Close", "Repaint", "Finish"}
  \/ c = "repaint" /\ p = "Repaint"
  \/ c = "touch" /\ p \in {"Pump", "Close input"}
  \/ c = "grab" /\ p \in {"Acquire", "Pump", "Release"}
  \/ c = "foreground" /\ p \in {"Lease", "OpenTarget", "Present", "Hold", "Close", "Return",
                                "Hide", "Finish"}
  \/ c = "characterize" /\ p = "Request"

Preparing(c, p) ==
  \/ c \in Cards /\ p \in {"OpenFramebuffer", "OpenInput"}
  \/ c \in (Cards \ {"revalidate"}) \cup {"characterize"} /\ p \in {"Confirm", "Guard", "Create"}

Concluding(c, p) ==
  c \in (Cards \ {"revalidate"}) \cup {"characterize"} /\ p \in {"Prompt", "Write"}

\* Which stages a card passes, and that signals are deferred from the claim of the
\* result file to the end of the operation.
Control(c, p, g) ==
  /\ p = "Idle" \/ Preparing(c, p) \/ OperationStage(c, p) \/ Concluding(c, p)
  /\ IF c \in Guarded /\ (p = "Create" \/ OperationStage(c, p)) THEN g = TRUE ELSE g = FALSE

\* A characterization runs by a plan that makes a trace.
Traceable(c, p, rt) == p # "Idle" /\ c = "characterize" => BuildsTrace(rt.plan, rt.report)

Ours == {"pattern", "shell"}

\* Where something of a card may be on the device, none of them having been killed.
Accounted(w, c, p, ps, m, pn, sv) ==
  ~w =>
    /\ ps => c = "foreground" /\ p \in {"OpenTarget", "Present", "Hold", "Close", "Return"}
    /\ m \in Ours => \/ c = "pixel" /\ p \in {"Submit", "Dwell", "Restore"}
                     \/ c = "foreground" /\ p \in {"Hold", "Close", "Return"}
    /\ pn \in Ours => \/ c = "pixel" /\ p \in {"Dwell", "Restore", "Close", "Repaint"}
                      \/ c = "foreground" /\ p \in {"Hold", "Close", "Return"}
    /\ c = "pixel" /\ p \in {"Paint", "Submit", "Dwell", "Restore"} => sv \notin Ours

\* What a card has noted is true of the display when it is noted, and stays true.
Noted(f, p, ps, m, pn) ==
  /\ "healthy" \in f => p = "Write" /\ pn = "stock" /\ ~ps
  /\ "repaint" \in f => /\ p \in {"Finish", "Prompt", "Write"}
                        /\ ~ps => m = "stock" /\ pn = "stock"
  /\ "restore" \in f => /\ p \in {"Hide", "Finish", "Prompt", "Write"}
                        /\ ~ps /\ m = "stock" /\ pn = "stock"

\* The framebuffer fb and the input in are the ones the profile names.
NamedFramebuffer(fb, pf) == fb.driver = pf.runtime.driver /\ SameDisplay(fb, pf)

NamedInput(in, pf) ==
  in.name = pf.runtime.touch /\ {pf.runtime.xAxis, pf.runtime.yAxis} \subseteq Codes(in)

\* A descriptor of the target is open.
Opened == {"Snapshot", "Paint", "Submit", "Dwell", "Restore", "Present", "Hold"}

\* From the resolution to what is open: each is what the review named.
Reviewed(d, pf, c, p, rt, in) ==
  /\ Answering(d)
  /\ p = "Idle" => in = Absent
  /\ p # "Idle" /\ c \in Cards =>
       NamedFramebuffer(rt.framebuffer, pf) /\ NamedInput(rt.input, pf)
  /\ p # "Idle" /\ c \in Cards /\ p # "OpenFramebuffer" =>
       rt.framebuffer.device \in DOMAIN d.framebuffers
  /\ in # Absent => NamedInput(in, pf)
  /\ p \in Opened => NamedFramebuffer(d.framebuffers[rt.framebuffer.device], pf)

IInv ==
  /\ result \in [Results -> {"absent", "empty", "failed", "passed"}]
  /\ Control(card, pc, guard)
  /\ Traceable(card, pc, runtime)
  /\ Accounted(wounded, card, pc, paused, memory, panel, saved)
  /\ Noted(facts, pc, paused, memory, panel)
  /\ Reviewed(device, profile, card, pc, runtime, input)

(***************************************************************************)
(* The resolution and the plan                                             *)
(***************************************************************************)
\* Where there is one element, one is chosen of them.
LEMMA OneIsThere == ASSUME NEW S, Cardinality(S) = 1 PROVE (CHOOSE e \in S : TRUE) \in S
BY FS_EmptySet

\* AxisOk: an axis with a range is one of the input's.
LEMMA AxisIsThere ==
  ASSUME NEW in, NEW code, AxisOk(in, code) PROVE code \in Codes(in)
<1> DEFINE told == {i \in DOMAIN in.axes : in.axes[i].code = code}
<1>1. Cardinality(told) = 1
  BY DEF AxisOk
<1>2. PICK i \in DOMAIN in.axes : in.axes[i].code = code
  <2>1. told # {}
    BY <1>1, FS_EmptySet
  <2> QED
    BY <2>1
<1> QED
  BY <1>2 DEF Codes

\* ResolvedRuntimeDevice::resolve: a resolved device is the one the profile names.
LEMMA ResolvesToNamed ==
  ASSUME NEW pf, NEW rp, Resolves(pf, rp)
  PROVE  /\ NamedFramebuffer(Resolved(pf, rp).framebuffer, pf)
         /\ NamedInput(Resolved(pf, rp).input, pf)
<1>1. (CHOOSE i \in Framebuffers(pf, rp) : TRUE) \in Framebuffers(pf, rp)
  BY OneIsThere DEF Resolves
<1>2. (CHOOSE i \in Touches(pf, rp) : TRUE) \in Touches(pf, rp)
  BY OneIsThere DEF Resolves
<1>3. NamedFramebuffer(ChosenFramebuffer(pf, rp), pf)
  BY <1>1 DEF Framebuffers, ChosenFramebuffer, NamedFramebuffer
<1>4. ChosenTouch(pf, rp).name = pf.runtime.touch
  BY <1>2 DEF Touches, ChosenTouch
<1>5. /\ pf.runtime.xAxis \in Codes(ChosenTouch(pf, rp))
      /\ pf.runtime.yAxis \in Codes(ChosenTouch(pf, rp))
  BY AxisIsThere DEF Resolves
<1> QED
  BY <1>3, <1>4, <1>5 DEF Resolved, NamedInput

\* validate_definition and validate_against: a trace of a plan they accept is built,
\* whatever the panel has done with the request.
LEMMA PlannedIsTraceable ==
  ASSUME NEW plan, NEW pf, NEW rp, Planned(plan, pf, rp) PROVE BuildsTrace(plan, rp)
<1>1. /\ AtPlannedNode(plan, rp) = <<plan.framebuffer>>
      /\ plan.framebuffer = ExpectedFramebuffer /\ plan.request = ExpectedRequest
  BY DEF Planned, PlannedReport, DefinitionOk, FramebufferPinned, RequestPinned
<1>2. AtPlannedNode(plan, rp) # <<>> /\ AtPlannedNode(plan, rp)[1] = ExpectedFramebuffer
  BY <1>1
<1>3. FingerprintOk(ExpectedFramebuffer)
  BY DEF FingerprintOk, ExpectedFramebuffer
<1>4. AttemptOk(ExpectedRequest, Absent, ExpectedFramebuffer)
  BY DEF AttemptOk, ExpectedRequest, ExpectedFramebuffer, MaxRegionPixels, RequestSize
<1> QED
  BY <1>1, <1>2, <1>3, <1>4 DEF BuildsTrace

(***************************************************************************)
(* Every step keeps it                                                     *)
(***************************************************************************)
\* LinuxPixelSignalGuard is for two cards only.
LEMMA Unguarded == ASSUME InstallGuard, card \notin Guarded PROVE guard' = FALSE
<1>1. guard' = (card \in Guarded)
  BY DEF InstallGuard
<1>2. (card \in Guarded) = FALSE
  OBVIOUS
<1> QED
  BY <1>1, <1>2

\* What an operator can truthfully answer says of the display what it shows.
LEMMA AnswersAreTrue ==
  ASSUME Control(card, pc, guard), pc = "Prompt"
  PROVE  /\ "healthy" \in Answers => panel = "stock" /\ ~paused
         /\ "repaint" \notin Answers /\ "restore" \notin Answers
<1>1. card \in {"pixel", "touch", "grab", "repaint", "foreground", "characterize"}
  BY DEF Control, Preparing, OperationStage, Concluding, Cards
<1>2. \A a \in Healthy : a = "healthy" /\ panel = "stock" /\ ~paused
  BY DEF Healthy
<1> QED
  BY <1>1, <1>2 DEF Answers, PixelAnswers, GrabAnswers, TouchAnswers, RepaintAnswers,
                    ForegroundAnswers, PlanAnswers

\* FramebufferSame and InputSame: what compares equal is named by the profile too.
LEMMA SameFramebufferNamed ==
  ASSUME NEW fb, NEW rt, NEW pf, FramebufferSame(fb, rt), NamedFramebuffer(rt.framebuffer, pf),
         {"driver", "extent", "bits", "pixels", "rotation"} \subseteq DOMAIN fb
  PROVE  NamedFramebuffer(fb, pf)
BY DEF FramebufferSame, NamedFramebuffer, SameDisplay

LEMMA SameInputNamed ==
  ASSUME NEW in, NEW rt, NEW pf, InputSame(in, rt), NamedInput(rt.input, pf),
         {"name", "axes"} \subseteq DOMAIN in
  PROVE  NamedInput(in, pf)
<1>1. \A i \in DOMAIN rt.input.axes :
        \E j \in DOMAIN in.axes : in.axes[j] = rt.input.axes[i]
  BY DEF InputSame, ToSet
<1>2. Codes(rt.input) \subseteq Codes(in)
  BY <1>1 DEF Codes
<1> QED
  BY <1>2 DEF InputSame, NamedInput

\* Inverting a panel changes nothing else of a device.
LEMMA PolarisedNamed ==
  ASSUME NEW d, Answering(d), NEW g
  PROVE  /\ Answering(Polarised(d, g))
         /\ DOMAIN Polarised(d, g).framebuffers = DOMAIN d.framebuffers
         /\ \A pf : \A n \in DOMAIN d.framebuffers :
              NamedFramebuffer(d.framebuffers[n], pf)
                => NamedFramebuffer(Polarised(d, g).framebuffers[n], pf)
<1> DEFINE e == Polarised(d, g)
<1>1. /\ e.framebuffers = [n \in DOMAIN d.framebuffers |-> [d.framebuffers[n] EXCEPT !.gray = g]]
      /\ e.inputs = d.inputs /\ DOMAIN e = DOMAIN d
  BY DEF Answering, Polarised
<1>2. \A n \in DOMAIN d.framebuffers :
        /\ DOMAIN e.framebuffers[n] = DOMAIN d.framebuffers[n]
        /\ \A field \in DOMAIN d.framebuffers[n] :
             field # "gray" => e.framebuffers[n][field] = d.framebuffers[n][field]
  BY <1>1
<1>3. Answering(e)
  BY <1>1, <1>2 DEF Answering
<1> HIDE DEF e
<1>4. \A pf : \A n \in DOMAIN d.framebuffers :
        NamedFramebuffer(d.framebuffers[n], pf) => NamedFramebuffer(e.framebuffers[n], pf)
  BY <1>2 DEF Answering, NamedFramebuffer, SameDisplay
<1> QED
  BY <1>1, <1>3, <1>4 DEF e

\* Every stage is followed by one the card has, and the guard lasts as long as the
\* operation.
LEMMA ControlStep ==
  ASSUME Control(card, pc, guard), [Next]_vars
  PROVE  Control(card, pc, guard)'
<1> USE DEF Control, Preparing, OperationStage, Concluding, Cards, Guarded, Stage, Gone,
            Learn, Quiet, screen, files, held, signals, claim
<1>1. CASE UNCHANGED vars
  BY <1>1 DEF vars
<1>2. ASSUME NEW c \in Cards, NEW r \in Results, Start(c, r)
      PROVE  Control(card, pc, guard)'
  BY <1>2 DEF Start
<1>3. ASSUME NEW plan \in Plans, StartPlan(plan)
      PROVE  Control(card, pc, guard)'
  BY <1>3 DEF StartPlan
<1>4. CASE OpenFramebuffer
  BY <1>4 DEF OpenFramebuffer
<1>5. CASE OpenInput
  BY <1>5 DEF OpenInput
<1>6. CASE Revalidated
  BY <1>6 DEF Revalidated
<1>7. CASE Confirm
  BY <1>7 DEF Confirm
<1>8. CASE InstallGuard
  <2>1. CASE card \in Guarded
    BY <1>8, <2>1 DEF InstallGuard
  <2>2. CASE card \notin Guarded
    BY <1>8, <2>2, Unguarded DEF InstallGuard
  <2> QED
    BY <2>1, <2>2
<1>9. CASE CreateResult
  BY <1>9 DEF CreateResult, First
<1>10. CASE OpenTarget
  BY <1>10 DEF OpenTarget
<1>11. CASE Snapshot
  BY <1>11 DEF Snapshot
<1>12. CASE Paint
  BY <1>12 DEF Paint
<1>13. CASE Submit
  BY <1>13 DEF Submit
<1>14. CASE Dwell
  BY <1>14 DEF Dwell
<1>15. CASE Restore
  BY <1>15 DEF Restore
<1>16. CASE Close
  BY <1>16 DEF Close
<1>17. CASE Repaint
  BY <1>17 DEF Repaint
<1>18. CASE Request
  BY <1>18 DEF Request
<1>19. CASE Acquire
  BY <1>19 DEF Acquire
<1>20. CASE Pump
  BY <1>20 DEF Pump, AfterPump
<1>21. CASE Release
  BY <1>21 DEF Release
<1>22. CASE CloseInput
  BY <1>22 DEF CloseInput
<1>23. CASE Lease
  BY <1>23 DEF Lease
<1>24. CASE Present
  BY <1>24 DEF Present
<1>25. CASE Hold
  BY <1>25 DEF Hold
<1>26. CASE Return
  BY <1>26 DEF Return
<1>27. CASE Hide
  BY <1>27 DEF Hide
<1>28. CASE Finish
  BY <1>28 DEF Finish
<1>29. CASE Prompt
  BY <1>29 DEF Prompt
<1>30. CASE Write
  BY <1>30 DEF Write
<1>31. CASE WriteTrace
  BY <1>31 DEF WriteTrace
<1>32. CASE Probe
  BY <1>32 DEF Probe
<1>33. CASE Age
  BY <1>33 DEF Age
<1>34. CASE Promote
  BY <1>34 DEF Promote
<1>35. CASE StockDraws
  BY <1>35 DEF StockDraws
<1>36. CASE Tap
  BY <1>36 DEF Tap
<1>37. CASE Invert
  BY <1>37 DEF Invert
<1>38. CASE Signal
  BY <1>38 DEF Signal
<1>39. CASE Kill
  BY <1>39 DEF Kill
<1>40. CASE Reboot
  BY <1>40 DEF Reboot
<1>41. CASE OtherTerminal
  BY <1>41 DEF OtherTerminal
<1> QED
  BY <1>1, <1>2, <1>3, <1>4, <1>5, <1>6, <1>7, <1>8, <1>9, <1>10, <1>11, <1>12, <1>13,
     <1>14, <1>15, <1>16, <1>17, <1>18, <1>19, <1>20, <1>21, <1>22, <1>23, <1>24, <1>25,
     <1>26, <1>27, <1>28, <1>29, <1>30, <1>31, <1>32, <1>33, <1>34, <1>35, <1>36, <1>37,
     <1>38, <1>39, <1>40, <1>41
     DEF Next, Card, Around, Operation

\* Nothing but an accepted plan starts a characterization, and what it runs by stays.
LEMMA TraceableStep ==
  ASSUME Control(card, pc, guard), Traceable(card, pc, runtime), [Next]_vars
  PROVE  Traceable(card, pc, runtime)'
<1> USE DEF Traceable, Stage, Gone, Learn, Quiet, screen, files, held, signals, claim
<1>1. CASE UNCHANGED vars
  BY <1>1 DEF vars
<1>2. ASSUME NEW c \in Cards, NEW r \in Results, Start(c, r)
      PROVE  Traceable(card, pc, runtime)'
  BY <1>2 DEF Start, Cards
<1>3. ASSUME NEW plan \in Plans, StartPlan(plan)
      PROVE  Traceable(card, pc, runtime)'
  BY <1>3, PlannedIsTraceable DEF StartPlan
<1>4. CASE OpenFramebuffer
  BY <1>4 DEF OpenFramebuffer
<1>5. CASE OpenInput
  BY <1>5 DEF OpenInput
<1>6. CASE Revalidated
  BY <1>6 DEF Revalidated
<1>7. CASE Confirm
  BY <1>7 DEF Confirm
<1>8. CASE InstallGuard
  BY <1>8 DEF InstallGuard
<1>9. CASE CreateResult
  BY <1>9 DEF CreateResult
<1>10. CASE OpenTarget
  BY <1>10 DEF OpenTarget
<1>11. CASE Snapshot
  BY <1>11 DEF Snapshot
<1>12. CASE Paint
  BY <1>12 DEF Paint
<1>13. CASE Submit
  BY <1>13 DEF Submit
<1>14. CASE Dwell
  BY <1>14 DEF Dwell
<1>15. CASE Restore
  BY <1>15 DEF Restore
<1>16. CASE Close
  BY <1>16 DEF Close
<1>17. CASE Repaint
  BY <1>17 DEF Repaint
<1>18. CASE Request
  BY <1>18 DEF Request
<1>19. CASE Acquire
  BY <1>19 DEF Acquire
<1>20. CASE Pump
  BY <1>20 DEF Pump
<1>21. CASE Release
  BY <1>21 DEF Release
<1>22. CASE CloseInput
  BY <1>22 DEF CloseInput
<1>23. CASE Lease
  BY <1>23 DEF Lease
<1>24. CASE Present
  BY <1>24 DEF Present
<1>25. CASE Hold
  BY <1>25 DEF Hold
<1>26. CASE Return
  BY <1>26 DEF Return
<1>27. CASE Hide
  BY <1>27 DEF Hide
<1>28. CASE Finish
  BY <1>28 DEF Finish
<1>29. CASE Prompt
  BY <1>29 DEF Prompt
<1>30. CASE Write
  BY <1>30 DEF Write
<1>31. CASE WriteTrace
  BY <1>31 DEF WriteTrace
<1>32. CASE Probe
  BY <1>32 DEF Probe
<1>33. CASE Age
  BY <1>33 DEF Age
<1>34. CASE Promote
  BY <1>34 DEF Promote
<1>35. CASE StockDraws
  BY <1>35 DEF StockDraws
<1>36. CASE Tap
  BY <1>36 DEF Tap
<1>37. CASE Invert
  BY <1>37 DEF Invert
<1>38. CASE Signal
  BY <1>38 DEF Signal
<1>39. CASE Kill
  BY <1>39 DEF Kill
<1>40. CASE Reboot
  BY <1>40 DEF Reboot
<1>41. CASE OtherTerminal
  BY <1>41 DEF OtherTerminal
<1> QED
  BY <1>1, <1>2, <1>3, <1>4, <1>5, <1>6, <1>7, <1>8, <1>9, <1>10, <1>11, <1>12, <1>13,
     <1>14, <1>15, <1>16, <1>17, <1>18, <1>19, <1>20, <1>21, <1>22, <1>23, <1>24, <1>25,
     <1>26, <1>27, <1>28, <1>29, <1>30, <1>31, <1>32, <1>33, <1>34, <1>35, <1>36, <1>37,
     <1>38, <1>39, <1>40, <1>41
     DEF Next, Card, Around, Operation

\* What a card leaves behind is known from its stage, unless it was killed amid the
\* operation or the device refused a call.
LEMMA AccountedStep ==
  ASSUME Control(card, pc, guard),
         Accounted(wounded, card, pc, paused, memory, panel, saved),
         [Next]_vars
  PROVE  Accounted(wounded, card, pc, paused, memory, panel, saved)'
<1> USE DEF Accounted, Ours, Control, Preparing, OperationStage, Concluding, Cards, Guarded,
            Stage, Gone, Learn, Quiet, screen, files, held, signals, claim
<1>1. CASE UNCHANGED vars
  BY <1>1 DEF vars
<1>2. ASSUME NEW c \in Cards, NEW r \in Results, Start(c, r)
      PROVE  Accounted(wounded, card, pc, paused, memory, panel, saved)'
  BY <1>2 DEF Start
<1>3. ASSUME NEW plan \in Plans, StartPlan(plan)
      PROVE  Accounted(wounded, card, pc, paused, memory, panel, saved)'
  BY <1>3 DEF StartPlan
<1>4. CASE OpenFramebuffer
  BY <1>4 DEF OpenFramebuffer
<1>5. CASE OpenInput
  BY <1>5 DEF OpenInput
<1>6. CASE Revalidated
  BY <1>6 DEF Revalidated
<1>7. CASE Confirm
  BY <1>7 DEF Confirm
<1>8. CASE InstallGuard
  BY <1>8 DEF InstallGuard
<1>9. CASE CreateResult
  BY <1>9 DEF CreateResult, First
<1>10. CASE OpenTarget
  BY <1>10 DEF OpenTarget
<1>11. CASE Snapshot
  BY <1>11 DEF Snapshot
<1>12. CASE Paint
  BY <1>12 DEF Paint
<1>13. CASE Submit
  BY <1>13 DEF Submit
<1>14. CASE Dwell
  BY <1>14 DEF Dwell
<1>15. CASE Restore
  BY <1>15 DEF Restore
<1>16. CASE Close
  BY <1>16 DEF Close
<1>17. CASE Repaint
  BY <1>17 DEF Repaint
<1>18. CASE Request
  BY <1>18 DEF Request
<1>19. CASE Acquire
  BY <1>19 DEF Acquire
<1>20. CASE Pump
  BY <1>20 DEF Pump, AfterPump
<1>21. CASE Release
  BY <1>21 DEF Release
<1>22. CASE CloseInput
  BY <1>22 DEF CloseInput
<1>23. CASE Lease
  BY <1>23 DEF Lease
<1>24. CASE Present
  BY <1>24 DEF Present
<1>25. CASE Hold
  BY <1>25 DEF Hold
<1>26. CASE Return
  BY <1>26 DEF Return
<1>27. CASE Hide
  BY <1>27 DEF Hide
<1>28. CASE Finish
  BY <1>28 DEF Finish
<1>29. CASE Prompt
  BY <1>29 DEF Prompt
<1>30. CASE Write
  BY <1>30 DEF Write
<1>31. CASE WriteTrace
  BY <1>31 DEF WriteTrace
<1>32. CASE Probe
  BY <1>32 DEF Probe
<1>33. CASE Age
  BY <1>33 DEF Age
<1>34. CASE Promote
  BY <1>34 DEF Promote
<1>35. CASE StockDraws
  BY <1>35 DEF StockDraws
<1>36. CASE Tap
  BY <1>36 DEF Tap
<1>37. CASE Invert
  BY <1>37 DEF Invert
<1>38. CASE Signal
  BY <1>38 DEF Signal
<1>39. CASE Kill
  BY <1>39 DEF Kill, Dirty
<1>40. CASE Reboot
  BY <1>40 DEF Reboot
<1>41. CASE OtherTerminal
  BY <1>41 DEF OtherTerminal
<1> QED
  BY <1>1, <1>2, <1>3, <1>4, <1>5, <1>6, <1>7, <1>8, <1>9, <1>10, <1>11, <1>12, <1>13,
     <1>14, <1>15, <1>16, <1>17, <1>18, <1>19, <1>20, <1>21, <1>22, <1>23, <1>24, <1>25,
     <1>26, <1>27, <1>28, <1>29, <1>30, <1>31, <1>32, <1>33, <1>34, <1>35, <1>36, <1>37,
     <1>38, <1>39, <1>40, <1>41
     DEF Next, Card, Around, Operation

\* What a card has noted of the display outlasts whatever happens around it.
LEMMA NotedStep ==
  ASSUME Control(card, pc, guard), Noted(facts, pc, paused, memory, panel), [Next]_vars
  PROVE  Noted(facts, pc, paused, memory, panel)'
<1> USE DEF Noted, Stage, Gone, Learn, Quiet, screen, files, held, signals, claim
<1>1. CASE UNCHANGED vars
  BY <1>1 DEF vars
<1>2. ASSUME NEW c \in Cards, NEW r \in Results, Start(c, r)
      PROVE  Noted(facts, pc, paused, memory, panel)'
  BY <1>2 DEF Start
<1>3. ASSUME NEW plan \in Plans, StartPlan(plan)
      PROVE  Noted(facts, pc, paused, memory, panel)'
  BY <1>3 DEF StartPlan
<1>4. CASE OpenFramebuffer
  BY <1>4 DEF OpenFramebuffer
<1>5. CASE OpenInput
  BY <1>5 DEF OpenInput
<1>6. CASE Revalidated
  BY <1>6 DEF Revalidated
<1>7. CASE Confirm
  BY <1>7 DEF Confirm
<1>8. CASE InstallGuard
  BY <1>8 DEF InstallGuard
<1>9. CASE CreateResult
  BY <1>9 DEF CreateResult
<1>10. CASE OpenTarget
  BY <1>10 DEF OpenTarget, Control, Preparing, OperationStage, Concluding, Cards, Guarded
<1>11. CASE Snapshot
  BY <1>11 DEF Snapshot
<1>12. CASE Paint
  BY <1>12 DEF Paint
<1>13. CASE Submit
  BY <1>13 DEF Submit
<1>14. CASE Dwell
  BY <1>14 DEF Dwell
<1>15. CASE Restore
  BY <1>15 DEF Restore
<1>16. CASE Close
  BY <1>16 DEF Close, Control, Preparing, OperationStage, Concluding, Cards, Guarded
<1>17. CASE Repaint
  BY <1>17 DEF Repaint, Control, Preparing, OperationStage, Concluding, Cards, Guarded
<1>18. CASE Request
  BY <1>18 DEF Request
<1>19. CASE Acquire
  BY <1>19 DEF Acquire
<1>20. CASE Pump
  BY <1>20 DEF Pump
<1>21. CASE Release
  BY <1>21 DEF Release
<1>22. CASE CloseInput
  BY <1>22 DEF CloseInput
<1>23. CASE Lease
  BY <1>23 DEF Lease, Control, Preparing, OperationStage, Concluding, Cards, Guarded
<1>24. CASE Present
  BY <1>24 DEF Present, Control, Preparing, OperationStage, Concluding, Cards, Guarded
<1>25. CASE Hold
  BY <1>25 DEF Hold
<1>26. CASE Return
  BY <1>26 DEF Return, Control, Preparing, OperationStage, Concluding, Cards, Guarded
<1>27. CASE Hide
  BY <1>27 DEF Hide
<1>28. CASE Finish
  BY <1>28 DEF Finish
<1>29. CASE Prompt
  BY <1>29, AnswersAreTrue DEF Prompt
<1>30. CASE Write
  BY <1>30 DEF Write
<1>31. CASE WriteTrace
  BY <1>31 DEF WriteTrace
<1>32. CASE Probe
  BY <1>32 DEF Probe
<1>33. CASE Age
  BY <1>33 DEF Age
<1>34. CASE Promote
  BY <1>34 DEF Promote
<1>35. CASE StockDraws
  BY <1>35 DEF StockDraws
<1>36. CASE Tap
  BY <1>36 DEF Tap
<1>37. CASE Invert
  BY <1>37 DEF Invert
<1>38. CASE Signal
  BY <1>38 DEF Signal
<1>39. CASE Kill
  BY <1>39 DEF Kill
<1>40. CASE Reboot
  BY <1>40 DEF Reboot
<1>41. CASE OtherTerminal
  BY <1>41 DEF OtherTerminal
<1> QED
  BY <1>1, <1>2, <1>3, <1>4, <1>5, <1>6, <1>7, <1>8, <1>9, <1>10, <1>11, <1>12, <1>13,
     <1>14, <1>15, <1>16, <1>17, <1>18, <1>19, <1>20, <1>21, <1>22, <1>23, <1>24, <1>25,
     <1>26, <1>27, <1>28, <1>29, <1>30, <1>31, <1>32, <1>33, <1>34, <1>35, <1>36, <1>37,
     <1>38, <1>39, <1>40, <1>41
     DEF Next, Card, Around, Operation

\* What is open stays what the review named: a device changes under a card in its
\* inversion only, and whatever it resolved to is compared when it is opened.
LEMMA ReviewedStep ==
  ASSUME Control(card, pc, guard),
         Reviewed(device, profile, card, pc, runtime, input),
         [Next]_vars
  PROVE  Reviewed(device, profile, card, pc, runtime, input)'
<1> USE DEF Reviewed, Opened, Control, Preparing, OperationStage, Concluding, Cards, Stage,
            Gone, Learn, Quiet, screen, files, held, signals, claim
<1>1. CASE UNCHANGED vars
  BY <1>1 DEF vars
<1>2. ASSUME NEW c \in Cards, NEW r \in Results, Start(c, r)
      PROVE  Reviewed(device, profile, card, pc, runtime, input)'
  BY <1>2, ResolvesToNamed DEF Start
<1>3. ASSUME NEW plan \in Plans, StartPlan(plan)
      PROVE  Reviewed(device, profile, card, pc, runtime, input)'
  BY <1>3 DEF StartPlan
<1>4. CASE OpenFramebuffer
  BY <1>4 DEF OpenFramebuffer
<1>5. CASE OpenInput
  <2>1. CASE Gone
    BY <1>5, <2>1 DEF OpenInput
  <2>2. CASE ~Gone
    <3>1. /\ runtime.input.device \in DOMAIN device.inputs
          /\ InputSame(device.inputs[runtime.input.device], runtime)
          /\ input' \in {device.inputs[runtime.input.device], Absent}
      BY <1>5, <2>2 DEF OpenInput
    <3>2. NamedInput(device.inputs[runtime.input.device], profile)
      <4>1. {"name", "axes"} \subseteq DOMAIN device.inputs[runtime.input.device]
        BY <3>1 DEF Answering
      <4>2. NamedInput(runtime.input, profile)
        BY <1>5 DEF OpenInput
      <4> QED
        BY <3>1, <4>1, <4>2, SameInputNamed
    <3> QED
      BY <1>5, <2>2, <3>1, <3>2 DEF OpenInput
  <2> QED
    BY <2>1, <2>2
<1>6. CASE Revalidated
  BY <1>6 DEF Revalidated
<1>7. CASE Confirm
  BY <1>7 DEF Confirm
<1>8. CASE InstallGuard
  BY <1>8 DEF InstallGuard
<1>9. CASE CreateResult
  BY <1>9 DEF CreateResult, First
<1>10. CASE OpenTarget
  <2>1. CASE TargetSame
    <3>1. NamedFramebuffer(device.framebuffers[runtime.framebuffer.device], profile)
      <4>1. /\ NamedFramebuffer(runtime.framebuffer, profile)
            /\ runtime.framebuffer.device \in DOMAIN device.framebuffers
        BY <1>10 DEF OpenTarget
      <4>2. {"driver", "extent", "bits", "pixels", "rotation"}
              \subseteq DOMAIN device.framebuffers[runtime.framebuffer.device]
        BY <4>1 DEF Answering
      <4> QED
        BY <2>1, <4>1, <4>2, SameFramebufferNamed DEF TargetSame
    <3> QED
      BY <1>10, <3>1 DEF OpenTarget
  <2>2. CASE ~TargetSame
    BY <1>10, <2>2 DEF OpenTarget
  <2> QED
    BY <2>1, <2>2
<1>11. CASE Snapshot
  BY <1>11 DEF Snapshot
<1>12. CASE Paint
  BY <1>12 DEF Paint
<1>13. CASE Submit
  BY <1>13 DEF Submit
<1>14. CASE Dwell
  BY <1>14 DEF Dwell
<1>15. CASE Restore
  BY <1>15 DEF Restore
<1>16. CASE Close
  BY <1>16 DEF Close
<1>17. CASE Repaint
  BY <1>17 DEF Repaint
<1>18. CASE Request
  BY <1>18 DEF Request
<1>19. CASE Acquire
  BY <1>19 DEF Acquire
<1>20. CASE Pump
  BY <1>20 DEF Pump, AfterPump
<1>21. CASE Release
  BY <1>21 DEF Release
<1>22. CASE CloseInput
  BY <1>22 DEF CloseInput
<1>23. CASE Lease
  <2>1. CASE device' = DayMode(device)
    BY <1>23, <2>1, PolarisedNamed DEF Lease, DayMode
  <2>2. CASE device' = device
    BY <1>23, <2>2 DEF Lease
  <2> QED
    BY <1>23, <2>1, <2>2 DEF Lease
<1>24. CASE Present
  BY <1>24 DEF Present
<1>25. CASE Hold
  BY <1>25 DEF Hold
<1>26. CASE Return
  BY <1>26 DEF Return
<1>27. CASE Hide
  BY <1>27 DEF Hide
<1>28. CASE Finish
  BY <1>28 DEF Finish
<1>29. CASE Prompt
  BY <1>29 DEF Prompt
<1>30. CASE Write
  BY <1>30 DEF Write
<1>31. CASE WriteTrace
  BY <1>31 DEF WriteTrace
<1>32. CASE Probe
  BY <1>32 DEF Probe
<1>33. CASE Age
  BY <1>33 DEF Age
<1>34. CASE Promote
  BY <1>34 DEF Promote, Running
<1>35. CASE StockDraws
  BY <1>35 DEF StockDraws
<1>36. CASE Tap
  BY <1>36 DEF Tap
<1>37. CASE Invert
  <2>1. PICK g \in {1, 2} : device' = Polarised(device, g)
    BY <1>37 DEF Invert
  <2> QED
    BY <1>37, <2>1, PolarisedNamed DEF Invert
<1>38. CASE Signal
  BY <1>38 DEF Signal
<1>39. CASE Kill
  BY <1>39 DEF Kill
<1>40. CASE Reboot
  BY <1>40, DeviceAssumption DEF Reboot
<1>41. CASE OtherTerminal
  BY <1>41 DEF OtherTerminal
<1> QED
  BY <1>1, <1>2, <1>3, <1>4, <1>5, <1>6, <1>7, <1>8, <1>9, <1>10, <1>11, <1>12, <1>13,
     <1>14, <1>15, <1>16, <1>17, <1>18, <1>19, <1>20, <1>21, <1>22, <1>23, <1>24, <1>25,
     <1>26, <1>27, <1>28, <1>29, <1>30, <1>31, <1>32, <1>33, <1>34, <1>35, <1>36, <1>37,
     <1>38, <1>39, <1>40, <1>41
     DEF Next, Card, Around, Operation

\* Four actions write a result file.
LEMMA ResultsByFour ==
  ASSUME [Next]_vars
  PROVE  UNCHANGED result \/ CreateResult \/ Write \/ WriteTrace \/ OtherTerminal
<1>1. Operation => UNCHANGED result
  BY DEF Operation, Stage, files, OpenTarget, Snapshot, Paint, Submit, Dwell, Restore, Close,
         Repaint, Request, Acquire, Pump, Release, CloseInput, Lease, Present, Hold, Return,
         Hide, Finish
<1>2. Card => Operation \/ UNCHANGED result \/ CreateResult \/ Write \/ WriteTrace
  BY DEF Card, Stage, files, Start, StartPlan, OpenFramebuffer, OpenInput, Revalidated, Confirm,
         InstallGuard, Prompt
<1>3. Around => UNCHANGED result \/ OtherTerminal
  BY DEF Around, files, Probe, Age, Promote, StockDraws, Tap, Invert, Signal, Kill, Reboot
<1>4. UNCHANGED vars => UNCHANGED result
  BY DEF vars, files
<1> QED
  BY <1>1, <1>2, <1>3, <1>4 DEF Next

\* Result files: created by whoever is first, written by the card that claimed them.
LEMMA ResultStep ==
  ASSUME result \in [Results -> {"absent", "empty", "failed", "passed"}], [Next]_vars
  PROVE  result' \in [Results -> {"absent", "empty", "failed", "passed"}]
<1>1. CASE UNCHANGED result
  BY <1>1
<1>2. CASE CreateResult
  BY <1>2 DEF CreateResult
<1>3. CASE Write
  BY <1>3 DEF Write
<1>4. CASE WriteTrace
  BY <1>4 DEF WriteTrace
<1>5. CASE OtherTerminal
  BY <1>5 DEF OtherTerminal
<1>6. UNCHANGED result \/ CreateResult \/ Write \/ WriteTrace \/ OtherTerminal
  BY ResultsByFour
<1> QED
  BY <1>1, <1>2, <1>3, <1>4, <1>5, <1>6

(***************************************************************************)
(* The theorems                                                            *)
(***************************************************************************)
\* The invariant holds from the start and after every step.
THEOREM Inductive == Spec => []IInv
<1>1. Init => IInv
  BY DeviceAssumption
     DEF Init, IInv, Control, Preparing, OperationStage, Concluding, Guarded, Traceable,
         Accounted, Noted, Reviewed, Ours, Opened
<1>2. IInv /\ [Next]_vars => IInv'
  <2> SUFFICES ASSUME IInv, [Next]_vars PROVE IInv'
    OBVIOUS
  <2>1. Control(card, pc, guard)'
    BY ControlStep DEF IInv
  <2>2. Traceable(card, pc, runtime)'
    BY TraceableStep DEF IInv
  <2>3. Accounted(wounded, card, pc, paused, memory, panel, saved)'
    BY AccountedStep DEF IInv
  <2>4. Noted(facts, pc, paused, memory, panel)'
    BY NotedStep DEF IInv
  <2>5. Reviewed(device, profile, card, pc, runtime, input)'
    BY ReviewedStep DEF IInv
  <2>6. result' \in [Results -> {"absent", "empty", "failed", "passed"}]
    BY ResultStep DEF IInv
  <2> QED
    BY <2>1, <2>2, <2>3, <2>4, <2>5, <2>6 DEF IInv
<1> QED
  BY <1>1, <1>2, PTL DEF Spec

\* A characterization that has sent its one request writes a trace of it: none is
\* refused by the trace's own validation, whatever the plan, the profile and the report.
THEOREM EvidenceKept == Spec => []EvidenceIsKept
<1>1. IInv => EvidenceIsKept
  BY DEF IInv, Traceable, EvidenceIsKept
<1> QED
  BY <1>1, Inductive, PTL

\* However a boot numbers its inputs and turns its framebuffer, a card holds, grabs and
\* maps what the profile names.
THEOREM OnReviewedDevice == Spec => []OperationOnReviewedDevice
<1>1. IInv => OperationOnReviewedDevice
  BY DEF IInv, Reviewed, NamedInput, NamedFramebuffer, Opened, OperationOnReviewedDevice
<1> QED
  BY <1>1, Inductive, PTL

\* A card that is not killed, and is refused nothing, ends with the display and the
\* stock programs as it found them, whenever a signal comes.
THEOREM EndsClean == Spec => []CleanAfterCard
<1>1. IInv => CleanAfterCard
  <2> SUFFICES ASSUME IInv, pc = "Idle", Dirty, ~wounded PROVE FALSE
    BY DEF CleanAfterCard, Running
  <2>1. ~paused /\ memory \notin Ours /\ panel \notin Ours
    BY DEF IInv, Accounted
  <2> QED
    BY <2>1 DEF Dirty, Ours
<1> QED
  BY <1>1, Inductive, PTL

\* A card that wrote to the display passes only when the stock programs run and the
\* pixels are their own, those in memory too.
THEOREM PassesOnStock == Spec => PassedLeavesStock
<1>1. ASSUME IInv, [Next]_vars,
             NEW r \in Results, result'[r] = "passed", result[r] # "passed",
             card \in Guarded \cup {"repaint"}
      PROVE  memory = "stock" /\ panel = "stock" /\ ~paused
  <2>1. result \in [Results -> {"absent", "empty", "failed", "passed"}]
    BY <1>1 DEF IInv
  <2>2. Write
    <3>1. ~UNCHANGED result
      BY <1>1
    <3>2. ~CreateResult
      BY <1>1, <2>1 DEF CreateResult
    <3>3. ~WriteTrace
      BY <1>1 DEF WriteTrace, Guarded
    <3>4. ~OtherTerminal
      BY <1>1, <2>1 DEF OtherTerminal
    <3> QED
      BY <1>1, <3>1, <3>2, <3>3, <3>4, ResultsByFour
  <2>3. Required(card) \subseteq facts
    BY <1>1, <2>1, <2>2 DEF Write
  <2>4. "healthy" \in facts /\ ("repaint" \in facts \/ "restore" \in facts)
    BY <1>1, <2>3 DEF Guarded, Required, PixelFacts, RepaintFacts, ForegroundFacts
  <2> QED
    BY <1>1, <2>4 DEF IInv, Noted
<1>2. IInv /\ [Next]_vars
        => [\A r \in Results :
              result'[r] = "passed" /\ result[r] # "passed" /\ card \in Guarded \cup {"repaint"}
                => memory = "stock" /\ panel = "stock" /\ ~paused]_vars
  BY <1>1
<1> QED
  BY <1>2, Inductive, PTL DEF Spec, PassedLeavesStock
=============================================================================
