# Ferrink verification

Ferrink is a replacement shell for jailbroken Kindles.  On the device it is a guardian,
which takes the screen from the stock UI and must give it back whatever happens, a
shell, which draws, reads touch and asks the guardian to launch applications, and a set
of bench programs, which try one thing on a device and leave evidence.  This directory
holds TLA+ models of the parts that decide whether the device is left usable and whether
the evidence is true, the TLC runs that check them, and the proofs.

    tlc -workers 2 -config MCForeground.cfg MCForeground    # one run
    tlapm GuardianProofs.tla                                # one module's proofs

`PROJECT.json` lists the runs, the source lines each definition stands for, the
deliberate mistakes ("Mutant:" definitions) that show each property can fail, the
hazards the properties were written for, the findings and the theorems.

## 1. The system

    upstart job, ferrink-boot          ferrink-shell-guardian-kindle
      starts the guardian   --->         crash budget (file)
      and stock again after it           foreground lease (lipc, signals, ioctls)
                                         application catalog (manifests)
                                            |  spawns, descriptors 3 and 4
                                            v
                                       ferrink-shell-kindle      application
      kernel: evdev, framebuffer <--->   event loop, lightbox,     (child of the
      Slint: window, pointer   <----->   touch chain, launcher      guardian)
      lipc, preference files   <----->   device port

    probe --> report --> resolution against a profile --> bench cards --> result files
                                       and a plan   --> characterization --> trace

| component | state it keeps | operations | hard behaviour | correct when |
|---|---|---|---|---|
| foreground lease (`ferrink-supervisor/src/lib.rs`, `linux_kindle.rs`) | intents recorded, processes paused; on the device the suspend inhibitor, Pillow, stock processes, lightbox, panel | two acquisitions, suspend toggle, restore, rollback | every call fails, some after taking effect; processes come and go; the guardian is killed | every change is undone or reported, in order |
| crash budget (`crash_budget.rs`) | a file of recorded starts | begin, mark_stable | kills and power cuts between write, rename and sync; the clock moves | never too many starts, never an unreadable file |
| shell guardian (`ferrink-shell-guardian-kindle.rs`) | lease, attempt, children, deferred signal | one supervision loop for the shell, one for applications, two handoffs, reboot | signals at any step, deadlines against answers, one step of many failing | one program in front, stock restored before success |
| device shell loop (`ferrink-shell-kindle.rs`) | window, drawer, orientation, one command | a turn of the loop, teardown | input, cover, gyro and frames interleave; any call fails | ready only when shown, command only when everything is given back |
| lightbox (`lightbox.rs`, `linux_lightbox.rs`) | controller, kernel, panel | prepare, commit, clear | a frame fails between prepare and commit | the three agree between frames |
| touch chain (`trace.rs`, `input_event.rs`, `lib.rs`, `input_loop.rs`, `transform.rs`) | slots, primary contact, staged chunk, record budget | read, push, synchronize, map, dispatch | frames split over reads, overflow, suppressed values, scaling | the pointer follows the contact that pressed it |
| framebuffer presentation (`slint_bridge.rs`, `framebuffer.rs`, `gray8.rs`, `refresh.rs`, ...) | frame, mapped bytes, update markers | resolve, render, stage, turn, write, submit | partial refresh of a turned panel inside padded memory | what is touched is what is shown |
| exclusive input (`input_grab.rs`, `input_loop.rs`) | grabbed descriptor, pump budgets | acquire, pump, release | the panel is kept while nothing is touched | every grab ends |
| shell policy (`ferrink-shell/src/lib.rs`) | view, notice, alert, power prompt, one request | the actions of the launcher, drawer and settings | taps queue while the panel shows an older frame | what happens is what was tapped and confirmed |
| application catalog (`ferrink-manifest`, `application_catalog.rs`) | the registered applications, once in each process | read, validate, sort | two processes read separately and exchange a position | the position means one application |
| device preferences (`kindle_device.rs`) | lights, Wi-Fi, preference files | adjust, toggle, choose | two-step properties, kills and power cuts amid a replacement | a choice that was confirmed survives |
| passive probe, resolution (`ferrink-probe`, `ferrink-platform`, `revalidate.rs`) | none beside the report | collect, evaluate, resolve, revalidate | nodes are renumbered between the report and its use | the device used is the one reviewed |
| bench cards, foreground card | pattern, grab, lease, result file | one operation and its undoing | signals, failing calls, kills, another terminal | nothing of the card is left, "passed" is true |
| characterization (`ferrink-characterize-display`) | plan, trace | one update request | the request cannot be taken back | its trace is kept |
| boot job (`packaging/kindle`, `tools/install-kindle-boot`), artwork, packaged apps, host tools | | | power lost between moves of files | not modelled, section 7 |

The guardian and the shell meet in four places.  The shell writes one readiness byte,
then at most one command, and exits.  `ShellProcess` says what that is: it is the process
`Guardian` runs (its `ShellBecomesReady` and `ShellExits` are that module's actions), and
`Shell`, seen through what it has told and how it ended, is shown to be one
(`ImplementsShellProcess`, checked and proved).  They share the device:
`HandoverIsClean` is what the shell owes the guardian when it leaves a command,
`OneForeground` what the guardian owes the shell.  The guardian calls the lease and the crash budget: single steps in `Guardian`,
taken apart in `Foreground` and `CrashBudget`.  And a launch names a position in a list
both have read for themselves: `Catalog` composes the shell's policy (`Launcher`, which
it extends) with the guardian's reading and the files on disk.

## 2. Modules

| module | stands for |
|---|---|
| `StockLease` | the abstract promise: displaced resources are owed, given back once, or reported |
| `Foreground` | `acquire_foreground`, `acquire_early_boot_foreground`, `set_suspend_inhibited`, `restore`, one step per call of `ForegroundSystem`; refines `StockLease` |
| `ForegroundProofs` | the inductive invariant of `Foreground` and what follows from it: its promises, the order in which it gives the stock UI back, and that it implements `StockLease`, step by step |
| `CrashBudget` | `begin`, `mark_stable` and the replacement of the file, one step per system call |
| `CrashBudgetProofs` | the inductive invariant of `CrashBudget`: what every copy of the record keeps of the permitted starts |
| `Guardian` | `run_on_target` of the guardian and what it calls, from the arguments to the exit |
| `ShellProcess` | the abstract shell: ready once and first, then one exit, a command only after a clean one |
| `GuardianProofs` | the inductive invariants of `Guardian` and of the `Shell` it runs, what follows from them, and that `Shell` implements `ShellProcess` |
| `Shell` | `RuntimeState`, the lightbox controller and its ioctl, `GuardianCommandPort`; refines `ShellProcess` |
| `Launcher` | `ShellController`, the command port and the view a frame copies |
| `Catalog` | `ApplicationCatalog`, its two readers, and a session of shells and applications over it; extends `Launcher` |
| `CatalogProofs` | the inductive invariant of a session, its launcher and its catalog |
| `DevicePort` | `KindleShellDevicePort`: lights, Wi-Fi, preference files, one step per call |
| `DevicePortProofs` | the inductive invariant of `DevicePort` |
| `Touch` | kernel slots, evdev buffer, pump, `push_bytes`, `TouchTracker`, pointer |
| `TouchProofs` | what the tracker makes of a whole frame; the inductive invariant of `Touch` and what follows from it |
| `Display` | layouts, `stage_region`, `orient_region`, `write_rgb8_region`, markers, submission; `InputTransform` |
| `DisplayProofs` | geometry of the three mappings, and the invariant of `Display` |
| `Resolution` | what a probe collects, `evaluate`, `resolve`, `revalidate`: operators, no state |
| `Characterization` | the pinned plan, what it is held against, the trace: operators over `Resolution` |
| `Bench` | the life of every card and of the characterization; extends `Characterization` |
| `BenchProofs` | that what is resolved is what the profile names and what is planned makes a trace; the inductive invariant of `Bench` |
| `MC*` | the small instances the `.cfg` files use; `Shell` needs none |

How state corresponds to code, where it is not obvious:

- `Foreground.pc` names the next trait call.  `target` is the identity that
  `transition_process` has revalidated in `/proc` and is about to signal; the two
  halves are two steps (`Stop`, `StopKill`) because the process may exit between.
  `strays` remembers signals that found the pid reused.  The device variables are
  what lipc, `/proc` and the ioctls would show.
- `CrashBudget.path` is the file every process sees, `durable` what a power cut
  leaves; `whole` and `synced` say whether data and temporary were fsynced.
  `DevicePort` uses the same four for each preference.
- `DevicePort.usable` are the preferences in effect.  They differ in two ways: the
  rotation lock is read before its sensor is known and lost with it (`Sensed`), and a
  background may be chosen while the stored one cannot be shown (`Offered`).
- `Guardian.Indices` are the launch indices a request may carry, `Apps` those that name
  a registered application; the rest end the guardian (`RefuseLaunch`,
  `ferrink-shell-guardian-kindle.rs:880`).
- `Guardian.after` is the continuation of a restoration, which the code writes as
  the lines after `restore()?`.
- `Shell.presented` / `kernel` / `shown` are the lightbox state of the controller,
  of the last ioctl and of the last full refresh.  `inherited` is TRUE while the region
  in the kernel is still that of an earlier owner.
- `Launcher.panel` is what the last frame showed, which is what the operator sees when
  tapping; `asked` is the power action the operator last asked for and has neither
  cancelled nor seen superseded.  A tap is any action of the view, because which element
  it hits is Slint's affair.
- `Catalog.rows` and `applications` are the two lists; `replaced` counts manifests
  replaced since the guardian read them.
- `Touch.chunk` and `staged` are the two clones in `push_bytes`; nothing they hold
  counts until the last record has been pushed.  Removing a slot from the tracker's
  map is the same as making it `Fresh`, because every access is `entry().or_default()`.
- `Display.memory` is the whole mapping, `panel` what the controller shows of it since
  the last submission, `frame` Slint's buffer.  A rectangle is staged and written index
  by index, as the code does; `TouchedIsShown` speaks of pixels.
- `Bench.pc` names a card's next stage; stages that a card does not have are skipped by
  its own order of them.  `facts` collects what succeeded and what the operator
  answered, and the verdict is read from it.  `wounded` is TRUE once a card was killed
  or the device refused it a call amid its operation.

Outside the models, by assumption (external in the map): no other program writes
`preventScreenSaver` while a guardian runs; Slint decides when a window needs a redraw
and what its items paint; the kernel keeps MT slots, sends neither an unchanged value
nor an unchanged slot, and hands out whole frames; a rename on the user store is atomic,
although that store is FAT; `xrefresh` that exits with 0 has had stock repaint the panel.
`Guardian` takes one guardian at a time, as upstart does, and `Bench` one card.

## 3. Runs

| run | instance | distinct states | shows |
|---|---|---|---|
| `foreground` | 2 awesome and 1 cvm identity, at most 2 per process, 2 lives | 1.1 M | every mutation undone or reported, exact return, toggles, order, refinement of `StockLease`, a restoration reaches every process |
| `crash_budget` | budget 2, window 2 s, seconds 0..4, 2 temporary names, 2 pids, 5 lives | 2.0 M | the bound, readability, durability and the announced retry time |
| `guardian` | one application that prevents suspend and one that does not, an index of neither, any mix of handoffs, 3 shells | 20 k | one foreground, suspend policy, signals, success and the crash budget, the two ways out that keep the lease |
| `shell` | no bound: the model is finite; the lightbox clear or still applied | 0.7 M | lightbox, readiness and handover, a turn's full frame, refinement of `ShellProcess`, end after a command |
| `touch` | 2 slots, 2 values per axis, 3 contacts, 9 buffered records, reads of 4, a budget of 4 renewed at 1 | 2.6 M (up to symmetry) | pointer ownership, order of contacts, nothing but an overflow stops the pump |
| `session` | 2 manifest paths, 6 possible files, 2 rows, 2 alerts, 1 replacement | 2.9 M | what is launched is what was tapped, power actions are confirmed, notices are true |
| `device_port` | one preference of 3 values, a light of 3 levels, 2 pids, 2 lives | 2.1 M | confirmed choices survive and are obeyed, Wi-Fi is never half on |
| `display` | panels of 2 x 3 in padded memory and 3 x 1 in tight memory, 8 wrong capabilities, 8 transforms, 2 colors | 52 k | touched is shown, only visible bytes change, touch reaches every corner |
| `bench` | 3 boots, 5 profiles, 2 plans, 2 result files, 2 taps, 2 pump steps | 0.2 M | evidence, authority, cleanliness and end of every card |
| three violations | the instances above | | section 5 |

Why the bounds are enough.

- *foreground*: two awesome identities are needed for a partial pause and for a process
  that replaces another, one cvm for the order between the two kinds, two lives for
  what a killed guardian leaves to the next; the proofs remove the bounds.
- *crash_budget*: a window of two seconds inside five lets starts expire, lie in the
  future and meet the last second; five lives are three more than the
  budget, enough to fill a record, replace a full one and replace it once more; two names
  let a collision happen and be survived; the proofs remove the bounds.
- *guardian*: a third shell follows two applications of different kinds; the proofs
  remove the bounds.
- *touch*: the third contact can reuse the slot of a released primary while a secondary
  stays down; nine records hold the largest frame, and two unread ones before it make
  the overflow; reads of four split every longer frame; the budget has the shape of the
  code's (a read fits into what a budget not yet renewed has left), which is
  `TouchAssumption`.  The values are interchangeable, so the run uses symmetry, and it
  checks no liveness.  The proofs remove the bounds.
- *session*: two rows are the fewest a wrong position can confuse, two alerts the fewest
  that supersede each other; among the six files are two packages whose IDs and positions
  order them differently, an update that moves one, and one file for each way a reader
  refuses.  Paths are interchangeable (symmetry; no liveness).  A session is one of an
  attached shell.  A manifest is replaced only while no launcher runs: both sides have
  read by then, and what is replaced meanwhile is as good as replaced after.
- *device_port*: the first life can be killed anywhere in a write and the second reads
  and writes over what it left, under the same pid or another; three light levels have
  both ends and a middle.  Preferences do not touch each other's files, so one is
  enough; it has the traits of the lock and of the background at once, and every step of
  either is one of its own.  The proofs remove the bounds, for any preferences.
- *display*: the padded panel has an offset, a line longer than its virtual width and
  memory past its last line, the tight one has none of them; each of the other eight
  capabilities breaks one rule of the layout.  `MaxU32` = 31 lets the one that overflows
  a sum do so.  Three markers wrap.  The proofs remove the bounds.
- *bench*: in one boot two inputs change places and in another the panel is turned; two
  result files are one to claim and one to use again; a second tap can arrive after the
  first was read; two steps let the pump go on once and run out.

Deadlock is checked nowhere, because every one of these programs ends: the lease
returns, guardian, shell and cards exit, the pump stops; `DevicePort`, `Display` and
`Catalog` run out of their lives, markers or replacements.

Fairness.  `Foreground` and `Guardian` assume weak fairness of the guardian's own
steps only: its lipc commands have a deadline of five seconds and are killed after
it, readiness and termination have deadlines, the supervision loops poll.  So that no
command hangs is assumed here and not shown: there is no clock in these modules.
Nothing is assumed of the shell, of applications, stock processes or signals.
`Shell` assumes weak fairness of the process: the loop polls for at most 100 ms and
reads at most 4096 bytes a turn.  `Bench` assumes weak fairness of the stages of an
operation (`Operation`): the pump has its steps and its polls a timeout, holds and dwells
are sleeps, commands have deadlines; the questions to the operator, who may never answer,
are not among them.  The other modules check safety only.

## 4. Proofs

Eight modules; nothing is assumed but the named assumptions on the constants.  In each, the
invariant is proved inductive with one lemma per action or per part, and the properties
follow from it.

**`ForegroundProofs`**, for every set of awesome and cvm identities and every bound on
identities and lives, from `ForegroundAssumption`:

| theorem | states |
|---|---|
| `Inductive` | `Spec => []IInv` |
| `TypeCorrect` | `Spec => []TypeOK` |
| `MutationsAccounted` | `Spec => []EveryMutationAccounted` |
| `ReturnsExactly` | `Spec => []ReturnedExactly` |
| `InhibitorExact` | `Spec => []InhibitorFollowsLease` |
| `PausesUnderInhibitor` | `Spec => []PausedUnderInhibitor` |
| `ResumesInOrder` | `Spec => StockResumesInOrder` |
| `GivenBackOnce` | `Spec => []Once` |
| `Implements` | `Spec => ImplementsStockLease` |

None of the four invariants is inductive.  `EveryMutationAccounted` survives
a step of the restoration only if what the restoration still has to do is known,
and that depends on what the acquisition had recorded at the call that failed.  So
`IInv` adds to `TypeOK` three facts, one per stretch of the transaction:
`Inspected` (nothing is recorded before the first mutation, and what was read is
still true), `Recorded` (what the intents, the stack of paused processes and the
inhibitor are at each call of the acquisition) and `Unwound` (what is no longer
recorded is restored or reported).  One lemma per action shows that it keeps
`IInv`; four lemmas about the stack of paused identities (push, pop, elements) and
`RestoreBegun` (entering the restoration) serve several of them.

The order needs one more invariant, `AwesomeFirst`: the stack holds every awesome below
every cvm, because a cvm is recorded only when no awesome is left, so an awesome on top
means that no cvm is stopped unless its resume was reported.  The refinement needs
`Once`: no identity is on the stack twice and the one about to be resumed is off it,
which is what makes a resume give back exactly one owed resource, and nothing counts as
reported before the restoration begins.  Then each call of the transaction is one step
of the lease (`Claim` for the first half of a mutation, `Displace` for the signal,
`GiveBack` for a stage of the restoration, `Abandon` for a kill) or leaves it alone; one
lemma per call says which.

**`CrashBudgetProofs`**, for every policy, clock, set of process identifiers and number of
lives, from `CrashBudgetAssumption` (the policy and the window are positive, some process
identifier exists):

| theorem | states |
|---|---|
| `Inductive` | `Spec => []IInv` |
| `TypeCorrect` | `Spec => []TypeOK` |
| `KeepsToBudget` | `Spec => []BudgetBound` |
| `AlwaysReadable` | `Spec => []StateStaysReadable` |
| `PermitsDurably` | `Spec => []StartIsDurable` |
| `RetryIsKept` | `Spec => RetryIsExact` |

`BudgetBound` counts permitted starts, which only the specification remembers; the code
counts what is in the record it happens to read.  A kill between rename and directory
sync leaves a start recorded that was never permitted, a power cut brings an older record
back, and a start that meets a clock set back is recorded at the last second known.  What
holds through all of it is that each copy of the record, the visible one, the durable one
and the one being written, has a place of its own for every permitted start that still
counts at the record's last second (`Covers`: an injection).  Since a record never has
more places than the budget, the bound follows, and since it is sorted (`Sorted`) the
retry second announced from its first entry is exact.  `InitialSegment` is the lemma
behind `retain`: what survives the filter of a sorted record is a suffix.

The proof found a mistake in the property's own bookkeeping: an announced retry second
was held against a record that a power cut, or an attempt whose directory sync failed, had
replaced since.  That takes one life more than the run then had; `retries` is now forgotten
when the record changes, and the run has five lives.

**`GuardianProofs`**, for every set of applications, every suspend and handoff policy and
any number of shells, from `GuardianAssumption`:

| theorem | states |
|---|---|
| `Inductive` | `Spec => []IInv` |
| `TypeCorrect` | `Spec => []TypeOK` |
| `ScreenHasOneOwner` | `Spec => []OneForeground` |
| `SuspendPolicy` | `Spec => []SuspendFollowsForeground` |
| `SignalIsNeverLost` | `Spec => []SignalVetoes` |
| `SuccessIsClean` | `Spec => []SuccessMeansStock` |
| `RecordIsEarned` | `Spec => []ClearedWhenProven` |
| `OtherFailuresRestore` | `Spec => []KeptOnTwoWaysOut` |
| `EndAccounts` | `Spec => []EndAccountsForStock`, the two above |

The properties speak of the children and the end; a step preserves them only if the
guardian is at a point where the lease, the policy and the command are what the next
step takes for granted.  `IInv` says so point by point, one part per concern: `Leased`
(where the lease is owned; in a launch, exactly when the application is not
stock-mediated), `Commanded` (which command leads where), `Children` (a shell only under
the lease and alone, an application only in its loop), `Suspend`, `Signalled` (a signal
that is no longer pending has already sent the guardian to its end) and `Recorded` (why
a record was cleared).  One lemma per action.  `OtherFailuresRestore` draws the line
around the first finding of section 5.  A guardian that ends with an error keeps the lease
on two ways out: a reboot or a power-off that could not be completed, which is the finding,
and a launch index outside its catalog, where `applications.get(index)` returns before
anything is restored (`ferrink-shell-guardian-kindle.rs:880`).  The second is not a finding
of its own, because no shell that reads the guardian's arguments sends such an index: that
is `Catalog.TappedIsRegistered`, proved of a session, and what `Guardian` does not assume of
the process it runs.

The same module extends `Shell` too (whose `ShellInit`, `ShellSpec` and the like carry
its name for this reason) and proves the process that this guardian runs, from nothing
but its specification (`Shell` has no constants):

| theorem | states |
|---|---|
| `ShellInductive` | `ShellSpec => []ShellIInv` |
| `ShellTypeCorrect` | `ShellSpec => []ShellTypeOK` |
| `PanelIsTracked` | `ShellSpec => []LightboxTracksPanel` |
| `HandsOverClean` | `ShellSpec => []HandoverIsClean` |
| `ServesGuardian` | `ShellSpec => ImplementsShellProcess` |
| `UprightIsSharp` | `ShellSpec => []SharpWhenUpright` |
| `TouchWaitsForFrame` | `ShellSpec => []TouchAwaitsFrame` |

Its run is exhaustive, so the proof adds the argument, which `ShellIInv` spells out.
`KernelFollows` is the heart of it and holds at every step: the kernel has the light of the
request that waits, or else the one presented, unless an ioctl was refused or the region
was inherited.  A refused ioctl leaves an error (`ErrorsEndTheLoop`) and a command is left
without errors only (`ToldInOrder`), so a shell that leaves a command has not been refused;
its controller was cleared in the teardown (`GivenBack`), and the kernel follows.  Between
frames, `PanelFollows` adds what the panel shows and what a request waits for, and
`BeforeReady` that nothing of this has begun until readiness is signalled.  For the
refinement, a step is unseen unless it signals readiness or ends the process; that the
command finds the guardian's shell ready is `ToldInOrder` again: a command is accepted
only by a loop that has started, and an attached loop starts by signalling.  The last two
theorems draw the line around the finding `drawer_stays_sharp` and the disagreement
`TouchFollowsPanel`: each needs a turned panel, the second only until its full frame,
which the loop owes through redraws without pixels, sleep and further turns.

The proof found a mistake in the model: its shell used to start with the lightbox clear.
Nothing on the way to a shell clears it (only restorations do, `lib.rs:611`), so after a
killed guardian a region may still be applied.  The kernel now starts in either state, the
promises are about what the shell itself applied, and section 6 has what became of the rest.

**`CatalogProofs`**, of a session (`SessionSpec`: an attached shell, its guardian and the
files), for every set of applications, alerts and paths, whatever the manifests hold and
however often they are replaced, from `LauncherAssumption` and `CatalogAssumption`:

| theorem | states |
|---|---|
| `Inductive` | `SessionSpec => []SInv` |
| `TypeCorrect` | `SessionSpec => []TypeOK` |
| `ModalsExclude` | `SessionSpec => []OneModal` |
| `NoticesAreTrue` | `SessionSpec => []ShownNoticeTruthful` |
| `PowerIsConfirmed` | `SessionSpec => PowerOnlyConfirmed` |
| `LaunchesTheTapped` | `SessionSpec => []TappedIsLaunched` |
| `TapsAreRegistered` | `SessionSpec => []TappedIsRegistered` |

The invariant of the launcher (`Exclusive`, `Asked`, `Truthful`) says what the taps since
the last frame cannot have changed: a refusal on the panel is that of a port without a
guardian, since a frame is drawn only while the port is free.  The session adds what each
side has read.  That the shell's row and the guardian's application are the same needs two
facts about the sorting: a reading enumerates its files without repetition
(`InOrderEnumerates`), and two readings of the same files are the same sequence
(`PathsByIdSame`).  Sorting is stated as an enumeration, `InOrder`: element i is the one
with i - 1 others before it.  So the lemma counts, and needs no induction.

**`DevicePortProofs`**, for any preferences, values, light range, process identifiers and
number of shells, from `DevicePortAssumption` (a default is one of its preference's values;
none of these is a missing or torn file; `Sensed` and `Offered` are preferences):

| theorem | states |
|---|---|
| `Inductive` | `Spec => []IInv` |
| `TypeCorrect` | `Spec => []TypeOK` |
| `ChoicesSurvive` | `Spec => []ChosenSurvives` |
| `WifiWhole` | `Spec => []WifiNeverHalfOn` |

`IInv` follows a replacement from the temporary on (`UnderWay`, `Whole`: nothing is renamed
that is not synced) and keeps on the disk only what was chosen (`Survives`), the durable
copy included.  `ConfirmedIsObeyed` is inductive beside it: every step but two leaves what is
obeyed alone (`ObeyedStays`), a shell that opens reads a file that was chosen, and a
confirmation sets the memory with the history.  It and `Survives` are `ChosenSurvives`: with no attempt since the
last confirmation, file and memory do not drift apart at all.  `Paired` is what the Wi-Fi toggle takes for granted between its two calls.

**`DisplayProofs`**, for every framebuffer capability, profile, transform and color, from
`DisplayAssumption`:

| theorem | states |
|---|---|
| `Inductive` | `Spec => []IInv` |
| `TouchShown` | `Spec => []TouchedIsShown` |
| `VisibleOnly` | `Spec => OnlyVisibleBytesChange` |
| `TouchReachesPanel` | `Spec => []TouchLandsOnPanel` |

Here `IInv` is only the types and `TouchedIsShown`: what is hard is one step, `Draw`.
The byte of a visible pixel determines the pixel (`CellOfPixel`, `PixelOfCell`, from the
uniqueness of quotient and remainder, since a line is at least as long as the offset and
the width); a pixel lies in the turned rectangle exactly when the pixel its touch is
delivered to lies in the rectangle (`OrientedPixels`); and what is staged for it is that
pixel's color (`StagedPixel`).  So a draw makes the turned rectangle right, and outside
it the panel was right before, because a turn makes the next frame a full one.  The
touch theorem rests on `NormalizeBounds` (scaling stays on the axis and reaches both
ends) and on the eight placements permuting the corners.

**`BenchProofs`**, for every device, profile, plan and result file and for any number of
taps and steps, from `NodesAssumption`, `OutputAssumption` and `DeviceAssumption` (a
framebuffer and an input answer with the fields the structs of `probe.rs` have):

| theorem | states |
|---|---|
| `Inductive` | `Spec => []IInv` |
| `EvidenceKept` | `Spec => []EvidenceIsKept` |
| `OnReviewedDevice` | `Spec => []OperationOnReviewedDevice` |
| `EndsClean` | `Spec => []CleanAfterCard` |
| `PassesOnStock` | `Spec => PassedLeavesStock` |

`IInv` has one part per concern, with one lemma that every step keeps it: `Control` (the
stages of each card, and the guard exactly from the claim of the result file to the end of
the operation), `Accounted` (at which stages which part of a card can be in memory, on the
panel or stopped, so that outside the guard nothing is), `Noted` (what a card has noted of
the display stays true until its verdict), `Reviewed` (from the resolution over the
revalidation to the open descriptors everything is what the profile names; inverting the
panel changes none of it) and `Traceable`.  Two lemmas are about the operators alone: a
resolved device is the one the profile names (`ResolvesToNamed`), and a plan and a report
that are accepted make a trace (`PlannedIsTraceable`): what the validation before the
request pins is at least what the validation after it demands.

**`TouchProofs`**, for every number of slots and contacts, every queue, read size and budget
with the shape `TouchAssumption` gives them (a queue holds at least the two records an
overflow leaves in it), and every set of coordinates:

| theorem | states | of a panel |
|---|---|---|
| `Inductive` | `Spec => []Safe` | any |
| `TypeCorrect` | `Spec => []TypeOK` | any |
| `PressesAlternate` | `Spec => ContactsAlternate` | any |
| `NothingElseStops` | `Spec => []OnlyOverflowStops` | untouched at the open, slot 0 current |
| `LonePresses` | `Spec => []LoneContactPresses` | untouched at the open, slot 0 current |
| `OwnerKept` | `Spec => []OwnerKeepsPointer` | untouched at the open, slot 0 current, no pointer emulation |

The hypotheses of the last three (`OpenedWhile # "in use"`, `~Emulates`) are the code's, not
the prover's: without them TLC refutes each of the three (section 6).

`Safe` has two halves.  `Leading` needs no hypothesis: the contacts not yet dispatched,
those staged after them, take the pointer, each a legal move, to what the tracker `Shows`.
`Ahead` is what makes the tracker follow the panel: running the records still unread from the
tracker ends in one that `Agrees` with the kernel, slot by slot, and no record on the way is
refused.  It survives a read, a push and a dispatch because those only move records from one
buffer to the next; the step that is hard is `Frame`, which appends a whole frame at once.
`FrameRuns` takes it record by record, under what the frame has already said of the slot at
hand (`Within`) and of the slots before it (`Reached`), with the driver sending the id first
or last, with and without emulated coordinates, up to the report that ends it
(`ShowsAfterFrame`).  Since the frame is the flattening of a sequence built from a set,
`Ascent` and its neighbours first say what that sequence contains; they use induction over a
set of naturals, which the provers can follow.  `BudgetHolds` is why the decoder's budget,
renewed as the shell does, never refuses a read.

Only model-checked: `RestoreReachesEveryProcess`, `SignalEndsGuardian`, `AcceptedCommandEnds`
and `OperationEnds`, because liveness under fairness is out of the prover's reach.  Every
other property of a passing run is a theorem.  `OneModal` is proved and has no run, since
the session's other properties rest on it.
`TypeOK` stands in the modules whose state is of many kinds, `Foreground`, `CrashBudget`,
`Guardian`, `Shell`, `Catalog` (with `Launcher`), `DevicePort` and `Touch`, and is proved for
each; the types of `Display` and what `Bench` needs of its own are parts of their `IInv`.

## 5. Findings

Each has a run TLC ends with a counterexample.

| run | what happens | against |
|---|---|---|
| `failures_restore_stock` | on reboot and power-off the lease leaves its slot before `mark_stable_if_due` and `finish`; when one of them fails, it is dropped, and stock stays stopped | "Failures and deferred HUP/INT/TERM restore stock" |
| `drawer_stays_sharp` | the sharp region is the top of an upright panel; on an upside-down one the drawer is halftoned | "One validated foreground region remains sharp" |
| `every_touch_presses` | a release forgets the slot's coordinates, the kernel does not repeat unchanged ones: a second tap in the same place, row or column is never reported | "Incremental Protocol-B touch state" |

## 6. Other disagreements

Each of these is a definition of its module, written from a comment, a help text or a
contract; TLC refutes it when it is added to the module's run as an `INVARIANT`.  None
has a run of its own.

| definition | what happens | against |
|---|---|---|
| `Foreground.NoReusedPidSignaled` | a process exits between the `/proc` check and `kill(2)` (`linux_kindle.rs:260`) and its pid is taken: the signal goes to whoever has it | the trait (`lib.rs:97`): "fail instead of signaling a reused PID" |
| `Foreground.CapturedPillowIsCurrent` | `pillow_state` (`linux_kindle.rs:177`) returns the command line's baseline and reads nothing; after a killed guardian, or a restoration that could not enable Pillow, the next lease captures a disabled layer as enabled | the trait (`lib.rs:106`): "Reads the current Pillow presentation state" |
| `Shell.TouchFollowsPanel` | a gyro turn whose redraw yields no pixels leaves the panel as it was while touches are turned already (`ferrink-shell-kindle.rs:670`) | `slint_bridge.rs:66`: "the same portrait orientation used by framebuffer presentation" |
| `Shell.CommandLeavesClear` | neither lease nor shell clears a region that a former owner left (`ferrink-shell-kindle.rs:880` starts from `default()`, `lightbox.rs:185` then has nothing to clear): a command, also one that launches an application under the lease, is left over it | `docs/KOA3_LIGHTBOX.md:215`: "clear before launching an application" |
| `Catalog.PositionIsStable` | the two lists are sorted by launcher position before ID (`ferrink-manifest/src/lib.rs:241`), and a manifest replaced between the two readings moves a row: another application starts | `ferrink-shell/src/lib.rs:677`: "Stable position in the supervisor's ID-sorted application catalog" |
| `Bench.ClassifiedUnderGrab` | the card opens its descriptor before it grabs: a tap in between is delivered to stock as well, and is the one it classifies | the help of `ferrink-input-grab-card-kindle.rs:606`: "acquires the exact input grab once, classifies one coordinate-redacted touch" |

`Catalog.PositionIsStable` is also why `TappedIsLaunched` speaks of sessions in which no
manifest was replaced.  `TappedIsRegistered` needs no such limit: a shell reads
the paths the guardian has registered, and comes up with all of them or not at all.

Two more were met in reading.  The guardian's help text says that a registered
application is launched only after stock ownership was restored; an application whose
manifest does not ask for the stock-mediated handoff runs inside the lease
(`Guardian.OneForeground` states what the code does).  And `Touch.OwnerKeepsPointer`
holds in the run, and is proved, on a panel nobody touches as the shell opens it, with slot
0 current and no pointer emulation; with `OpenedWhile = "in use"` or `Emulates = TRUE` TLC
finds the pointer away from its contact, since the tracker starts in slot 0, whichever slot
is the kernel's, and writes `ABS_X` and `ABS_Y` there.  Nothing in the repository says which
of these the reviewed panel does.  For the same reason, with `OpenedWhile = "in use"`, a
contact that lands in another slot than 0 may be taken for one in slot 0: then the contact
that really lands there is refused (`OnlyOverflowStops`, with `MaxContacts = 4`), or, once
another contact has made the kernel name slots, what the first sends goes to a slot the
tracker believes empty, and it never presses (`LoneContactPresses`, with `Slots = 3`,
`MaxContacts = 6` and a queue and reads of 13 records).

Observations a model would not add to: the network label compares its state without
case, the identity check beside it compares `"CONNECTED"` exactly; the guardian accepts
an icon whose file has a PNG signature and nothing else, which every shell then refuses,
so such a package ends each session at its first shell (`Catalog.ShellReads`).

## 7. Not modelled

- What a rejected argument, manifest or profile looks like: `Guardian` and `Bench` have
  one step that may refuse, `Catalog` a set of broken rules per file.  Evidence text,
  logging and artwork are left out everywhere.
- The byte limit of the crash-budget file and its limit of 32 entries: the guardian
  uses a policy of three starts.
- Raw input records: two layouts, a partial record between reads, time stamps.  The
  kernel of `Touch` hands out whole, declared records; the transform is in `Display`.
- The pump's step and byte budgets in the shell, which outlast a session at its polling
  rate; `Bench` counts the steps.
- RGB565 and the file-backed target, which only the desktop build uses.
- How the probe walks sysfs and parses ELF headers: `Resolution` has what it found, what
  it missed and which of that it warns of.  An unreadable user store is the fault
  `mounts`, an unreadable name of an input or a process the fault `name`.
- In `Bench`: a second card at the same time (the other terminal only claims a result
  file), the seconds of a report's age and of clock skew (a report is fresh, other or
  missing), an input plugged in within a boot, a tap half delivered.  The
  characterization revalidates nothing before its request, and has no signal guard:
  that it happens once rests on its fixed result file and `create_new`.  Its trace says
  one attempt also when the target could not be opened.  `EvidenceIsKept` is about the two
  validations, the one before the request and the one of the trace; a failed write, or a
  signal between the request and the write, loses the trace, in the model as in the code.
- The boot job.  It is shell scripts over Upstart and file moves; what every boot must
  come to is stated nowhere, and most of it is Upstart's behaviour.  Read, not checked:
  power lost between the two moves of jobs in `install-kindle-boot` (383 and 387) leaves
  neither starting, and lost between the moves of payload and versions (308) leaves one
  dispatcher with another payload.
- Launcher artwork, packaged applications, host-side deployment tools.

## 8. What could follow

- `Boot`: the upstart jobs, sentinels and moves with power cuts, once the repository says
  what must hold; liveness "stock or Ferrink comes up".
- A composition of `Guardian` with `Foreground` in place of its atomic lease steps, and
  of `Shell` with `Touch` and `Display`.
- Proofs of such compositions, and of the enabling conditions behind the four liveness
  properties, should the provers learn to take them.
