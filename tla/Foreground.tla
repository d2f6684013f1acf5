----------------------------- MODULE Foreground -----------------------------
(***************************************************************************)
(* The foreground ownership transaction of ferrink-supervisor: the         *)
(* guardian takes the Kindle's screen from the stock UI (the Awesome       *)
(* window manager and the CVM content manager), holds it for a foreground  *)
(* child, and gives it back.                                               *)
(*                                                                         *)
(* One step per call of the ForegroundSystem trait.  Every call may fail,  *)
(* and a failing LIPC write may have taken effect before it reported the   *)
(* failure.  Between any two calls a stock process may start, exit or be   *)
(* replaced, and the guardian itself may be killed; a later life then      *)
(* starts on the device the dead one left behind.                          *)
(*                                                                         *)
(* Both transactions are modelled: acquire_foreground on a running stock   *)
(* stack ("StockRunning") and acquire_early_boot_foreground during the     *)
(* partial boot ("StockStarting").                                         *)
(***************************************************************************)
EXTENDS Naturals, Sequences, FiniteSets

CONSTANTS
  Awesome,        \* identities (pid, start time) an awesome process may have
  Cvm,            \* identities a cvm process may have
  MaxIdentities,  \* MAX_IDENTITIES_PER_PROCESS
  MaxLives        \* bound: how many acquisitions one behaviour may begin

ASSUME ForegroundAssumption ==
  /\ IsFiniteSet(Awesome) /\ IsFiniteSet(Cvm)
  /\ Awesome \cap Cvm = {}
  /\ {"prevent", "pillow", "lightbox", "repaint"} \cap (Awesome \cup Cvm) = {}
  /\ MaxIdentities \in Nat \ {0}
  /\ MaxLives \in Nat \ {0}

Identity == Awesome \cup Cvm

(***************************************************************************)
(* Variables.                                                              *)
(***************************************************************************)
VARIABLES
  startup,     \* StartupMode of the guardian's command line
  prevent,     \* device: powerd preventScreenSaver
  pillow,      \* device: TRUE when the stock Pillow layer is enabled
  proc,        \* device: the state of every identity
  lightbox,    \* device: TRUE while the KOA3 lightbox region is active
  inverted,    \* device: TRUE while the global display inversion is on
  screen,      \* device: whose image the panel shows
  pc,          \* guardian: the next call of the transaction
  origPrevent, \* guardian: original_prevent_screen_saver
  preventChanged, pillowChanged,  \* guardian: the recorded intents
  todo,        \* guardian: inspected identities not paused yet
  paused,      \* guardian: stopped_awesome followed by stopped_cvm
  target,      \* guardian: {identity revalidated and about to be signalled}
  failures,    \* guardian: stages of the restoration that failed
  hadMutation, \* guardian: had_mutation of the restoration under way
  outcome,     \* guardian: what the last transaction returned
  foundPillow, \* history: the Pillow layer when this acquisition inspected it
  strays,      \* history: identities whose signal reached a reused pid
  lives        \* bound: acquisitions begun so far

device   == <<prevent, pillow, proc, lightbox, inverted, screen>>
lease    == <<origPrevent, preventChanged, pillowChanged, todo, paused, target>>
report   == <<failures, hadMutation, outcome>>
history  == <<foundPillow, strays, lives>>
vars     == <<startup, device, pc, lease, report, history>>

(***************************************************************************)
(* Types.                                                                  *)
(***************************************************************************)
StartupMode == {"StockRunning", "StockStarting"}
ProcState   == {"absent", "running", "stopped", "gone"}
Inspecting  == {"InspectPrevent", "InspectAwesome", "InspectCvm"}
Pausing     == {"Stop", "StopKill", "Quiesce", "Normalize"}
Restoring   == {"ClearLightbox", "Continue", "ContinueKill",
                "RestorePillow", "RestorePrevent", "Repaint"}
Settled     == {"Idle", "Done", "Crashed"}
Stage       == {"prevent", "pillow", "lightbox", "repaint"} \cup Identity
Outcome     == {"None", "Refused", "RolledBack", "Returned"}

\* The Pillow baseline the command line confirms: enabled on a running stock
\* stack, disabled by the boot integration during early boot.
ConfirmedPillow == startup = "StockRunning"

Paused      == {paused[k] : k \in DOMAIN paused}
\* Mutant: paused processes are not counted as a mutation.
HadMutationFlagsOnly == preventChanged \/ pillowChanged
HadMutation == preventChanged \/ pillowChanged \/ paused # <<>>
Alive(i) == proc[i] \in {"running", "stopped"}

(***************************************************************************)
(* The device, and the guardian's first life.  The guardian may find the   *)
(* inhibitor, the inversion and any process in any state; on a running     *)
(* stock stack no process has been stopped by anyone.                      *)
(***************************************************************************)
Init ==
  /\ startup \in StartupMode
  /\ prevent \in BOOLEAN
  /\ pillow = ConfirmedPillow
  /\ proc \in [Identity -> {"absent", "running"}]
  /\ lightbox = FALSE
  /\ inverted \in BOOLEAN
  /\ screen = "stock"
  /\ pc = "Idle"
  /\ origPrevent = FALSE
  /\ preventChanged = FALSE /\ pillowChanged = FALSE
  /\ todo = {} /\ paused = <<>> /\ target = {}
  /\ failures = {} /\ hadMutation = FALSE /\ outcome = "None"
  /\ foundPillow = pillow /\ strays = {} /\ lives = 0

(***************************************************************************)
(* Helpers: where a failing or finished stage leads.                       *)
(***************************************************************************)
\* An inspection failed or policy refused: no mutation was made.
Refuse ==
  /\ pc' = "Done" /\ outcome' = "Refused"
  /\ UNCHANGED <<lease, failures, hadMutation>>

\* restore_state and restore_early_boot_state: whatever was recorded, every
\* stage is attempted once; the lightbox is cleared first.
BeginRestore(result) ==
  /\ pc' = IF HadMutation' THEN "ClearLightbox" ELSE "Continue"
  /\ hadMutation' = HadMutation'
  /\ outcome' = result /\ failures' = {}
  /\ todo' = {}

\* Mutant: a failed mutation is ignored and the acquisition goes on.
MutateRegardless(applied, skipped, next) ==
  (applied \/ skipped) /\ pc' = next /\ UNCHANGED <<report, todo>>

\* mutate_or_rollback: a reported failure, with or without a partial effect,
\* takes the inverse path.
MutateOr(applied, skipped, next) ==
  \/ applied /\ pc' = next /\ UNCHANGED <<report, todo>>
  \/ (applied \/ skipped) /\ BeginRestore("RolledBack")

\* attempt_cleanup: a failure is collected and the next stage attempted.
Attempt(stage, applied, skipped) ==
  \/ applied /\ failures' = failures
  \/ (applied \/ skipped) /\ failures' = failures \cup {stage}

AfterPrevent   == IF ConfirmedPillow THEN "SetPillow" ELSE "Stop"
AfterRestored  == IF startup = "StockRunning" /\ hadMutation
                  THEN "Repaint" ELSE "Done"
AfterPillow    == IF preventChanged THEN "RestorePrevent" ELSE AfterRestored
AfterResume    == IF pillowChanged THEN "RestorePillow" ELSE AfterPillow

(***************************************************************************)
(* acquire_foreground, acquire_early_boot_foreground: inspection.          *)
(***************************************************************************)
\* A new acquisition, by this guardian or by the next life after a crash.
Begin ==
  /\ pc \in Settled
  /\ lives < MaxLives /\ lives' = lives + 1
  /\ pc' = "InspectPrevent"
  /\ origPrevent' = FALSE
  /\ preventChanged' = FALSE /\ pillowChanged' = FALSE
  /\ todo' = {} /\ paused' = <<>> /\ target' = {}
  /\ failures' = {} /\ hadMutation' = FALSE /\ outcome' = "None"
  /\ UNCHANGED <<startup, device, foundPillow, strays>>

\* The inhibitor is read from powerd; pillow_state answers with the baseline
\* the command line confirmed and reads nothing.
InspectPrevent ==
  /\ pc = "InspectPrevent"
  /\ \/ Refuse /\ UNCHANGED foundPillow
     \/ /\ origPrevent' = prevent
        /\ foundPillow' = pillow
        /\ pc' = "InspectAwesome"
        /\ UNCHANGED <<preventChanged, pillowChanged, todo, paused, target, report>>
  /\ UNCHANGED <<startup, device, strays, lives>>

\* running_processes fails on an identity that is already stopped.
Observed(kind)  == {i \in kind : proc[i] = "running"}
Inspectable(kind) == \A i \in kind : proc[i] # "stopped"

\* validate_processes: between one and MaxIdentities of the kind.
Valid(identities) == Cardinality(identities) \in 1 .. MaxIdentities

InspectAwesome ==
  /\ pc = "InspectAwesome"
  /\ \/ Refuse
     \/ /\ Inspectable(Awesome)
        /\ todo' = Observed(Awesome)
        /\ pc' = "InspectCvm"
        /\ UNCHANGED <<origPrevent, preventChanged, pillowChanged, paused, target, report>>
  /\ UNCHANGED <<startup, device, history>>

\* The last inspection, then the policy checks on everything inspected.
InspectCvm ==
  /\ pc = "InspectCvm"
  /\ \/ Refuse
     \/ /\ Inspectable(Cvm)
        /\ Valid(todo)
        /\ IF startup = "StockRunning" THEN Valid(Observed(Cvm))
                                       ELSE Observed(Cvm) = {}
        /\ todo' = todo \cup Observed(Cvm)
        /\ pc' = IF origPrevent THEN AfterPrevent ELSE "SetPrevent"
        /\ UNCHANGED <<origPrevent, preventChanged, pillowChanged, paused, target, report>>
  /\ UNCHANGED <<startup, device, history>>

(***************************************************************************)
(* Acquisition: each mutation, its intent recorded first.                  *)
(***************************************************************************)
\* Mutant: the intent is recorded once the write has succeeded.
SetPreventThenRecord ==
  /\ pc = "SetPrevent"
  /\ UNCHANGED <<pillowChanged, paused>>
  /\ \/ /\ prevent' = TRUE /\ preventChanged' = TRUE
        /\ pc' = AfterPrevent /\ UNCHANGED <<report, todo>>
     \/ /\ prevent' \in BOOLEAN /\ UNCHANGED preventChanged
        /\ BeginRestore("RolledBack")
  /\ UNCHANGED <<startup, pillow, proc, lightbox, inverted, screen,
                 origPrevent, target, history>>

SetPrevent ==
  /\ pc = "SetPrevent"
  /\ preventChanged' = TRUE
  /\ UNCHANGED <<pillowChanged, paused>>
  /\ MutateOr(prevent' = TRUE, prevent' = prevent, AfterPrevent)
  /\ UNCHANGED <<startup, pillow, proc, lightbox, inverted, screen,
                 origPrevent, target, history>>

SetPillow ==
  /\ pc = "SetPillow"
  /\ pillowChanged' = TRUE
  /\ UNCHANGED <<preventChanged, paused>>
  /\ MutateOr(pillow' = FALSE, pillow' = pillow, "Stop")
  /\ UNCHANGED <<startup, prevent, proc, lightbox, inverted, screen,
                 origPrevent, target, history>>

\* Every captured awesome is paused before the first cvm.
NextToStop == IF todo \cap Awesome # {} THEN todo \cap Awesome ELSE todo

\* transition_process(Stop), first half: the identity is recorded, then
\* revalidated against /proc.
Stop ==
  /\ pc = "Stop" /\ todo # {}
  /\ \E i \in NextToStop :
       /\ paused' = Append(paused, i)
       /\ UNCHANGED <<preventChanged, pillowChanged>>
       /\ \/ /\ Alive(i)
             /\ pc' = "StopKill" /\ target' = {i} /\ todo' = todo \ {i}
             /\ UNCHANGED report
          \/ BeginRestore("RolledBack") /\ UNCHANGED target
  /\ UNCHANGED <<startup, device, origPrevent, history>>

\* Second half: kill(pid, SIGSTOP).  An identity that exited since leaves
\* ESRCH, or a pid that another process has taken.
StopKill ==
  /\ pc = "StopKill"
  /\ target' = {}
  /\ UNCHANGED <<preventChanged, pillowChanged, paused>>
  /\ \E i \in target :
       \/ /\ Alive(i)
          /\ proc' = [proc EXCEPT ![i] = "stopped"]
          /\ pc' = "Stop" /\ UNCHANGED <<todo, report, strays>>
       \/ /\ ~Alive(i)
          /\ strays' = strays \cup {i}
          /\ pc' = "Stop" /\ UNCHANGED <<proc, todo, report>>
       \/ /\ ~Alive(i)
          /\ BeginRestore("RolledBack") /\ UNCHANGED <<proc, strays>>
  /\ UNCHANGED <<startup, prevent, pillow, lightbox, inverted, screen,
                 origPrevent, foundPillow, lives>>

AllStopped ==
  /\ pc = "Stop" /\ todo = {}
  /\ pc' = "Quiesce"
  /\ UNCHANGED <<startup, device, lease, report, history>>

Quiesce ==
  /\ pc = "Quiesce"
  /\ UNCHANGED <<preventChanged, pillowChanged, paused>>
  /\ MutateOr(TRUE, TRUE, "Normalize")
  /\ UNCHANGED <<startup, device, origPrevent, target, history>>

NormalizeDisplayMode ==
  /\ pc = "Normalize"
  /\ UNCHANGED <<preventChanged, pillowChanged, paused>>
  /\ MutateOr(inverted' = FALSE, inverted' = inverted, "Owned")
  /\ UNCHANGED <<startup, prevent, pillow, proc, lightbox, screen,
                 origPrevent, target, history>>

(***************************************************************************)
(* Ownership: the foreground child draws, the guardian turns automatic     *)
(* suspend on and off, and releases the lease.                             *)
(***************************************************************************)
ForegroundDraws ==
  /\ pc = "Owned"
  /\ screen' = "ferrink" /\ lightbox' \in BOOLEAN
  /\ UNCHANGED <<startup, prevent, pillow, proc, inverted, pc, lease, report, history>>

\* Mutant: the holder goes on after a failed toggle.
SetSuspendInhibitedBestEffort(inhibit) ==
  /\ pc = "Owned"
  /\ ~origPrevent /\ inhibit # preventChanged
  /\ \/ prevent' = inhibit /\ preventChanged' = inhibit
     \/ prevent' \in {prevent, inhibit} /\ preventChanged' = TRUE
  /\ UNCHANGED <<startup, pillow, proc, lightbox, inverted, screen, pc, origPrevent,
                 pillowChanged, todo, paused, target, report, history>>

\* set_suspend_inhibited, not already in the wanted state.  The guardian
\* restores the lease when it fails.
SetSuspendInhibited(inhibit) ==
  /\ pc = "Owned"
  /\ ~origPrevent /\ inhibit # preventChanged
  /\ UNCHANGED <<pillowChanged, paused>>
  /\ \/ prevent' = inhibit /\ preventChanged' = inhibit /\ UNCHANGED <<pc, todo, report>>
     \/ /\ prevent' \in {prevent, inhibit}
        /\ preventChanged' = TRUE
        /\ BeginRestore("Returned")
  /\ UNCHANGED <<startup, pillow, proc, lightbox, inverted, screen,
                 origPrevent, target, history>>

Release ==
  /\ pc = "Owned"
  /\ UNCHANGED <<preventChanged, pillowChanged, paused>>
  /\ BeginRestore("Returned")
  /\ UNCHANGED <<startup, device, origPrevent, target, history>>

(***************************************************************************)
(* Restoration: restore_state, restore_early_boot_state.                   *)
(***************************************************************************)
ClearLightbox ==
  /\ pc = "ClearLightbox"
  /\ pc' = "Continue"
  /\ Attempt("lightbox", lightbox' = FALSE, lightbox' = lightbox)
  /\ UNCHANGED <<startup, prevent, pillow, proc, inverted, screen, lease,
                 hadMutation, outcome, history>>

\* Mutant: processes are resumed in the order they were paused.
ContinueFirst ==
  /\ pc = "Continue" /\ paused # <<>>
  /\ paused' = Tail(paused)
  /\ LET i == Head(paused) IN
       \/ /\ Alive(i)
          /\ pc' = "ContinueKill" /\ target' = {i} /\ UNCHANGED failures
       \/ /\ pc' = "Continue" /\ failures' = failures \cup {i} /\ UNCHANGED target
  /\ UNCHANGED <<startup, device, origPrevent, preventChanged, pillowChanged, todo,
                 hadMutation, outcome, history>>

\* Mutant: an identity that cannot be revalidated is tried again.
ContinueRetrying ==
  /\ pc = "Continue" /\ paused # <<>>
  /\ LET i == paused[Len(paused)] IN
       \/ /\ Alive(i)
          /\ pc' = "ContinueKill" /\ target' = {i}
          /\ paused' = SubSeq(paused, 1, Len(paused) - 1)
       \/ UNCHANGED <<pc, target, paused>>
  /\ UNCHANGED <<startup, device, origPrevent, preventChanged, pillowChanged, todo,
                 report, history>>

\* transition_process(Continue), first half, on the identity paused last.
Continue ==
  /\ pc = "Continue" /\ paused # <<>>
  /\ paused' = SubSeq(paused, 1, Len(paused) - 1)
  /\ LET i == paused[Len(paused)] IN
       \/ /\ Alive(i)
          /\ pc' = "ContinueKill" /\ target' = {i} /\ UNCHANGED failures
       \/ /\ pc' = "Continue" /\ failures' = failures \cup {i} /\ UNCHANGED target
  /\ UNCHANGED <<startup, device, origPrevent, preventChanged, pillowChanged, todo,
                 hadMutation, outcome, history>>

ContinueKill ==
  /\ pc = "ContinueKill"
  /\ pc' = "Continue" /\ target' = {}
  /\ \E i \in target :
       \/ /\ Alive(i)
          /\ proc' = [proc EXCEPT ![i] = "running"] /\ UNCHANGED <<failures, strays>>
       \/ /\ ~Alive(i)
          /\ strays' = strays \cup {i} /\ UNCHANGED <<proc, failures>>
       \/ /\ ~Alive(i)
          /\ failures' = failures \cup {i} /\ UNCHANGED <<proc, strays>>
  /\ UNCHANGED <<startup, prevent, pillow, lightbox, inverted, screen, origPrevent,
                 preventChanged, pillowChanged, todo, paused, hadMutation, outcome,
                 foundPillow, lives>>

AllContinued ==
  /\ pc = "Continue" /\ paused = <<>>
  /\ pc' = AfterResume
  /\ UNCHANGED <<startup, device, lease, report, history>>

RestorePillow ==
  /\ pc = "RestorePillow"
  /\ pc' = AfterPillow
  /\ pillowChanged' = FALSE
  /\ Attempt("pillow", pillow' = ConfirmedPillow, pillow' = pillow)
  /\ UNCHANGED <<startup, prevent, proc, lightbox, inverted, screen, origPrevent,
                 preventChanged, todo, paused, target, hadMutation, outcome, history>>

\* Mutant: the intent is kept when the write fails, and nothing retries it.
RestorePreventKeepingIntent ==
  /\ pc = "RestorePrevent"
  /\ pc' = AfterRestored
  /\ \/ prevent' = origPrevent /\ preventChanged' = FALSE /\ failures' = failures
     \/ /\ failures' = failures \cup {"prevent"}
        /\ UNCHANGED <<prevent, preventChanged>>
  /\ UNCHANGED <<startup, pillow, proc, lightbox, inverted, screen, origPrevent,
                 pillowChanged, todo, paused, target, hadMutation, outcome, history>>

RestorePrevent ==
  /\ pc = "RestorePrevent"
  /\ pc' = AfterRestored
  /\ preventChanged' = FALSE
  /\ Attempt("prevent", prevent' = origPrevent, prevent' = prevent)
  /\ UNCHANGED <<startup, pillow, proc, lightbox, inverted, screen, origPrevent,
                 pillowChanged, todo, paused, target, hadMutation, outcome, history>>

RepaintStock ==
  /\ pc = "Repaint"
  /\ pc' = "Done"
  /\ Attempt("repaint", screen' = "stock", screen' = screen)
  /\ UNCHANGED <<startup, prevent, pillow, proc, lightbox, inverted, lease,
                 hadMutation, outcome, history>>

(***************************************************************************)
(* Environment.                                                            *)
(***************************************************************************)
\* The stock stack starts a process; one identity is started at most once.
ProcessStarts(i) ==
  /\ proc[i] = "absent"
  /\ proc' = [proc EXCEPT ![i] = "running"]
  /\ UNCHANGED <<startup, prevent, pillow, lightbox, inverted, screen,
                 pc, lease, report, history>>

ProcessExits(i) ==
  /\ Alive(i)
  /\ proc' = [proc EXCEPT ![i] = "gone"]
  /\ UNCHANGED <<startup, prevent, pillow, lightbox, inverted, screen,
                 pc, lease, report, history>>

\* SIGKILL or a power cut of the process: Drop of the lease does nothing, and
\* nothing is persisted.
GuardianDies ==
  /\ pc \notin Settled
  /\ pc' = "Crashed"
  /\ UNCHANGED <<startup, device, lease, report, history>>

Guardian ==
  \/ InspectPrevent \/ InspectAwesome \/ InspectCvm
  \/ SetPrevent \/ SetPillow \/ Stop \/ StopKill \/ AllStopped
  \/ Quiesce \/ NormalizeDisplayMode
  \/ ClearLightbox \/ Continue \/ ContinueKill \/ AllContinued
  \/ RestorePillow \/ RestorePrevent \/ RepaintStock

Owner ==
  \/ Begin
  \/ ForegroundDraws
  \/ \E inhibit \in BOOLEAN : SetSuspendInhibited(inhibit)
  \/ Release

Environment ==
  \/ \E i \in Identity : ProcessStarts(i) \/ ProcessExits(i)
  \/ GuardianDies

Next == Guardian \/ Owner \/ Environment

\* Every call of the transaction is bounded (a 5 s command deadline, one
\* ioctl, a 300 ms sleep), so a live guardian completes the one it is in.
Spec == Init /\ [][Next]_vars /\ WF_vars(Guardian)

(***************************************************************************)
(* Properties.                                                             *)
(***************************************************************************)
TypeOK ==
  /\ startup \in StartupMode
  /\ prevent \in BOOLEAN /\ pillow \in BOOLEAN
  /\ proc \in [Identity -> ProcState]
  /\ lightbox \in BOOLEAN /\ inverted \in BOOLEAN
  /\ screen \in {"stock", "ferrink"}
  /\ pc \in Settled \cup Inspecting \cup {"SetPrevent", "SetPillow", "Owned"}
            \cup Pausing \cup Restoring
  /\ origPrevent \in BOOLEAN
  /\ preventChanged \in BOOLEAN /\ pillowChanged \in BOOLEAN
  /\ todo \subseteq Identity
  /\ paused \in Seq(Identity) /\ Paused \cap todo = {}
  /\ target \subseteq Identity
  /\ failures \subseteq Stage
  /\ hadMutation \in BOOLEAN
  /\ outcome \in Outcome
  /\ foundPillow \in BOOLEAN
  /\ strays \subseteq Identity
  /\ lives \in 0 .. MaxLives

\* From the policy checks until the transaction has returned.
Committed ==
  \/ pc \in {"SetPrevent", "SetPillow", "Owned"} \cup Pausing \cup Restoring
  \/ pc = "Done" /\ (outcome \in {"RolledBack", "Returned"} \/ HadMutation)

\* "Restoration intent is recorded before each external mutation so even a
\* reported partial failure takes the inverse path" (acquire_foreground): at
\* every moment of a live transaction each difference between the device and
\* what the guardian found is either recorded in the lease, about to be undone,
\* or reported as a failed cleanup stage.  A process paused by a life that was
\* killed can never be among them: it makes the inspection fail.
EveryMutationAccounted ==
  Committed =>
    /\ prevent # origPrevent => preventChanged \/ "prevent" \in failures
    /\ pillow \notin {foundPillow, ConfirmedPillow}
         => pillowChanged \/ "pillow" \in failures
    /\ \A i \in Identity :
         proc[i] = "stopped" => i \in Paused \cup target \cup failures

\* A transaction that returns without reporting a failed stage has put back the
\* inhibitor, Pillow, every paused process and the lightbox, and a running stock
\* stack has its screen again (ForegroundLease::restore and every rollback).
ReturnedExactly ==
  (Committed /\ pc = "Done" /\ failures = {}) =>
    /\ prevent = origPrevent
    /\ pillow \in {foundPillow, ConfirmedPillow}
    /\ \A i \in Identity : proc[i] # "stopped"
    /\ ~lightbox
    /\ startup = "StockRunning" => screen = "stock"

\* While the lease is held the inhibitor is on exactly when the lease says so
\* or found it on: the suspend toggle of set_suspend_inhibited never drifts from
\* the device, because a toggle that fails gives up the lease.
InhibitorFollowsLease ==
  pc = "Owned" => prevent = (origPrevent \/ preventChanged)

\* No stock process is paused by an acquisition that has not inhibited suspend
\* first, so the device cannot suspend halfway through, and no captured process
\* runs once the lease is held.
PausedUnderInhibitor ==
  /\ pc \in Pausing => prevent
  /\ pc = "Owned" => \A i \in Paused : proc[i] # "running"

\* The order of giving back (restore_state): a paused process is resumed only
\* after the lightbox was cleared or its clearing reported, an awesome only
\* after every cvm, and the inhibitor is let go only after every resume.
StockResumesInOrder ==
  [][ \A i \in Identity : proc[i] = "stopped" /\ proc'[i] = "running" =>
        /\ ~lightbox \/ "lightbox" \in failures
        /\ i \in Awesome =>
             \A c \in Cvm : proc[c] = "stopped" => c \in failures
        /\ prevent' = prevent /\ "prevent" \notin failures ]_vars

\* The trait's contract: an implementation must "fail instead of signaling a
\* reused PID".  kill(2) follows the /proc check, so the identity may exit and
\* its pid be taken in between.
NoReusedPidSignaled == strays = {}

\* The trait's contract: pillow_state "reads the current Pillow presentation
\* state".  The adapter returns the confirmed baseline, which a dead life or a
\* failed restoration has left behind.
CapturedPillowIsCurrent ==
  pc = "SetPillow" => foundPillow = ConfirmedPillow

\* A restoration that has begun attempts every stage: each process still stopped
\* is resumed, gone or reported, unless the guardian is killed.
RestoreReachesEveryProcess ==
  \A i \in Identity :
    (pc = "ClearLightbox" /\ proc[i] = "stopped")
      ~> (proc[i] # "stopped" \/ i \in failures \/ pc = "Crashed")

(***************************************************************************)
(* The transaction implements StockLease.  The inhibitor is displaced when *)
(* it differs from what was read, Pillow when it was enabled and is not,   *)
(* a process when it is stopped; an identity about to be resumed is owed   *)
(* until the signal is sent.                                               *)
(***************************************************************************)
Held(condition, r) == IF condition THEN {r} ELSE {}

LeasePhase ==
  CASE pc \in Inspecting \cup {"SetPrevent", "SetPillow"} \cup Pausing -> "taking"
    [] pc = "Owned"          -> "held"
    [] pc \in Restoring      -> "returning"
    [] OTHER                 -> "outside"

Displaced ==
  IF ~Committed THEN {}
  ELSE Held(prevent # origPrevent, "prevent")
         \cup Held(pillow \notin {foundPillow, ConfirmedPillow}, "pillow")
         \cup {i \in Identity : proc[i] = "stopped"}

Owed ==
  IF ~Committed THEN {}
  ELSE Held(preventChanged, "prevent") \cup Held(pillowChanged, "pillow")
         \cup Paused \cup target

Reported == IF Committed THEN failures \cap ({"prevent", "pillow"} \cup Identity)
                         ELSE {}

StockLease == INSTANCE StockLease WITH
  Resource  <- {"prevent", "pillow"} \cup Identity,
  Revocable <- {"prevent"},
  phase <- LeasePhase, displaced <- Displaced, owed <- Owed, reported <- Reported

\* Every step of the transaction is a step of the lease or changes nothing the
\* lease speaks of: intents precede mutations, each resource is given back once,
\* and the lease ends owing nothing.
ImplementsStockLease == StockLease!Spec
=============================================================================
