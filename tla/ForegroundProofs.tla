--------------------------- MODULE ForegroundProofs --------------------------
(***************************************************************************)
(* The safety of the foreground transaction, and that it implements        *)
(* StockLease, for every set of stock process identities, every bound on   *)
(* them and any number of lives.                                           *)
(***************************************************************************)
EXTENDS Foreground, SequenceTheorems, FiniteSetTheorems, TLAPS

(***************************************************************************)
(* The inductive invariant.  Its parts say, stage by stage, what the lease *)
(* knows of the device.                                                    *)
(***************************************************************************)
Acquiring == {"SetPrevent", "SetPillow"} \cup Pausing

\* Nothing recorded yet.
Unrecorded == ~preventChanged /\ ~pillowChanged /\ paused = <<>> /\ target = {}

\* Inspection records nothing, and reads what it will later restore.
Inspected ==
  /\ pc \in Inspecting => Unrecorded /\ outcome = "None"
  /\ pc \in {"InspectAwesome", "InspectCvm"} =>
       prevent = origPrevent /\ pillow = foundPillow
  /\ pc = "InspectCvm" => \A i \in Awesome : proc[i] # "stopped"

\* Acquisition: the intents match the device exactly, and there is always a
\* process to pause or one paused.
Recorded ==
  /\ pc \in Acquiring \cup {"Owned"} => outcome = "None"
  /\ pc = "SetPrevent" =>
       ~origPrevent /\ ~prevent /\ Unrecorded /\ todo # {} /\ pillow = foundPillow
  /\ pc = "SetPillow" =>
       ConfirmedPillow /\ ~pillowChanged /\ paused = <<>> /\ target = {} /\ todo # {}
         /\ pillow = foundPillow
  /\ pc = "Stop" => todo # {} \/ paused # <<>>
  /\ pc \in {"StopKill", "Quiesce", "Normalize", "Owned"} => paused # <<>>
  /\ pc \in {"SetPillow"} \cup Pausing => prevent
  /\ pc \in {"SetPillow", "Owned"} \cup Pausing =>
       prevent = (origPrevent \/ preventChanged)
  /\ pc \in {"SetPillow", "Owned"} \cup Pausing \cup Restoring =>
       (preventChanged => ~origPrevent)
  /\ pc \in {"Owned"} \cup Pausing =>
       pillow \in {foundPillow, ConfirmedPillow} \/ pillowChanged
  /\ pillowChanged => ConfirmedPillow
  /\ pc \in Acquiring \cup {"Owned"} =>
       \A i \in Identity : proc[i] = "stopped" => i \in Paused
  /\ pc \in Pausing \cup {"Owned"} =>
       \A i \in Paused \ target : proc[i] \in {"stopped", "gone"}
  /\ pc = "StopKill" => target \subseteq Paused
  /\ \A i, j \in target : i = j /\ proc[i] # "absent"
  /\ pc \in (Acquiring \cup {"Owned"}) \ {"StopKill"} => target = {}

\* Restoration: what is no longer recorded is restored or reported.
Unwound ==
  /\ pc \in Restoring => outcome \in {"RolledBack", "Returned"} /\ hadMutation
  /\ pc \in Restoring => todo = {}
  /\ pc \in Restoring \ {"ContinueKill"} => target = {}
  /\ pc \in {"RestorePillow", "RestorePrevent", "Repaint"} => paused = <<>>
  /\ pc \in {"RestorePrevent", "Repaint"} => ~pillowChanged
  /\ pc = "Repaint" => ~preventChanged
  /\ pc = "Done" => Unrecorded /\ outcome # "None"
  /\ pc \in Restoring \ {"ClearLightbox"} => (lightbox => "lightbox" \in failures)
  /\ pc = "Done" /\ outcome \in {"RolledBack", "Returned"} =>
       /\ lightbox => "lightbox" \in failures
       /\ startup = "StockRunning" => screen = "stock" \/ "repaint" \in failures
  /\ pc \in Restoring \/ (pc = "Done" /\ outcome \in {"RolledBack", "Returned"}) =>
       /\ prevent # origPrevent => preventChanged \/ "prevent" \in failures
       /\ pillow \notin {foundPillow, ConfirmedPillow}
            => pillowChanged \/ "pillow" \in failures
       /\ \A i \in Identity :
            proc[i] = "stopped" => i \in Paused \cup target \cup failures

IInv == TypeOK /\ Inspected /\ Recorded /\ Unwound
-----------------------------------------------------------------------------
(***************************************************************************)
(* The stack of paused identities: what pushing and popping do to the set  *)
(* of its elements.                                                        *)
(***************************************************************************)
\* Recording one more identity (stopped_awesome.push, stopped_cvm.push).
LEMMA PushPaused ==
  ASSUME NEW i \in Identity, paused \in Seq(Identity), paused' = Append(paused, i)
  PROVE  /\ paused' \in Seq(Identity) /\ paused' # <<>>
         /\ Paused' = Paused \cup {i}
<1>1. paused' \in Seq(Identity) /\ Len(paused') = Len(paused) + 1
  OBVIOUS
<1>2. \A k \in 1 .. Len(paused) : paused'[k] = paused[k]
  OBVIOUS
<1>3. paused'[Len(paused) + 1] = i
  OBVIOUS
<1>4. DOMAIN paused = 1 .. Len(paused) /\ DOMAIN paused' = 1 .. (Len(paused) + 1)
  BY <1>1
<1>5. Len(paused) \in Nat
  OBVIOUS
<1>6. Paused' = Paused \cup {i}
  BY <1>2, <1>3, <1>4, <1>5 DEF Paused
<1> QED BY <1>1, <1>5, <1>6

\* Only identities are ever recorded.
LEMMA PausedIdentities ==
  ASSUME paused \in Seq(Identity)
  PROVE  Paused \subseteq Identity
<1>1. \A k \in DOMAIN paused : paused[k] \in Identity
  BY LenProperties, ElementOfSeq
<1> QED BY <1>1 DEF Paused

\* What is left of a stack without its last element.
LEMMA FrontElements ==
  ASSUME NEW S, NEW s \in Seq(S), s # <<>>, NEW n, n = Len(s) - 1
  PROVE  /\ SubSeq(s, 1, n) \in Seq(S) /\ Len(SubSeq(s, 1, n)) = n
         /\ \A k \in 1 .. n : SubSeq(s, 1, n)[k] = s[k]
         /\ Len(s) \in Nat \ {0} /\ s[Len(s)] \in S
<1>1. Len(s) \in Nat \ {0} /\ \A k \in 1 .. Len(s) : s[k] \in S
  BY ElementOfSeq, EmptySeq, LenProperties
<1>2. n \in Nat /\ n <= Len(s)
  BY <1>1
<1>3. \A k \in 1 .. n : s[k] \in S
  BY <1>1, <1>2
<1>4. 1 \in Int /\ n \in Int
  BY <1>2
<1>5. /\ SubSeq(s, 1, n) \in Seq(S)
      /\ Len(SubSeq(s, 1, n)) = IF 1 <= n THEN n - 1 + 1 ELSE 0
      /\ \A k \in 1 .. n - 1 + 1 : SubSeq(s, 1, n)[k] = s[1 + k - 1]
  BY <1>3, <1>4, SubSeqProperties
<1> QED BY <1>1, <1>2, <1>5

\* Taking the last recorded identity off (drain(..).rev(), pop).
LEMMA PopPaused ==
  ASSUME paused \in Seq(Identity), paused # <<>>,
         paused' = SubSeq(paused, 1, Len(paused) - 1)
  PROVE  /\ paused' \in Seq(Identity)
         /\ paused[Len(paused)] \in Identity
         /\ Paused = Paused' \cup {paused[Len(paused)]}
<1>0. PICK n : n = Len(paused) - 1
  OBVIOUS
<1>1. /\ paused' \in Seq(Identity) /\ Len(paused') = n
      /\ \A k \in 1 .. n : paused'[k] = paused[k]
      /\ Len(paused) \in Nat \ {0} /\ paused[Len(paused)] \in Identity
  BY <1>0, FrontElements
<1>2. DOMAIN paused = 1 .. Len(paused) /\ DOMAIN paused' = 1 .. n
  BY <1>1, LenProperties
<1>3. 1 .. Len(paused) = (1 .. n) \cup {Len(paused)}
  BY <1>0, <1>1
<1>4. Paused = Paused' \cup {paused[Len(paused)]}
  <2>1. Paused = {paused[k] : k \in (1 .. n) \cup {Len(paused)}}
    BY <1>2, <1>3, Zenon DEF Paused
  <2>2. Paused' = {paused'[k] : k \in 1 .. n}
    BY <1>2, Zenon DEF Paused
  <2>3. Paused' = {paused[k] : k \in 1 .. n}
    BY <1>1, <2>2
  <2> QED BY <2>1, <2>3
<1> QED BY <1>1, <1>4
\* A kind that passed validate_processes has a process.
LEMMA ValidNonempty == \A S : Valid(S) => S # {}
<1>1. Cardinality({}) = 0
  BY FS_EmptySet
<1>2. 0 \notin 1 .. MaxIdentities
  BY ForegroundAssumption
<1> QED BY <1>1, <1>2 DEF Valid

-----------------------------------------------------------------------------
(***************************************************************************)
(* Entering the restoration, from a failed mutation or from the holder:    *)
(* the records cover the device, so the invariant of Restoring holds.      *)
(***************************************************************************)
LEMMA RestoreBegun ==
  ASSUME IInv, NEW result \in {"RolledBack", "Returned"},
         pc \in Acquiring \cup {"Owned"},
         BeginRestore(result), HadMutation',
         UNCHANGED <<startup, lightbox, screen, origPrevent, history>>,
         prevent' \in BOOLEAN, pillow' \in BOOLEAN, inverted' \in BOOLEAN,
         proc' \in [Identity -> ProcState],
         preventChanged' \in BOOLEAN, pillowChanged' \in BOOLEAN,
         paused' \in Seq(Identity), target' = {},
         preventChanged' => ~origPrevent,
         pillowChanged' => ConfirmedPillow,
         prevent' # origPrevent => preventChanged',
         pillow' \notin {foundPillow, ConfirmedPillow} => pillowChanged',
         \A i \in Identity : proc'[i] = "stopped" => i \in Paused'
  PROVE  IInv'
<1> USE DEF IInv, TypeOK, Inspected, Recorded, Unwound, Unrecorded, BeginRestore,
            history, Stage, Settled, Inspecting, Pausing, Restoring, Acquiring,
            StartupMode, ConfirmedPillow, Outcome
<1>1. /\ pc' = "ClearLightbox" /\ hadMutation' /\ outcome' = result
      /\ failures' = {} /\ todo' = {}
  BY Zenon
<1>2. TypeOK'
  BY <1>1
<1>3. Inspected' /\ Recorded' /\ Unwound'
  BY <1>1
<1> QED BY <1>2, <1>3

\* A new acquisition starts with nothing recorded.
LEMMA BeginKeeps == IInv /\ Begin => IInv'
<1> SUFFICES ASSUME IInv, Begin PROVE IInv'
  OBVIOUS
<1> USE DEF IInv, TypeOK, Inspected, Recorded, Unwound, Unrecorded,
            device, lease, report, history, Identity, ProcState, Outcome, Stage, Settled,
            Inspecting, Pausing, Restoring, Acquiring, StartupMode, ConfirmedPillow
<1>1. TypeOK'
  <2>1. lives' \in 0 .. MaxLives
    BY ForegroundAssumption DEF Begin
  <2>2. paused' \in Seq(Identity) /\ (Paused \cap todo = {})'
    BY DEF Begin, Paused
  <2> QED BY <2>1, <2>2 DEF Begin
<1>2. Inspected'
  BY DEF Begin, Paused
<1>3. Recorded'
  BY DEF Begin, Paused
<1>4. Unwound'
  BY DEF Begin, Paused
<1> QED BY <1>1, <1>2, <1>3, <1>4

\* The inhibitor and Pillow are read, nothing is written.
LEMMA InspectPreventKeeps == IInv /\ InspectPrevent => IInv'
<1> SUFFICES ASSUME IInv, InspectPrevent PROVE IInv'
  OBVIOUS
<1> USE DEF IInv, TypeOK, Inspected, Recorded, Unwound, Unrecorded,
            device, lease, report, history, Identity, ProcState, Outcome, Stage, Settled,
            Inspecting, Pausing, Restoring, Acquiring, StartupMode, ConfirmedPillow
<1>0. paused' = paused /\ Paused' = Paused /\ (paused = <<>> => Paused = {})
  BY DEF InspectPrevent, MutateOr, Refuse, Paused
<1>1. CASE Refuse /\ UNCHANGED foundPillow
  BY <1>0, <1>1 DEF InspectPrevent, Refuse
<1>2. CASE /\ origPrevent' = prevent /\ foundPillow' = pillow
             /\ pc' = "InspectAwesome"
             /\ UNCHANGED <<preventChanged, pillowChanged, todo, paused, target, report>>
  <2>1. TypeOK'
    BY <1>0, <1>2 DEF InspectPrevent, Refuse
  <2>2. Inspected'
    BY <1>0, <1>2 DEF InspectPrevent, Refuse
  <2>3. Recorded'
    BY <1>0, <1>2 DEF InspectPrevent, Refuse
  <2>4. Unwound'
    BY <1>0, <1>2 DEF InspectPrevent, Refuse
  <2> QED BY <2>1, <2>2, <2>3, <2>4
<1> QED BY <1>1, <1>2 DEF InspectPrevent

\* The awesome identities are listed, none of them stopped.
LEMMA InspectAwesomeKeeps == IInv /\ InspectAwesome => IInv'
<1> SUFFICES ASSUME IInv, InspectAwesome PROVE IInv'
  OBVIOUS
<1> USE DEF IInv, TypeOK, Inspected, Recorded, Unwound, Unrecorded,
            device, lease, report, history, Identity, ProcState, Outcome, Stage, Settled,
            Inspecting, Pausing, Restoring, Acquiring, StartupMode, ConfirmedPillow
<1>0. paused' = paused /\ Paused' = Paused /\ (paused = <<>> => Paused = {})
  BY DEF InspectAwesome, MutateOr, Refuse, Paused
<1>1. CASE Refuse
  BY <1>0, <1>1 DEF InspectAwesome, Refuse
<1>2. CASE /\ Inspectable(Awesome) /\ todo' = Observed(Awesome)
             /\ pc' = "InspectCvm"
             /\ UNCHANGED <<origPrevent, preventChanged, pillowChanged, paused, target,
                            report>>
  <2>1. TypeOK'
    BY <1>0, <1>2 DEF InspectAwesome, Inspectable, Observed
  <2>2. Inspected'
    BY <1>0, <1>2 DEF InspectAwesome, Inspectable, Observed
  <2>3. Recorded'
    BY <1>0, <1>2 DEF InspectAwesome, Inspectable, Observed
  <2>4. Unwound'
    BY <1>0, <1>2 DEF InspectAwesome, Inspectable, Observed
  <2> QED BY <2>1, <2>2, <2>3, <2>4
<1> QED BY <1>1, <1>2 DEF InspectAwesome

\* The policy admits only a stock stack with something to pause and nothing paused.
LEMMA InspectCvmKeeps == IInv /\ InspectCvm => IInv'
<1> SUFFICES ASSUME IInv, InspectCvm PROVE IInv'
  OBVIOUS
<1> USE DEF IInv, TypeOK, Inspected, Recorded, Unwound, Unrecorded,
            device, lease, report, history, Identity, ProcState, Outcome, Stage, Settled,
            Inspecting, Pausing, Restoring, Acquiring, StartupMode, ConfirmedPillow
<1>0. paused' = paused /\ Paused' = Paused /\ (paused = <<>> => Paused = {})
  BY DEF InspectCvm, Refuse, Paused
<1>1. CASE Refuse
  BY <1>0, <1>1 DEF InspectCvm, Refuse
<1>2. CASE /\ Inspectable(Cvm) /\ Valid(todo)
           /\ todo' = todo \cup Observed(Cvm)
           /\ pc' = IF origPrevent THEN AfterPrevent ELSE "SetPrevent"
           /\ UNCHANGED <<origPrevent, preventChanged, pillowChanged, paused, target,
                          report>>
  <2>1. todo # {}
    BY <1>2, ValidNonempty
  <2>2. todo' # {} /\ todo' \subseteq Identity /\ \A i \in Identity : proc'[i] # "stopped"
    BY <1>2, <2>1 DEF InspectCvm, Inspectable, Observed
  <2>3. /\ pc' \in {"SetPrevent", "SetPillow", "Stop"}
        /\ pc' = "SetPrevent" => ~origPrevent
        /\ pc' # "SetPrevent" => origPrevent
        /\ pc' = "SetPillow" => ConfirmedPillow
    BY <1>2 DEF AfterPrevent
  <2>4. Paused = {}
    BY DEF InspectCvm, Paused
  <2>5. TypeOK'
    BY <1>0, <1>2, <2>2, <2>3, <2>4 DEF InspectCvm
  <2>6. Inspected' /\ Unwound'
    BY <1>0, <1>2, <2>2, <2>3 DEF InspectCvm
  <2>7. /\ outcome' = "None" /\ Unrecorded' /\ Paused' = {}
        /\ prevent' = origPrevent /\ pillow' = foundPillow
        /\ UNCHANGED <<startup, origPrevent, foundPillow>>
    BY <1>0, <1>2, <2>4 DEF InspectCvm
  <2>8. Recorded'
    <3>1. CASE pc' = "SetPrevent"
      BY <2>2, <2>3, <2>7, <3>1
    <3>2. CASE pc' = "SetPillow"
      BY <2>2, <2>3, <2>7, <3>2 DEF AfterPrevent
    <3>3. CASE pc' = "Stop"
      BY <2>2, <2>3, <2>7, <3>3
    <3> QED BY <2>3, <3>1, <3>2, <3>3
  <2> QED BY <2>5, <2>6, <2>8
<1> QED BY <1>1, <1>2 DEF InspectCvm

\* The inhibitor is recorded before it is written.
LEMMA SetPreventKeeps == IInv /\ SetPrevent => IInv'
<1> SUFFICES ASSUME IInv, SetPrevent PROVE IInv'
  OBVIOUS
<1> USE DEF IInv, TypeOK, Inspected, Recorded, Unwound, Unrecorded,
            device, lease, report, history, Identity, ProcState, Outcome, Stage, Settled,
            Inspecting, Pausing, Restoring, Acquiring, StartupMode, ConfirmedPillow
<1>0. paused' = paused /\ Paused' = Paused /\ (paused = <<>> => Paused = {})
  BY DEF SetPrevent, MutateOr, Paused
<1>1. CASE BeginRestore("RolledBack")
  <2>1. HadMutation'
    BY <1>0 DEF SetPrevent, HadMutation
  <2>2. /\ pc \in Acquiring \cup {"Owned"}
        /\ UNCHANGED <<startup, lightbox, screen, origPrevent, history>>
        /\ prevent' \in BOOLEAN /\ pillow' \in BOOLEAN /\ inverted' \in BOOLEAN
        /\ proc' = proc /\ target' = {}
        /\ preventChanged' \in BOOLEAN /\ pillowChanged' \in BOOLEAN
    BY DEF SetPrevent, MutateOr
  <2>3. preventChanged' => ~origPrevent
    BY DEF SetPrevent
  <2>4. pillowChanged' => ConfirmedPillow
    BY DEF SetPrevent
  <2>5. prevent' # origPrevent => preventChanged'
    BY DEF SetPrevent, MutateOr
  <2>6. pillow' \notin {foundPillow, ConfirmedPillow} => pillowChanged'
    BY DEF SetPrevent, MutateOr
  <2>7. \A i \in Identity : proc'[i] = "stopped" => i \in Paused'
    BY <1>0, <2>2
  <2> QED BY <1>0, <1>1, <2>1, <2>2, <2>3, <2>4, <2>5, <2>6, <2>7, RestoreBegun
<1>2. CASE prevent' = TRUE /\ pc' = AfterPrevent /\ UNCHANGED <<report, todo>>
  <2>1. TypeOK'
    BY <1>0, <1>2 DEF SetPrevent, AfterPrevent
  <2>2. Inspected'
    BY <1>0, <1>2 DEF SetPrevent, AfterPrevent
  <2>3. Recorded'
    BY <1>0, <1>2 DEF SetPrevent, AfterPrevent
  <2>4. Unwound'
    BY <1>0, <1>2 DEF SetPrevent, AfterPrevent
  <2> QED BY <2>1, <2>2, <2>3, <2>4
<1> QED BY <1>1, <1>2 DEF SetPrevent, MutateOr

\* Pillow is recorded before it is written.
LEMMA SetPillowKeeps == IInv /\ SetPillow => IInv'
<1> SUFFICES ASSUME IInv, SetPillow PROVE IInv'
  OBVIOUS
<1> USE DEF IInv, TypeOK, Inspected, Recorded, Unwound, Unrecorded,
            device, lease, report, history, Identity, ProcState, Outcome, Stage, Settled,
            Inspecting, Pausing, Restoring, Acquiring, StartupMode, ConfirmedPillow
<1>0. paused' = paused /\ Paused' = Paused /\ (paused = <<>> => Paused = {})
  BY DEF SetPillow, MutateOr, Paused
<1>1. CASE BeginRestore("RolledBack")
  <2>1. HadMutation'
    BY <1>0 DEF SetPillow, HadMutation
  <2>2. /\ pc \in Acquiring \cup {"Owned"}
        /\ UNCHANGED <<startup, lightbox, screen, origPrevent, history>>
        /\ prevent' \in BOOLEAN /\ pillow' \in BOOLEAN /\ inverted' \in BOOLEAN
        /\ proc' = proc /\ target' = {}
        /\ preventChanged' \in BOOLEAN /\ pillowChanged' \in BOOLEAN
    BY DEF SetPillow, MutateOr
  <2>3. preventChanged' => ~origPrevent
    BY DEF SetPillow
  <2>4. pillowChanged' => ConfirmedPillow
    BY DEF SetPillow
  <2>5. prevent' # origPrevent => preventChanged'
    BY DEF SetPillow, MutateOr
  <2>6. pillow' \notin {foundPillow, ConfirmedPillow} => pillowChanged'
    BY DEF SetPillow, MutateOr
  <2>7. \A i \in Identity : proc'[i] = "stopped" => i \in Paused'
    BY <1>0, <2>2
  <2> QED BY <1>0, <1>1, <2>1, <2>2, <2>3, <2>4, <2>5, <2>6, <2>7, RestoreBegun
<1>2. CASE pillow' = FALSE /\ pc' = "Stop" /\ UNCHANGED <<report, todo>>
  <2>1. TypeOK'
    BY <1>0, <1>2 DEF SetPillow
  <2>2. Inspected'
    BY <1>0, <1>2 DEF SetPillow
  <2>3. Recorded'
    BY <1>0, <1>2 DEF SetPillow
  <2>4. Unwound'
    BY <1>0, <1>2 DEF SetPillow
  <2> QED BY <2>1, <2>2, <2>3, <2>4
<1> QED BY <1>1, <1>2 DEF SetPillow, MutateOr

\* Quiescence only waits.
LEMMA QuiesceKeeps == IInv /\ Quiesce => IInv'
<1> SUFFICES ASSUME IInv, Quiesce PROVE IInv'
  OBVIOUS
<1> USE DEF IInv, TypeOK, Inspected, Recorded, Unwound, Unrecorded,
            device, lease, report, history, Identity, ProcState, Outcome, Stage, Settled,
            Inspecting, Pausing, Restoring, Acquiring, StartupMode, ConfirmedPillow
<1>0. paused' = paused /\ Paused' = Paused /\ (paused = <<>> => Paused = {})
  BY DEF Quiesce, MutateOr, Paused
<1>1. CASE BeginRestore("RolledBack")
  <2>1. HadMutation'
    BY <1>0 DEF Quiesce, HadMutation
  <2>2. /\ pc \in Acquiring \cup {"Owned"}
        /\ UNCHANGED <<startup, lightbox, screen, origPrevent, history>>
        /\ prevent' \in BOOLEAN /\ pillow' \in BOOLEAN /\ inverted' \in BOOLEAN
        /\ proc' = proc /\ target' = {}
        /\ preventChanged' \in BOOLEAN /\ pillowChanged' \in BOOLEAN
    BY DEF Quiesce, MutateOr
  <2>3. preventChanged' => ~origPrevent
    BY DEF Quiesce
  <2>4. pillowChanged' => ConfirmedPillow
    BY DEF Quiesce
  <2>5. prevent' # origPrevent => preventChanged'
    BY DEF Quiesce, MutateOr
  <2>6. pillow' \notin {foundPillow, ConfirmedPillow} => pillowChanged'
    BY DEF Quiesce, MutateOr
  <2>7. \A i \in Identity : proc'[i] = "stopped" => i \in Paused'
    BY <1>0, <2>2
  <2> QED BY <1>0, <1>1, <2>1, <2>2, <2>3, <2>4, <2>5, <2>6, <2>7, RestoreBegun
<1>2. CASE TRUE /\ pc' = "Normalize" /\ UNCHANGED <<report, todo>>
  <2>1. TypeOK'
    BY <1>0, <1>2 DEF Quiesce
  <2>2. Inspected'
    BY <1>0, <1>2 DEF Quiesce
  <2>3. Recorded'
    BY <1>0, <1>2 DEF Quiesce
  <2>4. Unwound'
    BY <1>0, <1>2 DEF Quiesce
  <2> QED BY <2>1, <2>2, <2>3, <2>4
<1> QED BY <1>1, <1>2 DEF Quiesce, MutateOr

\* Normalising the display is not recorded, and never undone.
LEMMA NormalizeDisplayModeKeeps == IInv /\ NormalizeDisplayMode => IInv'
<1> SUFFICES ASSUME IInv, NormalizeDisplayMode PROVE IInv'
  OBVIOUS
<1> USE DEF IInv, TypeOK, Inspected, Recorded, Unwound, Unrecorded,
            device, lease, report, history, Identity, ProcState, Outcome, Stage, Settled,
            Inspecting, Pausing, Restoring, Acquiring, StartupMode, ConfirmedPillow
<1>0. paused' = paused /\ Paused' = Paused /\ (paused = <<>> => Paused = {})
  BY DEF NormalizeDisplayMode, MutateOr, Paused
<1>1. CASE BeginRestore("RolledBack")
  <2>1. HadMutation'
    BY <1>0 DEF NormalizeDisplayMode, HadMutation
  <2>2. /\ pc \in Acquiring \cup {"Owned"}
        /\ UNCHANGED <<startup, lightbox, screen, origPrevent, history>>
        /\ prevent' \in BOOLEAN /\ pillow' \in BOOLEAN /\ inverted' \in BOOLEAN
        /\ proc' = proc /\ target' = {}
        /\ preventChanged' \in BOOLEAN /\ pillowChanged' \in BOOLEAN
    BY DEF NormalizeDisplayMode, MutateOr
  <2>3. preventChanged' => ~origPrevent
    BY DEF NormalizeDisplayMode
  <2>4. pillowChanged' => ConfirmedPillow
    BY DEF NormalizeDisplayMode
  <2>5. prevent' # origPrevent => preventChanged'
    BY DEF NormalizeDisplayMode, MutateOr
  <2>6. pillow' \notin {foundPillow, ConfirmedPillow} => pillowChanged'
    BY DEF NormalizeDisplayMode, MutateOr
  <2>7. \A i \in Identity : proc'[i] = "stopped" => i \in Paused'
    BY <1>0, <2>2
  <2> QED BY <1>0, <1>1, <2>1, <2>2, <2>3, <2>4, <2>5, <2>6, <2>7, RestoreBegun
<1>2. CASE inverted' = FALSE /\ pc' = "Owned" /\ UNCHANGED <<report, todo>>
  <2>1. TypeOK'
    BY <1>0, <1>2 DEF NormalizeDisplayMode
  <2>2. Inspected'
    BY <1>0, <1>2 DEF NormalizeDisplayMode
  <2>3. Recorded'
    BY <1>0, <1>2 DEF NormalizeDisplayMode
  <2>4. Unwound'
    BY <1>0, <1>2 DEF NormalizeDisplayMode
  <2> QED BY <2>1, <2>2, <2>3, <2>4
<1> QED BY <1>1, <1>2 DEF NormalizeDisplayMode, MutateOr

\* The pause loop ends with something paused.
LEMMA AllStoppedKeeps == IInv /\ AllStopped => IInv'
<1> SUFFICES ASSUME IInv, AllStopped PROVE IInv'
  OBVIOUS
<1> USE DEF IInv, TypeOK, Inspected, Recorded, Unwound, Unrecorded,
            device, lease, report, history, Identity, ProcState, Outcome, Stage, Settled,
            Inspecting, Pausing, Restoring, Acquiring, StartupMode, ConfirmedPillow
<1>0. paused' = paused /\ Paused' = Paused /\ (paused = <<>> => Paused = {})
  BY DEF AllStopped, Paused
<1>1. TypeOK'
  BY <1>0 DEF AllStopped
<1>2. Inspected'
  BY <1>0 DEF AllStopped
<1>3. Recorded'
  BY <1>0 DEF AllStopped
<1>4. Unwound'
  BY <1>0 DEF AllStopped
<1> QED BY <1>1, <1>2, <1>3, <1>4

\* The foreground child only touches the screen.
LEMMA ForegroundDrawsKeeps == IInv /\ ForegroundDraws => IInv'
<1> SUFFICES ASSUME IInv, ForegroundDraws PROVE IInv'
  OBVIOUS
<1> USE DEF IInv, TypeOK, Inspected, Recorded, Unwound, Unrecorded,
            device, lease, report, history, Identity, ProcState, Outcome, Stage, Settled,
            Inspecting, Pausing, Restoring, Acquiring, StartupMode, ConfirmedPillow
<1>0. paused' = paused /\ Paused' = Paused /\ (paused = <<>> => Paused = {})
  BY DEF ForegroundDraws, Paused
<1>1. TypeOK'
  BY <1>0 DEF ForegroundDraws
<1>2. Inspected'
  BY <1>0 DEF ForegroundDraws
<1>3. Recorded'
  BY <1>0 DEF ForegroundDraws
<1>4. Unwound'
  BY <1>0 DEF ForegroundDraws
<1> QED BY <1>1, <1>2, <1>3, <1>4

\* The lightbox is cleared, or its stage is reported.
LEMMA ClearLightboxKeeps == IInv /\ ClearLightbox => IInv'
<1> SUFFICES ASSUME IInv, ClearLightbox PROVE IInv'
  OBVIOUS
<1> USE DEF IInv, TypeOK, Inspected, Recorded, Unwound, Unrecorded,
            device, lease, report, history, Identity, ProcState, Outcome, Stage, Settled,
            Inspecting, Pausing, Restoring, Acquiring, StartupMode, ConfirmedPillow
<1>0. paused' = paused /\ Paused' = Paused /\ (paused = <<>> => Paused = {})
  BY DEF ClearLightbox, Paused
<1>1. TypeOK'
  <2>1. failures' \subseteq Stage /\ lightbox' \in BOOLEAN
    BY DEF ClearLightbox, Attempt
  <2> QED BY <1>0, <2>1 DEF ClearLightbox
<1>2. Inspected'
  BY <1>0 DEF ClearLightbox, Attempt
<1>3. Recorded'
  BY <1>0 DEF ClearLightbox, Attempt
<1>4. Unwound'
  BY <1>0 DEF ClearLightbox, Attempt
<1> QED BY <1>1, <1>2, <1>3, <1>4

\* The resume loop ends with nothing paused.
LEMMA AllContinuedKeeps == IInv /\ AllContinued => IInv'
<1> SUFFICES ASSUME IInv, AllContinued PROVE IInv'
  OBVIOUS
<1> USE DEF IInv, TypeOK, Inspected, Recorded, Unwound, Unrecorded,
            device, lease, report, history, Identity, ProcState, Outcome, Stage, Settled,
            Inspecting, Pausing, Restoring, Acquiring, StartupMode, ConfirmedPillow
<1>0. paused' = paused /\ Paused' = Paused /\ (paused = <<>> => Paused = {})
  BY DEF AllContinued, Paused
<1>1. TypeOK'
  BY <1>0 DEF AllContinued, AfterResume, AfterPillow, AfterRestored
<1>2. Inspected'
  BY <1>0 DEF AllContinued, AfterResume, AfterPillow, AfterRestored
<1>3. Recorded'
  BY <1>0 DEF AllContinued, AfterResume, AfterPillow, AfterRestored
<1>4. Unwound'
  BY <1>0 DEF AllContinued, AfterResume, AfterPillow, AfterRestored
<1> QED BY <1>1, <1>2, <1>3, <1>4

\* Pillow is put back, or its stage is reported.
LEMMA RestorePillowKeeps == IInv /\ RestorePillow => IInv'
<1> SUFFICES ASSUME IInv, RestorePillow PROVE IInv'
  OBVIOUS
<1> USE DEF IInv, TypeOK, Inspected, Recorded, Unwound, Unrecorded,
            device, lease, report, history, Identity, ProcState, Outcome, Stage, Settled,
            Inspecting, Pausing, Restoring, Acquiring, StartupMode, ConfirmedPillow
<1>0. paused' = paused /\ Paused' = Paused /\ (paused = <<>> => Paused = {})
  BY DEF RestorePillow, Paused
<1>1. TypeOK'
  <2>1. failures' \subseteq Stage /\ pillow' \in BOOLEAN
    BY DEF RestorePillow, Attempt
  <2>2. pc' \in {"RestorePrevent", "Repaint", "Done"}
    BY DEF RestorePillow, AfterPillow, AfterRestored
  <2>3. preventChanged \in BOOLEAN /\ prevent \in BOOLEAN /\ pillowChanged' \in BOOLEAN
    BY DEF RestorePillow
  <2> QED BY <1>0, <2>1, <2>2, <2>3 DEF RestorePillow
<1>2. Inspected'
  BY <1>0 DEF RestorePillow, Attempt, AfterPillow, AfterRestored
<1>3. Recorded'
  BY <1>0 DEF RestorePillow, Attempt, AfterPillow, AfterRestored
<1>4. Unwound'
  BY <1>0 DEF RestorePillow, Attempt, AfterPillow, AfterRestored
<1> QED BY <1>1, <1>2, <1>3, <1>4

\* The inhibitor is put back, or its stage is reported.
LEMMA RestorePreventKeeps == IInv /\ RestorePrevent => IInv'
<1> SUFFICES ASSUME IInv, RestorePrevent PROVE IInv'
  OBVIOUS
<1> USE DEF IInv, TypeOK, Inspected, Recorded, Unwound, Unrecorded,
            device, lease, report, history, Identity, ProcState, Outcome, Stage, Settled,
            Inspecting, Pausing, Restoring, Acquiring, StartupMode, ConfirmedPillow
<1>0. paused' = paused /\ Paused' = Paused /\ (paused = <<>> => Paused = {})
  BY DEF RestorePrevent, Paused
<1>1. TypeOK'
  <2>1. failures' \subseteq Stage /\ prevent' \in BOOLEAN
    BY DEF RestorePrevent, Attempt
  <2>2. pc' \in {"Repaint", "Done"}
    BY DEF RestorePrevent, AfterRestored
  <2>3. preventChanged' \in BOOLEAN
    BY DEF RestorePrevent
  <2> QED BY <1>0, <2>1, <2>2, <2>3 DEF RestorePrevent
<1>2. Inspected'
  BY <1>0 DEF RestorePrevent, Attempt, AfterRestored
<1>3. Recorded'
  BY <1>0 DEF RestorePrevent, Attempt, AfterRestored
<1>4. Unwound'
  BY <1>0 DEF RestorePrevent, Attempt, AfterRestored
<1> QED BY <1>1, <1>2, <1>3, <1>4

\* Stock is repainted, or its stage is reported.
LEMMA RepaintStockKeeps == IInv /\ RepaintStock => IInv'
<1> SUFFICES ASSUME IInv, RepaintStock PROVE IInv'
  OBVIOUS
<1> USE DEF IInv, TypeOK, Inspected, Recorded, Unwound, Unrecorded,
            device, lease, report, history, Identity, ProcState, Outcome, Stage, Settled,
            Inspecting, Pausing, Restoring, Acquiring, StartupMode, ConfirmedPillow
<1>0. paused' = paused /\ Paused' = Paused /\ (paused = <<>> => Paused = {})
  BY DEF RepaintStock, Paused
<1>1. TypeOK'
  <2>1. failures' \subseteq Stage /\ screen' \in {"stock", "ferrink"}
    BY DEF RepaintStock, Attempt
  <2> QED BY <1>0, <2>1 DEF RepaintStock
<1>2. Inspected'
  BY <1>0 DEF RepaintStock, Attempt
<1>3. Recorded'
  BY <1>0 DEF RepaintStock, Attempt
<1>4. Unwound'
  BY <1>0 DEF RepaintStock, Attempt
<1> QED BY <1>1, <1>2, <1>3, <1>4

\* A dead guardian promises nothing.
LEMMA GuardianDiesKeeps == IInv /\ GuardianDies => IInv'
<1> SUFFICES ASSUME IInv, GuardianDies PROVE IInv'
  OBVIOUS
<1> USE DEF IInv, TypeOK, Inspected, Recorded, Unwound, Unrecorded,
            device, lease, report, history, Identity, ProcState, Outcome, Stage, Settled,
            Inspecting, Pausing, Restoring, Acquiring, StartupMode, ConfirmedPillow
<1>0. paused' = paused /\ Paused' = Paused /\ (paused = <<>> => Paused = {})
  BY DEF GuardianDies, Paused
<1>1. TypeOK'
  BY <1>0 DEF GuardianDies
<1>2. Inspected'
  BY <1>0 DEF GuardianDies
<1>3. Recorded'
  BY <1>0 DEF GuardianDies
<1>4. Unwound'
  BY <1>0 DEF GuardianDies
<1> QED BY <1>1, <1>2, <1>3, <1>4

\* An identity is recorded, then revalidated; a failure rolls back with it.
LEMMA StopKeeps == IInv /\ Stop => IInv'
<1> SUFFICES ASSUME IInv, Stop PROVE IInv'
  OBVIOUS
<1> USE DEF IInv, TypeOK, Inspected, Recorded, Unwound, Unrecorded,
            device, lease, report, history, Identity, ProcState, Outcome, Stage, Settled,
            Inspecting, Pausing, Restoring, Acquiring, StartupMode, ConfirmedPillow
<1>1. PICK i \in NextToStop :
        /\ paused' = Append(paused, i)
        /\ UNCHANGED <<preventChanged, pillowChanged>>
        /\ \/ /\ Alive(i)
              /\ pc' = "StopKill" /\ target' = {i} /\ todo' = todo \ {i}
              /\ UNCHANGED report
           \/ BeginRestore("RolledBack") /\ UNCHANGED target
  BY DEF Stop
<1>2. i \in Identity /\ i \in todo
  BY DEF NextToStop
<1>3. paused' \in Seq(Identity) /\ paused' # <<>> /\ Paused' = Paused \cup {i}
  BY <1>1, <1>2, PushPaused
<1>4. UNCHANGED <<startup, device, origPrevent, history>> /\ pc = "Stop"
  BY DEF Stop
<1>5. CASE BeginRestore("RolledBack") /\ UNCHANGED target
  <2>1. HadMutation'
    BY <1>3 DEF HadMutation
  <2>2. prevent # origPrevent => preventChanged
    BY <1>4
  <2>3. \A j \in Identity : proc'[j] = "stopped" => j \in Paused'
    BY <1>3, <1>4
  <2> QED BY <1>1, <1>3, <1>4, <1>5, <2>1, <2>2, <2>3, RestoreBegun
<1>6. CASE /\ Alive(i)
           /\ pc' = "StopKill" /\ target' = {i} /\ todo' = todo \ {i}
           /\ UNCHANGED report
  <2>1. TypeOK'
    BY <1>1, <1>2, <1>3, <1>4, <1>6
  <2>2. Inspected' /\ Unwound'
    BY <1>1, <1>4, <1>6
  <2>3. Recorded'
    BY <1>1, <1>3, <1>4, <1>6 DEF Alive
  <2> QED BY <2>1, <2>2, <2>3
<1> QED BY <1>1, <1>5, <1>6

\* The recorded identity is stopped, or gone.
LEMMA StopKillKeeps == IInv /\ StopKill => IInv'
<1> SUFFICES ASSUME IInv, StopKill PROVE IInv'
  OBVIOUS
<1> USE DEF IInv, TypeOK, Inspected, Recorded, Unwound, Unrecorded,
            device, lease, report, history, Identity, ProcState, Outcome, Stage, Settled,
            Inspecting, Pausing, Restoring, Acquiring, StartupMode, ConfirmedPillow
<1>0. /\ paused' = paused /\ Paused' = Paused /\ target' = {} /\ pc = "StopKill"
      /\ UNCHANGED <<startup, prevent, pillow, lightbox, inverted, screen, origPrevent,
                     preventChanged, pillowChanged, foundPillow, lives>>
  BY DEF StopKill, Paused
<1>1. PICK i \in target :
       \/ /\ Alive(i)
          /\ proc' = [proc EXCEPT ![i] = "stopped"]
          /\ pc' = "Stop" /\ UNCHANGED <<todo, report, strays>>
       \/ /\ ~Alive(i)
          /\ strays' = strays \cup {i}
          /\ pc' = "Stop" /\ UNCHANGED <<proc, todo, report>>
       \/ /\ ~Alive(i)
          /\ BeginRestore("RolledBack") /\ UNCHANGED <<proc, strays>>
  BY DEF StopKill
<1>2. i \in Identity /\ i \in Paused
  BY <1>0, <1>1
<1>3. CASE /\ Alive(i)
           /\ proc' = [proc EXCEPT ![i] = "stopped"]
           /\ pc' = "Stop" /\ UNCHANGED <<todo, report, strays>>
  <2>1. proc' \in [Identity -> ProcState]
    BY <1>2, <1>3
  <2>2. proc'[i] = "stopped" /\ \A j \in Identity \ {i} : proc'[j] = proc[j]
    BY <1>2, <1>3
  <2>3. TypeOK' /\ Inspected' /\ Unwound'
    BY <1>0, <1>2, <1>3, <2>1
  <2>5. /\ target = {i} /\ Paused \subseteq Identity
        /\ \A j \in Paused : proc'[j] \in {"stopped", "gone"}
    BY <1>0, <1>1, <2>2, PausedIdentities
  <2>6. \A j \in Identity : proc'[j] = "stopped" => j \in Paused
    BY <1>0, <1>2, <2>2
  <2>4. Recorded'
    BY <1>0, <1>3, <2>5, <2>6
  <2> QED BY <2>3, <2>4
<1>4. CASE /\ ~Alive(i)
           /\ strays' = strays \cup {i}
           /\ pc' = "Stop" /\ UNCHANGED <<proc, todo, report>>
  <2>1. TypeOK' /\ Inspected' /\ Unwound'
    BY <1>0, <1>2, <1>4
  <2>2. target = {i} /\ proc[i] = "gone"
    BY <1>1, <1>4 DEF Alive
  <2>3. Recorded'
    BY <1>0, <1>2, <1>4, <2>2
  <2> QED BY <2>1, <2>3
<1>5. CASE ~Alive(i) /\ BeginRestore("RolledBack") /\ UNCHANGED <<proc, strays>>
  <2>1. HadMutation'
    BY <1>0 DEF HadMutation
  <2>2. prevent # origPrevent => preventChanged
    BY <1>0
  <2> QED BY <1>0, <1>5, <2>1, <2>2, RestoreBegun
<1> QED BY <1>1, <1>3, <1>4, <1>5

\* The holder's toggle keeps the record exact, or gives the lease up.
LEMMA SetSuspendInhibitedKeeps ==
  ASSUME IInv, NEW inhibit \in BOOLEAN, SetSuspendInhibited(inhibit)
  PROVE  IInv'
<1> USE DEF IInv, TypeOK, Inspected, Recorded, Unwound, Unrecorded,
            device, lease, report, history, Identity, ProcState, Outcome, Stage, Settled,
            Inspecting, Pausing, Restoring, Acquiring, StartupMode, ConfirmedPillow
<1>0. /\ paused' = paused /\ Paused' = Paused /\ pc = "Owned" /\ ~origPrevent
      /\ UNCHANGED <<startup, pillow, proc, lightbox, inverted, screen,
                     origPrevent, pillowChanged, target, history>>
  BY DEF SetSuspendInhibited, Paused
<1>1. CASE prevent' = inhibit /\ preventChanged' = inhibit /\ UNCHANGED <<pc, todo, report>>
  <2>1. TypeOK'
    BY <1>0, <1>1
  <2>2. Inspected' /\ Unwound'
    BY <1>0, <1>1
  <2>3. Recorded'
    BY <1>0, <1>1
  <2> QED BY <2>1, <2>2, <2>3
<1>2. CASE /\ prevent' \in {prevent, inhibit}
           /\ preventChanged' = TRUE
           /\ BeginRestore("Returned")
  <2>1. HadMutation'
    BY <1>2 DEF HadMutation
  <2>2. target' = {} /\ prevent' \in BOOLEAN
    BY <1>0, <1>2
  <2> QED BY <1>0, <1>2, <2>1, <2>2, RestoreBegun
<1> QED BY <1>1, <1>2 DEF SetSuspendInhibited

\* Giving the lease up: the records cover everything it displaced.
LEMMA ReleaseKeeps == IInv /\ Release => IInv'
<1> SUFFICES ASSUME IInv, Release PROVE IInv'
  OBVIOUS
<1> USE DEF IInv, TypeOK, Inspected, Recorded, Unwound, Unrecorded,
            device, lease, report, history, Identity, ProcState, Outcome, Stage, Settled,
            Inspecting, Pausing, Restoring, Acquiring, StartupMode, ConfirmedPillow
<1>0. /\ paused' = paused /\ Paused' = Paused /\ pc = "Owned"
      /\ UNCHANGED <<startup, device, origPrevent, preventChanged, pillowChanged, target,
                     history>>
      /\ BeginRestore("Returned")
  BY DEF Release, Paused
<1>1. HadMutation'
  BY <1>0 DEF HadMutation
<1>2. prevent # origPrevent => preventChanged
  BY <1>0
<1> QED BY <1>0, <1>1, <1>2, RestoreBegun

\* The identity paused last is taken off the stack, or reported.
LEMMA ContinueKeeps == IInv /\ Continue => IInv'
<1> SUFFICES ASSUME IInv, Continue PROVE IInv'
  OBVIOUS
<1> USE DEF IInv, TypeOK, Inspected, Recorded, Unwound, Unrecorded,
            device, lease, report, history, Identity, ProcState, Outcome, Stage, Settled,
            Inspecting, Pausing, Restoring, Acquiring, StartupMode, ConfirmedPillow
<1> DEFINE i == paused[Len(paused)]
<1>1. paused' \in Seq(Identity) /\ i \in Identity /\ Paused = Paused' \cup {i}
  BY PopPaused DEF Continue
<1> HIDE DEF i
<1>2. /\ pc = "Continue" /\ todo' = todo
      /\ UNCHANGED <<startup, device, origPrevent, preventChanged, pillowChanged, todo,
                     hadMutation, outcome, history>>
  BY DEF Continue
<1>3. CASE Alive(i) /\ pc' = "ContinueKill" /\ target' = {i} /\ UNCHANGED failures
  <2>1. TypeOK'
    BY <1>1, <1>2, <1>3
  <2>2. Inspected' /\ Recorded'
    BY <1>1, <1>2, <1>3 DEF Alive
  <2>3. Unwound'
    BY <1>1, <1>2, <1>3
  <2> QED BY <2>1, <2>2, <2>3
<1>4. CASE pc' = "Continue" /\ failures' = failures \cup {i} /\ UNCHANGED target
  <2>0. failures' \subseteq Stage /\ (Paused \cap todo = {})'
    BY <1>1, <1>2, <1>4
  <2>1. TypeOK'
    BY <1>1, <1>2, <1>4, <2>0
  <2>2. Inspected' /\ Recorded'
    BY <1>1, <1>2, <1>4
  <2>3. Unwound'
    BY <1>1, <1>2, <1>4
  <2> QED BY <2>1, <2>2, <2>3
<1> QED BY <1>3, <1>4 DEF Continue, i

\* The identity taken off runs again, is gone, or is reported.
LEMMA ContinueKillKeeps == IInv /\ ContinueKill => IInv'
<1> SUFFICES ASSUME IInv, ContinueKill PROVE IInv'
  OBVIOUS
<1> USE DEF IInv, TypeOK, Inspected, Recorded, Unwound, Unrecorded,
            device, lease, report, history, Identity, ProcState, Outcome, Stage, Settled,
            Inspecting, Pausing, Restoring, Acquiring, StartupMode, ConfirmedPillow
<1>0. /\ paused' = paused /\ Paused' = Paused
      /\ pc = "ContinueKill" /\ pc' = "Continue" /\ target' = {}
      /\ UNCHANGED <<startup, prevent, pillow, lightbox, inverted, screen, origPrevent,
                     preventChanged, pillowChanged, todo, hadMutation, outcome,
                     foundPillow, lives>>
  BY DEF ContinueKill, Paused
<1>1. /\ proc' \in [Identity -> ProcState] /\ strays' \subseteq Identity
      /\ failures \subseteq failures' /\ failures' \subseteq failures \cup target
  BY DEF ContinueKill
<1>2. \A j \in Identity : proc'[j] = "stopped" => j \in Paused \cup failures'
  <2>1. PICK i \in target : \/ proc' = [proc EXCEPT ![i] = "running"]
                            \/ ~Alive(i) /\ UNCHANGED proc
    BY DEF ContinueKill
  <2>2. target = {i} /\ i \in Identity
    BY <2>1
  <2>3. proc'[i] # "stopped" /\ \A j \in Identity \ {i} : proc'[j] = proc[j]
    BY <2>1, <2>2 DEF Alive
  <2> QED BY <1>0, <1>1, <2>2, <2>3
<1>3. TypeOK'
  BY <1>0, <1>1
<1>4. Inspected' /\ Recorded'
  BY <1>0
<1>5. Unwound'
  BY <1>0, <1>1, <1>2
<1> QED BY <1>3, <1>4, <1>5

\* A stock process starts or exits on its own: it is not stopped by that.
LEMMA ProcessKeeps ==
  ASSUME IInv, NEW i \in Identity, ProcessStarts(i) \/ ProcessExits(i)
  PROVE  IInv'
<1> USE DEF IInv, TypeOK, Inspected, Recorded, Unwound, Unrecorded,
            device, lease, report, history, Identity, ProcState, Outcome, Stage, Settled,
            Inspecting, Pausing, Restoring, Acquiring, StartupMode, ConfirmedPillow
<1>0. /\ paused' = paused /\ Paused' = Paused
      /\ UNCHANGED <<startup, prevent, pillow, lightbox, inverted, screen,
                     pc, lease, report, history>>
  BY DEF ProcessStarts, ProcessExits, Paused
<1>1. /\ proc' \in [Identity -> ProcState]
      /\ \A j \in Identity : /\ proc'[j] = "stopped" => proc[j] = "stopped"
                             /\ proc[j] \in {"stopped", "gone"}
                                  => proc'[j] \in {"stopped", "gone"}
                             /\ proc[j] # "absent" => proc'[j] # "absent"
  BY DEF ProcessStarts, ProcessExits, Alive
<1>2. TypeOK'
  BY <1>0, <1>1
<1>3. Inspected'
  BY <1>0, <1>1
<1>4. Recorded'
  <2>1. Paused \subseteq Identity
    BY PausedIdentities
  <2> QED BY <1>0, <1>1, <2>1
<1>5. Unwound'
  BY <1>0, <1>1
<1> QED BY <1>2, <1>3, <1>4, <1>5

-----------------------------------------------------------------------------
(***************************************************************************)
(* The invariant, and what follows from it.                                *)
(***************************************************************************)
\* A stock stack nobody has touched satisfies it.
LEMMA InitKeeps == Init => IInv
<1> SUFFICES ASSUME Init PROVE IInv
  OBVIOUS
<1> USE DEF Init, Identity, ProcState, Outcome, Stage, Settled, Inspecting, Pausing,
            Restoring, Acquiring, StartupMode, ConfirmedPillow, Unrecorded
<1>1. TypeOK
  <2>1. lives \in 0 .. MaxLives
    BY ForegroundAssumption
  <2>2. paused \in Seq(Identity) /\ Paused = {}
    BY DEF Paused
  <2> QED BY <2>1, <2>2 DEF TypeOK
<1>2. Inspected /\ Recorded /\ Unwound
  BY DEF Inspected, Recorded, Unwound
<1> QED BY <1>1, <1>2 DEF IInv

\* A step that changes nothing keeps it.
LEMMA StutterKeeps == IInv /\ UNCHANGED vars => IInv'
<1> SUFFICES ASSUME IInv, UNCHANGED vars PROVE IInv'
  OBVIOUS
<1> USE DEF IInv, TypeOK, Inspected, Recorded, Unwound, Unrecorded,
            device, lease, report, history, Identity, ProcState, Outcome, Stage, Settled,
            Inspecting, Pausing, Restoring, Acquiring, StartupMode, ConfirmedPillow
<1>0. paused' = paused /\ Paused' = Paused
  BY DEF vars, Paused
<1>1. TypeOK' /\ Inspected'
  BY <1>0 DEF vars
<1>2. Recorded' /\ Unwound'
  BY <1>0 DEF vars
<1> QED BY <1>1, <1>2

\* The stage by stage account of the transaction holds of every execution.
THEOREM Inductive == Spec => []IInv
<1>1. IInv /\ [Next]_vars => IInv'
  <2> SUFFICES ASSUME IInv, [Next]_vars PROVE IInv'
    OBVIOUS
  <2>1. CASE Guardian
    BY <2>1, InspectPreventKeeps, InspectAwesomeKeeps, InspectCvmKeeps, SetPreventKeeps,
       SetPillowKeeps, StopKeeps, StopKillKeeps, AllStoppedKeeps, QuiesceKeeps,
       NormalizeDisplayModeKeeps, ClearLightboxKeeps, ContinueKeeps, ContinueKillKeeps,
       AllContinuedKeeps, RestorePillowKeeps, RestorePreventKeeps, RepaintStockKeeps
       DEF Guardian
  <2>2. CASE Owner
    BY <2>2, BeginKeeps, ForegroundDrawsKeeps, SetSuspendInhibitedKeeps, ReleaseKeeps
       DEF Owner
  <2>3. CASE Environment
    BY <2>3, ProcessKeeps, GuardianDiesKeeps DEF Environment
  <2>4. CASE UNCHANGED vars
    BY <2>4, StutterKeeps
  <2> QED BY <2>1, <2>2, <2>3, <2>4 DEF Next
<1> QED BY <1>1, InitKeeps, PTL DEF Spec

\* Every variable keeps its type, and nothing paused is paused again.
THEOREM TypeCorrect == Spec => []TypeOK
<1>1. IInv => TypeOK
  BY DEF IInv
<1> QED BY <1>1, Inductive, PTL

\* Every difference between the device and what the guardian found is recorded,
\* being undone, or reported.
THEOREM MutationsAccounted == Spec => []EveryMutationAccounted
<1>1. IInv => EveryMutationAccounted
  <2> SUFFICES ASSUME IInv, Committed PROVE EveryMutationAccounted
    BY DEF EveryMutationAccounted
  <2> USE DEF IInv, TypeOK, Recorded, Unwound, Unrecorded, HadMutation, Outcome, Committed,
              Pausing, Restoring, Acquiring, EveryMutationAccounted
  <2>1. CASE pc \in Acquiring \cup {"Owned"}
    <3>1. prevent # origPrevent => preventChanged
      BY <2>1
    <3>2. pillow \notin {foundPillow, ConfirmedPillow} => pillowChanged
      BY <2>1
    <3> QED BY <2>1, <3>1, <3>2
  <2>2. CASE pc \in Restoring \/ (pc = "Done" /\ outcome \in {"RolledBack", "Returned"})
    BY <2>2
  <2>3. ~(pc = "Done" /\ HadMutation)
    OBVIOUS
  <2> QED BY <2>1, <2>2, <2>3
<1> QED BY <1>1, Inductive, PTL

\* A transaction that reports no failed stage has put everything back.
THEOREM ReturnsExactly == Spec => []ReturnedExactly
<1>1. IInv => ReturnedExactly
  BY DEF IInv, TypeOK, Unwound, Unrecorded, HadMutation, Committed, Paused,
         ReturnedExactly, Restoring, Pausing
<1> QED BY <1>1, Inductive, PTL

\* The holder's inhibitor is what the lease recorded.
THEOREM InhibitorExact == Spec => []InhibitorFollowsLease
<1>1. IInv => InhibitorFollowsLease
  BY DEF IInv, Recorded, InhibitorFollowsLease
<1> QED BY <1>1, Inductive, PTL

\* Nothing is paused unless suspend is inhibited, and a held process does not run.
THEOREM PausesUnderInhibitor == Spec => []PausedUnderInhibitor
<1>1. IInv => PausedUnderInhibitor
  BY DEF IInv, Recorded, PausedUnderInhibitor, Pausing, Acquiring
<1> QED BY <1>1, Inductive, PTL

(***************************************************************************)
(* The order in which the transaction gives the stock UI back.             *)
(***************************************************************************)
\* Awesome processes are recorded before cvm ones, so the stack gives them back
\* after; and no failure of the inhibitor is reported before the last resume.
AwesomeFirst ==
  /\ \A j, k \in DOMAIN paused : j < k /\ paused[k] \in Awesome => paused[j] \in Awesome
  /\ pc \in {"Stop", "StopKill"} /\ todo \cap Awesome # {} => Paused \subseteq Awesome
  /\ pc = "ContinueKill" /\ target \cap Awesome # {} => Paused \subseteq Awesome
  /\ pc \in {"ClearLightbox", "Continue", "ContinueKill"} => "prevent" \notin failures

\* A step that leaves the stack alone.
LEMMA SameOrder ==
  ASSUME AwesomeFirst, UNCHANGED paused,
         pc' \in {"Stop", "StopKill"} =>
           paused = <<>> \/ (pc \in {"Stop", "StopKill"} /\ todo' = todo),
         pc' = "ContinueKill" => pc = "ContinueKill" /\ target' = target,
         pc' \in {"ClearLightbox", "Continue", "ContinueKill"} =>
           "prevent" \notin failures'
  PROVE  AwesomeFirst'
<1>1. Paused' = Paused
  BY DEF Paused
<1>2. paused = <<>> => Paused = {}
  BY DEF Paused
<1> QED BY <1>1, <1>2 DEF AwesomeFirst

\* A step of the transaction that records or resumes nothing.
LEMMA OtherOrder ==
  ASSUME IInv, AwesomeFirst, Guardian \/ Owner \/ Environment \/ UNCHANGED vars,
         ~Begin, ~Stop, ~Continue
  PROVE  AwesomeFirst'
<1> USE DEF Inspecting, Acquiring, Pausing, Restoring, report, lease, device, history,
            Refuse, MutateOr, BeginRestore, Attempt
<1>0. /\ pc \in {"ClearLightbox", "Continue", "ContinueKill"} => "prevent" \notin failures
      /\ pc \in {"InspectCvm", "SetPrevent", "SetPillow"} => paused = <<>>
      /\ "prevent" \notin Identity /\ target \subseteq Identity
  BY ForegroundAssumption
     DEF AwesomeFirst, IInv, TypeOK, Inspected, Recorded, Unrecorded, Identity
<1>1. CASE InspectPrevent \/ InspectAwesome \/ InspectCvm
  BY <1>1, <1>0, SameOrder DEF InspectPrevent, InspectAwesome, InspectCvm, AfterPrevent
<1>2. CASE SetPrevent \/ SetPillow \/ Quiesce \/ NormalizeDisplayMode
  BY <1>2, <1>0, SameOrder DEF SetPrevent, SetPillow, Quiesce, NormalizeDisplayMode,
     AfterPrevent
<1>3. CASE StopKill \/ AllStopped
  BY <1>3, <1>0, SameOrder DEF StopKill, AllStopped
<1>4. CASE ClearLightbox \/ ContinueKill \/ AllContinued
  BY <1>4, <1>0, SameOrder DEF ClearLightbox, ContinueKill, AllContinued, AfterResume,
     AfterPillow, AfterRestored
<1>5. CASE RestorePillow \/ RestorePrevent \/ RepaintStock
  BY <1>5, SameOrder DEF RestorePillow, RestorePrevent, RepaintStock, AfterPillow,
     AfterRestored
<1>6. CASE Owner
  BY <1>6, <1>0, SameOrder DEF Owner, ForegroundDraws, SetSuspendInhibited, Release
<1>7. CASE Environment
  BY <1>7, <1>0, SameOrder DEF Environment, ProcessStarts, ProcessExits, GuardianDies
<1>8. CASE UNCHANGED vars
  BY <1>8, <1>0, SameOrder DEF vars
<1> QED BY <1>1, <1>2, <1>3, <1>4, <1>5, <1>6, <1>7, <1>8 DEF Guardian

\* A new acquisition has recorded nothing.
LEMMA BeginOrder == IInv /\ AwesomeFirst /\ Begin => AwesomeFirst'
BY DEF Begin, AwesomeFirst, Paused

\* While there is an awesome left to pause, no cvm is recorded.
LEMMA StopOrder == IInv /\ AwesomeFirst /\ Stop => AwesomeFirst'
<1> SUFFICES ASSUME IInv, AwesomeFirst, Stop PROVE AwesomeFirst'
  OBVIOUS
<1>1. PICK i \in NextToStop :
        /\ paused' = Append(paused, i)
        /\ \/ pc' = "StopKill" /\ todo' = todo \ {i}
           \/ pc' \in {"ClearLightbox", "Continue"} /\ failures' = {}
  BY DEF Stop, BeginRestore
<1>2. /\ paused \in Seq(Identity) /\ i \in todo /\ i \in Identity
      /\ todo \subseteq Identity
      /\ pc = "Stop"
      /\ i \in Cvm => todo \cap Awesome = {}
  BY <1>1, ForegroundAssumption DEF NextToStop, IInv, TypeOK, Stop, Identity
<1>3. /\ DOMAIN paused = 1 .. Len(paused) /\ Len(paused) \in Nat
      /\ DOMAIN paused' = 1 .. (Len(paused) + 1)
      /\ \A k \in 1 .. Len(paused) : paused'[k] = paused[k]
      /\ paused'[Len(paused) + 1] = i
  BY <1>1, <1>2
<1>4. Paused' = Paused \cup {i}
  BY <1>1, <1>2, PushPaused
<1>5. todo \cap Awesome # {} => i \in Awesome /\ Paused \subseteq Awesome
  BY <1>2 DEF AwesomeFirst, Identity
<1>6. ASSUME NEW j \in DOMAIN paused', NEW k \in DOMAIN paused',
             j < k, paused'[k] \in Awesome
      PROVE  paused'[j] \in Awesome
  <2>1. j \in 1 .. Len(paused) /\ paused'[j] = paused[j]
    BY <1>3, <1>6
  <2>2. CASE k \in 1 .. Len(paused)
    BY <1>3, <1>6, <2>1, <2>2 DEF AwesomeFirst
  <2>3. CASE k = Len(paused) + 1
    <3>1. i \in Awesome
      BY <1>3, <1>6, <2>3
    <3> QED BY <1>2, <1>3, <1>5, <2>1, <3>1 DEF Paused
  <2> QED BY <1>3, <2>2, <2>3
<1>7. pc' \in {"StopKill"} /\ todo' \cap Awesome # {} => Paused' \subseteq Awesome
  BY <1>1, <1>4, <1>5
<1> QED BY <1>1, <1>6, <1>7 DEF AwesomeFirst

\* When an awesome is on top, there is no cvm below it.
LEMMA ContinueOrder == IInv /\ AwesomeFirst /\ Continue => AwesomeFirst'
<1> SUFFICES ASSUME IInv, AwesomeFirst, Continue PROVE AwesomeFirst'
  OBVIOUS
<1>0. PICK n : n = Len(paused) - 1
  OBVIOUS
<1>1. /\ paused \in Seq(Identity) /\ paused # <<>> /\ pc = "Continue"
      /\ paused' = SubSeq(paused, 1, n)
      /\ \/ pc' = "ContinueKill" /\ target' = {paused[Len(paused)]} /\ failures' = failures
         \/ pc' = "Continue" /\ failures' = failures \cup {paused[Len(paused)]}
  BY <1>0 DEF Continue, IInv, TypeOK
<1>2. /\ paused' \in Seq(Identity) /\ Len(paused') = n
      /\ \A k \in 1 .. n : paused'[k] = paused[k]
      /\ Len(paused) \in Nat \ {0} /\ paused[Len(paused)] \in Identity
  BY <1>0, <1>1, FrontElements
<1>3. DOMAIN paused = 1 .. Len(paused) /\ DOMAIN paused' = 1 .. n
  BY <1>1, <1>2, LenProperties
<1>4. \A k \in 1 .. n : k \in DOMAIN paused /\ k < Len(paused) /\ k \in Nat
  BY <1>0, <1>2, <1>3
<1>5. \A j, k \in DOMAIN paused' : j < k /\ paused'[k] \in Awesome => paused'[j] \in Awesome
  BY <1>2, <1>3, <1>4 DEF AwesomeFirst
<1>6. paused[Len(paused)] \in Awesome => \A k \in 1 .. n : paused'[k] \in Awesome
  BY <1>2, <1>3, <1>4 DEF AwesomeFirst
<1>7. target' = {paused[Len(paused)]} /\ target' \cap Awesome # {} => Paused' \subseteq Awesome
  BY <1>3, <1>6 DEF Paused
<1>8. "prevent" \notin failures'
  BY <1>1, <1>2, ForegroundAssumption DEF AwesomeFirst, Identity
<1> QED BY <1>1, <1>5, <1>7, <1>8 DEF AwesomeFirst

\* So the order is kept from step to step.
LEMMA NextOrder == IInv /\ AwesomeFirst /\ [Next]_vars => AwesomeFirst'
BY OtherOrder, BeginOrder, StopOrder, ContinueOrder DEF Next

\* Nothing is recorded at first.
LEMMA InitOrder == Init => AwesomeFirst
BY DEF Init, AwesomeFirst, Paused

\* Only a signal resumes a process.
LEMMA ResumedByKill ==
  ASSUME IInv, [Next]_vars, NEW i \in Identity, proc[i] = "stopped", proc'[i] = "running"
  PROVE  ContinueKill /\ target = {i} /\ UNCHANGED prevent
<1>1. proc \in [Identity -> ProcState] /\ proc' # proc
  BY DEF IInv, TypeOK
<1>2. ~StopKill
  BY <1>1 DEF StopKill
<1>3. ~Environment
  BY <1>1 DEF Environment, ProcessStarts, ProcessExits, GuardianDies, device, Alive
<1>4. ~Owner /\ ~UNCHANGED vars
  BY <1>1 DEF Owner, Begin, ForegroundDraws, SetSuspendInhibited, Release, device, vars
<1>5. ContinueKill
  BY <1>1, <1>2, <1>3, <1>4
     DEF Next, Guardian, InspectPrevent, InspectAwesome, InspectCvm, SetPrevent, SetPillow,
         Stop, AllStopped, Quiesce, NormalizeDisplayMode, ClearLightbox, Continue,
         AllContinued, RestorePillow, RestorePrevent, RepaintStock, device
<1>6. \A j \in target : proc' = [proc EXCEPT ![j] = "running"] => j = i
  BY <1>1
<1>7. i \in target
  BY <1>1, <1>5, <1>6 DEF ContinueKill
<1>8. target = {i}
  BY <1>7 DEF IInv, Recorded
<1> QED BY <1>5, <1>8 DEF ContinueKill

\* Stock processes are given back in order (StockResumesInOrder): the lightbox before, every cvm before
\* an awesome, the inhibitor after.
THEOREM ResumesInOrder == Spec => StockResumesInOrder
<1> DEFINE Ordered ==
      \A i \in Identity : proc[i] = "stopped" /\ proc'[i] = "running" =>
        /\ ~lightbox \/ "lightbox" \in failures
        /\ i \in Awesome => \A c \in Cvm : proc[c] = "stopped" => c \in failures
        /\ prevent' = prevent /\ "prevent" \notin failures
<1>1. IInv /\ AwesomeFirst /\ [Next]_vars => Ordered
  <2> SUFFICES ASSUME IInv, AwesomeFirst, [Next]_vars,
                      NEW i \in Identity, proc[i] = "stopped", proc'[i] = "running"
               PROVE  /\ ~lightbox \/ "lightbox" \in failures
                      /\ i \in Awesome =>
                           \A c \in Cvm : proc[c] = "stopped" => c \in failures
                      /\ prevent' = prevent /\ "prevent" \notin failures
    OBVIOUS
  <2>1. pc = "ContinueKill" /\ target = {i} /\ prevent' = prevent
    BY ResumedByKill DEF ContinueKill
  <2>2. /\ ~lightbox \/ "lightbox" \in failures
        /\ \A c \in Identity : proc[c] = "stopped" => c \in Paused \cup target \cup failures
    BY <2>1 DEF IInv, Unwound, Restoring
  <2>3. i \in Awesome => \A c \in Cvm : c \notin Paused \cup target
    BY <2>1, ForegroundAssumption DEF AwesomeFirst
  <2>4. "prevent" \notin failures
    BY <2>1 DEF AwesomeFirst
  <2> QED BY <2>1, <2>2, <2>3, <2>4 DEF Identity
<1>2. IInv /\ AwesomeFirst /\ [Next]_vars => AwesomeFirst'
  BY NextOrder
<1>3. IInv /\ AwesomeFirst /\ [Next]_vars => [Ordered]_vars
  BY <1>1
<1>4. Spec => [][Ordered]_vars
  BY <1>2, <1>3, InitOrder, Inductive, PTL DEF Spec
<1> QED BY <1>4 DEF StockResumesInOrder

(***************************************************************************)
(* The foreground transaction implements StockLease                        *)
(***************************************************************************)
(***************************************************************************)
(* Beside the inductive invariant, what keeps a resource from being given  *)
(* back twice: no identity is recorded twice, the one about to be resumed  *)
(* is off the stack, and nothing is reported before a restoration.         *)
(***************************************************************************)
Once ==
  /\ \A j, k \in DOMAIN paused : paused[j] = paused[k] => j = k
  /\ pc = "ContinueKill" => target \cap Paused = {}
  /\ pc \in Inspecting \cup Acquiring \cup {"Owned"} => failures = {}
  /\ pc = "RestorePillow" => pillowChanged
  /\ pc = "RestorePrevent" => preventChanged

\* Popping the stack leaves no other copy of what was popped.
LEMMA PopOnce ==
  ASSUME paused \in Seq(Identity), paused # <<>>, Once,
         paused' = SubSeq(paused, 1, Len(paused) - 1)
  PROVE  /\ \A j, k \in DOMAIN paused' : paused'[j] = paused'[k] => j = k
         /\ paused[Len(paused)] \notin Paused'
<1>0. PICK n : n = Len(paused) - 1
  OBVIOUS
<1>1. /\ paused' \in Seq(Identity) /\ Len(paused') = n
      /\ \A k \in 1 .. n : paused'[k] = paused[k]
      /\ Len(paused) \in Nat \ {0}
  BY <1>0, FrontElements
<1>2. DOMAIN paused = 1 .. Len(paused) /\ DOMAIN paused' = 1 .. n
  BY <1>1, LenProperties
<1>3. \A k \in 1 .. n : k \in DOMAIN paused /\ k # Len(paused)
  BY <1>0, <1>1, <1>2
<1>4. Len(paused) \in DOMAIN paused
  BY <1>1, <1>2
<1>5. \A j, k \in DOMAIN paused' : paused'[j] = paused'[k] => j = k
  BY <1>1, <1>2, <1>3 DEF Once
<1>6. \A k \in 1 .. n : paused'[k] # paused[Len(paused)]
  BY <1>1, <1>3, <1>4 DEF Once
<1> QED BY <1>2, <1>5, <1>6 DEF Paused

\* A step that leaves the stack alone.
LEMMA SameOnce ==
  ASSUME Once, UNCHANGED paused,
         pc' \in Inspecting \cup Acquiring \cup {"Owned"} =>
           pc \in Inspecting \cup Acquiring \cup {"Owned"} /\ failures' = failures,
         pc' = "ContinueKill" => pc = "ContinueKill" /\ target' = target,
         pc' = "RestorePillow" => pillowChanged',
         pc' = "RestorePrevent" => preventChanged'
  PROVE  Once'
<1>1. Paused' = Paused
  BY DEF Paused
<1> QED BY <1>1 DEF Once

\* A step of the transaction that records or resumes nothing.
LEMMA OtherOnce ==
  ASSUME IInv, Once, Guardian \/ Owner \/ Environment \/ UNCHANGED vars,
         ~Begin, ~Stop, ~Continue
  PROVE  Once'
<1> USE DEF Inspecting, Acquiring, Pausing, Restoring, report, lease, device, history,
            Refuse, MutateOr, BeginRestore
<1>0. /\ pc = "RestorePillow" => pillowChanged
      /\ pc = "RestorePrevent" => preventChanged
  BY DEF Once
<1>1. CASE InspectPrevent \/ InspectAwesome \/ InspectCvm
  BY <1>1, <1>0, SameOnce DEF InspectPrevent, InspectAwesome, InspectCvm, AfterPrevent
<1>2. CASE SetPrevent \/ SetPillow \/ Quiesce \/ NormalizeDisplayMode
  BY <1>2, <1>0, SameOnce DEF SetPrevent, SetPillow, Quiesce, NormalizeDisplayMode, AfterPrevent
<1>3. CASE StopKill \/ AllStopped
  BY <1>3, <1>0, SameOnce DEF StopKill, AllStopped
<1>4. CASE ClearLightbox \/ ContinueKill \/ AllContinued \/ RestorePillow
             \/ RestorePrevent \/ RepaintStock
  BY <1>4, <1>0, SameOnce DEF ClearLightbox, ContinueKill, AllContinued, RestorePillow,
       RestorePrevent, RepaintStock, AfterResume, AfterPillow, AfterRestored
<1>5. CASE Owner
  BY <1>5, <1>0, SameOnce DEF Owner, ForegroundDraws, SetSuspendInhibited, Release
<1>6. CASE Environment
  BY <1>6, <1>0, SameOnce DEF Environment, ProcessStarts, ProcessExits, GuardianDies
<1>7. CASE UNCHANGED vars
  BY <1>7, <1>0, SameOnce DEF vars
<1> QED BY <1>1, <1>2, <1>3, <1>4, <1>5, <1>6, <1>7 DEF Guardian

\* A new acquisition has recorded nothing.
LEMMA BeginOnce == IInv /\ Once /\ Begin => Once'
BY DEF Begin, Once, Paused

\* An identity is recorded when it leaves todo, and nothing in todo is recorded.
LEMMA StopOnce == IInv /\ Once /\ Stop => Once'
<1> SUFFICES ASSUME IInv, Once, Stop PROVE Once'
  OBVIOUS
<1>1. PICK i \in todo : paused' = Append(paused, i)
  BY DEF Stop, NextToStop
<1>2. /\ paused \in Seq(Identity) /\ i \in Identity /\ i \notin Paused
  BY <1>1 DEF IInv, TypeOK
<1>3. /\ DOMAIN paused = 1 .. Len(paused) /\ Len(paused) \in Nat
      /\ DOMAIN paused' = 1 .. (Len(paused) + 1)
      /\ \A k \in 1 .. Len(paused) : paused'[k] = paused[k]
      /\ paused'[Len(paused) + 1] = i
  BY <1>1, <1>2
<1>4. \A k \in 1 .. Len(paused) : paused[k] # i
  BY <1>2, <1>3 DEF Paused
<1>5. \A j, k \in DOMAIN paused' : paused'[j] = paused'[k] => j = k
  BY <1>3, <1>4 DEF Once
<1>6. /\ pc = "Stop" /\ failures' = {}
      /\ pc' \in {"StopKill", "ClearLightbox", "Continue"}
  BY DEF Stop, BeginRestore, report, Once, Acquiring, Pausing
<1> QED BY <1>5, <1>6 DEF Once

\* What is popped is gone from the stack.
LEMMA ContinueOnce == IInv /\ Once /\ Continue => Once'
<1> SUFFICES ASSUME IInv, Once, Continue PROVE Once'
  OBVIOUS
<1>1. /\ paused \in Seq(Identity) /\ paused # <<>>
      /\ paused' = SubSeq(paused, 1, Len(paused) - 1)
  BY DEF Continue, IInv, TypeOK
<1>2. /\ \A j, k \in DOMAIN paused' : paused'[j] = paused'[k] => j = k
      /\ paused[Len(paused)] \notin Paused'
  BY <1>1, PopOnce
<1>3. \/ pc' = "Continue"
      \/ pc' = "ContinueKill" /\ target' = {paused[Len(paused)]}
  BY DEF Continue
<1> QED BY <1>2, <1>3 DEF Once, Inspecting, Acquiring, Pausing

\* So Once holds from step to step.
LEMMA NextOnce == IInv /\ Once /\ [Next]_vars => Once'
BY OtherOnce, BeginOnce, StopOnce, ContinueOnce DEF Next

\* And at first.
LEMMA InitOnce == Init => Once
BY DEF Init, Once, Inspecting, Acquiring, Pausing

(***************************************************************************)
(* What the mapping says at each stage.                                    *)
(***************************************************************************)
\* The lease is committed to what it has recorded.
Bound == Acquiring \cup {"Owned"} \cup Restoring

\* The stages of the abstract lease.
LEMMA PhaseNow ==
  /\ pc \in Inspecting \cup Acquiring => LeasePhase = "taking"
  /\ pc = "Owned" => LeasePhase = "held"
  /\ pc \in Restoring => LeasePhase = "returning"
  /\ pc \in Settled => LeasePhase = "outside"
  /\ pc \in Bound => Committed
  /\ pc \in Inspecting \cup {"Idle", "Crashed"} => ~Committed
BY DEF LeasePhase, Inspecting, Acquiring, Pausing, Restoring, Settled, Bound, Committed

\* So are those after a step.
LEMMA PhaseNext ==
  /\ pc' \in Inspecting \cup Acquiring => LeasePhase' = "taking"
  /\ pc' = "Owned" => LeasePhase' = "held"
  /\ pc' \in Restoring => LeasePhase' = "returning"
  /\ pc' \in Settled => LeasePhase' = "outside"
  /\ pc' \in Bound => Committed'
  /\ pc' \in Inspecting \cup {"Idle", "Crashed"} => ~Committed'
BY DEF LeasePhase, Inspecting, Acquiring, Pausing, Restoring, Settled, Bound, Committed

\* A lease that is not committed has displaced, owes and reports nothing.
LEMMA Nothing ==
  /\ ~Committed => Displaced = {} /\ Owed = {} /\ Reported = {}
  /\ ~Committed' => Displaced' = {} /\ Owed' = {} /\ Reported' = {}
BY DEF Displaced, Owed, Reported

\* What depends on what.
LEMMA SameDisplaced ==
  ASSUME Committed, Committed',
         UNCHANGED <<prevent, origPrevent, pillow, foundPillow, startup, proc>>
  PROVE  Displaced' = Displaced
BY DEF Displaced, ConfirmedPillow

\* Nothing is owed but what was recorded.
LEMMA SameOwed ==
  ASSUME Committed, Committed', UNCHANGED <<preventChanged, pillowChanged, paused, target>>
  PROVE  Owed' = Owed
BY DEF Owed, Paused

\* Nothing is reported but failures.
LEMMA SameReported ==
  ASSUME Committed, Committed', UNCHANGED failures
  PROVE  Reported' = Reported
BY DEF Reported

\* What a step of the transaction is to the lease.
Maps == StockLease!Next \/ UNCHANGED <<LeasePhase, Displaced, Owed, Reported>>

(***************************************************************************)
(* Each step.                                                              *)
(***************************************************************************)
\* A new acquisition begins a lease.
LEMMA BeginMaps == IInv /\ Begin => Maps
<1> SUFFICES ASSUME Begin PROVE Maps
  OBVIOUS
<1>1. LeasePhase = "outside" /\ LeasePhase' = "taking"
  BY PhaseNow, PhaseNext DEF Begin, Inspecting
<1>2. ~Committed'
  BY PhaseNext DEF Begin, Inspecting
<1>3. StockLease!Begin
  BY <1>1, <1>2, Nothing DEF StockLease!Begin
<1> QED BY <1>3 DEF Maps, StockLease!Next

\* Refusing is done before anything is displaced.
LEMMA RefuseMaps ==
  ASSUME IInv, Refuse, pc \in Inspecting
  PROVE  Maps
<1>1. LeasePhase' = "outside"
  BY PhaseNext DEF Refuse, Settled
<1>2. ~Committed'
  BY DEF Refuse, lease, Committed, HadMutation, IInv, Inspected, Unrecorded, Pausing,
         Restoring
<1>3. StockLease!Abandon
  BY <1>1, <1>2, Nothing DEF StockLease!Abandon
<1> QED BY <1>3 DEF Maps, StockLease!Next

\* Inspecting displaces nothing.
LEMMA InspectMaps == IInv /\ (InspectPrevent \/ InspectAwesome) => Maps
<1> SUFFICES ASSUME IInv, InspectPrevent \/ InspectAwesome PROVE Maps
  OBVIOUS
<1>1. CASE Refuse
  BY <1>1, RefuseMaps DEF InspectPrevent, InspectAwesome, Inspecting
<1>2. CASE pc' \in {"InspectAwesome", "InspectCvm"}
  <2>1. pc \in Inspecting /\ pc' \in Inspecting
    BY <1>2 DEF InspectPrevent, InspectAwesome, Inspecting
  <2> QED BY <2>1, PhaseNow, PhaseNext, Nothing DEF Maps
<1> QED BY <1>1, <1>2 DEF InspectPrevent, InspectAwesome

\* The policy is the last thing that can refuse; what was read is still so.
LEMMA InspectCvmMaps == IInv /\ Once /\ InspectCvm => Maps
<1> SUFFICES ASSUME IInv, Once, InspectCvm PROVE Maps
  OBVIOUS
<1>1. CASE Refuse
  BY <1>1, RefuseMaps DEF InspectCvm, Inspecting
<1>2. CASE ~Refuse
  <2>1. /\ pc = "InspectCvm" /\ pc' \in {"SetPrevent", "SetPillow", "Stop"}
        /\ Inspectable(Cvm)
        /\ UNCHANGED <<startup, device, history>>
        /\ UNCHANGED <<origPrevent, preventChanged, pillowChanged, paused, target, report>>
    BY <1>2 DEF InspectCvm, AfterPrevent
  <2>2. /\ ~Committed /\ Committed'
        /\ LeasePhase = "taking" /\ LeasePhase' = "taking"
    BY <2>1, PhaseNow, PhaseNext DEF Inspecting, Acquiring, Bound, Pausing
  <2>3. Displaced' = {}
    BY <2>1, <2>2 DEF Displaced, Held, device, history, IInv, Inspected, Inspectable, Identity
  <2>4. Owed' = {}
    BY <2>1, <2>2 DEF Owed, Held, IInv, Inspected, Unrecorded, Inspecting, Paused
  <2>5. Reported' = {}
    BY <2>1, <2>2 DEF Reported, Once, Inspecting, report
  <2> QED BY <2>2, <2>3, <2>4, <2>5, Nothing DEF Maps
<1> QED BY <1>1, <1>2

\* The inhibitor is owed from the call that takes it.
LEMMA SetPreventMaps == IInv /\ Once /\ SetPrevent => Maps
<1> SUFFICES ASSUME IInv, Once, SetPrevent PROVE Maps
  OBVIOUS
<1>1. /\ pc = "SetPrevent" /\ pc' \in Acquiring \cup Restoring
      /\ preventChanged' /\ ~preventChanged /\ failures' = failures
      /\ UNCHANGED <<startup, pillow, proc, origPrevent, target, foundPillow,
                     pillowChanged, paused>>
      /\ prevent' \in {prevent, TRUE} /\ ~origPrevent /\ ~prevent
  BY DEF SetPrevent, MutateOr, BeginRestore, AfterPrevent, history, report, Acquiring,
         Pausing, Restoring, Once, IInv, Recorded, Unrecorded, TypeOK
<1>2. /\ Committed /\ Committed'
      /\ LeasePhase = "taking" /\ LeasePhase' \in {"taking", "returning"}
  BY <1>1, PhaseNow, PhaseNext DEF Acquiring, Bound
<1>3. Owed' = Owed \cup {"prevent"}
  BY <1>1, <1>2 DEF Owed, Paused, Held
<1>4. Displaced' \in {Displaced, Displaced \cup {"prevent"}}
  BY <1>1, <1>2 DEF Displaced, Held, ConfirmedPillow
<1>5. Reported' = Reported
  BY <1>1, <1>2, SameReported
<1>6. StockLease!Claim("prevent")
  BY <1>2, <1>3, <1>4, <1>5 DEF StockLease!Claim
<1> QED BY <1>6 DEF Maps, StockLease!Next

\* So is Pillow.
LEMMA SetPillowMaps == IInv /\ Once /\ SetPillow => Maps
<1> SUFFICES ASSUME IInv, Once, SetPillow PROVE Maps
  OBVIOUS
<1>1. /\ pc = "SetPillow" /\ pc' \in Acquiring \cup Restoring
      /\ pillowChanged' /\ ~pillowChanged /\ failures' = failures
      /\ UNCHANGED <<startup, prevent, proc, origPrevent, target, foundPillow,
                     preventChanged, paused>>
      /\ pillow' \in {pillow, FALSE} /\ pillow = foundPillow
  BY DEF SetPillow, MutateOr, BeginRestore, history, report, Acquiring,
         Pausing, Restoring, Once, IInv, Recorded, Unrecorded, TypeOK
<1>2. /\ Committed /\ Committed'
      /\ LeasePhase = "taking" /\ LeasePhase' \in {"taking", "returning"}
  BY <1>1, PhaseNow, PhaseNext DEF Acquiring, Bound
<1>3. Owed' = Owed \cup {"pillow"}
  BY <1>1, <1>2 DEF Owed, Paused, Held
<1>4. Displaced' \in {Displaced, Displaced \cup {"pillow"}}
  BY <1>1, <1>2 DEF Displaced, Held, ConfirmedPillow
<1>5. Reported' = Reported
  BY <1>1, <1>2, SameReported
<1>6. StockLease!Claim("pillow")
  BY <1>2, <1>3, <1>4, <1>5 DEF StockLease!Claim
<1> QED BY <1>6 DEF Maps, StockLease!Next

\* So is a process, from before it is looked up.
LEMMA StopMaps == IInv /\ Once /\ Stop => Maps
<1> SUFFICES ASSUME IInv, Once, Stop PROVE Maps
  OBVIOUS
<1>1. PICK i \in todo :
        /\ paused' = Append(paused, i)
        /\ target' = {i} \/ target' = target
  BY DEF Stop, NextToStop
<1>2. i \in Identity /\ paused \in Seq(Identity)
  BY DEF IInv, TypeOK
<1>3. Paused' = Paused \cup {i}
  BY <1>1, <1>2, PushPaused
<1>4. /\ pc = "Stop" /\ pc' \in Acquiring \cup Restoring
      /\ UNCHANGED <<startup, device, origPrevent, history, preventChanged, pillowChanged>>
      /\ failures' = failures /\ target = {}
  BY DEF Stop, BeginRestore, report, Acquiring, Pausing, Restoring, Once, IInv, Recorded
<1>5. /\ Committed /\ Committed'
      /\ LeasePhase = "taking" /\ LeasePhase' \in {"taking", "returning"}
  BY <1>4, PhaseNow, PhaseNext DEF Acquiring, Pausing, Bound
<1>6. Owed' = Owed \cup {i}
  BY <1>1, <1>3, <1>4, <1>5 DEF Owed
<1>7. Displaced' = Displaced
  BY <1>4, <1>5, SameDisplaced DEF device, history
<1>8. Reported' = Reported
  BY <1>4, <1>5, SameReported
<1>9. StockLease!Claim(i)
  BY <1>5, <1>6, <1>7, <1>8 DEF StockLease!Claim
<1> QED BY <1>2, <1>9 DEF Maps, StockLease!Next

\* A failed stage of the acquisition, and the end of the holding, lead into the
\* restoration and touch nothing themselves.
LEMMA ReturnMaps ==
  ASSUME IInv, Once, pc \in {"StopKill", "Quiesce", "Normalize", "Owned"},
         pc' \in Restoring, failures' = {},
         UNCHANGED <<startup, prevent, pillow, proc, origPrevent, foundPillow,
                     preventChanged, pillowChanged, paused>>,
         target' = {}
  PROVE  Maps
<1>1. /\ Committed /\ Committed'
      /\ LeasePhase \in {"taking", "held"} /\ LeasePhase' = "returning"
  BY PhaseNow, PhaseNext DEF Acquiring, Pausing, Bound
<1>2. target \subseteq Paused /\ failures = {}
  BY DEF IInv, Recorded, Once, Acquiring, Pausing
<1>3. Owed' = Owed
  BY <1>1, <1>2 DEF Owed, Paused
<1>4. UNCHANGED <<Displaced, Reported>>
  BY <1>1, <1>2, SameDisplaced, SameReported
<1>5. StockLease!Return
  BY <1>1, <1>3, <1>4 DEF StockLease!Return
<1> QED BY <1>5 DEF Maps, StockLease!Next

\* A process is displaced by the signal; a signal that meets nobody displaces nobody.
LEMMA StopKillMaps == IInv /\ Once /\ StopKill => Maps
<1> SUFFICES ASSUME IInv, Once, StopKill PROVE Maps
  OBVIOUS
<1>1. PICK i \in target :
        \/ /\ proc' = [proc EXCEPT ![i] = "stopped"]
           /\ pc' = "Stop" /\ UNCHANGED report
        \/ pc' = "Stop" /\ UNCHANGED <<proc, report>>
        \/ BeginRestore("RolledBack") /\ UNCHANGED proc
  BY DEF StopKill
<1>2. /\ pc = "StopKill" /\ target' = {}
      /\ UNCHANGED <<startup, prevent, pillow, origPrevent, foundPillow,
                     preventChanged, pillowChanged, paused>>
  BY DEF StopKill
<1>3. i \in Identity /\ target \subseteq Paused /\ proc \in [Identity -> ProcState]
  BY <1>2 DEF IInv, TypeOK, Recorded
<1>4. CASE BeginRestore("RolledBack") /\ UNCHANGED proc
  BY <1>2, <1>4, ReturnMaps DEF BeginRestore, Restoring
<1>5. CASE pc' = "Stop" /\ UNCHANGED report
  <2>1. /\ Committed /\ Committed'
        /\ LeasePhase = "taking" /\ LeasePhase' = "taking"
    BY <1>2, <1>5, PhaseNow, PhaseNext DEF Acquiring, Pausing, Bound
  <2>2. Owed' = Owed /\ i \in Owed
    BY <1>2, <1>3, <2>1 DEF Owed, Paused
  <2>3. Reported' = Reported
    BY <1>5, <2>1, SameReported DEF report
  <2>4. CASE proc' = [proc EXCEPT ![i] = "stopped"]
    <3>1. Displaced' = Displaced \cup {i}
      BY <1>2, <1>3, <2>1, <2>4 DEF Displaced, Held, ConfirmedPillow
    <3>2. StockLease!Displace(i)
      BY <2>1, <2>2, <2>3, <3>1 DEF StockLease!Displace
    <3> QED BY <1>3, <3>2 DEF Maps, StockLease!Next
  <2>5. CASE UNCHANGED proc
    BY <1>2, <2>1, <2>2, <2>3, <2>5, SameDisplaced DEF Maps
  <2> QED BY <1>1, <1>4, <2>4, <2>5
<1> QED BY <1>1, <1>4, <1>5

\* Having paused every process is no step of the lease.
LEMMA AllStoppedMaps == IInv /\ Once /\ AllStopped => Maps
<1> SUFFICES ASSUME AllStopped PROVE Maps
  OBVIOUS
<1>1. /\ Committed /\ Committed'
      /\ LeasePhase = "taking" /\ LeasePhase' = "taking"
  BY PhaseNow, PhaseNext DEF AllStopped, Acquiring, Pausing, Bound
<1> QED BY <1>1, SameDisplaced, SameOwed, SameReported
        DEF Maps, AllStopped, device, lease, report, history

\* Quiescence and the display mode are nothing a lease displaces.
LEMMA QuiesceMaps == IInv /\ Once /\ (Quiesce \/ NormalizeDisplayMode) => Maps
<1> SUFFICES ASSUME IInv, Once, Quiesce \/ NormalizeDisplayMode PROVE Maps
  OBVIOUS
<1>1. /\ pc \in {"Quiesce", "Normalize"} /\ target = {} /\ target' = {}
      /\ UNCHANGED <<startup, prevent, pillow, proc, origPrevent, foundPillow,
                     preventChanged, pillowChanged, paused>>
  BY DEF Quiesce, NormalizeDisplayMode, MutateOr, device, history, IInv, Recorded,
         Acquiring, Pausing
<1>2. \/ BeginRestore("RolledBack")
      \/ pc' \in {"Normalize", "Owned"} /\ UNCHANGED report
           /\ (pc = "Quiesce" <=> pc' = "Normalize")
  BY DEF Quiesce, NormalizeDisplayMode, MutateOr
<1>3. CASE BeginRestore("RolledBack")
  BY <1>1, <1>3, ReturnMaps DEF BeginRestore, Restoring
<1>4. CASE pc' \in {"Normalize", "Owned"} /\ UNCHANGED report
             /\ (pc = "Quiesce" <=> pc' = "Normalize")
  <2>1. /\ Committed /\ Committed'
        /\ LeasePhase = "taking" /\ LeasePhase' \in {"taking", "held"}
    BY <1>1, <1>4, PhaseNow, PhaseNext DEF Acquiring, Pausing, Bound
  <2>2. UNCHANGED <<Displaced, Owed, Reported>>
    BY <1>1, <1>4, <2>1, SameDisplaced, SameOwed, SameReported DEF report
  <2>3. StockLease!Hold \/ UNCHANGED <<LeasePhase, Displaced, Owed, Reported>>
    BY <2>1, <2>2 DEF StockLease!Hold
  <2> QED BY <2>3 DEF Maps, StockLease!Next
<1> QED BY <1>2, <1>3, <1>4

\* The end of the holding returns what is owed.
LEMMA ReleaseMaps == IInv /\ Once /\ Release => Maps
<1> SUFFICES ASSUME IInv, Once, Release PROVE Maps
  OBVIOUS
<1>1. target = {}
  BY DEF Release, IInv, Recorded, Acquiring, Pausing
<1> QED BY <1>1, ReturnMaps DEF Release, BeginRestore, Restoring, device, history

\* What the child draws is not the lease's.
LEMMA ForegroundDrawsMaps == IInv /\ Once /\ ForegroundDraws => Maps
<1> SUFFICES ASSUME ForegroundDraws PROVE Maps
  OBVIOUS
<1>1. Committed /\ Committed' /\ LeasePhase = "held" /\ LeasePhase' = "held"
  BY PhaseNow, PhaseNext DEF ForegroundDraws, Bound
<1> QED BY <1>1, SameDisplaced, SameOwed, SameReported
        DEF Maps, ForegroundDraws, lease, report, history

\* The holder takes the inhibitor again or gives it up; a failure owes it still.
LEMMA SetSuspendInhibitedMaps ==
  ASSUME NEW inhibit \in BOOLEAN, IInv, Once, SetSuspendInhibited(inhibit)
  PROVE  Maps
<1>1. /\ pc = "Owned" /\ ~origPrevent /\ inhibit # preventChanged
      /\ UNCHANGED <<startup, pillow, proc, origPrevent, target, foundPillow,
                     pillowChanged, paused>>
      /\ failures' = failures
      /\ \/ prevent' = inhibit /\ preventChanged' = inhibit /\ pc' = pc
         \/ /\ prevent' \in {prevent, inhibit} /\ preventChanged' = TRUE
            /\ pc' \in Restoring
  BY DEF SetSuspendInhibited, BeginRestore, Restoring, report, history, Once
<1>2. /\ prevent \in BOOLEAN /\ preventChanged \in BOOLEAN /\ origPrevent \in BOOLEAN
      /\ prevent = preventChanged
      /\ "prevent" \notin Identity /\ target \subseteq Identity /\ paused \in Seq(Identity)
  BY <1>1, ForegroundAssumption DEF IInv, TypeOK, Recorded, Identity
<1>3. "prevent" \notin Paused \cup target
  BY <1>2, PausedIdentities
<1>4. /\ Committed /\ Committed'
      /\ LeasePhase = "held"
      /\ pc' = pc => LeasePhase' = "held"
      /\ pc' \in Restoring => LeasePhase' = "returning"
  BY <1>1, PhaseNow, PhaseNext DEF Bound
<1>5. Reported' = Reported
  BY <1>1, <1>4, SameReported
<1>6. CASE inhibit = TRUE
  <2>1. Owed' = Owed \cup {"prevent"}
    BY <1>1, <1>4, <1>6 DEF Owed, Held, Paused
  <2>2. Displaced' \in {Displaced, Displaced \cup {"prevent"}}
    BY <1>1, <1>2, <1>4, <1>6 DEF Displaced, Held, ConfirmedPillow
  <2>3. StockLease!Take("prevent")
    BY <1>1, <1>4, <1>5, <2>1, <2>2 DEF StockLease!Take, Restoring
  <2> QED BY <2>3 DEF Maps, StockLease!Next
<1>7. CASE inhibit = FALSE
  <2>1. preventChanged = TRUE
    BY <1>1, <1>2, <1>7
  <2>2. "prevent" \in Owed
    BY <1>4, <2>1 DEF Owed, Held
  <2>3. CASE prevent' = FALSE /\ preventChanged' = FALSE /\ pc' = pc
    <3>1. Owed' = Owed \ {"prevent"}
      BY <1>1, <1>3, <1>4, <2>1, <2>3 DEF Owed, Held, Paused
    <3>2. Displaced' = Displaced \ {"prevent"}
      BY <1>1, <1>2, <1>4, <2>3 DEF Displaced, Held, ConfirmedPillow
    <3> QED BY <1>4, <1>5, <2>2, <2>3, <3>1, <3>2 DEF StockLease!Forgo, Maps, StockLease!Next
  <2>4. CASE /\ prevent' \in {prevent, FALSE} /\ preventChanged' = TRUE
             /\ pc' \in Restoring
    <3>1. Owed' = Owed
      BY <1>1, <1>4, <2>1, <2>4, SameOwed
    <3>2. Displaced' \in {Displaced, Displaced \ {"prevent"}}
      BY <1>1, <1>2, <1>4, <2>4 DEF Displaced, Held, ConfirmedPillow
    <3> QED BY <1>4, <1>5, <2>2, <2>4, <3>1, <3>2 DEF StockLease!Forgo, Maps, StockLease!Next
  <2> QED BY <1>1, <1>7, <2>3, <2>4
<1> QED BY <1>6, <1>7

(***************************************************************************)
(* The restoration.                                                        *)
(***************************************************************************)
\* The lightbox is nothing the lease owes.
LEMMA ClearLightboxMaps == IInv /\ Once /\ ClearLightbox => Maps
<1> SUFFICES ASSUME IInv, ClearLightbox PROVE Maps
  OBVIOUS
<1>1. /\ Committed /\ Committed'
      /\ LeasePhase = "returning" /\ LeasePhase' = "returning"
  BY PhaseNow, PhaseNext DEF ClearLightbox, Restoring, Bound
<1>2. failures' \in {failures, failures \cup {"lightbox"}}
  BY DEF ClearLightbox, Attempt
<1>3. "lightbox" \notin {"prevent", "pillow"} \cup Identity
  BY ForegroundAssumption DEF Identity
<1>4. Reported' = Reported
  BY <1>1, <1>2, <1>3 DEF Reported
<1> QED BY <1>1, <1>4, SameDisplaced, SameOwed DEF Maps, ClearLightbox, lease, history

\* The one on top of the stack is about to be resumed, and owed until then; or it
\* could not be found, and is reported.
LEMMA ContinueMaps == IInv /\ Once /\ Continue => Maps
<1> SUFFICES ASSUME IInv, Once, Continue PROVE Maps
  OBVIOUS
<1>1. PICK i : i = paused[Len(paused)]
  OBVIOUS
<1>2. /\ pc = "Continue" /\ paused \in Seq(Identity) /\ paused # <<>>
      /\ paused' = SubSeq(paused, 1, Len(paused) - 1)
      /\ target = {}
      /\ UNCHANGED <<startup, prevent, pillow, proc, origPrevent, foundPillow,
                     preventChanged, pillowChanged>>
      /\ \/ pc' = "ContinueKill" /\ target' = {i} /\ failures' = failures
         \/ pc' = "Continue" /\ target' = target /\ failures' = failures \cup {i}
  BY <1>1 DEF Continue, device, history, IInv, TypeOK, Unwound, Restoring
<1>3. Paused = Paused' \cup {i} /\ i \in Identity
  BY <1>1, <1>2, PopPaused
<1>4. i \notin Paused'
  BY <1>1, <1>2, PopOnce
<1>5. /\ Committed /\ Committed'
      /\ LeasePhase = "returning" /\ LeasePhase' = "returning"
  BY <1>2, PhaseNow, PhaseNext DEF Restoring, Bound
<1>6. Displaced' = Displaced
  BY <1>2, <1>5, SameDisplaced
<1>7. CASE target' = {i} /\ failures' = failures
  <2>1. Owed' = Owed
    BY <1>2, <1>3, <1>5, <1>7 DEF Owed
  <2> QED BY <1>5, <1>6, <1>7, <2>1, SameReported DEF Maps
<1>8. CASE target' = target /\ failures' = failures \cup {i}
  <2>1. i \notin {"prevent", "pillow"}
    BY <1>3, ForegroundAssumption DEF Identity
  <2>2. Owed' = Owed \ {i} /\ i \in Owed
    BY <1>2, <1>3, <1>4, <1>5, <1>8, <2>1 DEF Owed, Held
  <2>3. Reported' = Reported \cup {i}
    BY <1>3, <1>5, <1>8 DEF Reported
  <2>4. StockLease!GiveBack(i)
    BY <1>5, <1>6, <2>2, <2>3 DEF StockLease!GiveBack
  <2> QED BY <1>3, <2>4 DEF Maps, StockLease!Next
<1> QED BY <1>2, <1>7, <1>8

\* A resumed process is given back, and so is one that has gone; a signal that fails
\* is reported.
LEMMA ContinueKillMaps == IInv /\ Once /\ ContinueKill => Maps
<1> SUFFICES ASSUME IInv, Once, ContinueKill PROVE Maps
  OBVIOUS
<1>1. PICK i \in target :
        \/ proc' = [proc EXCEPT ![i] = "running"] /\ failures' = failures
        \/ ~Alive(i) /\ UNCHANGED <<proc, failures>>
        \/ ~Alive(i) /\ failures' = failures \cup {i} /\ UNCHANGED proc
  BY DEF ContinueKill
<1>2. /\ pc = "ContinueKill" /\ pc' = "Continue" /\ target' = {}
      /\ UNCHANGED <<startup, prevent, pillow, origPrevent, foundPillow,
                     preventChanged, pillowChanged, paused>>
  BY DEF ContinueKill
<1>3. /\ target = {i} /\ i \in Identity /\ i \notin Paused
      /\ proc \in [Identity -> ProcState]
      /\ i \notin {"prevent", "pillow"}
  BY <1>2, ForegroundAssumption DEF IInv, TypeOK, Recorded, Once, Identity
<1>4. /\ Committed /\ Committed'
      /\ LeasePhase = "returning" /\ LeasePhase' = "returning"
  BY <1>2, PhaseNow, PhaseNext DEF Restoring, Bound
<1>5. Owed' = Owed \ {i} /\ i \in Owed
  BY <1>2, <1>3, <1>4 DEF Owed, Held, Paused
<1>6. Displaced' = Displaced \ {i}
  <2>1. \A r \in Identity : proc'[r] = "stopped" <=> proc[r] = "stopped" /\ r # i
    BY <1>1, <1>3 DEF Alive
  <2> QED BY <1>2, <1>3, <1>4, <2>1 DEF Displaced, Held, ConfirmedPillow
<1>7. Reported' = Reported \/ Reported' = Reported \cup {i}
  BY <1>1, <1>3, <1>4 DEF Reported
<1>8. StockLease!GiveBack(i)
  BY <1>4, <1>5, <1>6, <1>7 DEF StockLease!GiveBack
<1> QED BY <1>3, <1>8 DEF Maps, StockLease!Next

\* A restoration that has reached its end, or goes on to its next stage.
LEMMA PhaseAfter ==
  ASSUME pc \in Restoring, pc' \in Restoring \/ pc' = "Done", IInv, UNCHANGED outcome
  PROVE  /\ Committed /\ Committed'
         /\ LeasePhase = "returning"
         /\ pc' \in Restoring => LeasePhase' = "returning"
         /\ pc' = "Done" => LeasePhase' = "outside"
BY PhaseNow, PhaseNext DEF Bound, Settled, IInv, Unwound, Committed

\* The last resume goes on to the settings, or ends the lease.
LEMMA AllContinuedMaps == IInv /\ Once /\ AllContinued => Maps
<1> SUFFICES ASSUME IInv, AllContinued PROVE Maps
  OBVIOUS
<1>1. /\ pc = "Continue" /\ paused = <<>> /\ target = {}
      /\ pc' \in {"RestorePillow", "RestorePrevent", "Repaint", "Done"}
      /\ pc' = "Done" => ~pillowChanged /\ ~preventChanged
      /\ UNCHANGED <<startup, device, lease, report, history>>
  BY DEF AllContinued, AfterResume, AfterPillow, AfterRestored, IInv, Unwound, Restoring
<1>2. /\ Committed /\ Committed'
      /\ LeasePhase = "returning"
      /\ LeasePhase' = IF pc' = "Done" THEN "outside" ELSE "returning"
  BY <1>1, PhaseAfter DEF Restoring, report
<1>3. UNCHANGED <<Displaced, Owed, Reported>>
  BY <1>1, <1>2, SameDisplaced, SameOwed, SameReported DEF device, lease, report, history
<1>4. CASE pc' = "Done"
  <2>1. Owed = {}
    BY <1>1, <1>2, <1>4 DEF Owed, Held, Paused
  <2> QED BY <1>2, <1>3, <1>4, <2>1 DEF StockLease!End, Maps, StockLease!Next
<1> QED BY <1>2, <1>3, <1>4 DEF Maps

\* Pillow is given back, or reported.
LEMMA RestorePillowMaps == IInv /\ Once /\ RestorePillow => Maps
<1> SUFFICES ASSUME IInv, Once, RestorePillow PROVE Maps
  OBVIOUS
<1>1. /\ pc = "RestorePillow" /\ paused = <<>> /\ target = {} /\ ~pillowChanged'
      /\ pc' \in {"RestorePrevent", "Repaint", "Done"}
      /\ pc' = "Done" => ~preventChanged
      /\ UNCHANGED <<startup, prevent, proc, origPrevent, foundPillow,
                     preventChanged, paused, target, outcome>>
      /\ \/ pillow' = ConfirmedPillow /\ failures' = failures
         \/ pillow' \in {ConfirmedPillow, pillow} /\ failures' = failures \cup {"pillow"}
  BY DEF RestorePillow, Attempt, AfterPillow, AfterRestored, IInv, Unwound, Restoring,
         history
<1>2. /\ Committed /\ Committed'
      /\ LeasePhase = "returning"
      /\ LeasePhase' = IF pc' = "Done" THEN "outside" ELSE "returning"
  BY <1>1, PhaseAfter DEF Restoring
<1>3. "pillow" \notin Identity
  BY ForegroundAssumption DEF Identity
<1>4. Owed' = Owed \ {"pillow"} /\ (pc' = "Done" => Owed' = {})
  BY <1>1, <1>2 DEF Owed, Held, Paused
<1>5. \/ Displaced' = Displaced \ {"pillow"} /\ failures' = failures
      \/ /\ Displaced' \in {Displaced, Displaced \ {"pillow"}}
         /\ failures' = failures \cup {"pillow"}
  BY <1>1, <1>2, <1>3 DEF Displaced, Held, ConfirmedPillow
<1>6. /\ failures' = failures => Reported' = Reported
      /\ failures' = failures \cup {"pillow"} => Reported' = Reported \cup {"pillow"}
  BY <1>2 DEF Reported
<1>7. "pillow" \in Owed
  BY <1>1, <1>2 DEF Owed, Held, Once
<1>8. StockLease!GiveBack("pillow")
  BY <1>1, <1>2, <1>4, <1>5, <1>6, <1>7 DEF StockLease!GiveBack
<1> QED BY <1>8 DEF Maps, StockLease!Next

\* So is the inhibitor; the repaint is then all that may be left.
LEMMA RestorePreventMaps == IInv /\ Once /\ RestorePrevent => Maps
<1> SUFFICES ASSUME IInv, Once, RestorePrevent PROVE Maps
  OBVIOUS
<1>1. /\ pc = "RestorePrevent" /\ paused = <<>> /\ target = {} /\ ~preventChanged'
      /\ pc' \in {"Repaint", "Done"}
      /\ ~pillowChanged
      /\ UNCHANGED <<startup, pillow, proc, origPrevent, foundPillow,
                     pillowChanged, paused, target, outcome>>
      /\ \/ prevent' = origPrevent /\ failures' = failures
         \/ prevent' \in {origPrevent, prevent} /\ failures' = failures \cup {"prevent"}
  BY DEF RestorePrevent, Attempt, AfterRestored, IInv, Unwound, Restoring, history
<1>2. /\ Committed /\ Committed'
      /\ LeasePhase = "returning"
      /\ LeasePhase' = IF pc' = "Done" THEN "outside" ELSE "returning"
  BY <1>1, PhaseAfter DEF Restoring
<1>3. "prevent" \notin Identity
  BY ForegroundAssumption DEF Identity
<1>4. Owed' = {} /\ Owed = {"prevent"}
  BY <1>1, <1>2 DEF Owed, Held, Paused, Once
<1>5. \/ Displaced' = Displaced \ {"prevent"} /\ failures' = failures
      \/ /\ Displaced' \in {Displaced, Displaced \ {"prevent"}}
         /\ failures' = failures \cup {"prevent"}
  BY <1>1, <1>2, <1>3 DEF Displaced, Held, ConfirmedPillow
<1>6. /\ failures' = failures => Reported' = Reported
      /\ failures' = failures \cup {"prevent"} => Reported' = Reported \cup {"prevent"}
  BY <1>2 DEF Reported
<1>7. StockLease!GiveBack("prevent")
  BY <1>1, <1>2, <1>4, <1>5, <1>6 DEF StockLease!GiveBack
<1> QED BY <1>7 DEF Maps, StockLease!Next

\* Whether the panel is repainted is not the lease's; nothing is owed any more.
LEMMA RepaintStockMaps == IInv /\ Once /\ RepaintStock => Maps
<1> SUFFICES ASSUME IInv, RepaintStock PROVE Maps
  OBVIOUS
<1>1. /\ pc = "Repaint" /\ pc' = "Done" /\ paused = <<>> /\ target = {}
      /\ ~pillowChanged /\ ~preventChanged
      /\ UNCHANGED <<startup, prevent, pillow, proc, lease, outcome, history>>
      /\ failures' \in {failures, failures \cup {"repaint"}}
  BY DEF RepaintStock, Attempt, IInv, Unwound, Restoring
<1>2. /\ Committed /\ Committed'
      /\ LeasePhase = "returning" /\ LeasePhase' = "outside"
  BY <1>1, PhaseAfter DEF Restoring
<1>3. "repaint" \notin {"prevent", "pillow"} \cup Identity
  BY ForegroundAssumption DEF Identity
<1>4. Reported' = Reported
  BY <1>1, <1>2, <1>3 DEF Reported
<1>5. UNCHANGED <<Displaced, Owed>>
  BY <1>1, <1>2, SameDisplaced, SameOwed DEF lease, history
<1>6. Owed = {}
  BY <1>1, <1>2 DEF Owed, Held, Paused
<1> QED BY <1>2, <1>4, <1>5, <1>6 DEF StockLease!End, Maps, StockLease!Next

(***************************************************************************)
(* The environment, and all steps together.                                *)
(***************************************************************************)
\* A process that starts was not displaced; one that exits is no longer.
LEMMA ProcessMaps ==
  ASSUME IInv, NEW i \in Identity, ProcessStarts(i) \/ ProcessExits(i)
  PROVE  Maps
<1>1. /\ UNCHANGED <<startup, prevent, pillow, pc, lease, report, history>>
      /\ proc \in [Identity -> ProcState]
      /\ \/ proc[i] = "absent" /\ proc' = [proc EXCEPT ![i] = "running"]
         \/ proc' = [proc EXCEPT ![i] = "gone"]
  BY DEF ProcessStarts, ProcessExits, IInv, TypeOK
<1>2. LeasePhase' = LeasePhase /\ (Committed' <=> Committed)
  BY <1>1 DEF LeasePhase, Committed, HadMutation, lease, report
<1>3. CASE ~Committed
  BY <1>2, <1>3, Nothing DEF Maps
<1>4. CASE Committed
  <2>1. UNCHANGED <<Owed, Reported>>
    BY <1>1, <1>2, <1>4, SameOwed, SameReported DEF lease, report
  <2>2. "prevent" \notin Identity /\ "pillow" \notin Identity
    BY ForegroundAssumption DEF Identity
  <2>3. Displaced' \in {Displaced, Displaced \ {i}}
    <3>1. CASE proc[i] = "absent" /\ proc' = [proc EXCEPT ![i] = "running"]
      <4>1. \A r \in Identity : proc'[r] = "stopped" <=> proc[r] = "stopped"
        BY <1>1, <3>1
      <4> QED BY <1>1, <1>2, <1>4, <4>1 DEF Displaced, Held, ConfirmedPillow, lease, history
    <3>2. CASE proc' = [proc EXCEPT ![i] = "gone"]
      <4>1. \A r \in Identity : proc'[r] = "stopped" <=> proc[r] = "stopped" /\ r # i
        BY <1>1, <3>2
      <4> QED BY <1>1, <1>2, <1>4, <2>2, <4>1
              DEF Displaced, Held, ConfirmedPillow, lease, history
    <3> QED BY <1>1, <3>1, <3>2
  <2>4. StockLease!Vanish(i) \/ UNCHANGED <<LeasePhase, Displaced, Owed, Reported>>
    BY <1>2, <2>1, <2>3 DEF StockLease!Vanish
  <2> QED BY <2>4 DEF Maps, StockLease!Next
<1> QED BY <1>3, <1>4

\* A killed guardian has forgotten what it owed.
LEMMA GuardianDiesMaps == IInv /\ GuardianDies => Maps
<1> SUFFICES ASSUME GuardianDies PROVE Maps
  OBVIOUS
<1>1. LeasePhase' = "outside" /\ ~Committed'
  BY PhaseNext DEF GuardianDies, Settled
<1>2. StockLease!Abandon
  BY <1>1, Nothing DEF StockLease!Abandon
<1> QED BY <1>2 DEF Maps, StockLease!Next

\* A step that changes nothing changes nothing of the lease.
LEMMA StutterMaps == UNCHANGED vars => Maps
BY DEF Maps, vars, device, lease, report, history, LeasePhase, Displaced, Owed, Reported,
       Committed, HadMutation, Paused, ConfirmedPillow

\* Every step of the transaction is a step of the lease, or none.
LEMMA NextMaps == IInv /\ Once /\ [Next]_vars => [StockLease!Next]_(StockLease!abstract)
<1> SUFFICES ASSUME IInv, Once, [Next]_vars PROVE Maps
  BY DEF Maps, StockLease!abstract
<1>1. CASE Guardian
  BY <1>1, InspectMaps, InspectCvmMaps, SetPreventMaps, SetPillowMaps, StopMaps,
     StopKillMaps, AllStoppedMaps, QuiesceMaps, ClearLightboxMaps, ContinueMaps,
     ContinueKillMaps, AllContinuedMaps, RestorePillowMaps, RestorePreventMaps,
     RepaintStockMaps DEF Guardian
<1>2. CASE Owner
  BY <1>2, BeginMaps, ForegroundDrawsMaps, SetSuspendInhibitedMaps, ReleaseMaps DEF Owner
<1>3. CASE Environment
  BY <1>3, ProcessMaps, GuardianDiesMaps DEF Environment
<1>4. CASE UNCHANGED vars
  BY <1>4, StutterMaps
<1> QED BY <1>1, <1>2, <1>3, <1>4 DEF Next

\* Both begin outside, with nothing displaced.
LEMMA InitMaps == Init => StockLease!Init
<1> SUFFICES ASSUME Init PROVE StockLease!Init
  OBVIOUS
<1>1. LeasePhase = "outside" /\ ~Committed
  BY PhaseNow DEF Init, Settled
<1> QED BY <1>1, Nothing DEF StockLease!Init

\* No resource is recorded twice, whatever the device does.
THEOREM GivenBackOnce == Spec => []Once
<1>1. IInv /\ Once /\ [Next]_vars => Once'
  BY NextOnce
<1> QED BY <1>1, InitOnce, Inductive, PTL DEF Spec

\* The transaction implements the lease (ImplementsStockLease): whatever the
\* number of stock processes, and whichever calls fail, take effect without
\* saying so or are cut short by a kill, it owes a resource before it displaces
\* it, gives each back once, and ends owing nothing.
THEOREM Implements == Spec => ImplementsStockLease
<1>1. IInv /\ Once /\ [Next]_vars => [StockLease!Next]_(StockLease!abstract)
  BY NextMaps
<1>2. Spec => StockLease!Init /\ [][StockLease!Next]_(StockLease!abstract)
  BY <1>1, InitMaps, Inductive, GivenBackOnce, PTL DEF Spec
<1> QED BY <1>2 DEF ImplementsStockLease, StockLease!Spec
=============================================================================
