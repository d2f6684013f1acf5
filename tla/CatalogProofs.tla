---------------------------- MODULE CatalogProofs ----------------------------
(***************************************************************************)
(* The safety of a launcher session, for every set of applications,        *)
(* alerts and manifest paths, whatever the files hold and however often    *)
(* they are replaced.                                                      *)
(***************************************************************************)
EXTENDS Catalog, SequenceTheorems, FiniteSetTheorems, TLAPS

(***************************************************************************)
(* The shell's policy.  What a frame shows was true when it was drawn; the *)
(* invariant keeps what the taps since then cannot have changed.           *)
(***************************************************************************)
\* A confirmation, an alert and the drawer exclude each other.
Exclusive ==
  /\ power = None \/ alert = None
  /\ drawer => Free
  /\ Cardinality(panel.modal) <= 1

\* A prompt that waits is the one that was asked for last.
Asked == power # None => asked = power

\* A notice says what became of the command; a frame is drawn only while the port
\* is free, so that a refusal on it is that of a port without a guardian.
Truthful ==
  /\ pc = "Draw" => request = NoCommand
  /\ notice.outcome = "Accepted" => request # NoCommand
  /\ notice.outcome = "Unavailable" => request # NoCommand \/ ~attached
  /\ panel.notice.outcome = "Unavailable" => ~attached

LInv == TypeOK /\ Exclusive /\ Asked /\ Truthful

\* One surface at most, when they exclude each other.
LEMMA OneSurface ==
  ASSUME power = None \/ alert = None, drawer => Free
  PROVE  Cardinality(Modal) <= 1
<1>1. Modal = {} \/ \E s : Modal = {s}
  <2>1. CASE drawer
    <3>1. Modal = {"drawer"}
      BY <2>1 DEF Modal, Free
    <3> QED BY <3>1
  <2>2. CASE ~drawer /\ power # None
    <3>1. Modal = {"confirmation"}
      BY <2>2 DEF Modal
    <3> QED BY <3>1
  <2>3. CASE ~drawer /\ power = None /\ alert # None
    <3>1. Modal = {"alert"}
      BY <2>3 DEF Modal
    <3> QED BY <3>1
  <2>4. CASE ~drawer /\ power = None /\ alert = None
    BY <2>4 DEF Modal
  <2> QED BY <2>1, <2>2, <2>3, <2>4
<1>2. Cardinality({}) = 0 /\ \A s : Cardinality({s}) = 1
  BY FS_EmptySet, FS_Singleton
<1>3. CASE Modal = {}
  BY <1>2, <1>3
<1>4. CASE \E s : Modal = {s}
  <2>1. PICK s : Modal = {s}
    BY <1>4
  <2>2. Cardinality({s}) = 1
    BY <1>2
  <2> QED BY <2>1, <2>2
<1> QED BY <1>1, <1>3, <1>4

\* What submit does to port and notice.
LEMMA SubmitTruthful ==
  ASSUME LInv, pc = "Input", UNCHANGED <<attached, pc, panel>>,
         NEW c \in ShellCommand, Submit(c)
  PROVE  /\ Truthful' /\ notice' \in Notice /\ request' \in ShellCommand \cup {NoCommand}
<1>1. c # NoCommand /\ notice'.command = c
  BY DEF ShellCommand, NoCommand, Command, Launch, PowerAction, None, Submit
<1>2. notice' \in Notice /\ request' \in ShellCommand \cup {NoCommand}
  BY DEF Submit, Notice, LInv, TypeOK
<1>3. Truthful'
  BY <1>1 DEF LInv, Truthful, Submit, Accepts
<1> QED BY <1>1, <1>2, <1>3

\* A step that submits nothing.
LEMMA SameTruth ==
  ASSUME LInv, UNCHANGED <<attached, panel, notice, request>>,
         pc' = "Draw" => request = NoCommand
  PROVE  /\ Truthful' /\ notice' \in Notice /\ request' \in ShellCommand \cup {NoCommand}
BY DEF LInv, Truthful, TypeOK

LEMMA LauncherInit == Init => LInv
<1> SUFFICES ASSUME Init PROVE LInv
  OBVIOUS
<1>1. TypeOK
  BY DEF Init, TypeOK, Notice, Ready, ShellView, PowerAction, NoCommand, None
<1>2. Exclusive
  BY FS_EmptySet DEF Init, Exclusive
<1>3. Asked /\ Truthful
  BY DEF Init, Asked, Truthful, Ready
<1> QED BY <1>1, <1>2, <1>3 DEF LInv

LEMMA TapStep ==
  ASSUME LInv, Tap
  PROVE  LInv'
<1> DEFINE Done == /\ view' \in ShellView /\ power' \in PowerAction \cup {None}
                   /\ alert' \in ShellAlert \cup {None} /\ asked' \in PowerAction \cup {None}
                   /\ power' = None \/ alert' = None
                   /\ power' # None => asked' = power'
                   /\ notice' \in Notice /\ request' \in ShellCommand \cup {NoCommand}
                   /\ Truthful'
<1>0. pc = "Input" /\ UNCHANGED <<attached, pc, panel, sleeping>>
  BY DEF Tap
<1>1. NoSubmit =>
        /\ notice' \in Notice /\ request' \in ShellCommand \cup {NoCommand} /\ Truthful'
  BY <1>0, SameTruth DEF NoSubmit
<1>2. \A c \in ShellCommand : Submit(c) =>
        /\ notice' \in Notice /\ request' \in ShellCommand \cup {NoCommand} /\ Truthful'
  BY <1>0, SubmitTruthful
<1>3. /\ \A i \in Applications : Launch(i) \in ShellCommand
      /\ \A k \in PowerAction \cup {"ReturnToStock"} : Command(k) \in ShellCommand
  BY DEF ShellCommand
<1>4. ASSUME NEW v \in ShellView, Open(v)
      PROVE  Done
  BY <1>1, <1>4 DEF Open, LInv, TypeOK, Exclusive, Asked
<1>5. ASSUME NEW i \in Applications, LaunchApplication(i)
      PROVE  Done
  BY <1>1, <1>2, <1>3, <1>5
     DEF LaunchApplication, LInv, TypeOK, Exclusive, Asked, controller
<1>6. ASSUME RequestStock
      PROVE  Done
  BY <1>1, <1>2, <1>3, <1>6
     DEF RequestStock, LInv, TypeOK, Exclusive, Asked, Free, ShellView
<1>7. ASSUME NEW a \in PowerAction, RequestPower(a)
      PROVE  Done
  BY <1>1, <1>7 DEF RequestPower, LInv, TypeOK, Exclusive, Asked, Free
<1>8. ASSUME ConfirmPowerAction
      PROVE  Done
  BY <1>1, <1>2, <1>3, <1>8 DEF ConfirmPowerAction, LInv, TypeOK, Exclusive, Asked
<1>9. ASSUME CancelPowerAction
      PROVE  Done
  BY <1>1, <1>9 DEF CancelPowerAction, LInv, TypeOK, Exclusive, Asked
<1>10. ASSUME DismissAlert
       PROVE  Done
  BY <1>1, <1>10 DEF DismissAlert, LInv, TypeOK, Exclusive, Asked, ShellView
<1>11. Done
  BY <1>4, <1>5, <1>6, <1>7, <1>8, <1>9, <1>10 DEF Tap
<1>12. drawer' \in BOOLEAN /\ (drawer' => power' = None /\ alert' = None)
  BY DEF Tap, Sync, LInv, TypeOK
<1>13. TypeOK'
  BY <1>0, <1>11, <1>12 DEF LInv, TypeOK
<1>14. Exclusive' /\ Asked'
  BY <1>0, <1>11, <1>12 DEF LInv, Exclusive, Asked, Free
<1> QED BY <1>11, <1>13, <1>14 DEF LInv

\* Every other step of the shell.
LEMMA TurnStep ==
  ASSUME LInv, ToggleDrawer \/ (\E a \in Alerts : PresentAlert(a)) \/ InputEnds
                 \/ CheckExit \/ UNCHANGED vars
  PROVE  LInv'
<1> USE DEF controller, port, overlays
<1>1. CASE ToggleDrawer
  <2>1. TypeOK' /\ Exclusive' /\ Asked'
    BY <1>1 DEF ToggleDrawer, LInv, TypeOK, Exclusive, Asked, Free
  <2> QED BY <1>1, <2>1, SameTruth DEF ToggleDrawer, LInv
<1>2. ASSUME NEW a \in Alerts, PresentAlert(a)
      PROVE  LInv'
  <2>1. a \in ShellAlert
    BY LauncherAssumption
  <2>2. TypeOK' /\ Exclusive' /\ Asked'
    BY <1>2, <2>1 DEF PresentAlert, Sync, LInv, TypeOK, Exclusive, Asked, Free
  <2> QED BY <1>2, <2>2, SameTruth DEF PresentAlert, LInv
<1>3. CASE InputEnds
  <2>0. /\ sleeping' \in BOOLEAN /\ drawer' \in BOOLEAN /\ (drawer' => drawer)
        /\ pc' = "Check" /\ UNCHANGED <<view, power, alert, notice, attached, request>>
        /\ UNCHANGED <<panel, asked>>
    <3>1. /\ pc' = "Check" /\ UNCHANGED <<view, power, alert, notice, attached, request>>
          /\ UNCHANGED <<panel, asked>>
      BY <1>3 DEF InputEnds
    <3>2. CASE sleeping' \in BOOLEAN /\ drawer' = FALSE
      BY <3>1, <3>2
    <3>3. CASE UNCHANGED overlays
      BY <3>1, <3>3 DEF LInv, TypeOK
    <3> QED BY <1>3, <3>2, <3>3 DEF InputEnds
  <2>1. TypeOK' /\ Exclusive' /\ Asked'
    BY <2>0 DEF LInv, TypeOK, Exclusive, Asked, Free
  <2> QED BY <1>3, <2>1, SameTruth DEF InputEnds, LInv
<1>4. CASE CheckExit
  <2>1. TypeOK' /\ Exclusive' /\ Asked'
    BY <1>4 DEF CheckExit, LInv, TypeOK, Exclusive, Asked, Free
  <2> QED BY <1>4, <2>1, SameTruth DEF CheckExit, LInv
<1>5. CASE UNCHANGED vars
  <2>1. TypeOK' /\ Exclusive' /\ Asked'
    BY <1>5 DEF vars, LInv, TypeOK, Exclusive, Asked, Free
  <2> QED BY <1>5, <2>1, SameTruth DEF vars, LInv, Truthful
<1> QED BY <1>1, <1>2, <1>3, <1>4, <1>5

LEMMA DrawStep ==
  ASSUME LInv, Draw
  PROVE  LInv'
<1> USE DEF controller, port, overlays
<1>1. panel' = [notice |-> notice, modal |-> Modal] /\ pc = "Draw" /\ pc' = "Input"
  BY DEF Draw
<1>2. Modal \in SUBSET {"drawer", "confirmation", "alert"}
  BY DEF Modal
<1>3. TypeOK'
  BY <1>1, <1>2 DEF Draw, LInv, TypeOK
<1>4. Exclusive'
  BY <1>1, OneSurface DEF Draw, LInv, Exclusive, Free
<1>5. Asked' /\ Truthful'
  BY <1>1 DEF Draw, LInv, Asked, Truthful
<1> QED BY <1>3, <1>4, <1>5 DEF LInv

\* Every step of one shell life keeps the policy.
LEMMA LauncherNext ==
  ASSUME LInv, [Next]_vars
  PROVE  LInv'
BY TapStep, TurnStep, DrawStep DEF Next

(***************************************************************************)
(* Two lists put in order independently.  InOrder places an element by the *)
(* number of those before it; when the order is total, that is an          *)
(* enumeration, and it depends on the set alone.                           *)
(***************************************************************************)
StrictOrder(S, R) ==
  /\ \A x \in S : <<x, x>> \notin R
  /\ \A x, y, z \in S : <<x, y>> \in R /\ <<y, z>> \in R => <<x, z>> \in R
  /\ \A x, y \in S : x = y \/ <<x, y>> \in R \/ <<y, x>> \in R

\* How many come before x, and how many with x.
Smaller(S, R, x) == {y \in S : <<y, x>> \in R}
Place(S, R, x)   == Cardinality(Smaller(S, R, x)) + 1

\* Places are between 1 and the number of elements, and grow with the order.
LEMMA Places ==
  ASSUME NEW S, IsFiniteSet(S), NEW R, StrictOrder(S, R)
  PROVE  /\ \A x \in S : Place(S, R, x) \in 1 .. Cardinality(S)
         /\ \A x, y \in S : <<x, y>> \in R => Place(S, R, x) < Place(S, R, y)
<1>1. ASSUME NEW x \in S
      PROVE  /\ IsFiniteSet(Smaller(S, R, x)) /\ Cardinality(Smaller(S, R, x)) \in Nat
             /\ Place(S, R, x) \in 1 .. Cardinality(S)
  <2>1. Smaller(S, R, x) \in SUBSET (S \ {x})
    BY DEF Smaller, StrictOrder
  <2>2. IsFiniteSet(S \ {x}) /\ Cardinality(S \ {x}) = Cardinality(S) - 1
    BY FS_RemoveElement
  <2>3. /\ IsFiniteSet(Smaller(S, R, x))
        /\ Cardinality(Smaller(S, R, x)) <= Cardinality(S) - 1
    BY <2>1, <2>2, FS_Subset
  <2>4. Cardinality(Smaller(S, R, x)) \in Nat /\ Cardinality(S) \in Nat
    BY <2>3, FS_CardinalityType
  <2> QED BY <2>3, <2>4 DEF Place
<1>2. ASSUME NEW x \in S, NEW y \in S, <<x, y>> \in R
      PROVE  Place(S, R, x) < Place(S, R, y)
  <2>1. Smaller(S, R, x) \in SUBSET Smaller(S, R, y)
    BY <1>2 DEF Smaller, StrictOrder
  <2>2. x \in Smaller(S, R, y) /\ x \notin Smaller(S, R, x)
    BY <1>2 DEF Smaller, StrictOrder
  <2>3. /\ Cardinality(Smaller(S, R, x)) <= Cardinality(Smaller(S, R, y))
        /\ Cardinality(Smaller(S, R, x)) # Cardinality(Smaller(S, R, y))
    BY <1>1, <2>1, <2>2, FS_Subset
  <2> QED BY <1>1, <2>3 DEF Place
<1> QED BY <1>1, <1>2

LEMMA InOrderEnumerates ==
  ASSUME NEW S, IsFiniteSet(S), NEW R, StrictOrder(S, R)
  PROVE  /\ InOrder(S, R) \in Seq(S) /\ Len(InOrder(S, R)) = Cardinality(S)
         /\ DOMAIN InOrder(S, R) = 1 .. Cardinality(S)
         /\ \A i \in 1 .. Cardinality(S) : InOrder(S, R)[i] \in S
         /\ \A x \in S : \E i \in 1 .. Cardinality(S) : InOrder(S, R)[i] = x
<1> DEFINE n == Cardinality(S)
           place == [x \in S |-> Place(S, R, x)]
<1>1. n \in Nat /\ IsFiniteSet(1 .. n) /\ Cardinality(1 .. n) = n
  BY FS_CardinalityType, FS_Interval
<1>2. ASSUME NEW x \in S, NEW y \in S, Place(S, R, x) = Place(S, R, y)
      PROVE  x = y
  <2>1. Place(S, R, x) \in Int /\ Place(S, R, y) \in Int
    BY Places
  <2>2. <<x, y>> \notin R /\ <<y, x>> \notin R
    BY <2>1, <1>2, Places
  <2> QED BY <2>2 DEF StrictOrder
<1>3. place \in Injection(S, 1 .. n)
  BY <1>2, Places DEF Injection, IsInjective
<1>4. place \in Surjection(S, 1 .. n)
  <2> HIDE DEF place
  <2> QED BY <1>1, <1>3, FS_Injection
<1>5. \A i \in 1 .. n : \E x \in S : Place(S, R, x) = i
  BY <1>4 DEF Surjection
<1>6. ASSUME NEW i \in 1 .. n
      PROVE  InOrder(S, R)[i] \in S /\ Place(S, R, InOrder(S, R)[i]) = i
  <2>1. \E x \in S : Cardinality({y \in S : <<y, x>> \in R}) = i - 1
    <3>1. PICK x \in S : Place(S, R, x) = i
      BY <1>5
    <3>2. Cardinality(Smaller(S, R, x)) + 1 = i /\ i \in Nat
      BY <3>1 DEF Place
    <3>3. Cardinality(Smaller(S, R, x)) \in Nat
      <4>1. IsFiniteSet(Smaller(S, R, x))
        BY FS_Subset DEF Smaller
      <4> QED BY <4>1, FS_CardinalityType
    <3>4. Cardinality(Smaller(S, R, x)) = i - 1
      BY <3>2, <3>3
    <3> QED BY <3>4 DEF Smaller
  <2>2. InOrder(S, R)[i] = CHOOSE x \in S : Cardinality({y \in S : <<y, x>> \in R}) = i - 1
    BY DEF InOrder
  <2>3. /\ InOrder(S, R)[i] \in S
        /\ Cardinality({y \in S : <<y, InOrder(S, R)[i]>> \in R}) = i - 1
    BY <2>1, <2>2
  <2>4. i - 1 + 1 = i
    OBVIOUS
  <2> QED BY <2>3, <2>4 DEF Place, Smaller
<1>7. ASSUME NEW x \in S
      PROVE  \E i \in 1 .. n : InOrder(S, R)[i] = x
  BY <1>2, <1>6, Places
<1>8. DOMAIN InOrder(S, R) = 1 .. n
  BY DEF InOrder
<1>9. InOrder(S, R) \in [1 .. n -> S]
  BY <1>6 DEF InOrder
<1>10. InOrder(S, R) \in Seq(S)
  BY <1>1, <1>9, SeqDef
<1>11. Len(InOrder(S, R)) = n
  BY <1>1, <1>8, <1>10, LenProperties
<1> QED BY <1>6, <1>7, <1>8, <1>10, <1>11

(***************************************************************************)
(* What the readings of the manifests return.                              *)
(***************************************************************************)
\* The manifests at the given paths, and the list ApplicationCatalog::iter makes.
Manifests(paths) == {files[p] : p \in ToSet(paths)}
Listing(M)       == InOrder(M, {e \in M \X M : Before(e[1], e[2])})

\* Files that register are as many as their paths.
LEMMA AsManyFiles ==
  ASSUME files \in [Paths -> Contents], NEW paths \in Seq(Paths), Registers(paths)
  PROVE  /\ Len(paths) \in Nat
         /\ IsFiniteSet(Manifests(paths)) /\ Cardinality(Manifests(paths)) = Len(paths)
         /\ IsFiniteSet(ToSet(paths)) /\ Cardinality(ToSet(paths)) = Len(paths)
<1>1. /\ Len(paths) \in Nat /\ DOMAIN paths = 1 .. Len(paths)
      /\ paths \in [1 .. Len(paths) -> Paths]
  BY LenProperties
<1>2. IsFiniteSet(1 .. Len(paths)) /\ Cardinality(1 .. Len(paths)) = Len(paths)
  BY <1>1, FS_Interval
<1> DEFINE file == [i \in 1 .. Len(paths) |-> files[paths[i]]]
<1>3. ASSUME NEW i \in 1 .. Len(paths), NEW j \in 1 .. Len(paths),
             files[paths[i]] = files[paths[j]]
      PROVE  i = j
  BY <1>1, <1>3 DEF Registers
<1>4. file \in Injection(1 .. Len(paths), Manifests(paths))
  BY <1>1, <1>3 DEF Injection, IsInjective, Manifests, ToSet
<1>5. file \in Surjection(1 .. Len(paths), Manifests(paths))
  BY <1>1, <1>4 DEF Injection, Surjection, Manifests, ToSet
<1>6. paths \in Injection(1 .. Len(paths), ToSet(paths))
  BY <1>1, <1>3 DEF Injection, IsInjective, ToSet
<1>7. paths \in Surjection(1 .. Len(paths), ToSet(paths))
  BY <1>1, <1>6 DEF Injection, Surjection, ToSet
<1>8. IsFiniteSet(Manifests(paths)) /\ Cardinality(Manifests(paths)) = Len(paths)
  <2> HIDE DEF file
  <2> QED BY <1>2, <1>4, <1>5, FS_Surjection
<1>9. IsFiniteSet(ToSet(paths)) /\ Cardinality(ToSet(paths)) = Len(paths)
  BY <1>2, <1>6, <1>7, FS_Surjection
<1> QED BY <1>1, <1>8, <1>9

\* Their IDs tell them apart, so both orders are total on them.
LEMMA FilesOrdered ==
  ASSUME files \in [Paths -> Contents], NEW paths \in Seq(Paths), Registers(paths)
  PROVE  LET M == Manifests(paths)
             P == ToSet(paths)
         IN  /\ StrictOrder(M, {e \in M \X M : Before(e[1], e[2])})
             /\ StrictOrder(P, {e \in P \X P : files[e[1]].id < files[e[2]].id})
<1> DEFINE M == Manifests(paths)
           P == ToSet(paths)
<1>1. DOMAIN paths = 1 .. Len(paths) /\ paths \in [1 .. Len(paths) -> Paths]
  BY LenProperties
<1>2. \A p \in P : p \in Paths
  BY <1>1 DEF ToSet
<1>3. \A p \in P : files[p].id \in Nat /\ files[p].launcher_position \in Nat
  BY <1>2, CatalogAssumption DEF ApplicationManifest
<1>4. \A m \in M : m.id \in Nat /\ m.launcher_position \in Nat
  BY <1>3 DEF Manifests
<1>5. \A p, q \in P : files[p].id = files[q].id => p = q
  BY <1>1 DEF Registers, ToSet
<1>6. \A m, o \in M : m.id = o.id => m = o
  BY <1>5 DEF Manifests
<1>7. StrictOrder(P, {e \in P \X P : files[e[1]].id < files[e[2]].id})
  BY <1>3, <1>5 DEF StrictOrder
<1>8. StrictOrder(M, {e \in M \X M : Before(e[1], e[2])})
  <2> DEFINE R == {e \in M \X M : Before(e[1], e[2])}
  <2>1. \A x, y \in M : <<x, y>> \in R <=> Before(x, y)
    OBVIOUS
  <2>2. \A x \in M : ~Before(x, x)
    BY <1>4 DEF Before
  <2>3. ASSUME NEW x \in M, NEW y \in M, NEW z \in M, Before(x, y), Before(y, z)
        PROVE  Before(x, z)
    BY <1>4, <2>3 DEF Before
  <2>4. \A x, y \in M : x = y \/ Before(x, y) \/ Before(y, x)
    BY <1>4, <1>6 DEF Before
  <2> HIDE DEF R, M
  <2>5. StrictOrder(M, R)
    BY <2>1, <2>2, <2>3, <2>4 DEF StrictOrder
  <2> QED BY <2>5 DEF R
<1> QED BY <1>7, <1>8

\* The list of the manifests is as long as the paths.
LEMMA IteratedLen ==
  ASSUME files \in [Paths -> Contents], NEW paths \in Seq(Paths), Registers(paths)
  PROVE  /\ Iterated(paths) = Listing(Manifests(paths))
         /\ Iterated(paths) \in Seq(Contents) /\ Len(Iterated(paths)) = Len(paths)
<1>1. Iterated(paths) = Listing(Manifests(paths))
  BY DEF Iterated, Listing, Manifests
<1>2. Listing(Manifests(paths)) \in Seq(Manifests(paths))
        /\ Len(Listing(Manifests(paths))) = Len(paths)
  BY AsManyFiles, FilesOrdered, InOrderEnumerates DEF Listing
<1>3. Manifests(paths) \subseteq Contents
  BY LenProperties DEF Manifests, ToSet
<1> QED BY <1>1, <1>2, <1>3, SeqMonotonic

\* The paths of the shells are those of the guardian, in another order.
LEMMA PathsByIdSame ==
  ASSUME files \in [Paths -> Contents], NEW paths \in Seq(Paths), Registers(paths)
  PROVE  /\ PathsById(paths) \in Seq(Paths) /\ Len(PathsById(paths)) = Len(paths)
         /\ ToSet(PathsById(paths)) = ToSet(paths)
<1> DEFINE P == ToSet(paths)
           R == {e \in P \X P : files[e[1]].id < files[e[2]].id}
<1>1. PathsById(paths) = InOrder(P, R)
  BY DEF PathsById
<1>2. IsFiniteSet(P) /\ Cardinality(P) = Len(paths) /\ StrictOrder(P, R)
  BY AsManyFiles, FilesOrdered
<1>3. P \subseteq Paths
  BY LenProperties DEF ToSet
<1> HIDE DEF P, R
<1>4. /\ InOrder(P, R) \in Seq(P) /\ Len(InOrder(P, R)) = Len(paths)
      /\ DOMAIN InOrder(P, R) = 1 .. Cardinality(P)
      /\ \A i \in 1 .. Cardinality(P) : InOrder(P, R)[i] \in P
      /\ \A x \in P : \E i \in 1 .. Cardinality(P) : InOrder(P, R)[i] = x
  BY <1>2, InOrderEnumerates
<1>5. ToSet(InOrder(P, R)) = P
  BY <1>4 DEF ToSet
<1> QED BY <1>1, <1>3, <1>4, <1>5, SeqMonotonic DEF P

(***************************************************************************)
(* The session.  Both lists have the length of the paths; as long as the   *)
(* files are those the guardian read, both are the one list of them.       *)
(***************************************************************************)
Read ==
  /\ files \in [Paths -> Contents] /\ replaced \in Nat
  /\ phase \in {"Shell", "Application"} =>
       /\ manifestPaths \in Seq(Paths) /\ applications \in Seq(Contents)
       /\ Len(applications) = Len(manifestPaths)
       /\ replaced = 0 => applications = Listing(Manifests(manifestPaths))

\* A launcher has as many rows as the guardian has applications, and the same ones
\* before anything is replaced.
Agreed ==
  rows # <<>> =>
    /\ phase # "Start" /\ rows \in Seq(Contents) /\ applications \in Seq(Contents)
    /\ Len(rows) = Len(applications)
    /\ replaced = 0 /\ phase # "Ended" => rows = applications

\* An accepted launch names a row, and the application that runs is the guardian's of
\* that position.
Tapped ==
  /\ request.kind = "LaunchApplication" =>
       rows # <<>> /\ request.index \in Nat /\ request.index < Len(rows)
  /\ phase = "Application" =>
       request.kind = "LaunchApplication" /\ launched = applications[request.index + 1]

SInv == LInv /\ Read /\ Agreed /\ Tapped

LEMMA SessionInitInv == SessionInit => SInv
<1> SUFFICES ASSUME SessionInit PROVE SInv
  OBVIOUS
<1>1. LInv
  BY LauncherInit DEF SessionInit
<1>2. Read /\ Agreed /\ Tapped
  BY DEF SessionInit, Init, Read, Agreed, Tapped, NoCommand, Command, None
<1> QED BY <1>1, <1>2 DEF SInv

LEMMA ReadsStep ==
  ASSUME SInv, NEW mode, NEW given \in SUBSET Paths, NEW paths \in SetToSeqs(given),
         GuardianReads(mode, paths)
  PROVE  SInv'
<1>0. UNCHANGED <<vars, files, rows, launched, replaced>> /\ phase = "Start"
  BY DEF GuardianReads
<1>1. LInv'
  BY <1>0, LauncherNext DEF SInv
<1>2. rows = <<>> /\ request.kind # "LaunchApplication" /\ UNCHANGED request
  BY <1>0 DEF SInv, Agreed, Tapped, vars, port
<1>3. CASE phase' = "Ended" /\ UNCHANGED registry
  BY <1>0, <1>1, <1>2, <1>3 DEF SInv, Read, Agreed, Tapped
<1>4. CASE /\ paths # <<>> /\ Registers(paths)
           /\ applications' = Registered(paths) /\ manifestPaths' = PathsById(paths)
           /\ phase' = "Shell"
  <2>1. paths \in Seq(Paths)
    <3>1. IsFiniteSet(given) /\ Cardinality(given) \in Nat
      BY CatalogAssumption, FS_Subset, FS_CardinalityType
    <3>2. paths \in [1 .. Cardinality(given) -> Paths]
      BY DEF SetToSeqs
    <3> QED BY <3>1, <3>2, SeqDef
  <2>2. files \in [Paths -> Contents]
    BY DEF SInv, Read
  <2>3. /\ applications' = Listing(Manifests(paths)) /\ applications' \in Seq(Contents)
        /\ Len(applications') = Len(paths)
    BY <1>4, <2>1, <2>2, IteratedLen DEF Registered
  <2>4. /\ manifestPaths' \in Seq(Paths) /\ Len(manifestPaths') = Len(paths)
        /\ ToSet(manifestPaths') = ToSet(paths)
    BY <1>4, <2>1, <2>2, PathsByIdSame
  <2>5. Manifests(manifestPaths)' = Manifests(paths)
    BY <1>0, <2>4 DEF Manifests
  <2>6. Read'
    BY <1>0, <1>4, <2>3, <2>4, <2>5 DEF SInv, Read
  <2>7. Agreed' /\ Tapped'
    BY <1>0, <1>2, <1>4 DEF Agreed, Tapped
  <2> QED BY <1>1, <2>6, <2>7 DEF SInv
<1> QED BY <1>3, <1>4 DEF GuardianReads

LEMMA ShellReadsStep ==
  ASSUME SInv, ShellReads
  PROVE  SInv'
<1>0. /\ UNCHANGED <<vars, files, registry, launched, replaced>>
      /\ phase = "Shell" /\ rows = <<>>
  BY DEF ShellReads
<1>1. LInv'
  BY <1>0, LauncherNext DEF SInv
<1>2. request.kind # "LaunchApplication" /\ UNCHANGED request
  BY <1>0 DEF SInv, Tapped, vars, port
<1>3. Manifests(manifestPaths)' = Manifests(manifestPaths)
  BY <1>0 DEF Manifests, registry
<1>4. CASE phase' = "Ended" /\ UNCHANGED rows
  BY <1>0, <1>1, <1>2, <1>4 DEF SInv, Read, Agreed, Tapped
<1>5. CASE /\ Registers(manifestPaths) /\ rows' = Iterated(manifestPaths) /\ UNCHANGED phase
  <2>1. /\ manifestPaths \in Seq(Paths) /\ applications \in Seq(Contents)
        /\ Len(applications) = Len(manifestPaths) /\ files \in [Paths -> Contents]
        /\ replaced = 0 => applications = Listing(Manifests(manifestPaths))
    BY <1>0 DEF SInv, Read
  <2>2. /\ rows' = Listing(Manifests(manifestPaths)) /\ rows' \in Seq(Contents)
        /\ Len(rows') = Len(manifestPaths)
    BY <1>5, <2>1, IteratedLen
  <2>3. Read' /\ Agreed' /\ Tapped'
    BY <1>0, <1>2, <1>3, <1>5, <2>1, <2>2 DEF SInv, Read, Agreed, Tapped, registry
  <2> QED BY <1>1, <2>3 DEF SInv
<1> QED BY <1>4, <1>5 DEF ShellReads

\* A tap puts a command on the port only when the port was free and the notice says so.
LEMMA AcceptedCommand ==
  ASSUME LInv, Tap, request' # request
  PROVE  notice' # notice /\ notice'.command = request'
<1>1. \E c : Submit(c)
  BY DEF Tap, Open, LaunchApplication, RequestStock, RequestPower, ConfirmPowerAction,
     CancelPowerAction, DismissAlert, NoSubmit
<1>2. PICK c : Submit(c)
  BY <1>1
<1>3. request = NoCommand /\ request' = c
      /\ notice' = [outcome |-> "Accepted", command |-> c]
  BY <1>2 DEF Submit, Accepts
<1>4. notice.outcome # "Accepted"
  BY <1>3 DEF LInv, Truthful
<1> QED BY <1>3, <1>4

LEMMA ShellTurnsStep ==
  ASSUME SInv, ShellTurns
  PROVE  SInv'
<1>1. UNCHANGED catalogs /\ phase = "Shell" /\ rows # <<>>
  BY DEF ShellTurns, ShellTurn
<1>2. LInv'
  BY LauncherNext DEF SInv, ShellTurns, ShellTurn, Next
<1>3. ASSUME request'.kind = "LaunchApplication"
      PROVE  request'.index \in Nat /\ request'.index < Len(rows)
  <2>1. request'.index \in Nat
    BY <1>2, <1>3, LauncherAssumption
       DEF LInv, TypeOK, ShellCommand, NoCommand, Command, Launch, None, PowerAction
  <2>2. CASE request' = request
    BY <2>1, <2>2, <1>3 DEF SInv, Tapped
  <2>3. CASE request' # request
    <3>1. Tap /\ OnRow
      BY <2>3 DEF ShellTurns, ShellTurn, ToggleDrawer, PresentAlert, InputEnds, CheckExit,
         Draw, port
    <3>2. notice' # notice /\ notice'.command = request'
      BY <2>3, <3>1, AcceptedCommand DEF SInv
    <3> QED BY <1>3, <2>1, <3>1, <3>2 DEF OnRow
  <2> QED BY <2>2, <2>3
<1>4. Manifests(manifestPaths)' = Manifests(manifestPaths)
  BY <1>1 DEF Manifests, catalogs, registry
<1>5. Read' /\ Agreed' /\ Tapped'
  BY <1>1, <1>3, <1>4 DEF SInv, Read, Agreed, Tapped, catalogs, registry
<1> QED BY <1>2, <1>5 DEF SInv

LEMMA DispatchStep ==
  ASSUME SInv, Dispatch
  PROVE  SInv'
<1>0. UNCHANGED <<vars, files, registry, rows, replaced>> /\ phase = "Shell"
  BY DEF Dispatch
<1>1. LInv' /\ UNCHANGED request
  BY <1>0, LauncherNext DEF SInv, vars, port
<1>2. Manifests(manifestPaths)' = Manifests(manifestPaths)
  BY <1>0 DEF Manifests, registry
<1>3. Read' /\ Agreed' /\ Tapped'
  BY <1>0, <1>1, <1>2 DEF SInv, Read, Agreed, Tapped, registry, Dispatch
<1> QED BY <1>1, <1>3 DEF SInv

\* The next shell starts like the first.
LEMMA ApplicationEndsStep ==
  ASSUME SInv, ApplicationEnds
  PROVE  SInv'
<1>1. TypeOK'
  BY DEF SInv, LInv, TypeOK, ApplicationEnds, Notice, Ready, ShellView, PowerAction,
     NoCommand, None
<1>2. Exclusive' /\ Asked' /\ Truthful'
  BY FS_EmptySet DEF ApplicationEnds, Exclusive, Asked, Truthful, Ready
<1>3. Manifests(manifestPaths)' = Manifests(manifestPaths)
  BY DEF Manifests, ApplicationEnds, registry
<1>4. Read' /\ Agreed' /\ Tapped'
  BY <1>3 DEF SInv, Read, Agreed, Tapped, ApplicationEnds, registry, NoCommand, Command, None
<1> QED BY <1>1, <1>2, <1>4 DEF SInv, LInv

LEMMA ReplaceStep ==
  ASSUME SInv, NEW p \in Paths, NEW m \in Contents, Replace(p, m)
  PROVE  SInv'
<1>0. UNCHANGED <<vars, phase, registry, rows, launched>> /\ replaced' = replaced + 1
  BY DEF Replace
<1>1. LInv' /\ UNCHANGED request
  BY <1>0, LauncherNext DEF SInv, vars, port
<1>2. files' \in [Paths -> Contents] /\ replaced' \in Nat /\ replaced' # 0
  BY <1>0 DEF SInv, Read, Replace
<1>3. Read' /\ Agreed' /\ Tapped'
  BY <1>0, <1>1, <1>2 DEF SInv, Read, Agreed, Tapped, registry
<1> QED BY <1>1, <1>3 DEF SInv

\* Every step of the session keeps the invariant.
LEMMA SessionNextInv ==
  ASSUME SInv, [SessionNext]_<<vars, catalogs>>
  PROVE  SInv'
<1>1. CASE UNCHANGED <<vars, catalogs>>
  <2>1. LInv' /\ UNCHANGED <<request, catalogs>>
    BY <1>1, LauncherNext DEF SInv, vars, port
  <2>2. Manifests(manifestPaths)' = Manifests(manifestPaths)
    BY <2>1 DEF Manifests, catalogs, registry
  <2> QED BY <2>1, <2>2 DEF SInv, Read, Agreed, Tapped, catalogs, registry
<1>2. CASE SessionNext
  BY <1>2, ReadsStep, ShellReadsStep, ShellTurnsStep, DispatchStep, ApplicationEndsStep,
     ReplaceStep DEF SessionNext
<1> QED BY <1>1, <1>2

(***************************************************************************)
(* The theorems.                                                           *)
(***************************************************************************)
\* In every reachable state of a session the policy's parts fit together, and so do
\* the two lists and what was tapped.
THEOREM Inductive == SessionSpec => []SInv
<1>1. SInv /\ [SessionNext]_<<vars, catalogs>> => SInv'
  BY SessionNextInv
<1> QED BY SessionInitInv, <1>1, PTL DEF SessionSpec

\* Every variable of the policy keeps its type.
THEOREM TypeCorrect == SessionSpec => []TypeOK
<1>1. SInv => TypeOK
  BY DEF SInv, LInv
<1> QED BY Inductive, <1>1, PTL

\* ShellController and sync_shell_ui never let two modal surfaces compete, in the view
\* or on a frame.
THEOREM ModalsExclude == SessionSpec => []OneModal
<1>1. SInv => OneModal
  BY OneSurface DEF SInv, LInv, Exclusive, OneModal
<1> QED BY Inductive, <1>1, PTL

\* No frame says that a command was refused while one is on its way (submit, the check
\* of exit_requested before every frame).
THEOREM NoticesAreTrue == SessionSpec => []ShownNoticeTruthful
<1>1. SInv => ShownNoticeTruthful
  BY DEF SInv, LInv, Truthful, ShownNoticeTruthful
<1> QED BY Inductive, <1>1, PTL

\* The guardian is asked to reboot or power off only for the action that was asked for
\* last and confirmed.
THEOREM PowerIsConfirmed == SessionSpec => PowerOnlyConfirmed
<1>1. ASSUME LInv, Tap, request' # request, request'.kind \in PowerAction
      PROVE  asked = request'.kind
  <2>1. CASE ConfirmPowerAction
    <3>1. power # None /\ Submit(Command(power))
      BY <1>1, <2>1 DEF ConfirmPowerAction, NoSubmit
    <3>2. request'.kind = power
      BY <1>1, <3>1 DEF Submit, Command
    <3> QED BY <1>1, <3>1, <3>2 DEF LInv, Asked
  <2>2. CASE RequestStock \/ \E i \in Applications : LaunchApplication(i)
    BY <1>1, <2>2 DEF RequestStock, LaunchApplication, Submit, NoSubmit, Launch, Command,
       PowerAction
  <2>3. CASE \/ \E v \in ShellView : Open(v)
             \/ \E a \in PowerAction : RequestPower(a)
             \/ CancelPowerAction \/ DismissAlert
    BY <1>1, <2>3 DEF Open, RequestPower, CancelPowerAction, DismissAlert, NoSubmit
  <2> QED BY <1>1, <2>1, <2>2, <2>3 DEF Tap
<1>2. ASSUME SInv, SessionNext, request' # request, request'.kind \in PowerAction
      PROVE  asked = request'.kind
  <2>1. request' # NoCommand
    BY <1>2 DEF NoCommand, Command, None, PowerAction
  <2>2. Tap
    BY <1>2, <2>1 DEF SessionNext, GuardianReads, ShellReads, ShellTurns, ShellTurn,
       ToggleDrawer, PresentAlert, InputEnds, CheckExit, Draw, Dispatch, ApplicationEnds,
       Replace, vars, port
  <2> QED BY <1>1, <1>2, <2>2 DEF SInv
<1>3. SInv /\ [SessionNext]_<<vars, catalogs>>
        => [request' # request /\ request'.kind \in PowerAction => asked = request'.kind]_vars
  BY <1>2 DEF vars, port
<1>4. SessionSpec
        => [][request' # request /\ request'.kind \in PowerAction
                => asked = request'.kind]_vars
  BY <1>3, Inductive, PTL DEF SessionSpec
<1> QED BY <1>4 DEF PowerOnlyConfirmed

\* The application that starts is the one whose row was tapped, while the manifests are
\* those that the guardian read: ApplicationCatalog::iter gives both sides one list.
THEOREM LaunchesTheTapped == SessionSpec => []TappedIsLaunched
<1>1. SInv => TappedIsLaunched
  BY DEF SInv, Agreed, Tapped, TappedIsLaunched
<1> QED BY Inductive, <1>1, PTL

\* Whatever the files hold by then, the position that a shell writes is one of the
\* guardian's applications.
THEOREM TapsAreRegistered == SessionSpec => []TappedIsRegistered
<1>1. SInv => TappedIsRegistered
  BY LenProperties DEF SInv, Agreed, Tapped, TappedIsRegistered
<1> QED BY Inductive, <1>1, PTL
=============================================================================
