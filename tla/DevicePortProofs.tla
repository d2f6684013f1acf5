-------------------------- MODULE DevicePortProofs --------------------------
(***************************************************************************)
(* The safety of the device preferences and of Wi-Fi, for any preferences  *)
(* and values, any light range, any set of process identifiers and any     *)
(* number of shells.                                                       *)
(***************************************************************************)
EXTENDS DevicePort, TLAPS

(***************************************************************************)
(* The inductive invariant.                                                *)
(***************************************************************************)
\* The tables have an entry for every preference.
Tables ==
  /\ file = [p \in Preference |-> file[p]] /\ durable = [p \in Preference |-> durable[p]]
  /\ memory = [p \in Preference |-> memory[p]] /\ chosen = [p \in Preference |-> chosen[p]]

Storing == {"Sync", "Rename", "SyncDirectory"}

\* The value under way is one of its property or preference, and from the creation
\* of the temporary on it counts as chosen.
UnderWay ==
  /\ pc = "SetAuto" => wanted \in BOOLEAN
  /\ pc \in Storing \cup {"Create"} =>
       preference \in Preference /\ wanted \in Values(preference)
  /\ pc \in Storing => wanted \in chosen[preference]
  /\ pc = "SyncDirectory" => file[preference] = wanted

\* No file is replaced by one whose data is not on the disk.
Whole == whole = Preference /\ (pc = "Rename" => synced)

\* Only what was chosen is on the disk, and nothing torn is ever chosen.
Survives ==
  \A p \in Preference :
    {file[p], durable[p]} \subseteq chosen[p] /\ chosen[p] \subseteq Values(p) \cup {Missing}

\* The toggle knows what it has already set: nothing else sets the pair.
Paired ==
  /\ wifid => wireless
  /\ pc = "StopWireless" => ~wifid
  /\ pc = "StartService" => wireless

IInv == TypeOK /\ Tables /\ UnderWay /\ Whole /\ Survives /\ Paired /\ ConfirmedIsObeyed

(***************************************************************************)
(* The initial states, and the steps.                                      *)
(***************************************************************************)
LEMMA InitInv == Init => IInv
<1> SUFFICES ASSUME Init PROVE IInv
  OBVIOUS
<1>1. TypeOK
  <2>0. /\ flAuto \in BOOLEAN /\ wifid \in BOOLEAN /\ wireless \in BOOLEAN
        /\ synced \in BOOLEAN /\ shown \in BOOLEAN
    BY DEF Init
  <2>1. /\ frontlight \in Light /\ whole \subseteq Preference /\ temporaries \subseteq Preference \X Pids
        /\ pid \in Pids /\ usable \subseteq Preference /\ preference = Nothing
        /\ pc = "Down" /\ lives \in 0 .. MaxLives
    BY DevicePortAssumption DEF Init
  <2>2. \A p \in Preference :
          /\ file[p] \in Content(p) /\ durable[p] \in Content(p)
          /\ memory[p] \in Values(p) /\ chosen[p] \subseteq Content(p)
    BY DevicePortAssumption DEF Init, Content
  <2> QED BY <2>0, <2>1, <2>2 DEF TypeOK
<1>2. Tables /\ Survives
  BY DEF Init, Tables, Survives
<1>3. UnderWay /\ Whole /\ Paired
  BY DEF Init, UnderWay, Whole, Paired, Storing
<1>4. ConfirmedIsObeyed
  BY DEF Init, ConfirmedIsObeyed
<1> QED BY <1>1, <1>2, <1>3, <1>4 DEF IInv

\* What the shell obeys may come from a choice that has since been added to, and
\* what it no longer obeys does not matter.
LEMMA ObeyedStays ==
  ASSUME ConfirmedIsObeyed, usable' \subseteq usable,
         \A p \in usable' : memory'[p] = memory[p] /\ chosen[p] \subseteq chosen'[p]
  PROVE  ConfirmedIsObeyed'
BY DEF ConfirmedIsObeyed, Read

\* A step that leaves the disk and the choices alone, and Wi-Fi.
LEMMA Elsewhere ==
  ASSUME IInv, TypeOK', UNCHANGED <<file, durable, whole, chosen, wifid, wireless>>,
         memory' = [p \in Preference |-> memory'[p]], ConfirmedIsObeyed',
         pc' = "SetAuto" => wanted' \in BOOLEAN,
         pc' \notin Storing \cup {"Create", "StopWireless", "StartService"}
  PROVE  IInv'
<1>1. Tables' /\ Survives' /\ Paired'
  BY DEF IInv, Tables, Survives, Paired
<1>2. UnderWay' /\ Whole'
  BY DEF IInv, UnderWay, Whole, Storing
<1> QED BY <1>1, <1>2 DEF IInv

LEMMA OpenStep ==
  ASSUME IInv, Open
  PROVE  IInv'
<1>1. \A p \in Preference : memory'[p] \in Values(p)
  BY DevicePortAssumption DEF Open, ReadSetting, Read
<1>0. lives' \in 0 .. MaxLives
  BY DevicePortAssumption DEF Open, IInv, TypeOK
<1>2. TypeOK'
  BY <1>0, <1>1 DEF IInv, TypeOK, Open, device, disk, Content
<1>3. memory' = [p \in Preference |-> memory'[p]]
  BY DEF Open
<1>4. ConfirmedIsObeyed'
  <2> SUFFICES ASSUME NEW p \in usable'
               PROVE  \E choice \in chosen'[p] : memory'[p] = Read(p, choice)
    BY DEF ConfirmedIsObeyed, Read
  <2>1. p \in Preference /\ memory'[p] = Read(p, file[p]) /\ chosen' = chosen
    BY DEF Open, ReadSetting
  <2>2. file[p] \in chosen[p]
    BY <2>1 DEF IInv, Survives
  <2> QED BY <2>1, <2>2
<1> QED BY <1>2, <1>3, <1>4, Elsewhere DEF Open, device, disk, Storing

\* A level that is clamped is one of the light's.
LEMMA ClampedLevel ==
  ASSUME NEW level \in Int
  PROVE  Clamped(level) \in Light
BY DevicePortAssumption DEF Clamped, Light

LEMMA LightsStep ==
  ASSUME IInv, Lights
  PROVE  IInv'
<1> USE DEF device, disk, shell
<1>0. UNCHANGED <<disk, wifid, wireless, memory, pid, usable, lives, preference, chosen>>
  BY DEF Lights, ReadLight, SetLight, WriteLight, ReadAuto, WriteAuto, AmbientLight
<1>1. memory' = [p \in Preference |-> memory'[p]] /\ ConfirmedIsObeyed'
  BY <1>0, ObeyedStays DEF IInv, Tables
<1>2. ASSUME frontlight' \in Light, flAuto' \in BOOLEAN, shown' \in BOOLEAN,
             pc' \in {"Idle", "SetLight", "SetAuto"}, pc' = "SetLight" => wanted' \in Light,
             pc' = "SetAuto" => wanted' \in BOOLEAN
      PROVE  IInv'
  <2>1. TypeOK'
    BY <1>0, <1>2 DEF IInv, TypeOK, Content
  <2> QED BY <1>0, <1>1, <1>2, <2>1, Elsewhere DEF Storing
<1>3. frontlight \in Light /\ flAuto \in BOOLEAN /\ shown \in BOOLEAN
  BY DEF IInv, TypeOK
<1>4. ASSUME NEW s \in {-1, 1}, ReadLight(s)
      PROVE  IInv'
  <2>1. frontlight + s \in Int
    BY <1>3 DEF Light
  <2>2. Clamped(frontlight + s) \in Light
    BY <2>1, ClampedLevel
  <2> QED BY <1>2, <1>3, <1>4, <2>2 DEF ReadLight, Fails, Succeeds
<1>5. ASSUME NEW v \in Light, SetLight(v)
      PROVE  IInv'
  BY <1>2, <1>3, <1>5 DEF SetLight
<1>6. CASE WriteLight
  <2>1. wanted \in Light
    BY <1>6 DEF WriteLight, IInv, TypeOK
  <2> QED BY <1>2, <1>3, <1>6, <2>1 DEF WriteLight, Set, Fails, Succeeds
<1>7. CASE ReadAuto
  <2>1. (~flAuto) \in BOOLEAN
    OBVIOUS
  <2> QED BY <1>2, <1>3, <1>7, <2>1 DEF ReadAuto, Fails
<1>8. CASE WriteAuto
  <2>1. wanted \in BOOLEAN
    BY <1>8 DEF WriteAuto, IInv, UnderWay
  <2>2. flAuto' \in BOOLEAN
    BY <1>3, <1>8, <2>1 DEF WriteAuto, Set
  <2> QED BY <1>2, <1>3, <1>8, <2>2 DEF WriteAuto, Set, Fails, Succeeds
<1>9. CASE AmbientLight
  <2>1. TypeOK'
    BY <1>9 DEF AmbientLight, IInv, TypeOK, Content
  <2>2. Tables' /\ UnderWay' /\ Whole' /\ Survives' /\ Paired'
    BY <1>0, <1>9 DEF AmbientLight, IInv, Tables, UnderWay, Whole, Survives, Paired
  <2> QED BY <1>1, <2>1, <2>2 DEF IInv
<1> QED BY <1>4, <1>5, <1>6, <1>7, <1>8, <1>9 DEF Lights

LEMMA WifiStep ==
  ASSUME IInv, Wifi
  PROVE  IInv'
<1>0. /\ UNCHANGED <<frontlight, flAuto, disk, pid, usable, memory, lives, preference>>
      /\ UNCHANGED chosen
      /\ pc' \in {"Idle", "StopService", "StopWireless", "StartWireless", "StartService"}
  BY DEF Wifi, ReadWifi, StopService, StopWireless, StartWireless, StartService, Set, Fails,
     Succeeds, device
<1>1. wifid' \in BOOLEAN /\ wireless' \in BOOLEAN /\ shown' \in BOOLEAN
  <2>0. wifid \in BOOLEAN /\ wireless \in BOOLEAN /\ shown \in BOOLEAN
    BY DEF IInv, TypeOK
  <2>1. CASE ReadWifi
    BY <2>0, <2>1 DEF ReadWifi, Fails, device
  <2>2. CASE StopService
    BY <2>0, <2>2 DEF StopService, Set, Fails
  <2>3. CASE StopWireless
    BY <2>0, <2>3 DEF StopWireless, Set, Fails, Succeeds
  <2>4. CASE StartWireless
    BY <2>0, <2>4 DEF StartWireless, Set, Fails
  <2>5. CASE StartService
    BY <2>0, <2>5 DEF StartService, Set, Fails, Succeeds
  <2> QED BY <2>1, <2>2, <2>3, <2>4, <2>5 DEF Wifi
<1>2. TypeOK'
  BY <1>0, <1>1 DEF IInv, TypeOK, Content, disk
<1>5. ConfirmedIsObeyed'
  BY <1>0, ObeyedStays DEF IInv
<1>3. Tables' /\ UnderWay' /\ Whole' /\ Survives'
  BY <1>0 DEF IInv, Tables, UnderWay, Whole, Survives, Storing, disk
<1>4. Paired'
  <2>0. Paired
    BY DEF IInv
  <2>1. CASE ReadWifi
    BY <2>0, <2>1 DEF ReadWifi, Fails, Paired, device
  <2>2. CASE StopService
    <3>1. UNCHANGED wireless /\ pc' \in {"StopWireless", "Idle"}
      BY <2>2 DEF StopService, Set, Fails
    <3>2. CASE wifid' = FALSE
      BY <2>0, <3>1, <3>2 DEF Paired
    <3>3. CASE wifid' = wifid /\ pc' = "Idle"
      BY <2>0, <3>1, <3>3 DEF Paired
    <3> QED BY <2>2, <3>2, <3>3 DEF StopService, Set, Fails
  <2>3. CASE StopWireless
    <3>1. UNCHANGED wifid /\ ~wifid /\ pc' = "Idle"
      BY <2>0, <2>3 DEF StopWireless, Set, Fails, Succeeds, Paired
    <3> QED BY <2>0, <3>1 DEF Paired
  <2>4. CASE StartWireless
    BY <2>0, <2>4 DEF StartWireless, Set, Fails, Paired
  <2>5. CASE StartService
    BY <2>0, <2>5 DEF StartService, Set, Fails, Succeeds, Paired
  <2> QED BY <2>1, <2>2, <2>3, <2>4, <2>5 DEF Wifi
<1> QED BY <1>2, <1>3, <1>4, <1>5 DEF IInv

\* The steps that change neither the disk nor what is chosen.
LEMMA SettingStep ==
  ASSUME IInv, \/ \E p \in Preference : LoseFeature(p) \/ \E v \in Values(p) : Choose(p, v)
               \/ Refuse \/ Snapshot \/ Killed
  PROVE  IInv'
<1>1. ASSUME NEW p \in Preference, LoseFeature(p)
      PROVE  IInv'
  <2>1. /\ memory' = [q \in Preference |-> IF q = p THEN Default(p) ELSE memory[q]]
        /\ \A q \in Preference : memory'[q] \in Values(q)
    BY <1>1, DevicePortAssumption DEF LoseFeature, IInv, TypeOK, Tables
  <2>2. TypeOK'
    BY <1>1, <2>1 DEF LoseFeature, IInv, TypeOK, Content, device, disk
  <2>3. memory' = [q \in Preference |-> memory'[q]]
    BY <2>1
  <2>4. ConfirmedIsObeyed'
    BY <1>1, <2>1, ObeyedStays DEF LoseFeature, IInv, TypeOK
  <2> QED BY <1>1, <2>2, <2>3, <2>4, Elsewhere DEF LoseFeature, device, disk, Storing
<1>2. ASSUME NEW p \in Preference, NEW v \in Values(p), Choose(p, v)
      PROVE  IInv'
  <2>1. TypeOK'
    BY <1>2 DEF Choose, IInv, TypeOK, Content, device, disk, shell
  <2>2. Tables' /\ UnderWay' /\ Whole' /\ Survives' /\ Paired'
    BY <1>2 DEF Choose, IInv, Tables, UnderWay, Whole, Survives, Paired, Storing, device,
       disk, shell
  <2>3. ConfirmedIsObeyed'
    BY <1>2, ObeyedStays DEF Choose, IInv, shell
  <2> QED BY <2>1, <2>2, <2>3 DEF IInv
<1>3. CASE Refuse \/ Snapshot \/ Killed
  <2>1. TypeOK' /\ pc' \in {"Idle", "Down"}
    BY <1>3 DEF Refuse, Snapshot, Killed, IInv, TypeOK, Content, device, disk
  <2>2. memory' = [q \in Preference |-> memory'[q]] /\ ConfirmedIsObeyed'
    BY <1>3, ObeyedStays DEF Refuse, Snapshot, Killed, IInv, Tables
  <2> QED BY <1>3, <2>1, <2>2, Elsewhere DEF Refuse, Snapshot, Killed, device, disk, Storing
<1> QED BY <1>1, <1>2, <1>3

\* A value counts as chosen from the moment its temporary exists.
LEMMA CreateStep ==
  ASSUME IInv, CreateTemporary
  PROVE  IInv'
<1>0. /\ preference \in Preference /\ wanted \in Values(preference) /\ pc = "Create"
      /\ UNCHANGED <<device, file, durable, whole, pid, usable, memory, lives>>
  BY DEF CreateTemporary, IInv, UnderWay
<1>1. CASE /\ Temporary \notin temporaries
           /\ temporaries' = temporaries \cup {Temporary} /\ synced' = FALSE
           /\ pc' = "Sync"
           /\ chosen' = [chosen EXCEPT ![preference] = @ \cup {wanted}]
           /\ UNCHANGED <<shown, preference, wanted>>
  <2>1. /\ chosen' = [p \in Preference |-> chosen'[p]]
        /\ \A p \in Preference :
             chosen'[p] = IF p = preference THEN chosen[p] \cup {wanted} ELSE chosen[p]
    BY <1>0, <1>1 DEF IInv, Tables
  <2>2. temporaries' \subseteq Preference \X Pids
    BY <1>0, <1>1 DEF IInv, TypeOK, Temporary
  <2>3. TypeOK'
    <3>1. \A p \in Preference : chosen'[p] \subseteq Content(p)
      BY <1>0, <2>1 DEF IInv, TypeOK, Content
    <3>2. UNCHANGED <<frontlight, flAuto, wifid, wireless>>
      BY <1>0 DEF device
    <3> QED BY <1>0, <1>1, <2>2, <3>1, <3>2 DEF IInv, TypeOK, Content
  <2>4. Tables' /\ UnderWay' /\ Whole' /\ Survives' /\ Paired'
    BY <1>0, <1>1, <2>1 DEF IInv, Tables, UnderWay, Whole, Survives, Paired, Storing, device
  <2>5. ConfirmedIsObeyed'
    <3>1. \A p \in usable' : memory'[p] = memory[p] /\ chosen[p] \subseteq chosen'[p]
      BY <1>0, <2>1 DEF IInv, TypeOK
    <3> QED BY <1>0, <3>1, ObeyedStays DEF IInv
  <2> QED BY <2>3, <2>4, <2>5 DEF IInv
<1>2. CASE /\ Fails /\ preference' = Nothing /\ wanted' = Nothing
           /\ UNCHANGED <<temporaries, synced, chosen>>
  <2>1. TypeOK'
    BY <1>0, <1>2 DEF IInv, TypeOK, Content, Fails, device
  <2>2. memory' = [q \in Preference |-> memory'[q]] /\ ConfirmedIsObeyed'
    BY <1>0, <1>2, ObeyedStays DEF IInv, Tables
  <2> QED BY <1>0, <1>2, <2>1, <2>2, Elsewhere DEF Fails, Storing, device
<1> QED BY <1>1, <1>2 DEF CreateTemporary

\* A write that fails before the rename leaves the files as they are.
LEMMA DropStep ==
  ASSUME IInv, DropPending, synced' \in BOOLEAN,
         UNCHANGED <<device, file, durable, whole, pid, usable, memory, lives, chosen>>
  PROVE  IInv'
<1>1. TypeOK'
  BY DEF DropPending, Fails, IInv, TypeOK, Content, device
<1>2. memory' = [q \in Preference |-> memory'[q]] /\ ConfirmedIsObeyed'
  BY ObeyedStays DEF IInv, Tables
<1> QED BY <1>1, <1>2, Elsewhere DEF DropPending, Fails, Storing, device

LEMMA SyncStep ==
  ASSUME IInv, SyncTemporary
  PROVE  IInv'
<1>1. CASE /\ pc' = "Rename" /\ synced' = TRUE
           /\ UNCHANGED <<temporaries, shown, preference, wanted>>
  <2>0. pc = "Sync"
           /\ UNCHANGED <<device, file, durable, whole, pid, usable, memory, lives, chosen>>
    BY DEF SyncTemporary
  <2>1. TypeOK'
    BY <1>1, <2>0 DEF IInv, TypeOK, Content, device
  <2>2. Tables' /\ UnderWay' /\ Whole' /\ Survives' /\ Paired'
    BY <1>1, <2>0 DEF IInv, Tables, UnderWay, Whole, Survives, Paired, Storing, device
  <2>3. ConfirmedIsObeyed'
    BY <2>0, ObeyedStays DEF IInv
  <2> QED BY <2>1, <2>2, <2>3 DEF IInv
<1>2. CASE DropPending /\ UNCHANGED synced
  BY <1>2, DropStep DEF SyncTemporary, IInv, TypeOK
<1> QED BY <1>1, <1>2 DEF SyncTemporary

LEMMA RenameStep ==
  ASSUME IInv, Rename
  PROVE  IInv'
<1>0. /\ preference \in Preference /\ wanted \in Values(preference)
      /\ wanted \in chosen[preference] /\ synced /\ pc = "Rename"
      /\ UNCHANGED <<device, durable, synced, pid, usable, memory, lives, chosen>>
  BY DEF Rename, IInv, UnderWay, Whole, Storing
<1>1. CASE /\ pc' = "SyncDirectory"
           /\ file' = [file EXCEPT ![preference] = wanted]
           /\ whole' = IF synced THEN whole \cup {preference} ELSE whole \ {preference}
           /\ temporaries' = temporaries \ {Temporary}
           /\ UNCHANGED <<shown, preference, wanted>>
  <2>1. /\ file' = [p \in Preference |-> file'[p]]
        /\ \A p \in Preference : file'[p] = IF p = preference THEN wanted ELSE file[p]
    BY <1>0, <1>1 DEF IInv, Tables
  <2>2. whole' = Preference
    BY <1>0, <1>1 DEF IInv, Whole
  <2>3. TypeOK'
    BY <1>0, <1>1, <2>1, <2>2 DEF IInv, TypeOK, Content, device
  <2>4. Tables' /\ UnderWay' /\ Whole' /\ Survives' /\ Paired'
    BY <1>0, <1>1, <2>1, <2>2
       DEF IInv, Tables, UnderWay, Whole, Survives, Paired, Storing, device
  <2>5. ConfirmedIsObeyed'
    BY <1>0, ObeyedStays DEF IInv
  <2> QED BY <2>3, <2>4, <2>5 DEF IInv
<1>2. CASE DropPending /\ UNCHANGED <<file, whole>>
  BY <1>0, <1>2, DropStep DEF IInv, TypeOK
<1> QED BY <1>1, <1>2 DEF Rename

\* The choice is confirmed: what was chosen before it no longer counts.
LEMMA SyncDirectoryStep ==
  ASSUME IInv, SyncDirectory
  PROVE  IInv'
<1>0. /\ preference \in Preference /\ wanted \in Values(preference)
      /\ wanted \in chosen[preference] /\ file[preference] = wanted
      /\ preference' = Nothing /\ wanted' = Nothing
      /\ UNCHANGED <<device, file, whole, temporaries, synced, pid, lives>>
  BY DEF SyncDirectory, IInv, UnderWay, Storing
<1> DEFINE written == [durable EXCEPT ![preference] = wanted]
<1>1. /\ written = [p \in Preference |-> written[p]]
      /\ \A p \in Preference : written[p] = IF p = preference THEN wanted ELSE durable[p]
  BY <1>0 DEF IInv, Tables
<1>2. CASE durable' = written /\ Stored
  <2>1. /\ chosen' = [p \in Preference |-> chosen'[p]]
        /\ \A p \in Preference :
             chosen'[p] = IF p = preference THEN {wanted} ELSE chosen[p]
        /\ memory' = [p \in Preference |-> memory'[p]]
        /\ \A p \in Preference :
             memory'[p] = IF p = preference THEN wanted ELSE memory[p]
    BY <1>0, <1>2 DEF Stored, IInv, Tables
  <2>2. pc' = "Idle" /\ shown' \in BOOLEAN /\ usable' = usable \cup {preference}
    BY <1>2 DEF Stored, Succeeds
  <2> HIDE DEF written
  <2>3. TypeOK'
    BY <1>0, <1>1, <1>2, <2>1, <2>2 DEF IInv, TypeOK, Content, device
  <2>4. Tables' /\ UnderWay' /\ Whole' /\ Survives' /\ Paired'
    BY <1>0, <1>1, <1>2, <2>1, <2>2
       DEF IInv, Tables, UnderWay, Whole, Survives, Paired, Storing, device
  <2>5. ConfirmedIsObeyed'
    <3> SUFFICES ASSUME NEW p \in usable'
                 PROVE  \E choice \in chosen'[p] : memory'[p] = Read(p, choice)
      BY DEF ConfirmedIsObeyed, Read
    <3>1. p \in Preference
      BY <1>0, <2>2 DEF IInv, TypeOK
    <3>2. CASE p = preference
      BY <1>0, <2>1, <3>1, <3>2 DEF Read
    <3>3. CASE p # preference
      BY <2>1, <2>2, <3>1, <3>3 DEF IInv, ConfirmedIsObeyed
    <3> QED BY <3>2, <3>3
  <2> QED BY <2>3, <2>4, <2>5 DEF IInv
<1>3. CASE durable' \in {durable, written} /\ Fails /\ UNCHANGED <<memory, usable, chosen>>
  <2> HIDE DEF written
  <2>1. /\ durable' = [p \in Preference |-> durable'[p]]
        /\ \A p \in Preference : durable'[p] \in {durable[p], file[p]}
    BY <1>0, <1>1, <1>3 DEF IInv, Tables
  <2>2. TypeOK'
    BY <1>0, <1>3, <2>1 DEF IInv, TypeOK, Content, Fails, device
  <2>3. Tables' /\ UnderWay' /\ Whole' /\ Survives' /\ Paired'
    BY <1>0, <1>3, <2>1
       DEF IInv, Tables, UnderWay, Whole, Survives, Paired, Storing, Fails, device
  <2>4. ConfirmedIsObeyed'
    BY <1>3, ObeyedStays DEF IInv
  <2> QED BY <2>2, <2>3, <2>4 DEF IInv
<1> QED BY <1>2, <1>3 DEF SyncDirectory

\* A power cut leaves, of each preference, one of two files that were chosen.
LEMMA PowerStep ==
  ASSUME IInv, PowerLoss
  PROVE  IInv'
<1>0. /\ whole' = Preference /\ synced' = TRUE /\ pc' = "Down" /\ shown' = FALSE
      /\ preference' = Nothing /\ wanted' = Nothing /\ temporaries' \subseteq temporaries
      /\ UNCHANGED <<device, pid, usable, memory, lives, chosen>>
  BY DEF PowerLoss
<1>1. PICK survivor \in [Preference -> AnyValue \cup {Missing, Torn}] :
        /\ \A p \in Preference :
             survivor[p] \in {durable[p], IF p \in whole THEN file[p] ELSE Torn}
        /\ file' = survivor /\ durable' = survivor
  BY DEF PowerLoss
<1>2. /\ file' = [p \in Preference |-> file'[p]] /\ durable' = file'
      /\ \A p \in Preference : file'[p] \in {durable[p], file[p]}
  BY <1>1 DEF IInv, Whole
<1>3. TypeOK'
  BY <1>0, <1>2 DEF IInv, TypeOK, Content, device
<1>4. Tables' /\ UnderWay' /\ Whole' /\ Survives' /\ Paired'
  BY <1>0, <1>2 DEF IInv, Tables, UnderWay, Whole, Survives, Paired, Storing, device
<1>5. ConfirmedIsObeyed'
  BY <1>0, ObeyedStays DEF IInv
<1> QED BY <1>3, <1>4, <1>5 DEF IInv

\* Every step of the shell, of the stock services and of the power.
LEMMA NextInv ==
  ASSUME IInv, [Next]_vars
  PROVE  IInv'
<1>1. CASE UNCHANGED vars
  <2>1. TypeOK'
    BY <1>1 DEF vars, device, disk, shell, IInv, TypeOK, Content
  <2>2. Tables' /\ UnderWay' /\ Whole' /\ Survives' /\ Paired'
    BY <1>1 DEF vars, device, disk, shell, IInv, Tables, UnderWay, Whole, Survives, Paired
  <2>3. ConfirmedIsObeyed'
    BY <1>1, ObeyedStays DEF vars, shell, IInv
  <2> QED BY <2>1, <2>2, <2>3 DEF IInv
<1>2. CASE Next
  BY <1>2, OpenStep, LightsStep, WifiStep, SettingStep, CreateStep, SyncStep, RenameStep,
     SyncDirectoryStep, PowerStep DEF Next, Settings
<1> QED BY <1>1, <1>2

(***************************************************************************)
(* The theorems.                                                           *)
(***************************************************************************)
\* In every reachable state the toggle, the replacement of a preference and the disk
\* are where the next step takes them to be.
THEOREM Inductive == Spec => []IInv
<1>1. IInv /\ [Next]_vars => IInv'
  BY NextInv
<1> QED BY InitInv, <1>1, PTL DEF Spec

\* Every variable keeps its type; a level that is set is one of the light's.
THEOREM TypeCorrect == Spec => []TypeOK
<1>1. IInv => TypeOK
  BY DEF IInv
<1> QED BY Inductive, <1>1, PTL

\* Whatever fails, is killed or loses power while write_atomic_preference runs, a
\* preference file holds the choice confirmed last or one attempted since, and so does
\* the memory of a shell in which that preference is in effect.
THEOREM ChoicesSurvive == Spec => []ChosenSurvives
<1>1. IInv => ChosenSurvives
  BY DEF IInv, Survives, ChosenSurvives, ChosenOnDisk
<1> QED BY Inductive, <1>1, PTL

\* No failure of toggle_wifi leaves the service on without the wireless command.
THEOREM WifiWhole == Spec => []WifiNeverHalfOn
<1>1. IInv => WifiNeverHalfOn
  BY DEF IInv, Paired, WifiNeverHalfOn
<1> QED BY Inductive, <1>1, PTL
=============================================================================
