----------------------------- MODULE DevicePort -----------------------------
(***************************************************************************)
(* KindleShellDevicePort: what the drawer and the settings page change.    *)
(* Lights and Wi-Fi are properties behind lipc, a command of their own     *)
(* each, killed after two seconds; three preferences are small files,      *)
(* replaced through a temporary named after the pid and obeyed from memory *)
(* once the replacement succeeded.                                         *)
(*                                                                         *)
(* A command may fail with or without its effect, the shell may be killed  *)
(* between any two calls, the power may be cut, and the stock services     *)
(* change the lights on their own.                                         *)
(***************************************************************************)
EXTENDS Integers, FiniteSets

CONSTANTS
  Preference,    \* the preference files
  Values(_),     \* what each of them may hold
  Default(_),    \* what open assumes without a readable file
  Sensed,        \* preferences read at open whatever is there, whose sensor may fail (rotation)
  Offered,       \* preferences that may be chosen while the stored choice is not obeyed
                 \* (background: its image is missing, another one is listed)
  LightMaximum,  \* LIGHT_MAXIMUM
  Pids,          \* process identifiers a shell may be given
  MaxLives       \* bound: shells started in one behaviour

Missing == "missing"
Torn    == "torn"
Nothing == "nothing"

ASSUME DevicePortAssumption ==
  /\ \A p \in Preference : Default(p) \in Values(p)
  /\ \A p \in Preference : Values(p) \cap {Missing, Torn, Nothing} = {}
  /\ Sensed \subseteq Preference /\ Offered \subseteq Preference
  /\ LightMaximum \in Nat \ {0} /\ MaxLives \in Nat

VARIABLES
  frontlight,  \* device: flIntensity (currentAmberLevel is handled alike)
  flAuto,      \* device: the ambient-light controller
  wifid,       \* device: com.lab126.wifid enable
  wireless,    \* device: com.lab126.cmd wirelessEnable
  file,        \* disk: each preference as every process sees it
  durable,     \* disk: each preference as a power cut would leave it
  whole,       \* disk: preferences whose data has been fsynced
  temporaries, \* disk: <<preference, pid>> of the temporaries that exist
  pid,         \* shell: its process identifier
  usable,      \* shell: preferences whose feature is there (gyro, corpus, images)
  memory,      \* shell: the choice it obeys
  pc,          \* shell: the next call of apply
  preference,  \* shell: the preference being written
  wanted,      \* shell: the value being written, of a preference or a property
  synced,      \* disk: the temporary under way has been fsynced
  shown,       \* Slint: TRUE when the last snapshot could be read
  lives,       \* bound
  chosen       \* history: last stored choice and the attempts made since

device == <<frontlight, flAuto, wifid, wireless>>
disk   == <<file, durable, whole, temporaries, synced>>
shell  == <<pid, usable, memory, shown, lives>>
vars   == <<device, disk, shell, pc, preference, wanted, chosen>>

AnyValue == UNION {Values(p) : p \in Preference}
Light    == 0 .. LightMaximum

\* Wi-Fi starts as the stock settings leave it: both on or both off.
Init ==
  /\ frontlight \in Light /\ flAuto \in BOOLEAN
  /\ wifid \in BOOLEAN /\ wireless = wifid
  /\ file = [p \in Preference |-> Missing] /\ durable = file
  /\ whole = Preference /\ temporaries = {} /\ synced = TRUE
  /\ pid \in Pids /\ usable = {} /\ memory = [p \in Preference |-> Default(p)]
  /\ pc = "Down" /\ preference = Nothing /\ wanted = Nothing
  /\ shown = FALSE /\ lives = 0
  /\ chosen = [p \in Preference |-> {Missing}]

(***************************************************************************)
(* open                                                                    *)
(***************************************************************************)
\* read_*_setting: a missing file is the default, and an unreadable one, or one
\* that cannot be parsed, is ignored.
Read(p, content) == IF content \in Values(p) THEN content ELSE Default(p)
ReadSetting(p)   == Read(p, file[p])

\* The corpus and the background images are looked up again; without one the
\* default is obeyed and the file left alone.  The rotation lock is read before
\* anyone knows of a gyro.  install_device_handlers takes the first snapshot.
Open ==
  /\ pc = "Down" /\ lives < MaxLives
  /\ lives' = lives + 1 /\ pid' \in Pids
  /\ usable' \in SUBSET Preference
  /\ memory' = [p \in Preference |->
                  IF p \in usable' \cup Sensed THEN ReadSetting(p) ELSE Default(p)]
  /\ pc' = "Idle" /\ shown' \in BOOLEAN
  /\ UNCHANGED <<device, disk, preference, wanted, chosen>>

(***************************************************************************)
(* Lights and Wi-Fi: get_property, set_property.                           *)
(***************************************************************************)
\* Both end an apply: `?` returns the error to the view, success reads a
\* snapshot, which may fail as well.
Fails    == pc' = "Idle" /\ shown' = FALSE
Succeeds == pc' = "Idle" /\ shown' \in BOOLEAN

\* One lipc-set-prop: the effect and success, or an error and perhaps the effect.
Set(property, value, success) ==
  \/ property' = value /\ success
  \/ property' \in {property, value} /\ Fails

Clamped(level) == IF level < 0 THEN 0
                  ELSE IF level > LightMaximum THEN LightMaximum ELSE level

\* adjust_light: read, and set only a level that differs.
ReadLight(step) ==
  /\ pc = "Idle" /\ shown
  /\ LET next == Clamped(frontlight + step)
     IN \/ next # frontlight /\ pc' = "SetLight" /\ wanted' = next /\ UNCHANGED shown
        \/ next = frontlight /\ Succeeds /\ UNCHANGED wanted
        \/ Fails /\ UNCHANGED wanted
  /\ UNCHANGED <<device, disk, pid, usable, memory, lives, preference, chosen>>

\* set_light: the slider's level, checked by the view and again here.
SetLight(level) ==
  /\ pc = "Idle" /\ shown
  /\ pc' = "SetLight" /\ wanted' = level
  /\ UNCHANGED <<device, disk, shell, preference, chosen>>

WriteLight ==
  /\ pc = "SetLight" /\ wanted' = Nothing
  /\ Set(frontlight, wanted, Succeeds)
  /\ UNCHANGED <<flAuto, wifid, wireless, disk, pid, usable, memory, lives, preference, chosen>>

\* toggle_auto_brightness: what was read is negated and set.
ReadAuto ==
  /\ pc = "Idle" /\ shown
  /\ \/ pc' = "SetAuto" /\ wanted' = ~flAuto /\ UNCHANGED shown
     \/ Fails /\ UNCHANGED wanted
  /\ UNCHANGED <<device, disk, pid, usable, memory, lives, preference, chosen>>

WriteAuto ==
  /\ pc = "SetAuto" /\ wanted' = Nothing
  /\ Set(flAuto, wanted, Succeeds)
  /\ UNCHANGED <<frontlight, wifid, wireless, disk, pid, usable, memory, lives, preference, chosen>>

\* toggle_wifi: the service is read; down goes the service first, up it goes last.
ReadWifi ==
  /\ pc = "Idle"
  /\ \/ pc' = (IF wifid THEN "StopService" ELSE "StartWireless") /\ UNCHANGED shown
     \/ Fails
  /\ UNCHANGED <<device, disk, pid, usable, memory, lives, preference, wanted, chosen>>

\* Mutant: a stop that failed is passed over.
StopServiceBestEffort ==
  /\ pc = "StopService" /\ wifid' \in {wifid, FALSE} /\ pc' = "StopWireless"
  /\ UNCHANGED <<frontlight, flAuto, wireless, disk, shell, preference, wanted, chosen>>

StopService ==
  /\ pc = "StopService"
  /\ Set(wifid, FALSE, pc' = "StopWireless" /\ UNCHANGED shown)
  /\ UNCHANGED <<frontlight, flAuto, wireless, disk, pid, usable, memory, lives,
                 preference, wanted, chosen>>

StopWireless ==
  /\ pc = "StopWireless"
  /\ Set(wireless, FALSE, Succeeds)
  /\ UNCHANGED <<frontlight, flAuto, wifid, disk, pid, usable, memory, lives,
                 preference, wanted, chosen>>

StartWireless ==
  /\ pc = "StartWireless"
  /\ Set(wireless, TRUE, pc' = "StartService" /\ UNCHANGED shown)
  /\ UNCHANGED <<frontlight, flAuto, wifid, disk, pid, usable, memory, lives,
                 preference, wanted, chosen>>

StartService ==
  /\ pc = "StartService"
  /\ Set(wifid, TRUE, Succeeds)
  /\ UNCHANGED <<frontlight, flAuto, wireless, disk, pid, usable, memory, lives,
                 preference, wanted, chosen>>

(***************************************************************************)
(* Preferences: write_atomic_preference, then the memory.                  *)
(***************************************************************************)
\* ToggleRotationLock negates, CycleLiteraryClockInterval takes the next, and
\* SelectLauncherBackground any choice that is listed and loads, also while the
\* stored one does not.
Choose(p, value) ==
  /\ pc = "Idle" /\ p \in usable \cup Offered
  /\ pc' = "Create" /\ preference' = p /\ wanted' = value
  /\ UNCHANGED <<device, disk, shell, chosen>>

\* The feature is gone, the index is not listed, or the image does not load.
Refuse ==
  /\ pc = "Idle" /\ shown' = FALSE
  /\ UNCHANGED <<device, disk, pid, usable, memory, lives, pc, preference, wanted, chosen>>

Temporary == <<preference, pid>>

\* PendingPreference removes the temporary, best effort.
DropPending ==
  /\ temporaries' \in {temporaries, temporaries \ {Temporary}}
  /\ Fails /\ preference' = Nothing /\ wanted' = Nothing

\* create_new: a temporary left by a killed shell of the same pid refuses.
CreateTemporary ==
  /\ pc = "Create"
  /\ \/ /\ Temporary \notin temporaries
        /\ temporaries' = temporaries \cup {Temporary} /\ synced' = FALSE
        /\ pc' = "Sync"
        /\ chosen' = [chosen EXCEPT ![preference] = @ \cup {wanted}]
        /\ UNCHANGED <<shown, preference, wanted>>
     \/ /\ Fails /\ preference' = Nothing /\ wanted' = Nothing
        /\ UNCHANGED <<temporaries, synced, chosen>>
  /\ UNCHANGED <<device, file, durable, whole, pid, usable, memory, lives>>

\* Mutant: the data is not fsynced.
SkipSync ==
  /\ pc = "Sync" /\ pc' = "Rename"
  /\ UNCHANGED <<device, disk, shell, preference, wanted, chosen>>

\* write_all and sync_all.
SyncTemporary ==
  /\ pc = "Sync"
  /\ \/ /\ pc' = "Rename" /\ synced' = TRUE
        /\ UNCHANGED <<temporaries, shown, preference, wanted>>
     \/ DropPending /\ UNCHANGED synced
  /\ UNCHANGED <<device, file, durable, whole, pid, usable, memory, lives, chosen>>

Rename ==
  /\ pc = "Rename"
  /\ \/ /\ pc' = "SyncDirectory"
        /\ file' = [file EXCEPT ![preference] = wanted]
        /\ whole' = IF synced THEN whole \cup {preference} ELSE whole \ {preference}
        /\ temporaries' = temporaries \ {Temporary}
        /\ UNCHANGED <<shown, preference, wanted>>
     \/ DropPending /\ UNCHANGED <<file, whole>>
  /\ UNCHANGED <<device, durable, synced, pid, usable, memory, lives, chosen>>

\* Mutant: a choice that replaces an unobeyed one reaches the file alone.
StoredIfUsable ==
  /\ chosen' = [chosen EXCEPT ![preference] = {wanted}]
  /\ memory' = IF preference \in usable THEN [memory EXCEPT ![preference] = wanted] ELSE memory
  /\ usable' = usable \cup {preference}
  /\ Succeeds

Stored ==
  /\ chosen' = [chosen EXCEPT ![preference] = {wanted}]
  /\ memory' = [memory EXCEPT ![preference] = wanted]
  /\ usable' = usable \cup {preference}
  /\ Succeeds

\* A failed sync is an error although the file is replaced: the memory keeps the
\* old choice, a later shell finds the new one.
SyncDirectory ==
  /\ pc = "SyncDirectory"
  /\ \/ durable' = [durable EXCEPT ![preference] = wanted] /\ Stored
     \/ /\ durable' \in {durable, [durable EXCEPT ![preference] = wanted]}
        /\ Fails /\ UNCHANGED <<memory, usable, chosen>>
  /\ preference' = Nothing /\ wanted' = Nothing
  /\ UNCHANGED <<device, file, whole, temporaries, synced, pid, lives>>

(***************************************************************************)
(* The timer, and what the port does not decide.                           *)
(***************************************************************************)
Snapshot ==
  /\ pc = "Idle" /\ shown' \in BOOLEAN
  /\ UNCHANGED <<device, disk, pid, usable, memory, lives, pc, preference, wanted, chosen>>

\* A gyro that fails takes the lock with it, in memory only.
LoseFeature(p) ==
  /\ pc = "Idle" /\ p \in usable \cap Sensed
  /\ usable' = usable \ {p} /\ memory' = [memory EXCEPT ![p] = Default(p)]
  /\ UNCHANGED <<device, disk, pid, shown, lives, pc, preference, wanted, chosen>>

AmbientLight ==
  /\ flAuto /\ frontlight' \in Light
  /\ UNCHANGED <<flAuto, wifid, wireless, disk, shell, pc, preference, wanted, chosen>>

Killed ==
  /\ pc # "Down" /\ pc' = "Down" /\ preference' = Nothing /\ wanted' = Nothing
  /\ shown' = FALSE
  /\ UNCHANGED <<device, disk, pid, usable, memory, lives, chosen>>

\* What was fsynced stays; a renamed file whose directory was not may be there
\* or not, and is whole only if its data was fsynced.
PowerLoss ==
  /\ \E survivor \in [Preference -> AnyValue \cup {Missing, Torn}] :
       /\ \A p \in Preference :
            survivor[p] \in {durable[p], IF p \in whole THEN file[p] ELSE Torn}
       /\ file' = survivor /\ durable' = survivor
  /\ whole' = Preference /\ synced' = TRUE
  /\ temporaries' \in SUBSET temporaries
  /\ pc' = "Down" /\ preference' = Nothing /\ wanted' = Nothing /\ shown' = FALSE
  /\ UNCHANGED <<device, pid, usable, memory, lives, chosen>>

Lights   == \/ \E s \in {-1, 1} : ReadLight(s)
            \/ \E v \in Light : SetLight(v)
            \/ WriteLight \/ ReadAuto \/ WriteAuto \/ AmbientLight
Wifi     == ReadWifi \/ StopService \/ StopWireless \/ StartWireless \/ StartService
Settings == \/ \E p \in Preference : LoseFeature(p) \/ \E v \in Values(p) : Choose(p, v)
            \/ Refuse \/ CreateTemporary \/ SyncTemporary \/ Rename \/ SyncDirectory

Next == Open \/ Lights \/ Wifi \/ Settings \/ Snapshot \/ Killed \/ PowerLoss

Spec == Init /\ [][Next]_vars

(***************************************************************************)
(* Properties                                                              *)
(***************************************************************************)
Content(p) == Values(p) \cup {Missing, Torn}

\* The light levels include what adjust_light and set_light ask for.
TypeOK ==
  /\ frontlight \in Light /\ flAuto \in BOOLEAN /\ wifid \in BOOLEAN /\ wireless \in BOOLEAN
  /\ \A p \in Preference :
       /\ file[p] \in Content(p) /\ durable[p] \in Content(p)
       /\ memory[p] \in Values(p) /\ chosen[p] \subseteq Content(p)
  /\ whole \subseteq Preference /\ temporaries \subseteq Preference \X Pids
  /\ synced \in BOOLEAN /\ pid \in Pids /\ usable \subseteq Preference
  /\ pc \in {"Down", "Idle", "SetLight", "SetAuto", "StopService", "StopWireless",
             "StartWireless", "StartService", "Create", "Sync", "Rename", "SyncDirectory"}
  /\ preference \in Preference \cup {Nothing}
  /\ pc = "SetLight" => wanted \in Light
  /\ shown \in BOOLEAN /\ lives \in 0 .. MaxLives

\* A preference file holds the last stored choice or one that was being stored after
\* it, never an older one and never a torn one.
ChosenOnDisk ==
  \A p \in Preference : {file[p], durable[p]} \subseteq chosen[p]

\* Of a preference in effect, the shell obeys what such a choice reads as.
ConfirmedIsObeyed ==
  \A p \in usable : \E choice \in chosen[p] : memory[p] = Read(p, choice)

\* A choice the shell has confirmed outlives it, and file and memory do not drift apart:
\* over failed and killed writes, power cuts, lost sensors, missing images and the
\* shells that come after, both hold the choice confirmed last or one attempted since,
\* and so the same when there was no attempt since.
ChosenSurvives == ChosenOnDisk /\ ConfirmedIsObeyed

\* "the reviewed Wi-Fi service pair": whatever step of the toggle fails, the
\* service is never left enabled without the wireless command beneath it.
WifiNeverHalfOn == wifid => wireless
=============================================================================
