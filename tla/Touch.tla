------------------------------- MODULE Touch -------------------------------
(***************************************************************************)
(* The touch chain of the device shell: the kernel's multitouch slots, the *)
(* event buffer of the grabbed device, the reads of BoundedInputPump, the  *)
(* decoder and TouchTracker of L0InputCore, and the Slint pointer.         *)
(*                                                                         *)
(* Kernel, panel and Slint are external.  The kernel keeps the last        *)
(* coordinates of every slot and its current slot, and sends neither a     *)
(* coordinate nor a slot number that has not changed; it hands out whole   *)
(* frames, each one state per slot; a client whose buffer overflows gets   *)
(* SYN_DROPPED.  The shell opens the device in the middle of all that.     *)
(***************************************************************************)
EXTENDS Naturals, FiniteSets, SequencesExt

CONSTANTS
  Slots,          \* contacts the panel can report
  X, Y,           \* raw values of the two axes
  MaxContacts,    \* bound: contacts that ever land
  MaxQueue,       \* records the kernel buffers for the shell
  MaxBacklog,     \* bound: records unread when a frame arrives
  ReadRecords,    \* READ_BUFFER_BYTES in records
  RecordBudget,   \* INPUT_RECORD_BUDGET
  RenewAt,        \* INPUT_RECORD_RENEW_AT
  OpenedWhile,    \* the panel at the open: never used; untouched, slot 0
                  \* current; or "in use", whatever its slots and current slot
  IdFirst,        \* the driver sends a contact's id before its point
  Emulates        \* the kernel also reports its oldest contact as ABS_X, ABS_Y

ASSUME TouchAssumption ==
  /\ {Slots, ReadRecords, RenewAt} \subseteq Nat \ {0}
  /\ {MaxContacts, MaxBacklog, RecordBudget} \subseteq Nat /\ MaxQueue \in Nat \ {0, 1}
  /\ OpenedWhile \in {"unused", "untouched", "in use"}
  /\ OpenedWhile = "in use" => Slots <= MaxContacts
  /\ {IdFirst, Emulates} \subseteq BOOLEAN
  /\ RenewAt - 1 + ReadRecords <= RecordBudget
  /\ "none" \notin X \cup Y

VARIABLES
  panel,     \* kernel: the tracking id in each slot
  raw,       \* kernel: last reported coordinates of each slot
  kslot,     \* kernel: ABS_MT_SLOT
  emulated,  \* kernel: ABS_X, ABS_Y
  landed,    \* contacts that have landed
  queue,     \* records the shell has not read
  tracker,   \* L0InputCore.tracker
  chunk,     \* records of the current read not yet pushed
  staged,    \* push_bytes: copies of tracker and decoder, and their contacts
  decoded,   \* InputEventDecoder.decoded_records
  stopped,   \* why the pump stopped
  contacts,  \* contacts of the last read not yet dispatched
  pointer,   \* Slint: the left button
  owner,     \* history: the contact whose press is down
  alone      \* history: a contact that landed on an untouched panel, and its axes sent

kernel == <<panel, raw, kslot, emulated, landed, alone>>
core   == <<tracker, decoded, stopped>>
slint  == <<pointer, owner>>
vars   == <<kernel, queue, core, chunk, staged, contacts, slint>>

Slot    == 0 .. Slots - 1
Axis    == {"x", "y"}
Point   == [x : X, y : Y]
None    == "none"
NoPoint == [x |-> None, y |-> None]
NoSlot  == Slots
Up      == [down |-> FALSE, at |-> NoPoint]
Off     == 0                      \* no contact; ids count from 1
Id      == 1 .. MaxContacts

Rec(type, value) == [type |-> type, value |-> value]
SynReport        == Rec("syn", 0)
SynDropped       == Rec("dropped", 0)

(***************************************************************************)
(* The kernel.                                                             *)
(***************************************************************************)
Touched(p) == {s \in Slot : p[s] # Off}
Oldest(p)  == CHOOSE s \in Touched(p) : \A t \in Touched(p) : p[s] <= p[t]

Unless(condition, record) == IF condition THEN <<>> ELSE <<record>>

\* What one frame says of slot s.
SlotRecords(s, p, r, previous) ==
  LET point == Unless(r[s]["x"] = raw[s]["x"], Rec("mtx", r[s]["x"]))
                 \o Unless(r[s]["y"] = raw[s]["y"], Rec("mty", r[s]["y"]))
      id    == Unless(p[s] = panel[s], Rec("id", p[s]))
      body  == IF IdFirst THEN id \o point ELSE point \o id
  IN IF body = <<>> THEN <<>> ELSE Unless(previous = s, Rec("slot", s)) \o body

Changed(p, r) == {s \in Slot : p[s] # panel[s] \/ r[s] # raw[s]}

SlotBefore(s, p, r) ==
  LET earlier == {t \in Changed(p, r) : t < s}
  IN IF earlier = {} THEN kslot ELSE Max(earlier)

EmulatedPoint(p, r) ==
  IF Emulates /\ Touched(p) # {} /\ r[Oldest(p)] # NoPoint THEN r[Oldest(p)] ELSE emulated

FrameRecords(p, r) ==
  FlattenSeq([i \in 1 .. Slots |-> SlotRecords(i - 1, p, r, SlotBefore(i - 1, p, r))])
    \o Unless(EmulatedPoint(p, r)["x"] = emulated["x"], Rec("x", EmulatedPoint(p, r)["x"]))
    \o Unless(EmulatedPoint(p, r)["y"] = emulated["y"], Rec("y", EmulatedPoint(p, r)["y"]))
    \o <<SynReport>>

Fresh == [id |-> Off, x |-> None, y |-> None,
          dirty |-> FALSE, reported |-> FALSE, pending_release |-> FALSE]

NewTracker == [current_slot |-> 0, primary_slot |-> NoSlot, slots |-> [s \in Slot |-> Fresh]]

Nothing == [tracker |-> NewTracker, decoded |-> 0, out |-> <<>>]   \* outside push_bytes

Init ==
  /\ panel \in IF OpenedWhile # "in use" THEN [Slot -> {Off}]
               ELSE {p \in [Slot -> 0 .. Slots] :
                       \A s, t \in Touched(p) : s # t => p[s] # p[t]}
  /\ raw \in [Slot -> IF OpenedWhile = "unused" THEN {NoPoint} ELSE Point]
  /\ kslot \in IF OpenedWhile = "in use" THEN Slot ELSE {0}
  /\ emulated \in IF Emulates THEN Point ELSE {NoPoint}
  /\ landed = IF OpenedWhile = "in use" THEN Slots ELSE 0
  /\ queue = <<>> /\ chunk = <<>> /\ contacts = <<>>
  /\ tracker = NewTracker /\ staged = Nothing /\ decoded = 0 /\ stopped = None
  /\ pointer = Up
  /\ owner = Off /\ alone = [id |-> Off, axes |-> {}]

AloneAfter(p, r) ==
  LET Sent(s) == {a \in Axis : r[s][a] # raw[s][a]}
      stays   == {s \in Touched(p) : p[s] = alone.id}
      lands   == {s \in Touched(p) : Touched(panel) = {} /\ Touched(p) = {s}}
  IN CASE stays # {} -> [alone EXCEPT !.axes = @ \cup UNION {Sent(s) : s \in stays}]
       [] lands # {} -> [id |-> p[Oldest(p)], axes |-> Sent(Oldest(p))]
       [] OTHER      -> [id |-> Off, axes |-> {}]

\* The contacts in the slots on, those that land numbered in the order of their slots.
Landing(on) == on \ Touched(panel)

PanelAfter(on) ==
  [s \in Slot |-> IF s \notin on THEN Off
                  ELSE IF s \in Landing(on)
                  THEN landed + Cardinality({t \in Landing(on) : t <= s})
                  ELSE panel[s]]

RawAfter(moved) == [s \in Slot |-> IF s \in DOMAIN moved THEN moved[s] ELSE raw[s]]

\* One frame: which slots are touched after it, and where.  It never meets a
\* half pushed chunk: push_bytes looks at nothing the kernel writes.
Frame ==
  /\ stopped = None /\ chunk = <<>> /\ Len(queue) <= MaxBacklog
  /\ \E on \in SUBSET Slot : \E moved \in [on -> Point] :
       LET p    == PanelAfter(on)
           r    == RawAfter(moved)
           sent == queue \o FrameRecords(p, r)
       IN /\ Changed(p, r) # {}
          /\ panel' = p /\ raw' = r
          /\ landed' = landed + Cardinality(Landing(on)) /\ landed' <= MaxContacts
          /\ kslot' = Max(Changed(p, r))
          /\ emulated' = EmulatedPoint(p, r)
          /\ queue' = IF Len(sent) <= MaxQueue THEN sent ELSE <<SynDropped, SynReport>>
          /\ alone' = AloneAfter(p, r)
  /\ UNCHANGED <<core, chunk, staged, contacts, slint>>

(***************************************************************************)
(* TouchTracker.  Removing a slot's entry makes it Fresh again.            *)
(***************************************************************************)
\* Mutant: every coordinate moves the primary contact.
UpdatePrimary(t, s, axis, value) ==
  LET target == IF t.primary_slot = NoSlot THEN s ELSE t.primary_slot
  IN [t EXCEPT !.slots[target] = [@ EXCEPT ![axis] = value, !.dirty = TRUE]]

Update(t, s, axis, value) ==
  LET state == t.slots[s]
  IN [t EXCEPT !.slots[s] = [state EXCEPT ![axis] = value,
                                          !.dirty = @ \/ state[axis] # value]]

\* A new id in a slot that has one is refused (TrackingIdReplaced).
Replaces(t, id) == id # Off /\ t.slots[t.current_slot].id \notin {Off, id}

\* Mutant: an id forgets the coordinates its slot was sent before it.
UpdateTrackingForgetting(t, id) ==
  LET s == t.current_slot
  IN IF id # Off
     THEN [t EXCEPT !.slots[s] = [Fresh EXCEPT !.id = id, !.dirty = TRUE],
                    !.primary_slot = IF @ = NoSlot THEN s ELSE @]
     ELSE IF t.primary_slot = s
     THEN [t EXCEPT !.slots[s] = [@ EXCEPT !.id = Off, !.pending_release = TRUE]]
     ELSE [t EXCEPT !.slots[s] = Fresh]

UpdateTracking(t, id) ==
  LET s     == t.current_slot
      state == t.slots[s]
  IN IF id # Off
     THEN [t EXCEPT !.slots[s] = [state EXCEPT !.id = id, !.pending_release = FALSE,
                                               !.dirty = TRUE],
                    !.primary_slot = IF @ = NoSlot THEN s ELSE @]
     ELSE IF t.primary_slot = s
     THEN [t EXCEPT !.slots[s] = [state EXCEPT !.id = Off, !.pending_release = TRUE,
                                               !.dirty = TRUE]]
     ELSE [t EXCEPT !.slots[s] = Fresh]

Contact(phase, state) ==
  [phase |-> phase, at |-> [x |-> state.x, y |-> state.y], id |-> state.id]

Incomplete(state) == state.id = Off \/ state.x = None \/ state.y = None

\* The contacts a SYN_REPORT yields, at most one.
Reports(t) ==
  LET state == t.slots[t.primary_slot]
  IN IF t.primary_slot = NoSlot THEN <<>>
     ELSE IF state.pending_release
     THEN IF state.reported THEN <<Contact("Released", state)>> ELSE <<>>
     ELSE IF Incomplete(state) THEN <<>>
     ELSE IF ~state.reported THEN <<Contact("Pressed", state)>>
     ELSE IF state.dirty THEN <<Contact("Moved", state)>>
     ELSE <<>>

\* Mutant: a contact is not marked as reported.
SynchronizeUnreported(t) ==
  LET s     == t.primary_slot
      state == t.slots[s]
  IN IF s = NoSlot THEN t
     ELSE IF state.pending_release
     THEN [t EXCEPT !.slots[s] = Fresh, !.primary_slot = NoSlot]
     ELSE [t EXCEPT !.slots[s] = [state EXCEPT !.dirty = FALSE]]

Synchronize(t) ==
  LET s     == t.primary_slot
      state == t.slots[s]
  IN IF s = NoSlot THEN t
     ELSE IF state.pending_release
     THEN [t EXCEPT !.slots[s] = Fresh, !.primary_slot = NoSlot]
     ELSE IF Incomplete(state) THEN t
     ELSE [t EXCEPT !.slots[s] = [state EXCEPT !.reported = TRUE, !.dirty = FALSE]]

Accepts(t, record) ==
  record.type # "dropped" /\ (record.type = "id" => ~Replaces(t, record.value))

Pushed(t, record) ==
  CASE record.type = "syn"  -> Synchronize(t)
    [] record.type = "slot" -> [t EXCEPT !.current_slot = record.value]
    [] record.type = "mtx"  -> Update(t, t.current_slot, "x", record.value)
    [] record.type = "mty"  -> Update(t, t.current_slot, "y", record.value)
    [] record.type = "x"    -> Update(t, 0, "x", record.value)
    [] record.type = "y"    -> Update(t, 0, "y", record.value)
    [] record.type = "id"   -> UpdateTracking(t, record.value)

(***************************************************************************)
(* The pump and push_bytes: a read, its records one by one on copies of    *)
(* decoder and tracker, and a commit; an error drops the copies.           *)
(***************************************************************************)
\* Mutant: the record budget is never renewed.
RenewedNever == decoded

Renewed == IF decoded >= RenewAt THEN 0 ELSE decoded

\* The decoder counts a read's records before it decodes any.
WithinBudget(size) == Renewed + size <= RecordBudget

Read ==
  /\ stopped = None /\ chunk = <<>> /\ contacts = <<>> /\ queue # <<>>
  /\ LET size == Min({Len(queue), ReadRecords})
     IN /\ queue' = SubSeq(queue, size + 1, Len(queue))
        /\ IF WithinBudget(size)
           THEN /\ chunk' = SubSeq(queue, 1, size)
                /\ staged' = [tracker |-> tracker, decoded |-> Renewed + size, out |-> <<>>]
                /\ UNCHANGED stopped
           ELSE /\ stopped' = "refused" /\ UNCHANGED <<chunk, staged>>
  /\ decoded' = Renewed
  /\ UNCHANGED <<kernel, tracker, contacts, slint>>

PushRecord ==
  /\ chunk # <<>> /\ Accepts(staged.tracker, Head(chunk))
  /\ LET out == IF Head(chunk).type = "syn" THEN staged.out \o Reports(staged.tracker)
                ELSE staged.out
         pushed == Pushed(staged.tracker, Head(chunk))
     IN IF Len(chunk) > 1
        THEN /\ staged' = [staged EXCEPT !.tracker = pushed, !.out = out]
             /\ UNCHANGED <<tracker, decoded, contacts>>
        ELSE /\ tracker' = pushed /\ decoded' = staged.decoded /\ contacts' = out
             /\ staged' = Nothing
  /\ chunk' = Tail(chunk)
  /\ UNCHANGED <<kernel, queue, stopped, slint>>

RefuseRecord ==
  /\ chunk # <<>> /\ ~Accepts(staged.tracker, Head(chunk))
  /\ stopped' = IF Head(chunk) = SynDropped THEN "dropped" ELSE "refused"
  /\ chunk' = <<>> /\ staged' = Nothing
  /\ UNCHANGED <<kernel, queue, tracker, decoded, contacts, slint>>

\* The pointer knows no ids: owner is the contact whose press it follows.
Dispatch ==
  /\ contacts # <<>> /\ contacts' = Tail(contacts)
  /\ LET contact == Head(contacts)
     IN /\ pointer' = IF contact.phase = "Released" THEN Up
                     ELSE [down |-> TRUE, at |-> contact.at]
        /\ owner' = CASE contact.phase = "Pressed"  -> contact.id
                      [] contact.phase = "Moved"    -> owner
                      [] contact.phase = "Released" -> Off
  /\ UNCHANGED <<kernel, queue, core, chunk, staged>>

Next == Frame \/ Read \/ PushRecord \/ RefuseRecord \/ Dispatch

Spec == Init /\ [][Next]_vars

(***************************************************************************)
(* Properties                                                              *)
(***************************************************************************)
Settled == queue = <<>> /\ chunk = <<>> /\ contacts = <<>> /\ stopped = None

SlotState == [id : Id \cup {Off}, x : X \cup {None}, y : Y \cup {None},
              dirty : BOOLEAN, reported : BOOLEAN, pending_release : BOOLEAN]

PrimaryState == tracker.slots[tracker.primary_slot]

TypeOK ==
  /\ panel \in [Slot -> Id \cup {Off}] /\ raw \in [Slot -> Point \cup {NoPoint}]
  /\ kslot \in Slot /\ emulated \in Point \cup {NoPoint} /\ landed \in 0 .. MaxContacts
  /\ Len(queue) <= MaxQueue
  /\ tracker.current_slot \in Slot /\ tracker.primary_slot \in Slot \cup {NoSlot}
  /\ tracker.slots \in [Slot -> SlotState]
  /\ tracker.primary_slot # NoSlot => PrimaryState.id # Off \/ PrimaryState.pending_release
  /\ \A s \in Slot : tracker.slots[s].reported => tracker.primary_slot = s
  /\ decoded \in 0 .. RecordBudget /\ stopped \in {None, "dropped", "refused"}
  /\ pointer \in [down : BOOLEAN, at : Point \cup {NoPoint}]
  /\ owner \in Id \cup {Off} /\ (pointer.down <=> owner # Off)

\* Slint sees presses and releases strictly in turn, and moves only between
\* them, however contacts, frames and reads interleave.
ContactsAlternate ==
  [][Dispatch => (Head(contacts).phase = "Pressed" <=> ~pointer.down)]_vars

\* TouchTracker promises that "one primary contact owns the Slint pointer until
\* release": once everything sent has been read, a pressed pointer is where the
\* contact that pressed it is, however other slots moved, landed or lifted.
OwnerKeepsPointer ==
  Settled /\ pointer.down =>
    \E s \in Slot : panel[s] = owner /\ raw[s] = pointer.at

\* A contact alone on the panel has the pointer by the time both axes were sent.
LoneContactPresses ==
  Settled /\ alone.id # Off /\ alone.axes = Axis => owner = alone.id

\* Nothing the kernel sends a tracker that began in its current slot is refused for
\* its order, its ids or its length: only an overflow of the buffer stops the pump.
OnlyOverflowStops == stopped # "refused"

\* TouchTracker is "Incremental Protocol-B touch state", and in that protocol a
\* value not sent again is the last one sent: so a contact alone on the panel has
\* the pointer as soon as its frame has been read.
EveryTouchPresses ==
  Settled /\ alone.id # Off => owner = alone.id
=============================================================================
