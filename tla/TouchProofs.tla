---------------------------- MODULE TouchProofs ----------------------------
(***************************************************************************)
(* The safety of the touch chain, for every panel, read size and budget.   *)
(***************************************************************************)
EXTENDS Touch, SequenceTheorems, FiniteSetTheorems, WellFoundedInduction, TLAPS

(***************************************************************************)
(* Numbers and sequences.                                                  *)
(***************************************************************************)
\* What holds of 0 and of the next number holds of all.
LEMMA Ascent ==
  ASSUME NEW S, 0 \in S, \A n \in Nat : n \in S => n + 1 \in S
  PROVE  \A n \in Nat : n \in S
<1> DEFINE Rest == {n \in Nat : n \notin S}
           Less == OpToRel(<, Nat)
<1>1. SUFFICES ASSUME Rest # {} PROVE FALSE
  OBVIOUS
<1>2. IsWellFoundedOn(Less, Nat) /\ Rest \subseteq Nat
  BY NatLessThanWellFounded
<1>3. PICK x \in Rest : \A y \in Rest : ~(<<y, x>> \in Less)
  <2> HIDE DEF Rest, Less
  <2> QED BY <1>1, <1>2, WFMin
<1>4. x \in Nat /\ x # 0 /\ x - 1 \in Nat
  OBVIOUS
<1>5. x - 1 \in Rest
  <2>1. x - 1 \in S => x - 1 + 1 \in S
    BY <1>4
  <2> QED BY <1>4, <2>1
<1>6. <<x - 1, x>> \in Less
  BY <1>4 DEF OpToRel
<1> QED BY <1>3, <1>5, <1>6

\* A nonempty set of numbers below a bound has a least and a greatest one.
LEMMA Extremes ==
  ASSUME NEW n \in Nat, NEW S \in SUBSET (0 .. n), S # {}
  PROVE  /\ Min(S) \in S /\ \A k \in S : Min(S) <= k
         /\ Max(S) \in S /\ \A k \in S : k <= Max(S)
<1> DEFINE Less == OpToRel(<, Nat)
<1>1. IsWellFoundedOn(Less, Nat) /\ S \in SUBSET Nat /\ \A k \in S : k \in Nat /\ k <= n
  <2>1. \A k \in S : k \in 0 .. n
    OBVIOUS
  <2>2. \A k \in S : k \in Nat /\ k <= n
    BY <2>1
  <2> QED BY <2>2, NatLessThanWellFounded
<1>2. \E x \in S : \A k \in S : x <= k
  <2>1. PICK x \in S : \A k \in S : ~(<<k, x>> \in Less)
    <3> HIDE DEF Less
    <3> QED BY <1>1, WFMin
  <2>2. ASSUME NEW k \in S PROVE x <= k
    <3>1. k \in Nat /\ x \in Nat
      BY <1>1
    <3>2. k < x => <<k, x>> \in Less
      BY <3>1 DEF OpToRel
    <3> HIDE DEF Less
    <3> QED BY <3>1, <3>2, <2>1
  <2> QED BY <2>2
<1>3. \E x \in S : \A k \in S : x >= k
  <2> DEFINE T == {n - k : k \in S}
  <2>1. T # {} /\ T \in SUBSET Nat
    <3>1. ASSUME NEW k \in S PROVE n - k \in Nat
      <4>1. k \in Nat /\ k <= n
        BY <1>1
      <4> QED BY <4>1
    <3> QED BY <3>1
  <2>2. PICK y \in T : \A z \in T : ~(<<z, y>> \in Less)
    <3> HIDE DEF Less, T
    <3> QED BY <2>1, <1>1, WFMin
  <2>3. PICK x \in S : y = n - x
    OBVIOUS
  <2>4. ASSUME NEW k \in S PROVE x >= k
    <3>1. k \in Nat /\ x \in Nat /\ k <= n /\ x <= n
      BY <1>1
    <3>2. n - k \in Nat /\ n - x \in Nat
      BY <3>1
    <3>3. n - k < n - x => <<n - k, n - x>> \in Less
      BY <3>2 DEF OpToRel
    <3>4. n - k \in T
      OBVIOUS
    <3>5. ~(n - k < n - x)
      <4> HIDE DEF Less, T
      <4> QED BY <3>3, <3>4, <2>2, <2>3
    <3> QED BY <3>1, <3>5
  <2> QED BY <2>4
<1>4. Min(S) \in S /\ \A k \in S : Min(S) <= k
  BY <1>2 DEF Min
<1>5. Max(S) \in S /\ \A k \in S : Max(S) >= k
  BY <1>3 DEF Max
<1> QED BY <1>4, <1>5

LEMMA ShortSequences ==
  ASSUME NEW S, NEW x \in S, NEW y \in S
  PROVE  /\ <<x>> \in Seq(S) /\ <<x>> # <<>>
         /\ <<x, y>> \in Seq(S) /\ <<x, y>> # <<>> /\ Head(<<x, y>>) = x
<1>1. <<x>> \in Seq(S) /\ <<x>> # <<>>
  OBVIOUS
<1> DEFINE two == <<x, y>>
<1>2. two \in Seq(S) /\ Len(two) = 2 /\ two[1] = x
  OBVIOUS
<1> HIDE DEF two
<1>3. two # <<>> /\ Head(two) = x
  BY <1>2
<1> QED BY <1>1, <1>2, <1>3 DEF two

LEMMA NotEmpty ==
  ASSUME NEW S, NEW a \in Seq(S), NEW x \in S
  PROVE  a \o <<x>> # <<>>
<1> DEFINE b == a \o <<x>>
<1>1. Len(b) = Len(a) + 1 /\ Len(a) \in Nat
  OBVIOUS
<1> HIDE DEF b
<1>2. b # <<>>
  BY <1>1
<1> QED BY <1>2 DEF b

\* The first of two sequences.
LEMMA FirstOfTwo ==
  ASSUME NEW S, NEW a \in Seq(S), NEW b \in Seq(S), a # <<>>
  PROVE  /\ a \o b \in Seq(S) /\ a \o b # <<>> /\ Head(a \o b) = Head(a)
         /\ Tail(a \o b) = Tail(a) \o b
<1> DEFINE c == a \o b
<1>1. /\ c \in Seq(S) /\ Len(a) \in Nat \ {0} /\ Len(b) \in Nat /\ Len(c) = Len(a) + Len(b)
      /\ \A i \in 1 .. Len(a) + Len(b) : c[i] = IF i <= Len(a) THEN a[i] ELSE b[i - Len(a)]
  BY ConcatProperties, EmptySeq
<1>2. /\ Tail(a) \in Seq(S) /\ Len(Tail(a)) = Len(a) - 1 /\ Head(a) = a[1]
      /\ \A i \in 1 .. Len(Tail(a)) : Tail(a)[i] = a[i + 1]
  BY <1>1, HeadTailProperties
<1> HIDE DEF c
<1>3. c # <<>>
  BY <1>1
<1>4. /\ Tail(c) \in Seq(S) /\ Len(Tail(c)) = Len(c) - 1 /\ Head(c) = c[1]
      /\ \A i \in 1 .. Len(Tail(c)) : Tail(c)[i] = c[i + 1]
  BY <1>1, <1>3, HeadTailProperties
<1>5. Head(c) = Head(a)
  BY <1>1, <1>2, <1>4
<1> DEFINE d == Tail(a) \o b
<1>6. /\ d \in Seq(S) /\ Len(d) = Len(a) - 1 + Len(b)
      /\ \A i \in 1 .. Len(a) - 1 + Len(b) :
           d[i] = IF i <= Len(a) - 1 THEN Tail(a)[i] ELSE b[i - (Len(a) - 1)]
  BY <1>1, <1>2, ConcatProperties
<1> HIDE DEF d
<1>7. ASSUME NEW i \in 1 .. Len(Tail(c)) PROVE Tail(c)[i] = d[i]
  <2>1. PICK j : j = i + 1 /\ j \in 1 .. Len(a) + Len(b) /\ j - Len(a) = i - (Len(a) - 1)
                 /\ i \in Nat
    BY <1>1, <1>4
  <2>2. Tail(c)[i] = c[j] /\ c[j] = IF j <= Len(a) THEN a[j] ELSE b[j - Len(a)]
    BY <1>1, <1>4, <2>1
  <2>3. d[i] = IF i <= Len(a) - 1 THEN Tail(a)[i] ELSE b[i - (Len(a) - 1)]
    BY <1>1, <1>4, <1>6
  <2>4. i <= Len(a) - 1 <=> j <= Len(a)
    BY <1>1, <2>1
  <2>5. i <= Len(a) - 1 => Tail(a)[i] = a[j]
    BY <1>1, <1>2, <1>4, <2>1
  <2> QED BY <2>1, <2>2, <2>3, <2>4, <2>5
<1>8. Tail(c) = d
  BY <1>1, <1>4, <1>6, <1>7, SeqEqual
<1> QED BY <1>1, <1>3, <1>5, <1>8 DEF c, d

\* FlattenSeq joins from the left.
Joins(f, ss, n) == f[1] = ss[1] /\ \A i \in 1 .. n : i > 1 => f[i] = f[i - 1] \o ss[i]

LEMMA Flattened ==
  ASSUME NEW R, NEW n \in Nat \ {0}, NEW ss \in [1 .. n -> Seq(R)]
  PROVE  \E f \in [1 .. n -> Seq(R)] : Joins(f, ss, n) /\ FlattenSeq(ss) = f[n]
<1> DEFINE Joined(f, k) == \A i \in 1 .. k : f[i] = IF i = 1 THEN ss[i] ELSE f[i - 1] \o ss[i]
           S == {k \in Nat : k <= n => \E f \in [1 .. k -> Seq(R)] : Joined(f, k)}
<1>1. 0 \in S
  <2>1. /\ [i \in 1 .. 0 |-> ss[i]] \in [1 .. 0 -> Seq(R)]
        /\ Joined([i \in 1 .. 0 |-> ss[i]], 0)
    OBVIOUS
  <2>2. \E f \in [1 .. 0 -> Seq(R)] : Joined(f, 0)
    <3> HIDE DEF Joined
    <3> QED BY <2>1
  <2> QED BY <2>2
<1>2. ASSUME NEW k \in Nat, k \in S PROVE k + 1 \in S
  <2>1. SUFFICES ASSUME k + 1 <= n
                 PROVE  \E g \in [1 .. k + 1 -> Seq(R)] : Joined(g, k + 1)
    <3> HIDE DEF Joined
    <3> QED OBVIOUS
  <2>2. PICK f \in [1 .. k -> Seq(R)] : Joined(f, k)
    BY <1>2, <2>1
  <2> DEFINE last == IF k = 0 THEN ss[1] ELSE f[k] \o ss[k + 1]
             g == [i \in 1 .. k + 1 |-> IF i <= k THEN f[i] ELSE last]
  <2>3. last \in Seq(R)
    <3>1. CASE k = 0
      BY <3>1
    <3>2. CASE k # 0
      <4>1. f[k] \in Seq(R) /\ ss[k + 1] \in Seq(R)
        BY <3>2, <2>1
      <4> QED BY <4>1, <3>2, ConcatProperties
    <3> QED BY <3>1, <3>2
  <2>4. g \in [1 .. k + 1 -> Seq(R)]
    <3> HIDE DEF last
    <3> QED BY <2>3
  <2>5. ASSUME NEW i \in 1 .. k + 1
        PROVE  g[i] = IF i = 1 THEN ss[i] ELSE g[i - 1] \o ss[i]
    <3>1. CASE i <= k
      <4>1. f[i] = IF i = 1 THEN ss[i] ELSE f[i - 1] \o ss[i]
        <5>1. i \in 1 .. k
          BY <3>1
        <5> QED BY <5>1, <2>2, Zenon
      <4>2. g[i] = f[i] /\ (i # 1 => i - 1 \in 1 .. k + 1 /\ g[i - 1] = f[i - 1])
        BY <3>1
      <4> HIDE DEF g
      <4> QED BY <4>1, <4>2
    <3>2. CASE i = k + 1
      <4>1. g[i] = last /\ (k # 0 => k \in 1 .. k + 1 /\ g[k] = f[k])
        BY <3>2
      <4>2. i - 1 = k /\ (i = 1 <=> k = 0)
        BY <3>2
      <4> HIDE DEF g
      <4> QED BY <4>1, <4>2, <3>2
    <3> QED BY <3>1, <3>2
  <2> HIDE DEF g
  <2> QED BY <2>4, <2>5
<1>3. \E f \in [1 .. n -> Seq(R)] : Joined(f, n)
  <2>1. n \in S
    <3> HIDE DEF S
    <3> QED BY <1>1, <1>2, Ascent
  <2> HIDE DEF Joined
  <2> QED BY <2>1
<1>4. PICK f \in [1 .. n -> Seq(R)] : Joined(f, n)
  BY <1>3, Zenon
<1>5. f = [i \in 1 .. n |-> IF i = 1 THEN ss[i] ELSE f[i - 1] \o ss[i]]
  BY <1>4
<1>6. Len(ss) = n
  OBVIOUS
<1> DEFINE Flat == CHOOSE g : g = [i \in 1 .. n |-> IF i = 1 THEN ss[i] ELSE g[i - 1] \o ss[i]]
<1>7. FlattenSeq(ss) = Flat[n]
  BY <1>6 DEF FlattenSeq
<1>8. Flat = [i \in 1 .. n |-> IF i = 1 THEN ss[i] ELSE Flat[i - 1] \o ss[i]]
  BY <1>5
<1>9. \A i \in 1 .. n : Flat[i] = IF i = 1 THEN ss[i] ELSE Flat[i - 1] \o ss[i]
  <2> HIDE DEF Flat
  <2> QED BY <1>8
<1> HIDE DEF Flat
<1> DEFINE E == {k \in Nat : k \in 1 .. n => Flat[k] = f[k]}
<1>10. 0 \in E
  OBVIOUS
<1>4a. ASSUME NEW k \in Nat, k \in E PROVE k + 1 \in E
  <2>1. k = 0 \/ k + 1 \notin 1 .. n \/ (k \in 1 .. n /\ k + 1 \in 1 .. n /\ k + 1 # 1)
    <3> HIDE <1>4, <1>5, <1>6, <1>7, <1>8, <1>9, <1>4a
    <3> QED OBVIOUS
  <2>2. CASE k = 0
    BY <2>2, <1>4, <1>9
  <2>3. CASE k \in 1 .. n /\ k + 1 \in 1 .. n /\ k + 1 # 1
    <3>1. Flat[k] = f[k]
      BY <2>3, <1>4a
    <3>2. PICK m \in 1 .. n : m = k + 1 /\ m - 1 = k /\ m # 1
      BY <2>3
    <3>3. f[m] = (IF m = 1 THEN ss[m] ELSE f[m - 1] \o ss[m])
      BY <1>4, Zenon
    <3>4. Flat[m] = (IF m = 1 THEN ss[m] ELSE Flat[m - 1] \o ss[m])
      BY <1>9, Zenon
    <3>5. Flat[k + 1] = f[k + 1]
      BY <3>1, <3>2, <3>3, <3>4, Zenon
    <3> QED BY <3>5
  <2> QED BY <2>1, <2>2, <2>3
<1>12. n \in E
  <2> HIDE DEF E
  <2> QED BY <1>10, <1>4a, Ascent
<1>13. Joins(f, ss, n)
  <2>1. 1 \in 1 .. n /\ \A i \in 1 .. n : i > 1 => i # 1
    OBVIOUS
  <2> QED BY <2>1, <1>4, Zenon DEF Joins
<1>14. FlattenSeq(ss) = f[n]
  BY <1>7, <1>12
<1> QED BY <1>13, <1>14, Zenon

(***************************************************************************)
(* The tracker.                                                            *)
(***************************************************************************)
Record ==
  [type : {"syn", "dropped"}, value : {0}] \cup [type : {"slot"}, value : Slot]
    \cup [type : {"mtx", "x"}, value : X] \cup [type : {"mty", "y"}, value : Y]
    \cup [type : {"id"}, value : Id \cup {Off}]

\* Only the primary contact is reported, once it is complete, and it stays so.
Consistent(t) ==
  /\ t.primary_slot # NoSlot =>
       t.slots[t.primary_slot].id # Off \/ t.slots[t.primary_slot].pending_release = TRUE
  /\ \A s \in Slot :
       /\ t.slots[s].reported = TRUE =>
            t.primary_slot = s /\ t.slots[s].x # None /\ t.slots[s].y # None
       /\ t.slots[s].pending_release = TRUE => t.primary_slot = s /\ t.slots[s].id = Off

Tracker ==
  {t \in [current_slot : Slot, primary_slot : Slot \cup {NoSlot}, slots : [Slot -> SlotState]] :
     Consistent(t)}

\* The constants.
LEMMA Constants ==
  /\ Slots \in Nat \ {0} /\ 0 \in Slot /\ NoSlot \notin Slot
  /\ \A s \in Slot : s \in Nat /\ s < Slots
  /\ MaxContacts \in Nat /\ None \notin X /\ None \notin Y /\ Off \notin Id
<1>1. Slots \in Nat \ {0} /\ MaxContacts \in Nat
  BY TouchAssumption
<1>2. None \notin X /\ None \notin Y
  BY TouchAssumption DEF None
<1>3. /\ 0 \in Slot /\ NoSlot \notin Slot /\ Off \notin Id
      /\ \A s \in Slot : s \in Nat /\ s < Slots
  BY <1>1 DEF Slot, NoSlot, Off, Id
<1> QED BY <1>1, <1>2, <1>3

\* A tracker, taken apart.
LEMMA TrackerParts ==
  ASSUME NEW t \in Tracker
  PROVE  /\ t = [current_slot |-> t.current_slot, primary_slot |-> t.primary_slot,
                 slots |-> t.slots]
         /\ t.current_slot \in Slot /\ t.primary_slot \in Slot \cup {NoSlot}
         /\ t.slots \in [Slot -> SlotState] /\ Consistent(t)
BY DEF Tracker

\* u is t with another coordinate in slot s.
Coordinate(t, s, axis, value, u) ==
  LET old == t.slots[s]
      new == u.slots[s]
  IN /\ u \in Tracker /\ u.current_slot = t.current_slot
     /\ u.primary_slot = t.primary_slot
     /\ \A r \in Slot : r # s => u.slots[r] = t.slots[r]
     /\ new.id = old.id /\ new.reported = old.reported
     /\ new.pending_release = old.pending_release
     /\ new.x = IF axis = "x" THEN value ELSE old.x
     /\ new.y = IF axis = "x" THEN old.y ELSE value
     /\ new.dirty = FALSE => old.dirty = FALSE /\ new.x = old.x /\ new.y = old.y

LEMMA Updated ==
  ASSUME NEW t \in Tracker, NEW s \in Slot, NEW axis, NEW value,
         (axis = "x" /\ value \in X) \/ (axis = "y" /\ value \in Y),
         NEW u, u = Update(t, s, axis, value)
  PROVE  Coordinate(t, s, axis, value, u)
<1> DEFINE old == t.slots[s]
           dirt == old.dirty \/ old[axis] # value
           new == [old EXCEPT ![axis] = value, !.dirty = dirt]
<1>1. old \in SlotState /\ t.slots \in [Slot -> SlotState]
  BY TrackerParts
<1>2. u = [t EXCEPT !.slots = [t.slots EXCEPT ![s] = new]]
  BY <1>1, TrackerParts DEF Update
<1>3. /\ new \in SlotState
      /\ new.id = old.id /\ new.reported = old.reported
      /\ new.pending_release = old.pending_release
      /\ new.x = IF axis = "x" THEN value ELSE old.x
      /\ new.y = IF axis = "x" THEN old.y ELSE value
      /\ new.dirty = dirt
  <2>1. CASE axis = "x" /\ value \in X
    BY <1>1, <2>1 DEF SlotState
  <2>2. CASE axis = "y" /\ value \in Y
    BY <1>1, <2>2 DEF SlotState
  <2> QED BY <2>1, <2>2
<1>4. /\ u.current_slot = t.current_slot /\ u.primary_slot = t.primary_slot
      /\ u.slots = [t.slots EXCEPT ![s] = new]
      /\ u \in [current_slot : Slot, primary_slot : Slot \cup {NoSlot},
                slots : [Slot -> SlotState]]
  <2> HIDE DEF new
  <2> QED BY <1>1, <1>2, <1>3, TrackerParts
<1>5. u.slots[s] = new /\ \A r \in Slot : r # s => u.slots[r] = t.slots[r]
  <2> HIDE DEF new
  <2> QED BY <1>1, <1>4
<1>6. new.dirty = FALSE => old.dirty = FALSE /\ new.x = old.x /\ new.y = old.y
  <2>1. dirt = FALSE => old.dirty = FALSE /\ old[axis] = value
    BY <1>1 DEF SlotState
  <2>2. axis = "x" \/ (axis = "y" /\ axis # "x")
    OBVIOUS
  <2> HIDE DEF new
  <2> QED BY <1>3, <2>1, <2>2
<1>7. Consistent(u)
  <2> HIDE DEF new
  <2>1. Consistent(t) /\ t.primary_slot \in Slot \cup {NoSlot} /\ None \notin X /\ None \notin Y
    BY TrackerParts, Constants
  <2>2. u.primary_slot # NoSlot =>
          u.slots[u.primary_slot].id # Off \/ u.slots[u.primary_slot].pending_release = TRUE
    BY <1>3, <1>4, <1>5, <2>1 DEF Consistent
  <2>3. ASSUME NEW r \in Slot
        PROVE  /\ u.slots[r].reported = TRUE =>
                    u.primary_slot = r /\ u.slots[r].x # None /\ u.slots[r].y # None
               /\ u.slots[r].pending_release = TRUE =>
                    u.primary_slot = r /\ u.slots[r].id = Off
    <3>1. CASE r = s
      BY <1>3, <1>4, <1>5, <2>1, <3>1 DEF Consistent
    <3>2. CASE r # s
      BY <1>4, <1>5, <2>1, <3>2 DEF Consistent
    <3> QED BY <3>1, <3>2
  <2> QED BY <2>2, <2>3 DEF Consistent
<1> HIDE DEF new
<1> QED BY <1>3, <1>4, <1>5, <1>6, <1>7 DEF Tracker, Coordinate

\* u is t with the contact id in its current slot: the first to come without a
\* primary contact becomes it.
Landed(t, id, u) ==
  LET s   == t.current_slot
      old == t.slots[s]
      new == u.slots[s]
  IN /\ u \in Tracker /\ u.current_slot = s
     /\ u.primary_slot = IF t.primary_slot = NoSlot THEN s ELSE t.primary_slot
     /\ \A r \in Slot : r # s => u.slots[r] = t.slots[r]
     /\ new.id = id /\ new.x = old.x /\ new.y = old.y /\ new.dirty = TRUE
     /\ new.reported = old.reported /\ new.pending_release = FALSE

LEMMA Identified ==
  ASSUME NEW t \in Tracker, NEW id \in Id, NEW u, u = UpdateTracking(t, id)
  PROVE  Landed(t, id, u)
<1> DEFINE s   == t.current_slot
           old == t.slots[s]
           new == [old EXCEPT !.id = id, !.pending_release = FALSE, !.dirty = TRUE]
           prim == IF t.primary_slot = NoSlot THEN s ELSE t.primary_slot
<1>1. old \in SlotState /\ t.slots \in [Slot -> SlotState] /\ s \in Slot
  BY TrackerParts
<1>2. u = [t EXCEPT !.slots = [t.slots EXCEPT ![s] = new], !.primary_slot = prim]
  BY <1>1, TrackerParts, Constants DEF UpdateTracking
<1>3. /\ new \in SlotState
      /\ new.id = id /\ new.x = old.x /\ new.y = old.y /\ new.dirty = TRUE
      /\ new.reported = old.reported /\ new.pending_release = FALSE
  BY <1>1 DEF SlotState
<1>4. /\ u.current_slot = s /\ u.primary_slot = prim
      /\ u.slots = [t.slots EXCEPT ![s] = new]
      /\ u \in [current_slot : Slot, primary_slot : Slot \cup {NoSlot},
                slots : [Slot -> SlotState]]
  <2> HIDE DEF new
  <2>1. t \in [current_slot : Slot, primary_slot : Slot \cup {NoSlot},
               slots : [Slot -> SlotState]]
    BY DEF Tracker
  <2>2. prim \in Slot \cup {NoSlot}
    BY <1>1, TrackerParts
  <2>3. [t.slots EXCEPT ![s] = new] \in [Slot -> SlotState]
    BY <1>1, <1>3
  <2>4. ASSUME NEW f \in [Slot -> SlotState], NEW q \in Slot \cup {NoSlot}
        PROVE  LET v == [t EXCEPT !.slots = f, !.primary_slot = q]
               IN /\ v.current_slot = s /\ v.primary_slot = q /\ v.slots = f
                  /\ v \in [current_slot : Slot, primary_slot : Slot \cup {NoSlot},
                            slots : [Slot -> SlotState]]
    BY <2>1
  <2>5. LET v == [t EXCEPT !.slots = [t.slots EXCEPT ![s] = new], !.primary_slot = prim]
        IN /\ v.current_slot = s /\ v.primary_slot = prim
           /\ v.slots = [t.slots EXCEPT ![s] = new]
           /\ v \in [current_slot : Slot, primary_slot : Slot \cup {NoSlot},
                     slots : [Slot -> SlotState]]
    <3> HIDE DEF prim
    <3> QED BY <2>2, <2>3, <2>4
  <2> HIDE DEF prim
  <2> QED BY <1>2, <2>5, Zenon
<1>5. u.slots[s] = new /\ \A r \in Slot : r # s => u.slots[r] = t.slots[r]
  <2> HIDE DEF new
  <2> QED BY <1>1, <1>4
<1>6. Consistent(u)
  <2> HIDE DEF new
  <2>1. Consistent(t) /\ t.primary_slot \in Slot \cup {NoSlot} /\ Off \notin Id
    BY TrackerParts, Constants
  <2>2. u.primary_slot # NoSlot =>
          u.slots[u.primary_slot].id # Off \/ u.slots[u.primary_slot].pending_release = TRUE
    BY <1>3, <1>4, <1>5, <2>1 DEF Consistent
  <2>3. ASSUME NEW r \in Slot
        PROVE  /\ u.slots[r].reported = TRUE =>
                    u.primary_slot = r /\ u.slots[r].x # None /\ u.slots[r].y # None
               /\ u.slots[r].pending_release = TRUE =>
                    u.primary_slot = r /\ u.slots[r].id = Off
    <3>1. CASE r = s
      BY <1>1, <1>3, <1>4, <1>5, <2>1, <3>1, Constants DEF Consistent
    <3>2. CASE r # s
      BY <1>1, <1>4, <1>5, <2>1, <3>2, Constants DEF Consistent
    <3> QED BY <3>1, <3>2
  <2> QED BY <2>2, <2>3 DEF Consistent
<1> HIDE DEF new
<1> QED BY <1>3, <1>4, <1>5, <1>6 DEF Tracker, Landed

\* The end of a contact: the primary one waits for the report, another is forgotten.
Gone(t, u) ==
  LET s   == t.current_slot
      old == t.slots[s]
      new == u.slots[s]
  IN /\ u \in Tracker /\ u.current_slot = s /\ u.primary_slot = t.primary_slot
     /\ \A r \in Slot : r # s => u.slots[r] = t.slots[r]
     /\ new.id = Off /\ new.x \in {None, old.x} /\ new.y \in {None, old.y}
     /\ new.pending_release = TRUE => s = t.primary_slot
     /\ s = t.primary_slot =>
          new.dirty = TRUE /\ new.reported = old.reported /\ new.pending_release = TRUE

LEMMA Lifted ==
  ASSUME NEW t \in Tracker, NEW u, u = UpdateTracking(t, Off)
  PROVE  Gone(t, u)
<1> DEFINE s   == t.current_slot
           old == t.slots[s]
           new == IF t.primary_slot = s
                  THEN [old EXCEPT !.id = Off, !.pending_release = TRUE, !.dirty = TRUE]
                  ELSE Fresh
<1>1. old \in SlotState /\ t.slots \in [Slot -> SlotState] /\ s \in Slot
  BY TrackerParts
<1>2. u = [t EXCEPT !.slots = [t.slots EXCEPT ![s] = new]]
  BY <1>1, TrackerParts, Constants DEF UpdateTracking
<1>3. /\ new \in SlotState
      /\ new.id = Off /\ new.x \in {None, old.x} /\ new.y \in {None, old.y}
      /\ s = t.primary_slot =>
           /\ new.dirty = TRUE /\ new.reported = old.reported /\ new.pending_release = TRUE
           /\ new.x = old.x /\ new.y = old.y
      /\ s # t.primary_slot => new.reported = FALSE /\ new.pending_release = FALSE
  BY <1>1 DEF SlotState, Fresh
<1>4. /\ u.current_slot = s /\ u.primary_slot = t.primary_slot
      /\ u.slots = [t.slots EXCEPT ![s] = new]
      /\ u \in [current_slot : Slot, primary_slot : Slot \cup {NoSlot},
                slots : [Slot -> SlotState]]
  <2> HIDE DEF new
  <2> QED BY <1>1, <1>2, <1>3, TrackerParts
<1>5. u.slots[s] = new /\ \A r \in Slot : r # s => u.slots[r] = t.slots[r]
  <2> HIDE DEF new
  <2> QED BY <1>1, <1>4
<1>6. Consistent(u)
  <2> HIDE DEF new
  <2>1. Consistent(t) /\ t.primary_slot \in Slot \cup {NoSlot} /\ Off \notin Id
    BY TrackerParts, Constants
  <2>2. u.primary_slot # NoSlot =>
          u.slots[u.primary_slot].id # Off \/ u.slots[u.primary_slot].pending_release = TRUE
    BY <1>3, <1>4, <1>5, <2>1 DEF Consistent
  <2>3. ASSUME NEW r \in Slot
        PROVE  /\ u.slots[r].reported = TRUE =>
                    u.primary_slot = r /\ u.slots[r].x # None /\ u.slots[r].y # None
               /\ u.slots[r].pending_release = TRUE =>
                    u.primary_slot = r /\ u.slots[r].id = Off
    <3>1. CASE r = s
      BY <1>1, <1>3, <1>4, <1>5, <2>1, <3>1, Constants DEF Consistent
    <3>2. CASE r # s
      BY <1>1, <1>4, <1>5, <2>1, <3>2, Constants DEF Consistent
    <3> QED BY <3>1, <3>2
  <2> QED BY <2>2, <2>3 DEF Consistent
<1> HIDE DEF new
<1> QED BY <1>3, <1>4, <1>5, <1>6 DEF Tracker, Gone

\* The end of a frame, without a primary contact.
LEMMA SynchronizedIdle ==
  ASSUME NEW t \in Tracker, t.primary_slot = NoSlot
  PROVE  Synchronize(t) = t
BY DEF Synchronize

\* The end of a frame in which the primary contact lifted.
LEMMA SynchronizedRelease ==
  ASSUME NEW t \in Tracker, NEW s \in Slot, t.primary_slot = s,
         t.slots[s].pending_release = TRUE
  PROVE  LET u == Synchronize(t)
         IN /\ u \in Tracker /\ u.current_slot = t.current_slot /\ u.primary_slot = NoSlot
            /\ \A r \in Slot : r # s => u.slots[r] = t.slots[r]
            /\ u.slots[s] = Fresh
<1> DEFINE u == [t EXCEPT !.slots = [t.slots EXCEPT ![s] = Fresh], !.primary_slot = NoSlot]
<1>1. t.slots \in [Slot -> SlotState] /\ t.current_slot \in Slot /\ Fresh \in SlotState
  BY TrackerParts DEF SlotState, Fresh
<1>2. Synchronize(t) = u
  BY <1>1, TrackerParts, Constants DEF Synchronize
<1>3. /\ u.current_slot = t.current_slot /\ u.primary_slot = NoSlot
      /\ u.slots = [t.slots EXCEPT ![s] = Fresh]
      /\ u \in [current_slot : Slot, primary_slot : Slot \cup {NoSlot},
                slots : [Slot -> SlotState]]
  <2>1. t \in [current_slot : Slot, primary_slot : Slot \cup {NoSlot},
               slots : [Slot -> SlotState]]
    BY DEF Tracker
  <2>2. [t.slots EXCEPT ![s] = Fresh] \in [Slot -> SlotState]
    BY <1>1
  <2> QED BY <2>1, <2>2
<1>4. u.slots[s] = Fresh /\ \A r \in Slot : r # s => u.slots[r] = t.slots[r]
  <2> HIDE DEF u
  <2> QED BY <1>1, <1>3
<1>5. Consistent(u)
  <2> HIDE DEF u
  <2>1. Consistent(t)
    BY TrackerParts
  <2>2. Fresh.reported = FALSE /\ Fresh.pending_release = FALSE
    BY DEF Fresh
  <2>3. ASSUME NEW r \in Slot
        PROVE  u.slots[r].reported # TRUE /\ u.slots[r].pending_release # TRUE
    BY <1>4, <2>1, <2>2 DEF Consistent
  <2> QED BY <1>3, <2>3 DEF Consistent
<1> HIDE DEF u
<1> QED BY <1>2, <1>3, <1>4, <1>5 DEF Tracker

\* The end of a frame, with the primary contact on the panel.
LEMMA SynchronizedContact ==
  ASSUME NEW t \in Tracker, NEW s \in Slot, t.primary_slot = s,
         t.slots[s].pending_release # TRUE
  PROVE  LET u   == Synchronize(t)
             old == t.slots[s]
             new == u.slots[s]
         IN /\ u \in Tracker /\ u.current_slot = t.current_slot /\ u.primary_slot = s
            /\ \A r \in Slot : r # s => u.slots[r] = t.slots[r]
            /\ new.id = old.id /\ new.x = old.x /\ new.y = old.y
            /\ new.pending_release = FALSE
            /\ IF old.x = None \/ old.y = None THEN new = old
               ELSE new.reported = TRUE /\ new.dirty = FALSE
<1> DEFINE old == t.slots[s]
           new == IF Incomplete(old) THEN old
                  ELSE [old EXCEPT !.reported = TRUE, !.dirty = FALSE]
           u   == [t EXCEPT !.slots = [t.slots EXCEPT ![s] = new]]
<1>1. /\ old \in SlotState /\ t.slots \in [Slot -> SlotState]
      /\ old.id # Off /\ old.pending_release = FALSE
  <2>1. /\ old \in SlotState /\ t.slots \in [Slot -> SlotState]
        /\ old.pending_release = FALSE
    BY TrackerParts DEF SlotState
  <2> QED BY <2>1, TrackerParts, Constants DEF Consistent
<1>2. Synchronize(t) = u
  BY <1>1, TrackerParts, Constants DEF Synchronize
<1>3. /\ new \in SlotState
      /\ new.id = old.id /\ new.x = old.x /\ new.y = old.y
      /\ new.pending_release = FALSE
      /\ IF old.x = None \/ old.y = None THEN new = old
         ELSE new.reported = TRUE /\ new.dirty = FALSE
  BY <1>1 DEF SlotState, Incomplete
<1>4. /\ u.current_slot = t.current_slot /\ u.primary_slot = t.primary_slot
      /\ u.slots = [t.slots EXCEPT ![s] = new]
      /\ u \in [current_slot : Slot, primary_slot : Slot \cup {NoSlot},
                slots : [Slot -> SlotState]]
  <2> HIDE DEF new
  <2> QED BY <1>1, <1>3, TrackerParts
<1>5. u.slots[s] = new /\ \A r \in Slot : r # s => u.slots[r] = t.slots[r]
  <2> HIDE DEF new, u
  <2> QED BY <1>1, <1>4
<1>6. Consistent(u)
  <2> HIDE DEF new, u
  <2>1. Consistent(t)
    BY TrackerParts
  <2>2. u.primary_slot = s /\ u.slots[s].id # Off
    BY <1>1, <1>3, <1>4, <1>5
  <2>3. ASSUME NEW r \in Slot
        PROVE  /\ u.slots[r].reported = TRUE =>
                    u.primary_slot = r /\ u.slots[r].x # None /\ u.slots[r].y # None
               /\ u.slots[r].pending_release = TRUE =>
                    u.primary_slot = r /\ u.slots[r].id = Off
    <3>1. CASE r = s
      BY <1>3, <1>5, <2>1, <2>2, <3>1 DEF Consistent
    <3>2. CASE r # s
      BY <1>4, <1>5, <2>1, <3>2 DEF Consistent
    <3> QED BY <3>1, <3>2
  <2> QED BY <2>2, <2>3 DEF Consistent
<1> HIDE DEF u, new
<1> QED BY <1>2, <1>3, <1>4, <1>5, <1>6 DEF Tracker

\* Whatever is pushed, a tracker remains.
LEMMA PushedTracker ==
  ASSUME NEW t \in Tracker, NEW record \in Record, record.type # "dropped"
  PROVE  Pushed(t, record) \in Tracker
<1>1. CASE record.type = "syn"
  <2>1. Pushed(t, record) = Synchronize(t)
    BY <1>1 DEF Pushed
  <2>2. t.primary_slot \in Slot \/ t.primary_slot = NoSlot
    BY TrackerParts
  <2>3. CASE t.primary_slot = NoSlot
    BY <2>1, <2>3, SynchronizedIdle
  <2>4. CASE t.primary_slot \in Slot
    <3>1. CASE t.slots[t.primary_slot].pending_release = TRUE
      BY <2>1, <2>4, <3>1, SynchronizedRelease
    <3>2. CASE t.slots[t.primary_slot].pending_release # TRUE
      BY <2>1, <2>4, <3>2, SynchronizedContact
    <3> QED BY <3>1, <3>2
  <2> QED BY <2>2, <2>3, <2>4
<1>2. CASE record.type = "slot"
  <2>1. record.value \in Slot
    BY <1>2 DEF Record
  <2>2. Pushed(t, record) = [t EXCEPT !.current_slot = record.value]
    BY <1>2 DEF Pushed
  <2> QED BY <2>1, <2>2 DEF Tracker, Consistent
<1>3. CASE record.type \in {"mtx", "x"}
  <2>1. record.value \in X /\ t.current_slot \in Slot /\ 0 \in Slot
    BY <1>3, TrackerParts, Constants DEF Record
  <2>2. PICK s \in Slot, value \in X :
          \E u : u = Pushed(t, record) /\ u = Update(t, s, "x", value)
    BY <1>3, <2>1 DEF Pushed
  <2>3. PICK u : u = Pushed(t, record) /\ u = Update(t, s, "x", value)
    BY <2>2, Zenon
  <2>4. Coordinate(t, s, "x", value, u)
    BY <2>3, Updated, Zenon
  <2> QED BY <2>3, <2>4 DEF Coordinate
<1>4. CASE record.type \in {"mty", "y"}
  <2>1. record.value \in Y /\ t.current_slot \in Slot /\ 0 \in Slot
    BY <1>4, TrackerParts, Constants DEF Record
  <2>2. PICK s \in Slot, value \in Y :
          \E u : u = Pushed(t, record) /\ u = Update(t, s, "y", value)
    BY <1>4, <2>1 DEF Pushed
  <2>3. PICK u : u = Pushed(t, record) /\ u = Update(t, s, "y", value)
    BY <2>2, Zenon
  <2>4. Coordinate(t, s, "y", value, u)
    BY <2>3, Updated, Zenon
  <2> QED BY <2>3, <2>4 DEF Coordinate
<1>5. CASE record.type = "id"
  <2>1. record.value \in Id \cup {Off}
    BY <1>5 DEF Record
  <2>2. Pushed(t, record) = UpdateTracking(t, record.value)
    BY <1>5 DEF Pushed
  <2>3. CASE record.value = Off
    BY <2>2, <2>3, Lifted DEF Gone
  <2>4. CASE record.value \in Id
    BY <2>2, <2>4, Identified DEF Landed
  <2> QED BY <2>1, <2>3, <2>4
<1> QED BY <1>1, <1>2, <1>3, <1>4, <1>5 DEF Record

(***************************************************************************)
(* The pointer, and what the tracker and the contacts under way make of it.*)
(***************************************************************************)
Hand ==
  {m \in [pointer : [down : BOOLEAN, at : Point \cup {NoPoint}], owner : Id \cup {Off}] :
     m.pointer.down = TRUE <=> m.owner # Off}

Held(t) == t.primary_slot # NoSlot /\ t.slots[t.primary_slot].reported = TRUE

\* The pointer is what the tracker has reported: down while the primary contact
\* is reported and, if the panel was not in use at the open, that contact's, at
\* the place last reported.
Shows(t, m) ==
  /\ m.pointer.down = TRUE <=> Held(t)
  /\ OpenedWhile # "in use" /\ Held(t) =>
       LET primary == t.slots[t.primary_slot]
       IN /\ primary.pending_release # TRUE => m.owner = primary.id
          /\ primary.dirty # TRUE => m.pointer.at = [x |-> primary.x, y |-> primary.y]

Legal(m, contact) ==
  /\ contact.phase \in {"Pressed", "Moved", "Released"}
  /\ contact.phase = "Pressed" <=> m.pointer.down # TRUE
  /\ contact.phase # "Released" => contact.at \in Point /\ contact.id \in Id

\* Dispatch, of any pointer.
After(m, contact) ==
  [pointer |-> IF contact.phase = "Released" THEN Up ELSE [down |-> TRUE, at |-> contact.at],
   owner   |-> CASE contact.phase = "Pressed"  -> contact.id
                 [] contact.phase = "Moved"    -> m.owner
                 [] contact.phase = "Released" -> Off]

LEMMA AfterHand ==
  ASSUME NEW m \in Hand, NEW contact, Legal(m, contact)
  PROVE  After(m, contact) \in Hand
<1>1. CASE contact.phase = "Pressed"
  BY <1>1, Constants DEF Legal, After, Hand
<1>2. CASE contact.phase = "Moved"
  BY <1>2 DEF Legal, After, Hand
<1>3. CASE contact.phase = "Released"
  BY <1>3 DEF Legal, After, Hand, Up
<1> QED BY <1>1, <1>2, <1>3 DEF Legal

\* What a kernel in step with the tracker may send: an id only for a slot without one.
Expected(t, record) ==
  record.type = "id" /\ record.value # Off =>
    t.slots[t.current_slot].id = Off /\ t.slots[t.current_slot].pending_release = FALSE

\* Within a frame the pointer stays right.
LEMMA ShowsWithinFrame ==
  ASSUME NEW t \in Tracker, NEW record \in Record, record.type \notin {"syn", "dropped"},
         OpenedWhile # "in use" => Expected(t, record),
         NEW m \in Hand, Shows(t, m)
  PROVE  Shows(Pushed(t, record), m)
<1> SUFFICES ASSUME NEW u, u = Pushed(t, record)
            PROVE  Shows(u, m)
  OBVIOUS
<1>1. CASE record.type = "slot"
  <2>1. u.primary_slot = t.primary_slot /\ u.slots = t.slots
    <3>1. u = [t EXCEPT !.current_slot = record.value]
      BY <1>1 DEF Pushed
    <3>2. t \in [current_slot : Slot, primary_slot : Slot \cup {NoSlot},
                 slots : [Slot -> SlotState]]
      BY DEF Tracker
    <3> QED BY <3>1, <3>2
  <2> QED BY <2>1 DEF Shows, Held
<1>2. CASE record.type \in {"mtx", "mty", "x", "y"}
  <2>1. PICK s \in Slot, axis \in Axis, value \in X \cup Y :
          /\ u = Update(t, s, axis, value)
          /\ (axis = "x" /\ value \in X) \/ (axis = "y" /\ value \in Y)
    <3>1. t.current_slot \in Slot /\ 0 \in Slot
      BY TrackerParts, Constants
    <3>2. CASE record.type = "mtx"
      <4>1. record.value \in X /\ u = Update(t, t.current_slot, "x", record.value)
        BY <3>2 DEF Record, Pushed
      <4> QED BY <3>1, <4>1 DEF Axis
    <3>3. CASE record.type = "mty"
      <4>1. record.value \in Y /\ u = Update(t, t.current_slot, "y", record.value)
        BY <3>3 DEF Record, Pushed
      <4> QED BY <3>1, <4>1 DEF Axis
    <3>4. CASE record.type = "x"
      <4>1. record.value \in X /\ u = Update(t, 0, "x", record.value)
        BY <3>4 DEF Record, Pushed
      <4> QED BY <3>1, <4>1 DEF Axis
    <3>5. CASE record.type = "y"
      <4>1. record.value \in Y /\ u = Update(t, 0, "y", record.value)
        BY <3>5 DEF Record, Pushed
      <4> QED BY <3>1, <4>1 DEF Axis
    <3> QED BY <1>2, <3>2, <3>3, <3>4, <3>5
  <2>2. /\ u.primary_slot = t.primary_slot
        /\ \A r \in Slot : r # s => u.slots[r] = t.slots[r]
        /\ u.slots[s].id = t.slots[s].id /\ u.slots[s].reported = t.slots[s].reported
        /\ u.slots[s].pending_release = t.slots[s].pending_release
        /\ u.slots[s].dirty = FALSE =>
             t.slots[s].dirty = FALSE /\ u.slots[s].x = t.slots[s].x /\ u.slots[s].y = t.slots[s].y
        /\ u \in Tracker
    <3>1. Coordinate(t, s, axis, value, u)
      BY <2>1, Updated, Zenon
    <3> QED BY <3>1 DEF Coordinate
  <2>3. t.primary_slot \in Slot \cup {NoSlot} /\ u.slots[s].dirty \in BOOLEAN
    BY <2>2, TrackerParts DEF SlotState
  <2>4. CASE t.primary_slot = s
    <3>1. Held(u) <=> Held(t)
      BY <2>2, <2>4 DEF Held
    <3>2. ASSUME OpenedWhile # "in use", Held(t)
          PROVE  /\ u.slots[s].pending_release # TRUE => m.owner = u.slots[s].id
                 /\ u.slots[s].dirty # TRUE =>
                      m.pointer.at = [x |-> u.slots[s].x, y |-> u.slots[s].y]
      <4>1. /\ t.slots[s].pending_release # TRUE => m.owner = t.slots[s].id
            /\ t.slots[s].dirty # TRUE =>
                 m.pointer.at = [x |-> t.slots[s].x, y |-> t.slots[s].y]
        BY <2>4, <3>2 DEF Shows
      <4> QED BY <2>2, <2>3, <4>1
    <3>3. u.primary_slot = s
      BY <2>2, <2>4
    <3> QED BY <3>1, <3>2, <3>3 DEF Shows
  <2>5. CASE t.primary_slot # s
    <3>1. Held(u) <=> Held(t)
      BY <2>2, <2>3, <2>5 DEF Held
    <3>2. Held(t) => u.slots[u.primary_slot] = t.slots[t.primary_slot]
      BY <2>2, <2>3, <2>5 DEF Held
    <3> QED BY <3>1, <3>2 DEF Shows
  <2> QED BY <2>4, <2>5
<1>3. CASE record.type = "id" /\ record.value = Off
  <2>1. u = UpdateTracking(t, Off)
    BY <1>3 DEF Pushed
  <2> DEFINE s == t.current_slot
  <2>2. /\ s \in Slot /\ u.primary_slot = t.primary_slot
        /\ \A r \in Slot : r # s => u.slots[r] = t.slots[r]
        /\ s = t.primary_slot =>
             /\ u.slots[s].dirty = TRUE /\ u.slots[s].pending_release = TRUE
             /\ u.slots[s].reported = t.slots[s].reported
    <3>1. Gone(t, u)
      BY <2>1, Lifted, Zenon
    <3> QED BY <3>1, TrackerParts DEF Gone
  <2>3. t.primary_slot \in Slot \cup {NoSlot}
    BY TrackerParts
  <2>4. CASE t.primary_slot = s
    BY <2>2, <2>3, <2>4 DEF Shows, Held
  <2>5. CASE t.primary_slot # s
    <3>1. Held(u) <=> Held(t)
      BY <2>2, <2>3, <2>5 DEF Held
    <3>2. Held(t) => u.slots[u.primary_slot] = t.slots[t.primary_slot]
      BY <2>2, <2>3, <2>5 DEF Held
    <3> QED BY <3>1, <3>2 DEF Shows
  <2> QED BY <2>4, <2>5
<1>4. CASE record.type = "id" /\ record.value # Off
  <2>1. u = UpdateTracking(t, record.value) /\ record.value \in Id
    BY <1>4 DEF Pushed, Record
  <2> DEFINE s == t.current_slot
  <2>2. /\ s \in Slot
        /\ u.primary_slot = IF t.primary_slot = NoSlot THEN s ELSE t.primary_slot
        /\ \A r \in Slot : r # s => u.slots[r] = t.slots[r]
        /\ u.slots[s].reported = t.slots[s].reported
    <3>1. Landed(t, record.value, u)
      BY <2>1, Identified, Zenon
    <3> QED BY <3>1, TrackerParts DEF Landed
  <2>3. t.primary_slot \in Slot \cup {NoSlot} /\ Consistent(t)
    BY TrackerParts
  <2>4. Held(u) <=> Held(t)
    <3>1. NoSlot \notin Slot
      BY Constants
    <3>2. CASE t.primary_slot = NoSlot
      <4>1. u.primary_slot = s /\ ~Held(t)
        BY <2>2, <3>2 DEF Held
      <4>2. t.slots[s].reported # TRUE
        BY <2>2, <2>3, <3>1, <3>2 DEF Consistent
      <4> QED BY <2>2, <4>1, <4>2 DEF Held
    <3>3. CASE t.primary_slot # NoSlot
      <4>1. u.primary_slot = t.primary_slot /\ t.primary_slot \in Slot
        BY <2>2, <2>3, <3>3
      <4>2. u.slots[t.primary_slot].reported = t.slots[t.primary_slot].reported
        BY <2>2, <4>1
      <4> QED BY <4>1, <4>2 DEF Held
    <3> QED BY <3>2, <3>3
  <2>5. CASE OpenedWhile = "in use"
    BY <2>4, <2>5 DEF Shows
  <2>6. CASE OpenedWhile # "in use"
    <3>1. t.slots[s].id = Off /\ t.slots[s].pending_release = FALSE
      BY <1>4, <2>6 DEF Expected
    <3>2. t.primary_slot # s
      BY <2>2, <2>3, <3>1, Constants DEF Consistent
    <3>3. Held(t) => u.slots[u.primary_slot] = t.slots[t.primary_slot]
      BY <2>2, <2>3, <3>2 DEF Held
    <3> QED BY <2>4, <3>3 DEF Shows
  <2> QED BY <2>5, <2>6
<1> QED BY <1>1, <1>2, <1>3, <1>4 DEF Record

\* At its end at most one contact is due, the one the pointer waits for.
LEMMA ShowsAfterFrame ==
  ASSUME NEW t \in Tracker
  PROVE  \/ /\ Reports(t) = <<>>
            /\ \A m \in Hand : Shows(t, m) => Shows(Synchronize(t), m)
         \/ \E contact :
              /\ Reports(t) = <<contact>>
              /\ \A m \in Hand : Shows(t, m) =>
                   Legal(m, contact) /\ Shows(Synchronize(t), After(m, contact))
<1> DEFINE s     == t.primary_slot
           state == t.slots[s]
           u     == Synchronize(t)
<1>1. s \in Slot \cup {NoSlot} /\ Consistent(t)
  BY TrackerParts
<1>2. CASE s = NoSlot
  <2>1. Reports(t) = <<>> /\ Synchronize(t) = t
    BY <1>2, SynchronizedIdle DEF Reports
  <2> QED BY <2>1
<1>3. CASE s \in Slot
  <2>1. state \in SlotState /\ s # NoSlot
    BY <1>3, TrackerParts, Constants
  <2>2. CASE state.pending_release = TRUE
    <3>1. u.primary_slot = NoSlot
      BY <1>3, <2>2, SynchronizedRelease
    <3>2. CASE state.reported = TRUE
      <4> DEFINE contact == Contact("Released", state)
      <4>1. Reports(t) = <<contact>> /\ contact.phase = "Released"
        BY <2>1, <2>2, <3>2 DEF Reports, Contact
      <4>2. ASSUME NEW m \in Hand, Shows(t, m)
            PROVE  Legal(m, contact) /\ Shows(u, After(m, contact))
        <5>1. m.pointer.down = TRUE
          BY <2>1, <3>2, <4>2 DEF Shows, Held
        <5>2. After(m, contact).pointer.down = FALSE
          BY <4>1 DEF After, Up
        <5> HIDE DEF u, contact
        <5> QED BY <3>1, <4>1, <5>1, <5>2 DEF Legal, Shows, Held
      <4> QED BY <4>1, <4>2
    <3>3. CASE state.reported # TRUE
      <4>1. Reports(t) = <<>>
        BY <2>1, <2>2, <3>3 DEF Reports, SlotState
      <4>2. ~Held(t) /\ ~Held(u)
        BY <3>1, <3>3 DEF Held
      <4> HIDE DEF u
      <4>3. \A m \in Hand : Shows(t, m) => Shows(u, m)
        BY <4>2 DEF Shows
      <4> QED BY <4>1, <4>3 DEF u
    <3> QED BY <3>2, <3>3
  <2>3. CASE state.pending_release # TRUE
    <3> DEFINE new == u.slots[s]
    <3>1. /\ u.primary_slot = s
          /\ new.id = state.id /\ new.x = state.x /\ new.y = state.y
          /\ new.pending_release = FALSE
          /\ IF state.x = None \/ state.y = None THEN new = state
             ELSE new.reported = TRUE /\ new.dirty = FALSE
      BY <1>3, <2>3, SynchronizedContact
    <3>2. state.pending_release = FALSE /\ state.id \in Id
      BY <2>1, <2>3, <1>1 DEF Consistent, SlotState
    <3>3. CASE state.x = None \/ state.y = None
      <4>1. Reports(t) = <<>>
        BY <2>1, <3>2, <3>3 DEF Reports, Incomplete
      <4> HIDE DEF u
      <4>2. \A m \in Hand : Shows(t, m) => Shows(u, m)
        BY <3>1, <3>3 DEF Shows, Held
      <4> QED BY <4>1, <4>2 DEF u
    <3>4. CASE state.x # None /\ state.y # None
      <4>1. ~Incomplete(state)
        BY <3>2, <3>4, Constants DEF Incomplete
      <4>2. [x |-> state.x, y |-> state.y] \in Point
        BY <2>1, <3>4 DEF SlotState, Point
      <4>3. ASSUME NEW phase \in {"Pressed", "Moved"}, NEW m \in Hand, Shows(t, m),
                   phase = "Pressed" <=> state.reported # TRUE
            PROVE  /\ Legal(m, Contact(phase, state))
                   /\ Shows(u, After(m, Contact(phase, state)))
        <5> DEFINE contact == Contact(phase, state)
                   n == After(m, contact)
        <5>1. /\ contact.phase = phase /\ contact.id = state.id
              /\ contact.at = [x |-> state.x, y |-> state.y]
          BY DEF Contact
        <5>2. Held(t) <=> state.reported = TRUE
          BY <2>1 DEF Held
        <5>3. Legal(m, contact)
          <6> HIDE DEF contact
          <6> QED BY <4>2, <4>3, <5>1, <5>2, <3>2 DEF Legal, Shows
        <5>4. /\ n.pointer.down = TRUE /\ n.pointer.at = [x |-> state.x, y |-> state.y]
              /\ n.owner = IF phase = "Pressed" THEN state.id ELSE m.owner
          <6> HIDE DEF contact
          <6> QED BY <5>1 DEF After
        <5>5. OpenedWhile # "in use" => n.owner = state.id
          BY <4>3, <5>2, <5>4, <3>2 DEF Shows
        <5> HIDE DEF n, contact, u
        <5> QED BY <5>3, <5>4, <5>5, <3>1, <3>4, <2>1 DEF Shows, Held, n, contact
      <4>4. CASE state.reported # TRUE
        <5>1. Reports(t) = <<Contact("Pressed", state)>>
          BY <2>1, <3>2, <4>1, <4>4 DEF Reports, SlotState
        <5> QED BY <5>1, <4>3, <4>4
      <4>5. CASE state.reported = TRUE /\ state.dirty = TRUE
        <5>1. Reports(t) = <<Contact("Moved", state)>>
          BY <2>1, <3>2, <4>1, <4>5 DEF Reports, SlotState
        <5> QED BY <5>1, <4>3, <4>5
      <4>6. CASE state.reported = TRUE /\ state.dirty # TRUE
        <5>1. Reports(t) = <<>>
          BY <2>1, <3>2, <4>1, <4>6 DEF Reports, SlotState
        <5> HIDE DEF u
        <5>2. \A m \in Hand : Shows(t, m) => Shows(u, m)
          BY <3>1, <3>2, <3>4, <4>6, <2>1 DEF Shows, Held
        <5> QED BY <5>1, <5>2 DEF u
      <4> QED BY <4>4, <4>5, <4>6
    <3> QED BY <3>3, <3>4
  <2> QED BY <2>2, <2>3
<1> QED BY <1>1, <1>2, <1>3

\* The contacts under way lead the pointer from m to what the tracker shows.
Leads(m, under, t) ==
  \E hands \in [0 .. Len(under) -> Hand] :
    /\ hands[0] = m /\ Shows(t, hands[Len(under)])
    /\ \A i \in 1 .. Len(under) :
         Legal(hands[i - 1], under[i]) /\ hands[i] = After(hands[i - 1], under[i])

LEMMA LeadsEmpty ==
  ASSUME NEW t, NEW m \in Hand
  PROVE  Leads(m, <<>>, t) <=> Shows(t, m)
<1>1. ASSUME Shows(t, m) PROVE Leads(m, <<>>, t)
  <2> DEFINE hands == [i \in 0 .. 0 |-> m]
  <2>1. hands \in [0 .. 0 -> Hand] /\ hands[0] = m
    OBVIOUS
  <2>2. Len(<<>>) = 0
    OBVIOUS
  <2> HIDE DEF hands
  <2> QED BY <1>1, <2>1, <2>2 DEF Leads
<1>2. ASSUME Leads(m, <<>>, t) PROVE Shows(t, m)
  BY <1>2 DEF Leads
<1> QED BY <1>1, <1>2

\* The first of them can be dispatched.
LEMMA LeadsOn ==
  ASSUME NEW t, NEW m \in Hand, NEW S, NEW under \in Seq(S), under # <<>>,
         Leads(m, under, t)
  PROVE  /\ Legal(m, Head(under)) /\ After(m, Head(under)) \in Hand
         /\ Leads(After(m, Head(under)), Tail(under), t)
<1>1. /\ Len(under) \in Nat \ {0} /\ Len(Tail(under)) = Len(under) - 1
      /\ \A i \in 1 .. Len(Tail(under)) : Tail(under)[i] = under[i + 1]
      /\ Head(under) = under[1]
  BY EmptySeq, HeadTailProperties
<1>2. PICK hands \in [0 .. Len(under) -> Hand] :
        /\ hands[0] = m /\ Shows(t, hands[Len(under)])
        /\ \A i \in 1 .. Len(under) :
             Legal(hands[i - 1], under[i]) /\ hands[i] = After(hands[i - 1], under[i])
  BY DEF Leads
<1>3. Legal(m, Head(under)) /\ hands[1] = After(m, Head(under)) /\ hands[1] \in Hand
  BY <1>1, <1>2
<1> DEFINE n == Len(under) - 1
           rest == [i \in 0 .. n |-> hands[i + 1]]
<1>4. n \in Nat /\ rest \in [0 .. n -> Hand] /\ rest[0] = hands[1]
      /\ rest[n] = hands[Len(under)] /\ Len(Tail(under)) = n
  BY <1>1
<1>5. ASSUME NEW i \in 1 .. n
      PROVE  Legal(rest[i - 1], Tail(under)[i]) /\ rest[i] = After(rest[i - 1], Tail(under)[i])
  <2>1. i + 1 \in 1 .. Len(under) /\ i + 1 - 1 = i /\ i - 1 + 1 = i
        /\ i \in 0 .. n /\ i - 1 \in 0 .. n
    BY <1>1
  <2>2. Legal(hands[i], under[i + 1]) /\ hands[i + 1] = After(hands[i], under[i + 1])
    BY <1>2, <2>1
  <2>3. rest[i - 1] = hands[i] /\ rest[i] = hands[i + 1] /\ Tail(under)[i] = under[i + 1]
    BY <1>1, <2>1
  <2> HIDE DEF rest, n
  <2> QED BY <2>2, <2>3
<1> HIDE DEF rest, n
<1>6. Leads(After(m, Head(under)), Tail(under), t)
  BY <1>2, <1>3, <1>4, <1>5 DEF Leads
<1> QED BY <1>3, <1>6

\* The tracker may change without a report.
LEMMA LeadsStill ==
  ASSUME NEW t, NEW u, NEW m \in Hand, NEW under, Len(under) \in Nat, Leads(m, under, t),
         \A n \in Hand : Shows(t, n) => Shows(u, n)
  PROVE  Leads(m, under, u)
BY DEF Leads

\* A report comes after them.
LEMMA LeadsFurther ==
  ASSUME NEW t, NEW u, NEW m \in Hand, NEW S, NEW under \in Seq(S), NEW contact \in S,
         Leads(m, under, t),
         \A n \in Hand : Shows(t, n) => Legal(n, contact) /\ Shows(u, After(n, contact))
  PROVE  Leads(m, under \o <<contact>>, u)
<1> DEFINE k == Len(under)
           more == under \o <<contact>>
<1>1. /\ k \in Nat /\ Len(more) = k + 1 /\ more[k + 1] = contact
      /\ \A i \in 1 .. k : more[i] = under[i]
  OBVIOUS
<1>2. PICK hands \in [0 .. k -> Hand] :
        /\ hands[0] = m /\ Shows(t, hands[k])
        /\ \A i \in 1 .. k :
             Legal(hands[i - 1], under[i]) /\ hands[i] = After(hands[i - 1], under[i])
  BY DEF Leads
<1> DEFINE last == After(hands[k], contact)
           longer == [i \in 0 .. k + 1 |-> IF i <= k THEN hands[i] ELSE last]
<1>3. hands[k] \in Hand /\ Legal(hands[k], contact) /\ Shows(u, last) /\ last \in Hand
  BY <1>1, <1>2, AfterHand
<1>4. /\ longer \in [0 .. k + 1 -> Hand] /\ longer[0] = m /\ longer[k + 1] = last
      /\ \A i \in 0 .. k : longer[i] = hands[i]
  <2> HIDE DEF last, k
  <2> QED BY <1>1, <1>2, <1>3
<1>5. ASSUME NEW i \in 1 .. k + 1
      PROVE  Legal(longer[i - 1], more[i]) /\ longer[i] = After(longer[i - 1], more[i])
  <2>1. CASE i = k + 1
    <3>1. longer[i - 1] = hands[k] /\ longer[i] = last /\ more[i] = contact
      BY <1>1, <1>4, <2>1
    <3> HIDE DEF longer, more
    <3> QED BY <1>3, <3>1
  <2>2. CASE i \in 1 .. k
    <3>1. longer[i - 1] = hands[i - 1] /\ longer[i] = hands[i] /\ more[i] = under[i]
      BY <1>1, <1>4, <2>2
    <3> HIDE DEF longer, more
    <3> QED BY <1>2, <2>2, <3>1
  <2> QED BY <1>1, <2>1, <2>2
<1> HIDE DEF longer, more, k, last
<1>6. Leads(m, more, u)
  BY <1>1, <1>3, <1>4, <1>5 DEF Leads
<1> QED BY <1>6 DEF more

(***************************************************************************)
(* The kernel.                                                             *)
(***************************************************************************)
KernelTyped ==
  /\ panel \in [Slot -> Id \cup {Off}] /\ raw \in [Slot -> Point \cup {NoPoint}]
  /\ kslot \in Slot /\ emulated \in Point \cup {NoPoint} /\ landed \in 0 .. MaxContacts
  /\ alone \in [id : Id \cup {Off}, axes : SUBSET Axis]

\* No two contacts have one id, no id is used before a contact has landed with it,
\* and the contact that is alone is on the panel.
IdsAreUnique ==
  /\ \A s \in Slot : panel[s] <= landed
  /\ \A s, t \in Slot : panel[s] # Off /\ s # t => panel[s] # panel[t]
  /\ alone.id \in 0 .. landed
  /\ alone.id \in {Off} \cup {panel[s] : s \in Slot}

\* A frame that puts p on the panel, at r.
Follows(on, moved, p, r) ==
  /\ on \in SUBSET Slot /\ moved \in [on -> Point]
  /\ p = PanelAfter(on) /\ r = RawAfter(moved)
  /\ landed + Cardinality(Landing(on)) <= MaxContacts

LEMMA Slots_Finite ==
  ASSUME NEW S \in SUBSET Slot
  PROVE  IsFiniteSet(S) /\ Cardinality(S) \in Nat
<1>1. Slot \in SUBSET Int /\ Slots - 1 \in Int /\ Slot = 0 .. Slots - 1
  BY Constants DEF Slot
<1>2. IsFiniteSet(Slot)
  BY <1>1, FS_Interval
<1> QED BY <1>2, FS_Subset, FS_CardinalityType

\* New contacts get new ids, in the order of their slots.
LEMMA LandingIds ==
  ASSUME NEW L \in SUBSET Slot
  PROVE  /\ \A s \in L : Cardinality({t \in L : t <= s}) \in 1 .. Cardinality(L)
         /\ \A s, t \in L : s # t =>
              Cardinality({q \in L : q <= s}) # Cardinality({q \in L : q <= t})
<1> DEFINE Below(s) == {q \in L : q <= s}
<1>1. IsFiniteSet(L) /\ Cardinality(L) \in Nat
  BY Slots_Finite
<1>2. \A s \in L : IsFiniteSet(Below(s)) /\ Cardinality(Below(s)) \in Nat /\ s \in Below(s)
  <2> TAKE s \in L
  <2>1. Below(s) \in SUBSET Slot /\ s \in Below(s)
    BY Constants
  <2> HIDE DEF Below
  <2> QED BY <2>1, Slots_Finite
<1>3. ASSUME NEW s \in L
      PROVE  Cardinality(Below(s)) \in 1 .. Cardinality(L)
  <2>1. Cardinality(Below(s)) <= Cardinality(L)
    <3>1. Below(s) \in SUBSET L
      OBVIOUS
    <3> HIDE DEF Below
    <3> QED BY <1>1, <3>1, FS_Subset
  <2>2. Cardinality(Below(s)) # 0
    <3> HIDE DEF Below
    <3> QED BY <1>2, FS_EmptySet
  <2> HIDE DEF Below
  <2> QED BY <1>1, <1>2, <2>1, <2>2
<1>4. ASSUME NEW s \in L, NEW t \in L, s < t
      PROVE  Cardinality(Below(s)) < Cardinality(Below(t))
  <2>1. Below(s) \in SUBSET Below(t) /\ t \notin Below(s)
    <3>1. \A q \in L : q \in Nat
      BY Constants
    <3> QED BY <3>1, <1>4
  <2>2. Below(s) # Below(t)
    BY <2>1, <1>2
  <2> HIDE DEF Below
  <2> QED BY <1>2, <2>1, <2>2, FS_Subset
<1>5. ASSUME NEW s \in L, NEW t \in L, s # t
      PROVE  Cardinality(Below(s)) # Cardinality(Below(t))
  <2>1. s \in Nat /\ t \in Nat /\ Cardinality(Below(s)) \in Nat /\ Cardinality(Below(t)) \in Nat
    BY <1>2, Constants
  <2>2. s < t \/ t < s
    BY <1>5, <2>1
  <2> HIDE DEF Below
  <2> QED BY <1>4, <2>1, <2>2
<1> QED BY <1>3, <1>5

\* What a frame may do to a slot.
LEMMA FrameFacts ==
  ASSUME KernelTyped, IdsAreUnique, NEW on, NEW moved, NEW p, NEW r, Follows(on, moved, p, r)
  PROVE  /\ p \in [Slot -> Id \cup {Off}] /\ r \in [Slot -> Point \cup {NoPoint}]
         /\ landed + Cardinality(Landing(on)) \in landed .. MaxContacts
         /\ \A s \in Slot :
              /\ \/ p[s] = Off \/ p[s] = panel[s]
                 \/ panel[s] = Off /\ p[s] \in landed + 1 .. landed + Cardinality(Landing(on))
              /\ r[s] = raw[s] \/ r[s] \in Point
         /\ \A s, t \in Slot : p[s] # Off /\ s # t => p[s] # p[t]
<1> DEFINE L == Landing(on)
           c == Cardinality(L)
<1>1. /\ L \in SUBSET Slot /\ on \in SUBSET Slot /\ L = on \ Touched(panel)
      /\ c \in Nat /\ landed \in Nat /\ landed + c <= MaxContacts /\ MaxContacts \in Nat
  <2>1. L \in SUBSET Slot /\ on \in SUBSET Slot /\ L = on \ Touched(panel)
    BY DEF Follows, Landing
  <2>2. c \in Nat
    <3> HIDE DEF L
    <3> QED BY <2>1, Slots_Finite
  <2> QED BY <2>1, <2>2, Constants DEF Follows, KernelTyped
<1>2. \A s \in Slot :
        p[s] = IF s \notin on THEN Off
               ELSE IF s \in L THEN landed + Cardinality({t \in L : t <= s}) ELSE panel[s]
  BY DEF Follows, PanelAfter
<1>3. /\ \A s \in L : Cardinality({t \in L : t <= s}) \in 1 .. c
      /\ \A s, t \in L : s # t =>
           Cardinality({q \in L : q <= s}) # Cardinality({q \in L : q <= t})
  <2> HIDE DEF L
  <2> QED BY <1>1, LandingIds
<1>4. \A s \in L : panel[s] = Off
  BY <1>1 DEF Touched
<1> HIDE DEF L, c
<1>5. ASSUME NEW s \in Slot
      PROVE  \/ p[s] = Off \/ (s \notin L /\ p[s] = panel[s])
             \/ /\ s \in L /\ panel[s] = Off /\ p[s] = landed + Cardinality({t \in L : t <= s})
                /\ p[s] \in landed + 1 .. landed + c
  <2>1. CASE s \in L
    <3>1. s \in on
      BY <1>1, <2>1
    <3>2. p[s] = landed + Cardinality({t \in L : t <= s})
      BY <1>2, <2>1, <3>1
    <3>3. Cardinality({t \in L : t <= s}) \in 1 .. c
      BY <1>3, <2>1
    <3>4. landed + Cardinality({t \in L : t <= s}) \in landed + 1 .. landed + c
      <4>1. ASSUME NEW n \in 1 .. c PROVE landed + n \in landed + 1 .. landed + c
        BY <1>1
      <4> QED BY <3>3, <4>1
    <3> QED BY <1>4, <2>1, <3>2, <3>4
  <2>2. CASE s \notin L
    BY <1>2, <2>2
  <2> QED BY <2>1, <2>2
<1>6. p \in [Slot -> Id \cup {Off}]
  <2>1. \A s \in Slot : panel[s] \in Id \cup {Off}
    BY DEF KernelTyped
  <2>2. \A n \in landed + 1 .. landed + c : n \in Id
    BY <1>1 DEF Id
  <2>3. \A s \in Slot : p[s] \in Id \cup {Off}
    BY <1>5, <2>1, <2>2
  <2>4. p = [s \in Slot |-> p[s]]
    BY DEF Follows, PanelAfter
  <2> QED BY <2>3, <2>4
<1>7. r \in [Slot -> Point \cup {NoPoint}] /\ \A s \in Slot : r[s] = raw[s] \/ r[s] \in Point
  BY DEF Follows, RawAfter, KernelTyped
<1>8. ASSUME NEW s \in Slot, NEW t \in Slot, p[s] # Off, s # t
      PROVE  p[s] # p[t]
  <2>1. panel[s] <= landed /\ panel[t] <= landed /\ panel[s] \in Nat /\ panel[t] \in Nat
    BY DEF KernelTyped, IdsAreUnique, Id, Off
  <2>2. CASE p[t] = Off
    BY <1>8, <2>2
  <2>3. CASE s \notin L /\ p[s] = panel[s]
    <3>1. CASE t \notin L /\ p[t] = panel[t]
      BY <1>8, <2>3, <3>1 DEF IdsAreUnique
    <3>2. CASE t \in L /\ p[t] \in landed + 1 .. landed + c
      BY <1>1, <2>1, <2>3, <3>2
    <3> QED BY <1>5, <2>2, <3>1, <3>2
  <2>4. CASE /\ s \in L /\ p[s] = landed + Cardinality({q \in L : q <= s})
             /\ p[s] \in landed + 1 .. landed + c
    <3>1. CASE t \notin L /\ p[t] = panel[t]
      BY <1>1, <2>1, <2>4, <3>1
    <3>2. CASE t \in L /\ p[t] = landed + Cardinality({q \in L : q <= t})
      <4> DEFINE m == Cardinality({q \in L : q <= s})
                 n == Cardinality({q \in L : q <= t})
      <4>1. m \in 1 .. c /\ n \in 1 .. c /\ m # n
        BY <1>3, <1>8, <2>4, <3>2
      <4>2. p[s] = landed + m /\ p[t] = landed + n
        BY <2>4, <3>2
      <4> HIDE DEF m, n
      <4> QED BY <1>1, <4>1, <4>2
    <3> QED BY <1>5, <2>2, <3>1, <3>2
  <2> QED BY <1>5, <1>8, <2>3, <2>4
<1>9. landed + c \in landed .. MaxContacts
  BY <1>1
<1> QED BY <1>5, <1>6, <1>7, <1>8, <1>9 DEF c, L

\* The contact pointer emulation follows is on the panel.
LEMMA OldestTouched ==
  ASSUME NEW p \in [Slot -> Id \cup {Off}], Touched(p) # {}
  PROVE  Oldest(p) \in Touched(p)
<1> DEFINE S == {p[s] : s \in Touched(p)}
<1>1. S \in SUBSET (0 .. MaxContacts) /\ S # {} /\ MaxContacts \in Nat
  <2>1. \A s \in Touched(p) : p[s] \in 0 .. MaxContacts
    BY Constants DEF Touched, Id, Off
  <2> QED BY <2>1, Constants
<1>2. PICK m \in S : \A n \in S : m <= n
  <2> HIDE DEF S
  <2> QED BY <1>1, Extremes
<1>3. PICK s \in Touched(p) : m = p[s]
  OBVIOUS
<1>4. \A t \in Touched(p) : p[s] <= p[t]
  BY <1>2, <1>3
<1> QED BY <1>4 DEF Oldest

LEMMA EmulatedFacts ==
  ASSUME KernelTyped, NEW p \in [Slot -> Id \cup {Off}],
         NEW r \in [Slot -> Point \cup {NoPoint}]
  PROVE  EmulatedPoint(p, r) = emulated \/ (Emulates = TRUE /\ EmulatedPoint(p, r) \in Point)
<1>1. Emulates \in BOOLEAN
  BY TouchAssumption
<1>2. CASE Emulates /\ Touched(p) # {} /\ r[Oldest(p)] # NoPoint
  <2>1. Oldest(p) \in Slot
    BY <1>2, OldestTouched DEF Touched
  <2> QED BY <1>1, <1>2, <2>1 DEF EmulatedPoint
<1>3. CASE ~(Emulates /\ Touched(p) # {} /\ r[Oldest(p)] # NoPoint)
  BY <1>3 DEF EmulatedPoint
<1> QED BY <1>2, <1>3

\* The records of a frame are records.
LEMMA RecordTypes ==
  /\ SynReport \in Record /\ SynDropped \in Record
  /\ \A s \in Slot : Rec("slot", s) \in Record
  /\ \A v \in X : Rec("mtx", v) \in Record /\ Rec("x", v) \in Record
  /\ \A v \in Y : Rec("mty", v) \in Record /\ Rec("y", v) \in Record
  /\ \A i \in Id \cup {Off} : Rec("id", i) \in Record
BY DEF SynReport, SynDropped, Rec, Record

LEMMA UnlessType ==
  ASSUME NEW now, NEW before, NEW record, now # before => record \in Record
  PROVE  Unless(now = before, record) \in Seq(Record)
<1>1. CASE now = before
  BY <1>1 DEF Unless
<1>2. CASE now # before
  BY <1>2 DEF Unless
<1> QED BY <1>1, <1>2

LEMMA SlotRecordsType ==
  ASSUME KernelTyped, NEW p \in [Slot -> Id \cup {Off}],
         NEW r \in [Slot -> Point \cup {NoPoint}],
         \A q \in Slot : r[q] = raw[q] \/ r[q] \in Point,
         NEW s \in Slot, NEW previous
  PROVE  /\ Unless(r[s]["x"] = raw[s]["x"], Rec("mtx", r[s]["x"])) \in Seq(Record)
         /\ Unless(r[s]["y"] = raw[s]["y"], Rec("mty", r[s]["y"])) \in Seq(Record)
         /\ Unless(p[s] = panel[s], Rec("id", p[s])) \in Seq(Record)
         /\ Unless(previous = s, Rec("slot", s)) \in Seq(Record)
         /\ SlotRecords(s, p, r, previous) \in Seq(Record)
<1> DEFINE rx == Unless(r[s]["x"] = raw[s]["x"], Rec("mtx", r[s]["x"]))
           ry == Unless(r[s]["y"] = raw[s]["y"], Rec("mty", r[s]["y"]))
           ri == Unless(p[s] = panel[s], Rec("id", p[s]))
           rs == Unless(previous = s, Rec("slot", s))
<1>1. r[s] # raw[s] => r[s]["x"] \in X /\ r[s]["y"] \in Y
  BY DEF Point
<1>2. rx \in Seq(Record)
  <2>1. r[s]["x"] # raw[s]["x"] => Rec("mtx", r[s]["x"]) \in Record
    BY <1>1, RecordTypes
  <2> QED BY <2>1, UnlessType, Zenon
<1>3. ry \in Seq(Record)
  <2>1. r[s]["y"] # raw[s]["y"] => Rec("mty", r[s]["y"]) \in Record
    BY <1>1, RecordTypes
  <2> QED BY <2>1, UnlessType, Zenon
<1>4. ri \in Seq(Record)
  <2>1. Rec("id", p[s]) \in Record
    BY RecordTypes
  <2> QED BY <2>1, UnlessType, Zenon
<1>5. rs \in Seq(Record)
  <2>1. Rec("slot", s) \in Record
    BY RecordTypes
  <2> QED BY <2>1, UnlessType, Zenon
<1> DEFINE body == IF IdFirst THEN ri \o (rx \o ry) ELSE (rx \o ry) \o ri
<1>6. body \in Seq(Record)
  <2> HIDE DEF rx, ry, ri
  <2> QED BY <1>2, <1>3, <1>4, ConcatProperties
<1>7. SlotRecords(s, p, r, previous) = IF body = <<>> THEN <<>> ELSE rs \o body
  BY DEF SlotRecords
<1>8. rs \o body \in Seq(Record)
  <2> HIDE DEF rs, body
  <2> QED BY <1>5, <1>6, ConcatProperties
<1>9. SlotRecords(s, p, r, previous) \in Seq(Record)
  <2> HIDE DEF rs, body
  <2> QED BY <1>7, <1>8
<1> QED BY <1>2, <1>3, <1>4, <1>5, <1>9

\* The records of the slots, and those of pointer emulation.
SlotRecordsOf(p, r) ==
  [i \in 1 .. Slots |-> SlotRecords(i - 1, p, r, SlotBefore(i - 1, p, r))]

EmulatedX(p, r) ==
  Unless(EmulatedPoint(p, r)["x"] = emulated["x"], Rec("x", EmulatedPoint(p, r)["x"]))

EmulatedY(p, r) ==
  Unless(EmulatedPoint(p, r)["y"] = emulated["y"], Rec("y", EmulatedPoint(p, r)["y"]))

LEMMA FrameRecordsType ==
  ASSUME KernelTyped, NEW p \in [Slot -> Id \cup {Off}],
         NEW r \in [Slot -> Point \cup {NoPoint}],
         \A q \in Slot : r[q] = raw[q] \/ r[q] \in Point
  PROVE  /\ SlotRecordsOf(p, r) \in [1 .. Slots -> Seq(Record)]
         /\ FlattenSeq(SlotRecordsOf(p, r)) \in Seq(Record)
         /\ EmulatedX(p, r) \in Seq(Record) /\ EmulatedY(p, r) \in Seq(Record)
         /\ FrameRecords(p, r) \in Seq(Record)
         /\ FrameRecords(p, r) = ((FlattenSeq(SlotRecordsOf(p, r)) \o EmulatedX(p, r))
                                    \o EmulatedY(p, r)) \o <<SynReport>>
<1>1. SlotRecordsOf(p, r) \in [1 .. Slots -> Seq(Record)]
  <2>1. ASSUME NEW i \in 1 .. Slots
        PROVE  SlotRecords(i - 1, p, r, SlotBefore(i - 1, p, r)) \in Seq(Record)
    <3>1. i - 1 \in Slot
      BY Constants DEF Slot
    <3> QED BY <3>1, SlotRecordsType
  <2> QED BY <2>1 DEF SlotRecordsOf
<1>2. FlattenSeq(SlotRecordsOf(p, r)) \in Seq(Record)
  <2>1. PICK f \in [1 .. Slots -> Seq(Record)] : FlattenSeq(SlotRecordsOf(p, r)) = f[Slots]
    <3>1. Slots \in Nat \ {0}
      BY Constants
    <3> DEFINE ss == SlotRecordsOf(p, r)
    <3>2. ss \in [1 .. Slots -> Seq(Record)]
      BY <1>1
    <3> HIDE DEF ss
    <3>3. \E f \in [1 .. Slots -> Seq(Record)] :
            Joins(f, ss, Slots) /\ FlattenSeq(ss) = f[Slots]
      BY <3>1, <3>2, Flattened
    <3> QED BY <3>3 DEF ss
  <2> QED BY <2>1, Constants
<1>3. EmulatedPoint(p, r) = emulated \/ EmulatedPoint(p, r) \in Point
  BY EmulatedFacts
<1>4. EmulatedX(p, r) \in Seq(Record)
  <2>1. EmulatedPoint(p, r)["x"] # emulated["x"] => Rec("x", EmulatedPoint(p, r)["x"]) \in Record
    BY <1>3, RecordTypes DEF Point
  <2> QED BY <2>1, UnlessType, Zenon DEF EmulatedX
<1>5. EmulatedY(p, r) \in Seq(Record)
  <2>1. EmulatedPoint(p, r)["y"] # emulated["y"] => Rec("y", EmulatedPoint(p, r)["y"]) \in Record
    BY <1>3, RecordTypes DEF Point
  <2> QED BY <2>1, UnlessType, Zenon DEF EmulatedY
<1>6. FrameRecords(p, r) = ((FlattenSeq(SlotRecordsOf(p, r)) \o EmulatedX(p, r))
                              \o EmulatedY(p, r)) \o <<SynReport>>
  BY DEF FrameRecords, SlotRecordsOf, EmulatedX, EmulatedY
<1>7. <<SynReport>> \in Seq(Record)
  BY RecordTypes
<1> QED BY <1>1, <1>2, <1>4, <1>5, <1>6, <1>7, ConcatProperties

(***************************************************************************)
(* What a tracker makes of a sequence of records.                          *)
(***************************************************************************)
Accepted(t, record) == record \in Record /\ record.type # "dropped" /\ Expected(t, record)

\* The records s are accepted one after the other and turn t into u.
Runs(t, s, u) ==
  \E ts \in [0 .. Len(s) -> Tracker] :
    /\ ts[0] = t /\ ts[Len(s)] = u
    /\ \A i \in 1 .. Len(s) : Accepted(ts[i - 1], s[i]) /\ ts[i] = Pushed(ts[i - 1], s[i])

LEMMA AcceptedIsTaken ==
  ASSUME NEW t \in Tracker, NEW record, Accepted(t, record)
  PROVE  Accepts(t, record) /\ Pushed(t, record) \in Tracker
<1>1. Accepts(t, record)
  BY Constants DEF Accepted, Accepts, Expected, Replaces
<1> QED BY <1>1, PushedTracker DEF Accepted

LEMMA RunsEmpty ==
  ASSUME NEW t \in Tracker
  PROVE  Runs(t, <<>>, t)
<1> DEFINE ts == [i \in 0 .. 0 |-> t]
<1>1. ts \in [0 .. 0 -> Tracker] /\ ts[0] = t /\ Len(<<>>) = 0
  OBVIOUS
<1> HIDE DEF ts
<1> QED BY <1>1 DEF Runs

LEMMA RunsOne ==
  ASSUME NEW t \in Tracker, NEW record, Accepted(t, record)
  PROVE  Runs(t, <<record>>, Pushed(t, record))
<1> DEFINE u == Pushed(t, record)
           ts == [i \in 0 .. 1 |-> IF i = 0 THEN t ELSE u]
           one == <<record>>
<1>1. u \in Tracker
  BY AcceptedIsTaken
<1> HIDE DEF u
<1>2. ts \in [0 .. 1 -> Tracker] /\ ts[0] = t /\ ts[1] = u /\ Len(one) = 1 /\ one[1] = record
  BY <1>1
<1> HIDE DEF ts, one
<1>3. ASSUME NEW i \in 1 .. 1
      PROVE  Accepted(ts[i - 1], one[i]) /\ ts[i] = Pushed(ts[i - 1], one[i])
  <2>1. i = 1 /\ i - 1 = 0
    OBVIOUS
  <2>2. ts[i - 1] = t /\ ts[i] = u /\ one[i] = record
    BY <1>2, <2>1
  <2> QED BY <2>2 DEF u
<1>4. Runs(t, one, u)
  BY <1>2, <1>3 DEF Runs
<1> QED BY <1>4 DEF one, u

\* The first record is accepted, and the others after it.
LEMMA RunsOn ==
  ASSUME NEW t \in Tracker, NEW u, NEW s \in Seq(Record), s # <<>>, Runs(t, s, u)
  PROVE  /\ Accepted(t, Head(s)) /\ Pushed(t, Head(s)) \in Tracker
         /\ Runs(Pushed(t, Head(s)), Tail(s), u)
<1>1. /\ Len(s) \in Nat \ {0} /\ Len(Tail(s)) = Len(s) - 1
      /\ \A i \in 1 .. Len(Tail(s)) : Tail(s)[i] = s[i + 1]
      /\ Head(s) = s[1]
  BY EmptySeq, HeadTailProperties
<1>2. PICK ts \in [0 .. Len(s) -> Tracker] :
        /\ ts[0] = t /\ ts[Len(s)] = u
        /\ \A i \in 1 .. Len(s) : Accepted(ts[i - 1], s[i]) /\ ts[i] = Pushed(ts[i - 1], s[i])
  BY DEF Runs
<1>3. Accepted(t, Head(s)) /\ ts[1] = Pushed(t, Head(s)) /\ ts[1] \in Tracker
  BY <1>1, <1>2
<1> DEFINE n == Len(s) - 1
           rest == [i \in 0 .. n |-> ts[i + 1]]
<1>4. n \in Nat /\ rest \in [0 .. n -> Tracker] /\ rest[0] = ts[1]
      /\ rest[n] = ts[Len(s)] /\ Len(Tail(s)) = n
  BY <1>1
<1>5. ASSUME NEW i \in 1 .. n
      PROVE  Accepted(rest[i - 1], Tail(s)[i]) /\ rest[i] = Pushed(rest[i - 1], Tail(s)[i])
  <2>1. i + 1 \in 1 .. Len(s) /\ i + 1 - 1 = i /\ i - 1 + 1 = i
        /\ i \in 0 .. n /\ i - 1 \in 0 .. n
    BY <1>1
  <2>2. Accepted(ts[i], s[i + 1]) /\ ts[i + 1] = Pushed(ts[i], s[i + 1])
    BY <1>2, <2>1
  <2>3. rest[i - 1] = ts[i] /\ rest[i] = ts[i + 1] /\ Tail(s)[i] = s[i + 1]
    BY <1>1, <2>1
  <2> HIDE DEF rest, n
  <2> QED BY <2>2, <2>3
<1> HIDE DEF rest, n
<1>6. Runs(Pushed(t, Head(s)), Tail(s), u)
  BY <1>2, <1>3, <1>4, <1>5 DEF Runs
<1> QED BY <1>3, <1>6

\* One sequence after the other.
LEMMA RunsJoin ==
  ASSUME NEW t, NEW v, NEW u, NEW a \in Seq(Record), NEW b \in Seq(Record),
         Runs(t, a, v), Runs(v, b, u)
  PROVE  Runs(t, a \o b, u) /\ v \in Tracker /\ u \in Tracker
<1> DEFINE m == Len(a)
           n == Len(b)
           c == a \o b
<1>1. /\ m \in Nat /\ n \in Nat /\ Len(c) = m + n
      /\ \A i \in 1 .. m + n : c[i] = IF i <= m THEN a[i] ELSE b[i - m]
  BY ConcatProperties, LenProperties
<1>2. PICK ts \in [0 .. m -> Tracker] :
        /\ ts[0] = t /\ ts[m] = v
        /\ \A i \in 1 .. m : Accepted(ts[i - 1], a[i]) /\ ts[i] = Pushed(ts[i - 1], a[i])
  BY DEF Runs
<1>3. PICK us \in [0 .. n -> Tracker] :
        /\ us[0] = v /\ us[n] = u
        /\ \A i \in 1 .. n : Accepted(us[i - 1], b[i]) /\ us[i] = Pushed(us[i - 1], b[i])
  BY DEF Runs
<1> HIDE DEF m, n, c
<1> DEFINE vs == [i \in 0 .. m + n |-> IF i <= m THEN ts[i] ELSE us[i - m]]
<1>4. vs \in [0 .. m + n -> Tracker]
  <2>1. ASSUME NEW i \in 0 .. m + n PROVE (IF i <= m THEN ts[i] ELSE us[i - m]) \in Tracker
    <3>1. i <= m => i \in 0 .. m
      BY <1>1
    <3>2. ~(i <= m) => i - m \in 0 .. n
      BY <1>1
    <3> QED BY <3>1, <3>2
  <2> QED BY <2>1
<1>5. \A i \in 0 .. m : i \in 0 .. m + n /\ vs[i] = ts[i]
  BY <1>1
<1>6. ASSUME NEW i \in 0 .. n PROVE m + i \in 0 .. m + n /\ vs[m + i] = us[i]
  <2>1. CASE i = 0
    <3>1. m + i = m /\ m \in 0 .. m
      BY <1>1, <2>1
    <3> HIDE DEF vs
    <3>2. vs[m] = ts[m] /\ m \in 0 .. m + n
      BY <1>5, <3>1
    <3>3. us[i] = ts[m]
      BY <1>2, <1>3, <2>1
    <3> QED BY <3>1, <3>2, <3>3, Zenon
  <2>2. CASE i # 0
    <3>1. PICK j \in 0 .. m + n : j = m + i /\ ~(j <= m) /\ j - m = i
      BY <1>1, <2>2
    <3>2. vs[j] = us[j - m]
      BY <3>1
    <3> HIDE DEF vs
    <3> QED BY <3>1, <3>2
  <2> QED BY <2>1, <2>2
<1> HIDE DEF vs
<1>7. ASSUME NEW i \in 1 .. m + n
      PROVE  Accepted(vs[i - 1], c[i]) /\ vs[i] = Pushed(vs[i - 1], c[i])
  <2>1. CASE i <= m
    <3>1. i \in 1 .. m /\ i - 1 \in 0 .. m /\ i \in 0 .. m
      BY <1>1, <2>1
    <3>2. vs[i - 1] = ts[i - 1] /\ vs[i] = ts[i] /\ c[i] = a[i]
      BY <1>1, <1>5, <2>1, <3>1
    <3> QED BY <1>2, <3>1, <3>2
  <2>2. CASE ~(i <= m)
    <3>1. PICK j \in 1 .. n : i = m + j /\ i - m = j /\ i - 1 = m + (j - 1) /\ j - 1 \in 0 .. n
                              /\ j \in 0 .. n
      <4>1. i - m \in 1 .. n /\ i = m + (i - m) /\ i - 1 = m + (i - m - 1) /\ i - m - 1 \in 0 .. n
            /\ i - m \in 0 .. n
        BY <1>1, <2>2
      <4> QED BY <4>1
    <3>2. vs[i - 1] = us[j - 1] /\ vs[i] = us[j] /\ c[i] = b[j]
      BY <1>1, <1>6, <2>2, <3>1
    <3> QED BY <1>3, <3>1, <3>2
  <2> QED BY <2>1, <2>2
<1>8. vs[0] = t /\ vs[m + n] = u /\ v \in Tracker /\ u \in Tracker
  <2>1. 0 \in 0 .. m /\ n \in 0 .. n /\ m \in 0 .. m
    BY <1>1
  <2> QED BY <1>2, <1>3, <1>5, <1>6, <2>1
<1>9. Runs(t, c, u)
  BY <1>1, <1>4, <1>7, <1>8 DEF Runs
<1> QED BY <1>8, <1>9 DEF c

(***************************************************************************)
(* The tracker after what is still unread, and the panel.                  *)
(***************************************************************************)
\* The contact that has been alone since it landed is the primary one, and has
\* every coordinate that was sent for it.
Alone(t, s, axes) ==
  /\ t.primary_slot = s
  /\ "x" \in axes => t.slots[s].x # None
  /\ "y" \in axes => t.slots[s].y # None

\* Between frames the tracker has the panel's ids, no coordinates but the last
\* ones, nothing left to report of a complete primary contact, and the slot the
\* kernel would not name again.
Agrees(t) ==
  /\ t.current_slot = kslot
  /\ \A s \in Slot :
       LET state == t.slots[s]
       IN /\ state.id = panel[s] /\ state.pending_release = FALSE
          /\ ~Emulates => state.x \in {None, raw[s].x} /\ state.y \in {None, raw[s].y}
          /\ panel[s] # Off /\ panel[s] = alone.id => Alone(t, s, alone.axes)
  /\ t.primary_slot # NoSlot =>
       LET primary == t.slots[t.primary_slot]
       IN primary.x # None /\ primary.y # None =>
            primary.reported = TRUE /\ primary.dirty = FALSE

(***************************************************************************)
(* A frame, record by record.                                              *)
(***************************************************************************)
\* What FrameFacts says of a frame that leaves p on the panel, at r.
Frames(p, r) ==
  /\ p \in [Slot -> Id \cup {Off}] /\ r \in [Slot -> Point \cup {NoPoint}]
  /\ \A s \in Slot :
       /\ p[s] = Off \/ p[s] = panel[s] \/ (panel[s] = Off /\ p[s] > landed)
       /\ r[s] = raw[s] \/ r[s] \in Point
  /\ \A s, t \in Slot : p[s] # Off /\ s # t => p[s] # p[t]

\* The contact in slot s is alone after the frame.
Lone(s, p, r) == p[s] # Off /\ p[s] = AloneAfter(p, r).id

\* It was already, or has just landed on an untouched panel.
LEMMA LoneFacts ==
  ASSUME KernelTyped, IdsAreUnique, NEW p, NEW r, Frames(p, r), NEW s \in Slot, Lone(s, p, r)
  PROVE  /\ \/ panel[s] = p[s] /\ panel[s] = alone.id
            \/ /\ panel[s] # p[s]
               /\ \A t \in Slot : panel[t] = Off /\ (t # s => p[t] = Off)
         /\ \A a \in Axis : a \in AloneAfter(p, r).axes =>
              (panel[s] = p[s] /\ a \in alone.axes) \/ r[s][a] # raw[s][a]
<1> DEFINE Sent(t) == {a \in Axis : r[t][a] # raw[t][a]}
           stays   == {t \in Touched(p) : p[t] = alone.id}
           lands   == {t \in Touched(p) : Touched(panel) = {} /\ Touched(p) = {t}}
           A       == AloneAfter(p, r)
           more    == UNION {Sent(t) : t \in stays}
           Stays   == [alone EXCEPT !.axes = @ \cup more]
           Lands   == [id |-> p[Oldest(p)], axes |-> Sent(Oldest(p))]
<1>1. A = CASE stays # {} -> Stays
            [] lands # {} -> Lands
            [] OTHER      -> [id |-> Off, axes |-> {}]
  BY DEF AloneAfter
<1>2. s \in Touched(p) /\ p[s] = A.id /\ p[s] # Off /\ p \in [Slot -> Id \cup {Off}]
  BY DEF Lone, Touched, Frames
<1> HIDE DEF A
<1>3. alone \in [id : Id \cup {Off}, axes : SUBSET Axis]
  BY DEF KernelTyped
<1>4. CASE stays # {}
  <2>1. A = [alone EXCEPT !.axes = @ \cup more]
    <3>1. lands = {}
      <4>1. PICK q \in Touched(p) : p[q] = alone.id
        BY <1>4
      <4>2. panel[q] = p[q] /\ p[q] # Off /\ q \in Slot
        BY <4>1 DEF Frames, Touched, IdsAreUnique, KernelTyped
      <4>3. Touched(panel) # {}
        BY <4>2 DEF Touched
      <4> QED BY <4>3
    <3>2. A = Stays
      <4> HIDE DEF stays, lands, Stays, Lands
      <4> QED BY <1>1, <1>4, <3>1
    <3> QED BY <3>2
  <2>2. A.id = alone.id /\ A.axes = alone.axes \cup more
    <3> HIDE DEF more
    <3> QED BY <2>1, <1>3
  <2>3. p[s] <= landed /\ p[s] \in Nat /\ landed \in Nat
    BY <1>2, <2>2 DEF IdsAreUnique, KernelTyped
  <2>4. panel[s] = p[s]
    BY <1>2, <2>3 DEF Frames
  <2>5. stays \in SUBSET {s}
    BY <1>2, <2>2 DEF Frames, Touched
  <2>6. \A a \in more : a \in Sent(s)
    BY <2>5
  <2> HIDE DEF more, stays
  <2> QED BY <1>2, <2>2, <2>4, <2>6 DEF A
<1>5. CASE stays = {} /\ lands # {}
  <2>1. A = [id |-> p[Oldest(p)], axes |-> Sent(Oldest(p))]
    BY <1>1, <1>5
  <2>2. PICK q \in Touched(p) : Touched(panel) = {} /\ Touched(p) = {q}
    BY <1>5
  <2>3. Oldest(p) = s
    <3>1. Oldest(p) \in Touched(p)
      BY <1>2, OldestTouched
    <3> QED BY <1>2, <2>2, <3>1
  <2>4. A.axes = Sent(s)
    <3> HIDE DEF Sent
    <3> QED BY <2>1, <2>3
  <2>5. \A t \in Slot : panel[t] = Off /\ (t # s => p[t] = Off)
    BY <1>2, <2>2 DEF Touched
  <2> HIDE DEF stays, lands
  <2> QED BY <1>2, <2>4, <2>5 DEF A
<1>6. CASE stays = {} /\ lands = {}
  <2>1. A = [id |-> Off, axes |-> {}]
    BY <1>1, <1>6
  <2> QED BY <1>2, <2>1
<1> QED BY <1>4, <1>5, <1>6

\* The history variable stays one.
LEMMA AloneType ==
  ASSUME KernelTyped, IdsAreUnique, NEW p, NEW r, Frames(p, r)
  PROVE  /\ AloneAfter(p, r) \in [id : Id \cup {Off}, axes : SUBSET Axis]
         /\ AloneAfter(p, r).id \in {Off} \cup {p[s] : s \in Slot}
<1> DEFINE Sent(t) == {a \in Axis : r[t][a] # raw[t][a]}
           stays   == {t \in Touched(p) : p[t] = alone.id}
           lands   == {t \in Touched(p) : Touched(panel) = {} /\ Touched(p) = {t}}
           A       == AloneAfter(p, r)
           more    == UNION {Sent(t) : t \in stays}
           Stays   == [alone EXCEPT !.axes = @ \cup more]
           Lands   == [id |-> p[Oldest(p)], axes |-> Sent(Oldest(p))]
<1>1. A = CASE stays # {} -> Stays
            [] lands # {} -> Lands
            [] OTHER      -> [id |-> Off, axes |-> {}]
  BY DEF AloneAfter
<1>2. alone \in [id : Id \cup {Off}, axes : SUBSET Axis] /\ p \in [Slot -> Id \cup {Off}]
  BY DEF KernelTyped, Frames
<1> HIDE DEF A
<1>3. CASE stays # {}
  <2>1. A = [alone EXCEPT !.axes = @ \cup more]
    <3>1. lands = {}
      <4>1. PICK q \in Touched(p) : p[q] = alone.id
        BY <1>3
      <4>2. panel[q] = p[q] /\ p[q] # Off /\ q \in Slot
        BY <4>1 DEF Frames, Touched, IdsAreUnique, KernelTyped
      <4>3. Touched(panel) # {}
        BY <4>2 DEF Touched
      <4> QED BY <4>3
    <3>2. A = Stays
      <4> HIDE DEF stays, lands, Stays, Lands
      <4> QED BY <1>1, <1>3, <3>1
    <3> QED BY <3>2
  <2>2. more \in SUBSET Axis
    OBVIOUS
  <2> HIDE DEF more
  <2>3. A \in [id : Id \cup {Off}, axes : SUBSET Axis] /\ A.id = alone.id
    BY <2>1, <2>2, <1>2
  <2>4. alone.id \in {p[s] : s \in Slot}
    BY <1>3 DEF Touched
  <2> QED BY <2>3, <2>4 DEF A
<1>4. CASE stays = {} /\ lands # {}
  <2>1. A = [id |-> p[Oldest(p)], axes |-> Sent(Oldest(p))]
    BY <1>1, <1>4
  <2>2. Oldest(p) \in Slot
    <3>1. Touched(p) # {}
      BY <1>4
    <3> QED BY <1>2, <3>1, OldestTouched DEF Touched
  <2>3. p[Oldest(p)] \in Id \cup {Off} /\ Sent(Oldest(p)) \in SUBSET Axis
    BY <1>2, <2>2
  <2> HIDE DEF Sent
  <2> QED BY <2>1, <2>2, <2>3 DEF A
<1>5. CASE stays = {} /\ lands = {}
  <2>1. A = [id |-> Off, axes |-> {}]
    BY <1>1, <1>5
  <2> QED BY <2>1 DEF A
<1> QED BY <1>3, <1>4, <1>5

\* Slot s of the tracker in the middle of a frame: its id (i) and its coordinates
\* (x, y) are those of after the frame once their records have been pushed.
Slotwise(t, s, p, r, i, x, y) ==
  LET state == t.slots[s]
  IN /\ state.id = IF i = TRUE THEN p[s] ELSE panel[s]
     /\ state.pending_release = TRUE => i = TRUE
     /\ ~Emulates => /\ state.x \in {None, IF x = TRUE THEN r[s].x ELSE raw[s].x}
                     /\ state.y \in {None, IF y = TRUE THEN r[s].y ELSE raw[s].y}
     /\ Lone(s, p, r) =>
          /\ t.primary_slot = IF i = TRUE \/ panel[s] = p[s] THEN s ELSE NoSlot
          /\ panel[s] = p[s] /\ "x" \in alone.axes => state.x # None
          /\ panel[s] = p[s] /\ "y" \in alone.axes => state.y # None
          /\ x = TRUE /\ r[s].x # raw[s].x => state.x # None
          /\ y = TRUE /\ r[s].y # raw[s].y => state.y # None

\* The slots before k have been sent, those after it have not.
Around(t, k, p, r) ==
  \A s \in Slot : /\ s < k => Slotwise(t, s, p, r, TRUE, TRUE, TRUE)
                  /\ s > k => Slotwise(t, s, p, r, FALSE, FALSE, FALSE)

Within(t, k, p, r, i, x, y) ==
  t.current_slot = k /\ Around(t, k, p, r) /\ Slotwise(t, k, p, r, i, x, y)

\* A record for one slot leaves the others as they were.
LEMMA Undisturbed ==
  ASSUME NEW t, NEW u, NEW k \in Slot, NEW p, NEW r, Around(t, k, p, r),
         \A s \in Slot : s # k => u.slots[s] = t.slots[s],
         \A s \in Slot : s # k /\ Lone(s, p, r) => u.primary_slot = t.primary_slot
  PROVE  Around(u, k, p, r)
<1> SUFFICES ASSUME NEW s \in Slot
             PROVE  /\ s < k => Slotwise(u, s, p, r, TRUE, TRUE, TRUE)
                    /\ s > k => Slotwise(u, s, p, r, FALSE, FALSE, FALSE)
  BY DEF Around
<1>1. CASE s < k
  <2>1. s # k /\ ~(s > k)
    BY <1>1, Constants
  <2> QED BY <1>1, <2>1 DEF Around, Slotwise
<1>2. CASE s > k
  <2>1. s # k /\ ~(s < k)
    BY <1>2, Constants
  <2> QED BY <1>2, <2>1 DEF Around, Slotwise
<1> QED BY <1>1, <1>2

\* The parts of what a frame says of slot k.
XOf(k, r)         == Unless(r[k]["x"] = raw[k]["x"], Rec("mtx", r[k]["x"]))
YOf(k, r)         == Unless(r[k]["y"] = raw[k]["y"], Rec("mty", r[k]["y"]))
IdOf(k, p)        == Unless(p[k] = panel[k], Rec("id", p[k]))
NameOf(k, before) == Unless(before = k, Rec("slot", k))
BodyOf(k, p, r)   == IF IdFirst THEN IdOf(k, p) \o (XOf(k, r) \o YOf(k, r))
                     ELSE (XOf(k, r) \o YOf(k, r)) \o IdOf(k, p)

\* The coordinates of slot k.
LEMMA SendX ==
  ASSUME KernelTyped, NEW p, NEW r, Frames(p, r), NEW k \in Slot,
         NEW i \in BOOLEAN, NEW y \in BOOLEAN,
         NEW t \in Tracker, Within(t, k, p, r, i, FALSE, y)
  PROVE  \E u \in Tracker :
           /\ Runs(t, XOf(k, r), u)
           /\ Within(u, k, p, r, i, TRUE, y)
<1>1. CASE r[k]["x"] = raw[k]["x"]
  <2>1. Within(t, k, p, r, i, TRUE, y)
    BY <1>1 DEF Within, Slotwise
  <2>2. Runs(t, <<>>, t)
    BY RunsEmpty
  <2> QED BY <1>1, <2>1, <2>2 DEF XOf, Unless
<1>2. CASE r[k]["x"] # raw[k]["x"]
  <2> DEFINE value  == r[k]["x"]
             record == Rec("mtx", value)
  <2>1. value \in X /\ value # None
    BY <1>2, Constants DEF Frames, Point
  <2>2. Accepted(t, record)
    BY <2>1, RecordTypes DEF Accepted, Expected, Rec
  <2>3. PICK u \in Tracker : u = Pushed(t, record)
    BY <2>2, AcceptedIsTaken
  <2>4. u = Update(t, k, "x", value)
    BY <2>3 DEF Pushed, Rec, Within
  <2>5. Coordinate(t, k, "x", value, u)
    <3> HIDE DEF value, record
    <3> QED BY <2>1, <2>4, Updated, Zenon
  <2> HIDE DEF record
  <2>6. Around(u, k, p, r) /\ u.current_slot = k
    BY <2>5, Undisturbed DEF Coordinate, Within
  <2>7. Slotwise(u, k, p, r, i, TRUE, y)
    BY <2>1, <2>5 DEF Coordinate, Within, Slotwise
  <2>8. Runs(t, <<record>>, u)
    BY <2>2, <2>3, RunsOne
  <2>9. XOf(k, r) = <<record>>
    BY <1>2 DEF XOf, Unless, record
  <2> QED BY <2>6, <2>7, <2>8, <2>9 DEF Within
<1> QED BY <1>1, <1>2

LEMMA SendY ==
  ASSUME KernelTyped, NEW p, NEW r, Frames(p, r), NEW k \in Slot,
         NEW i \in BOOLEAN, NEW x \in BOOLEAN,
         NEW t \in Tracker, Within(t, k, p, r, i, x, FALSE)
  PROVE  \E u \in Tracker :
           /\ Runs(t, YOf(k, r), u)
           /\ Within(u, k, p, r, i, x, TRUE)
<1>1. CASE r[k]["y"] = raw[k]["y"]
  <2>1. Within(t, k, p, r, i, x, TRUE)
    BY <1>1 DEF Within, Slotwise
  <2>2. Runs(t, <<>>, t)
    BY RunsEmpty
  <2> QED BY <1>1, <2>1, <2>2 DEF YOf, Unless
<1>2. CASE r[k]["y"] # raw[k]["y"]
  <2> DEFINE value  == r[k]["y"]
             record == Rec("mty", value)
  <2>1. value \in Y /\ value # None
    BY <1>2, Constants DEF Frames, Point
  <2>2. Accepted(t, record)
    BY <2>1, RecordTypes DEF Accepted, Expected, Rec
  <2>3. PICK u \in Tracker : u = Pushed(t, record)
    BY <2>2, AcceptedIsTaken
  <2>4. u = Update(t, k, "y", value)
    BY <2>3 DEF Pushed, Rec, Within
  <2>5. Coordinate(t, k, "y", value, u)
    <3> HIDE DEF value, record
    <3> QED BY <2>1, <2>4, Updated, Zenon
  <2> HIDE DEF record
  <2>6. Around(u, k, p, r) /\ u.current_slot = k
    BY <2>5, Undisturbed DEF Coordinate, Within
  <2>7. Slotwise(u, k, p, r, i, x, TRUE)
    BY <2>1, <2>5 DEF Coordinate, Within, Slotwise
  <2>8. Runs(t, <<record>>, u)
    BY <2>2, <2>3, RunsOne
  <2>9. YOf(k, r) = <<record>>
    BY <1>2 DEF YOf, Unless, record
  <2> QED BY <2>6, <2>7, <2>8, <2>9 DEF Within
<1> QED BY <1>1, <1>2

\* Its id.
LEMMA SendId ==
  ASSUME KernelTyped, IdsAreUnique, NEW p, NEW r, Frames(p, r), NEW k \in Slot,
         NEW x \in BOOLEAN, NEW y \in BOOLEAN,
         NEW t \in Tracker, Within(t, k, p, r, FALSE, x, y)
  PROVE  \E u \in Tracker :
           /\ Runs(t, IdOf(k, p), u)
           /\ Within(u, k, p, r, TRUE, x, y)
<1>1. CASE p[k] = panel[k]
  <2>1. Within(t, k, p, r, TRUE, x, y)
    BY <1>1 DEF Within, Slotwise
  <2>2. Runs(t, <<>>, t)
    BY RunsEmpty
  <2> QED BY <1>1, <2>1, <2>2 DEF IdOf, Unless
<1>2. CASE p[k] # panel[k]
  <2> DEFINE record == Rec("id", p[k])
  <2>1. p[k] \in Id \cup {Off} /\ record \in Record /\ t.current_slot = k
    BY RecordTypes DEF Frames, Within
  <2>2. IdOf(k, p) = <<record>>
    BY <1>2 DEF IdOf, Unless
  <2>3. CASE p[k] = Off
    <3>1. Accepted(t, record)
      BY <2>1, <2>3 DEF Accepted, Expected, Rec
    <3>2. PICK u \in Tracker : u = Pushed(t, record)
      BY <3>1, AcceptedIsTaken
    <3>3. u = UpdateTracking(t, Off)
      BY <2>3, <3>2 DEF Pushed, Rec
    <3>4. Gone(t, u)
      BY <3>3, Lifted
    <3> HIDE DEF record
    <3>5. Around(u, k, p, r) /\ u.current_slot = k
      BY <2>1, <3>4, Undisturbed DEF Gone, Within
    <3>6. Slotwise(u, k, p, r, TRUE, x, y)
      BY <2>1, <2>3, <3>4 DEF Gone, Within, Slotwise, Lone
    <3>7. Runs(t, <<record>>, u)
      BY <3>1, <3>2, RunsOne
    <3> QED BY <2>2, <3>5, <3>6, <3>7 DEF Within
  <2>4. CASE p[k] # Off
    <3>1. panel[k] = Off /\ p[k] \in Id
      BY <1>2, <2>1, <2>4 DEF Frames
    <3>2. t.slots[k].id = Off /\ t.slots[k].pending_release = FALSE
      <4>1. t.slots[k].pending_release \in BOOLEAN
        BY TrackerParts DEF SlotState
      <4> QED BY <3>1, <4>1 DEF Within, Slotwise
    <3>3. Accepted(t, record)
      BY <2>1, <3>2 DEF Accepted, Expected, Rec
    <3>4. PICK u \in Tracker : u = Pushed(t, record)
      BY <3>3, AcceptedIsTaken
    <3>5. u = UpdateTracking(t, p[k])
      BY <3>4 DEF Pushed, Rec
    <3>6. Landed(t, p[k], u)
      BY <3>1, <3>5, Identified
    <3> HIDE DEF record
    <3>7. ASSUME NEW s \in Slot, s # k, Lone(s, p, r)
          PROVE  u.primary_slot = t.primary_slot
      <4>1. panel[s] = p[s]
        BY <2>4, <3>7, LoneFacts
      <4>2. t.primary_slot = s
        <5>1. s < k \/ s > k
          BY <3>7, Constants
        <5> QED BY <3>7, <4>1, <5>1 DEF Within, Around, Slotwise
      <4> QED BY <3>6, <4>2, Constants DEF Landed
    <3>8. Around(u, k, p, r) /\ u.current_slot = k
      BY <2>1, <3>6, <3>7, Undisturbed DEF Landed, Within
    <3>9. Slotwise(u, k, p, r, TRUE, x, y)
      BY <1>2, <2>1, <3>6 DEF Landed, Within, Slotwise
    <3>10. Runs(t, <<record>>, u)
      BY <3>3, <3>4, RunsOne
    <3> QED BY <2>2, <3>8, <3>9, <3>10 DEF Within
  <2> QED BY <2>3, <2>4
<1> QED BY <1>1, <1>2

\* The slot named last before slot k.
LEMMA SlotNamed ==
  ASSUME KernelTyped, NEW p, NEW r
  PROVE  /\ SlotBefore(0, p, r) = kslot
         /\ \A k \in Slot : SlotBefore(k + 1, p, r)
                              = IF k \in Changed(p, r) THEN k ELSE SlotBefore(k, p, r)
         /\ Changed(p, r) # {} =>
              Max(Changed(p, r)) \in Slot /\ SlotBefore(Slots, p, r) = Max(Changed(p, r))
<1> DEFINE C == Changed(p, r)
           Earlier(k) == {t \in C : t < k}
<1>1. C \in SUBSET Slot /\ C \in SUBSET (0 .. Slots - 1) /\ Slots - 1 \in Nat
  BY Constants DEF Changed, Slot
<1>2. \A k : SlotBefore(k, p, r) = IF Earlier(k) = {} THEN kslot ELSE Max(Earlier(k))
  BY DEF SlotBefore
<1> HIDE DEF C
<1>3. Earlier(0) = {}
  <2>1. \A t \in C : ~(t < 0)
    BY <1>1, Constants
  <2> QED BY <2>1
<1>4. ASSUME NEW k \in Slot
      PROVE  SlotBefore(k + 1, p, r) = IF k \in C THEN k ELSE SlotBefore(k, p, r)
  <2>1. \A t \in Slot : t < k + 1 <=> (t < k \/ t = k)
    BY Constants
  <2>2. CASE k \in C
    <3>1. k \in Earlier(k + 1) /\ Earlier(k + 1) # {} /\ Earlier(k + 1) \in SUBSET (0 .. Slots - 1)
      BY <1>1, <2>1, <2>2
    <3>2. Max(Earlier(k + 1)) \in Earlier(k + 1) /\ k <= Max(Earlier(k + 1))
      <4> HIDE DEF Earlier
      <4> QED BY <1>1, <3>1, Extremes
    <3>3. Max(Earlier(k + 1)) \in Slot /\ Max(Earlier(k + 1)) < k + 1
      BY <1>1, <3>2
    <3>4. Max(Earlier(k + 1)) = k
      <4> HIDE DEF Earlier
      <4> QED BY <3>2, <3>3, Constants
    <3> HIDE DEF Earlier
    <3> QED BY <1>2, <2>2, <3>1, <3>4
  <2>3. CASE k \notin C
    <3>1. Earlier(k + 1) = Earlier(k)
      BY <1>1, <2>1, <2>3
    <3> HIDE DEF Earlier
    <3> QED BY <1>2, <2>3, <3>1
  <2> QED BY <2>2, <2>3
<1>5. ASSUME C # {}
      PROVE  Max(C) \in Slot /\ SlotBefore(Slots, p, r) = Max(C)
  <2>1. Max(C) \in C
    BY <1>1, <1>5, Extremes
  <2>2. Earlier(Slots) = C
    BY <1>1, Constants
  <2> HIDE DEF Earlier
  <2> QED BY <1>1, <1>2, <1>5, <2>1, <2>2
<1>6. SlotBefore(0, p, r) = kslot
  <2> HIDE DEF Earlier
  <2> QED BY <1>2, <1>3
<1> QED BY <1>4, <1>5, <1>6 DEF C

\* The slots before k have been sent.
Reached(t, k, p, r) ==
  /\ t.current_slot = SlotBefore(k, p, r)
  /\ \A s \in Slot : /\ s < k => Slotwise(t, s, p, r, TRUE, TRUE, TRUE)
                     /\ s >= k => Slotwise(t, s, p, r, FALSE, FALSE, FALSE)

\* What there is to say of a slot.
LEMMA SlotRecordsFacts ==
  ASSUME KernelTyped, NEW p, NEW r, Frames(p, r), NEW k \in Slot, NEW before
  PROVE  /\ XOf(k, r) \in Seq(Record) /\ YOf(k, r) \in Seq(Record)
         /\ IdOf(k, p) \in Seq(Record) /\ NameOf(k, before) \in Seq(Record)
         /\ BodyOf(k, p, r) \in Seq(Record)
         /\ SlotRecords(k, p, r, before) =
              IF k \in Changed(p, r) THEN NameOf(k, before) \o BodyOf(k, p, r) ELSE <<>>
         /\ k \notin Changed(p, r) => p[k] = panel[k] /\ r[k] = raw[k]
<1>1. /\ XOf(k, r) \in Seq(Record) /\ YOf(k, r) \in Seq(Record)
      /\ IdOf(k, p) \in Seq(Record) /\ NameOf(k, before) \in Seq(Record)
  BY SlotRecordsType DEF Frames, XOf, YOf, IdOf, NameOf
<1>2. SlotRecords(k, p, r, before)
        = IF BodyOf(k, p, r) = <<>> THEN <<>> ELSE NameOf(k, before) \o BodyOf(k, p, r)
  BY DEF SlotRecords, XOf, YOf, IdOf, NameOf, BodyOf
<1>3. k \in Changed(p, r) <=> p[k] # panel[k] \/ r[k] # raw[k]
  BY DEF Changed
<1>4. r[k] = raw[k] <=> r[k]["x"] = raw[k]["x"] /\ r[k]["y"] = raw[k]["y"]
  <2>1. r[k] \in Point \cup {NoPoint} /\ raw[k] \in Point \cup {NoPoint}
    BY DEF Frames, KernelTyped
  <2> QED BY <2>1 DEF Point, NoPoint
<1>5. /\ XOf(k, r) = <<>> <=> r[k]["x"] = raw[k]["x"]
      /\ YOf(k, r) = <<>> <=> r[k]["y"] = raw[k]["y"]
      /\ IdOf(k, p) = <<>> <=> p[k] = panel[k]
  BY DEF Unless, XOf, YOf, IdOf
<1>6. BodyOf(k, p, r) = <<>> <=> XOf(k, r) = <<>> /\ YOf(k, r) = <<>> /\ IdOf(k, p) = <<>>
  BY <1>1, ConcatEqualIffEmpty, ConcatProperties DEF BodyOf
<1>7. BodyOf(k, p, r) = <<>> <=> k \notin Changed(p, r)
  BY <1>3, <1>4, <1>5, <1>6
<1>8. BodyOf(k, p, r) \in Seq(Record)
  BY <1>1, ConcatProperties DEF BodyOf
<1> QED BY <1>1, <1>2, <1>3, <1>7, <1>8

\* One slot is sent.
LEMMA SendSlot ==
  ASSUME KernelTyped, IdsAreUnique, NEW p, NEW r, Frames(p, r), NEW k \in Slot,
         NEW t \in Tracker, Reached(t, k, p, r)
  PROVE  \E u \in Tracker : /\ Runs(t, SlotRecords(k, p, r, SlotBefore(k, p, r)), u)
                            /\ Reached(u, k + 1, p, r)
<1> DEFINE previous == SlotBefore(k, p, r)
<1>1. /\ XOf(k, r) \in Seq(Record) /\ YOf(k, r) \in Seq(Record)
      /\ IdOf(k, p) \in Seq(Record) /\ NameOf(k, previous) \in Seq(Record)
      /\ BodyOf(k, p, r) \in Seq(Record)
      /\ SlotRecords(k, p, r, previous) =
           IF k \in Changed(p, r) THEN NameOf(k, previous) \o BodyOf(k, p, r) ELSE <<>>
      /\ k \notin Changed(p, r) => p[k] = panel[k] /\ r[k] = raw[k]
  BY SlotRecordsFacts
<1>2. SlotBefore(k + 1, p, r) = IF k \in Changed(p, r) THEN k ELSE previous
  BY SlotNamed
<1>3. \A s \in Slot : /\ s < k + 1 <=> (s < k \/ s = k)
                      /\ s >= k + 1 <=> s > k
                      /\ s >= k <=> (s > k \/ s = k)
                      /\ ~(k < k) /\ ~(k > k)
  BY Constants
<1>4. CASE k \notin Changed(p, r)
  <2>1. Slotwise(t, k, p, r, FALSE, FALSE, FALSE)
    BY <1>3 DEF Reached
  <2>2. Slotwise(t, k, p, r, TRUE, TRUE, TRUE)
    BY <1>1, <1>4, <2>1 DEF Slotwise
  <2> HIDE DEF previous
  <2>3. t.current_slot = previous
    BY DEF Reached, previous
  <2>4. Reached(t, k + 1, p, r)
    BY <1>2, <1>3, <1>4, <2>2, <2>3 DEF Reached
  <2>5. Runs(t, SlotRecords(k, p, r, previous), t)
    BY <1>1, <1>4, RunsEmpty
  <2> QED BY <2>4, <2>5 DEF previous
<1>5. CASE k \in Changed(p, r)
  <2>1. \E v \in Tracker : Runs(t, NameOf(k, previous), v) /\ Within(v, k, p, r, FALSE, FALSE, FALSE)
    <3>1. CASE previous = k
      <4>1. NameOf(k, previous) = <<>>
        BY <3>1 DEF NameOf, Unless
      <4>2. Within(t, k, p, r, FALSE, FALSE, FALSE)
        BY <1>3, <3>1 DEF Reached, Within, Around
      <4> QED BY <4>1, <4>2, RunsEmpty
    <3>2. CASE previous # k
      <4> DEFINE record == Rec("slot", k)
      <4>1. NameOf(k, previous) = <<record>>
        BY <3>2 DEF NameOf, Unless
      <4>2. Accepted(t, record)
        BY RecordTypes DEF Accepted, Expected, Rec
      <4>3. PICK v \in Tracker : v = Pushed(t, record)
        BY <4>2, AcceptedIsTaken
      <4>4. v = [t EXCEPT !.current_slot = k]
        BY <4>3 DEF Pushed, Rec
      <4>5. v.current_slot = k /\ v.primary_slot = t.primary_slot /\ v.slots = t.slots
        <5>1. t \in [current_slot : Slot, primary_slot : Slot \cup {NoSlot},
                     slots : [Slot -> SlotState]]
          BY DEF Tracker
        <5> QED BY <4>4, <5>1
      <4>6. \A s \in Slot, b \in BOOLEAN :
              Slotwise(t, s, p, r, b, b, b) => Slotwise(v, s, p, r, b, b, b)
        BY <4>5 DEF Slotwise
      <4>7. Within(v, k, p, r, FALSE, FALSE, FALSE)
        BY <1>3, <4>5, <4>6 DEF Reached, Within, Around
      <4>8. Runs(t, <<record>>, v)
        BY <4>2, <4>3, RunsOne
      <4> HIDE DEF record
      <4> QED BY <4>1, <4>7, <4>8
    <3> QED BY <3>1, <3>2
  <2>2. PICK v \in Tracker : Runs(t, NameOf(k, previous), v) /\ Within(v, k, p, r, FALSE, FALSE, FALSE)
    BY <2>1
  <2>3. \E u \in Tracker : Runs(v, BodyOf(k, p, r), u) /\ Within(u, k, p, r, TRUE, TRUE, TRUE)
    <3>1. CASE IdFirst
      <4>1. PICK a \in Tracker : Runs(v, IdOf(k, p), a) /\ Within(a, k, p, r, TRUE, FALSE, FALSE)
        BY <2>2, SendId
      <4>2. PICK b \in Tracker : Runs(a, XOf(k, r), b) /\ Within(b, k, p, r, TRUE, TRUE, FALSE)
        BY <4>1, SendX
      <4>3. PICK u \in Tracker : Runs(b, YOf(k, r), u) /\ Within(u, k, p, r, TRUE, TRUE, TRUE)
        BY <4>2, SendY
      <4>4. Runs(a, XOf(k, r) \o YOf(k, r), u) /\ XOf(k, r) \o YOf(k, r) \in Seq(Record)
        BY <1>1, <4>2, <4>3, RunsJoin, ConcatProperties
      <4>5. Runs(v, IdOf(k, p) \o (XOf(k, r) \o YOf(k, r)), u)
        BY <1>1, <4>1, <4>4, RunsJoin
      <4> QED BY <3>1, <4>3, <4>5 DEF BodyOf
    <3>2. CASE ~IdFirst
      <4>1. PICK a \in Tracker : Runs(v, XOf(k, r), a) /\ Within(a, k, p, r, FALSE, TRUE, FALSE)
        BY <2>2, SendX
      <4>2. PICK b \in Tracker : Runs(a, YOf(k, r), b) /\ Within(b, k, p, r, FALSE, TRUE, TRUE)
        BY <4>1, SendY
      <4>3. PICK u \in Tracker : Runs(b, IdOf(k, p), u) /\ Within(u, k, p, r, TRUE, TRUE, TRUE)
        BY <4>2, SendId
      <4>4. Runs(v, XOf(k, r) \o YOf(k, r), b) /\ XOf(k, r) \o YOf(k, r) \in Seq(Record)
        BY <1>1, <4>1, <4>2, RunsJoin, ConcatProperties
      <4>5. Runs(v, (XOf(k, r) \o YOf(k, r)) \o IdOf(k, p), u)
        BY <1>1, <4>3, <4>4, RunsJoin
      <4> QED BY <3>2, <4>3, <4>5 DEF BodyOf
    <3> QED BY <3>1, <3>2
  <2>4. PICK u \in Tracker : Runs(v, BodyOf(k, p, r), u) /\ Within(u, k, p, r, TRUE, TRUE, TRUE)
    BY <2>3
  <2> HIDE DEF previous
  <2>6. Runs(t, NameOf(k, previous) \o BodyOf(k, p, r), u)
    BY <1>1, <2>2, <2>4, RunsJoin
  <2>7. Reached(u, k + 1, p, r)
    BY <1>2, <1>3, <1>5, <2>4 DEF Reached, Within, Around
  <2>8. SlotRecords(k, p, r, previous) = NameOf(k, previous) \o BodyOf(k, p, r)
    BY <1>1, <1>5
  <2> QED BY <2>6, <2>7, <2>8 DEF previous
<1> QED BY <1>4, <1>5

\* A tracker in step with the panel is ready for the first slot.
LEMMA FrameStarts ==
  ASSUME KernelTyped, IdsAreUnique, NEW p, NEW r, Frames(p, r),
         NEW t \in Tracker, Agrees(t)
  PROVE  Reached(t, 0, p, r)
<1>1. t.current_slot = SlotBefore(0, p, r)
  BY SlotNamed DEF Agrees
<1>2. ASSUME NEW s \in Slot
      PROVE  Slotwise(t, s, p, r, FALSE, FALSE, FALSE) /\ ~(s < 0)
  <2>1. ~(s < 0)
    BY Constants
  <2>2. /\ t.slots[s].id = panel[s] /\ t.slots[s].pending_release = FALSE
        /\ ~Emulates => /\ t.slots[s].x \in {None, raw[s].x}
                        /\ t.slots[s].y \in {None, raw[s].y}
        /\ panel[s] # Off /\ panel[s] = alone.id => Alone(t, s, alone.axes)
    BY DEF Agrees
  <2>3. ASSUME Lone(s, p, r)
        PROVE  /\ t.primary_slot = IF panel[s] = p[s] THEN s ELSE NoSlot
               /\ panel[s] = p[s] /\ "x" \in alone.axes => t.slots[s].x # None
               /\ panel[s] = p[s] /\ "y" \in alone.axes => t.slots[s].y # None
    <3>1. CASE panel[s] = p[s] /\ panel[s] = alone.id
      <4>1. Alone(t, s, alone.axes)
        BY <2>2, <2>3, <3>1 DEF Lone
      <4> QED BY <3>1, <4>1 DEF Alone
    <3>2. CASE panel[s] # p[s] /\ \A q \in Slot : panel[q] = Off
      <4>1. \A q \in Slot : t.slots[q].id = Off /\ t.slots[q].pending_release = FALSE
        BY <3>2 DEF Agrees
      <4>2. t.primary_slot = NoSlot
        BY <4>1, TrackerParts DEF Consistent
      <4> QED BY <3>2, <4>2
    <3> QED BY <2>3, <3>1, <3>2, LoneFacts
  <2> QED BY <2>1, <2>2, <2>3 DEF Slotwise
<1> QED BY <1>1, <1>2 DEF Reached

\* All slots are sent.
LEMMA SendSlots ==
  ASSUME KernelTyped, IdsAreUnique, NEW p, NEW r, Frames(p, r),
         NEW t \in Tracker, Reached(t, 0, p, r)
  PROVE  \E u \in Tracker : /\ Runs(t, FlattenSeq(SlotRecordsOf(p, r)), u)
                            /\ Reached(u, Slots, p, r)
<1> DEFINE ss == SlotRecordsOf(p, r)
           Sends(s, k) == \E u \in Tracker : Runs(t, s, u) /\ Reached(u, k, p, r)
<1>1. Slots \in Nat \ {0} /\ ss \in [1 .. Slots -> Seq(Record)]
  <2>1. SlotRecordsOf(p, r) \in [1 .. Slots -> Seq(Record)]
    BY FrameRecordsType DEF Frames
  <2> QED BY <2>1, Constants
<1>2. \A k \in Slot : k + 1 \in 1 .. Slots
                      /\ ss[k + 1] = SlotRecords(k, p, r, SlotBefore(k, p, r))
  <2> TAKE k \in Slot
  <2>1. PICK m \in 1 .. Slots : m = k + 1 /\ m - 1 = k
    <3>1. k \in Nat /\ k < Slots /\ Slots \in Nat
      BY Constants
    <3>2. PICK m : m = k + 1
      OBVIOUS
    <3> HIDE DEF ss
    <3> QED BY <3>1, <3>2
  <2>2. ss[m] = SlotRecords(m - 1, p, r, SlotBefore(m - 1, p, r))
    BY DEF SlotRecordsOf
  <2> HIDE DEF ss
  <2> QED BY <2>1, <2>2
<1> HIDE DEF ss
<1>3. PICK f \in [1 .. Slots -> Seq(Record)] : Joins(f, ss, Slots) /\ FlattenSeq(ss) = f[Slots]
  BY <1>1, Flattened
<1> DEFINE S == {k \in Nat : k \in 1 .. Slots => Sends(f[k], k)}
<1>4. 0 \in S
  OBVIOUS
<1>5. ASSUME NEW k \in Nat, k \in S PROVE k + 1 \in S
  <2>1. SUFFICES ASSUME k + 1 \in 1 .. Slots PROVE Sends(f[k + 1], k + 1)
    <3> HIDE DEF Sends
    <3> QED OBVIOUS
  <2>2. k \in Slot
    BY <2>1, <1>1 DEF Slot
  <2>3. \A u \in Tracker : Reached(u, k, p, r) => 
          \E v \in Tracker : Runs(u, ss[k + 1], v) /\ Reached(v, k + 1, p, r)
    BY <1>2, <2>2, SendSlot
  <2>4. CASE k = 0
    <3>1. f[k + 1] = ss[k + 1]
      BY <1>3, <2>4 DEF Joins
    <3> QED BY <2>3, <2>4, <3>1
  <2>5. CASE k # 0
    <3>1. k \in 1 .. Slots
      BY <2>1, <2>5, <1>1
    <3>2. PICK u \in Tracker : Runs(t, f[k], u) /\ Reached(u, k, p, r)
      BY <1>5, <3>1
    <3>3. PICK v \in Tracker : Runs(u, ss[k + 1], v) /\ Reached(v, k + 1, p, r)
      BY <2>3, <3>2
    <3>4. f[k + 1] = f[k] \o ss[k + 1]
      <4>1. PICK m \in 1 .. Slots : m = k + 1 /\ m - 1 = k /\ m > 1
        BY <2>1, <2>5
      <4>2. f[m] = f[m - 1] \o ss[m]
        BY <1>3, <4>1 DEF Joins
      <4> QED BY <4>1, <4>2
    <3>5. f[k] \in Seq(Record) /\ ss[k + 1] \in Seq(Record)
      BY <1>1, <2>1, <3>1
    <3>6. Runs(t, f[k] \o ss[k + 1], v)
      BY <3>2, <3>3, <3>5, RunsJoin
    <3> QED BY <3>3, <3>4, <3>6
  <2> QED BY <2>4, <2>5
<1>6. Slots \in S
  <2> HIDE DEF S
  <2> QED BY <1>1, <1>4, <1>5, Ascent
<1>7. Sends(f[Slots], Slots)
  BY <1>1, <1>6
<1> QED BY <1>3, <1>7 DEF ss

\* Every slot has been sent, and the kernel would not name slot k again.
AllSent(t, k, p, r) ==
  t.current_slot = k /\ \A s \in Slot : Slotwise(t, s, p, r, TRUE, TRUE, TRUE)

LEMMA SlotsAreAll ==
  ASSUME KernelTyped, NEW p, NEW r, Changed(p, r) # {},
         NEW t \in Tracker, Reached(t, Slots, p, r)
  PROVE  AllSent(t, Max(Changed(p, r)), p, r)
<1>1. \A s \in Slot : s < Slots
  BY Constants
<1> QED BY <1>1, SlotNamed DEF Reached, AllSent

\* Pointer emulation writes to slot 0, which then has a coordinate more.
LEMMA SendEmulated ==
  ASSUME KernelTyped, NEW p, NEW r, Frames(p, r), NEW k,
         NEW t \in Tracker, AllSent(t, k, p, r)
  PROVE  \E u \in Tracker : /\ Runs(t, EmulatedX(p, r) \o EmulatedY(p, r), u)
                            /\ AllSent(u, k, p, r)
<1>1. /\ EmulatedX(p, r) \in Seq(Record) /\ EmulatedY(p, r) \in Seq(Record)
      /\ EmulatedPoint(p, r) = emulated \/ (Emulates = TRUE /\ EmulatedPoint(p, r) \in Point)
  BY FrameRecordsType, EmulatedFacts DEF Frames
<1>2. ASSUME NEW v \in Tracker, AllSent(v, k, p, r), Emulates = TRUE, NEW axis, NEW value,
             (axis = "x" /\ value \in X) \/ (axis = "y" /\ value \in Y),
             NEW u, u = Update(v, 0, axis, value)
      PROVE  u \in Tracker /\ AllSent(u, k, p, r)
  <2>1. Coordinate(v, 0, axis, value, u)
    BY <1>2, Constants, Updated, Zenon
  <2>2. value # None
    BY <1>2, Constants
  <2>3. ASSUME NEW s \in Slot PROVE Slotwise(u, s, p, r, TRUE, TRUE, TRUE)
    <3>1. Slotwise(v, s, p, r, TRUE, TRUE, TRUE)
      BY <1>2 DEF AllSent
    <3>2. CASE s = 0
      BY <1>2, <2>1, <2>2, <3>1, <3>2 DEF Slotwise, Coordinate
    <3>3. CASE s # 0
      BY <2>1, <3>1, <3>3 DEF Slotwise, Coordinate
    <3> QED BY <3>2, <3>3
  <2> QED BY <1>2, <2>1, <2>3 DEF AllSent, Coordinate
<1>3. PICK v \in Tracker : Runs(t, EmulatedX(p, r), v) /\ AllSent(v, k, p, r)
  <2>1. CASE EmulatedPoint(p, r)["x"] = emulated["x"]
    BY <2>1, RunsEmpty DEF EmulatedX, Unless
  <2>2. CASE EmulatedPoint(p, r)["x"] # emulated["x"]
    <3> DEFINE value == EmulatedPoint(p, r)["x"]
               record == Rec("x", value)
    <3>1. Emulates = TRUE /\ value \in X
      BY <1>1, <2>2 DEF Point
    <3> HIDE DEF value
    <3>2. Accepted(t, record)
      BY <3>1, RecordTypes DEF Accepted, Expected, Rec
    <3>3. PICK u : u = Pushed(t, record)
      OBVIOUS
    <3>4. u = Update(t, 0, "x", value)
      BY <3>3 DEF Pushed, Rec
    <3>5. u \in Tracker /\ AllSent(u, k, p, r)
      BY <1>2, <3>1, <3>4
    <3>6. Runs(t, <<record>>, u)
      BY <3>2, <3>3, RunsOne
    <3>7. EmulatedX(p, r) = <<record>>
      BY <2>2 DEF EmulatedX, Unless, value
    <3> QED BY <3>5, <3>6, <3>7
  <2> QED BY <2>1, <2>2
<1>4. PICK u \in Tracker : Runs(v, EmulatedY(p, r), u) /\ AllSent(u, k, p, r)
  <2>1. CASE EmulatedPoint(p, r)["y"] = emulated["y"]
    BY <2>1, <1>3, RunsEmpty DEF EmulatedY, Unless
  <2>2. CASE EmulatedPoint(p, r)["y"] # emulated["y"]
    <3> DEFINE value == EmulatedPoint(p, r)["y"]
               record == Rec("y", value)
    <3>1. Emulates = TRUE /\ value \in Y
      BY <1>1, <2>2 DEF Point
    <3> HIDE DEF value
    <3>2. Accepted(v, record)
      BY <3>1, RecordTypes DEF Accepted, Expected, Rec
    <3>3. PICK u : u = Pushed(v, record)
      OBVIOUS
    <3>4. u = Update(v, 0, "y", value)
      BY <3>3 DEF Pushed, Rec
    <3>5. u \in Tracker /\ AllSent(u, k, p, r)
      BY <1>2, <1>3, <3>1, <3>4
    <3>6. Runs(v, <<record>>, u)
      BY <3>2, <3>3, RunsOne
    <3>7. EmulatedY(p, r) = <<record>>
      BY <2>2 DEF EmulatedY, Unless, value
    <3> QED BY <3>5, <3>6, <3>7
  <2> QED BY <2>1, <2>2
<1>5. Runs(t, EmulatedX(p, r) \o EmulatedY(p, r), u)
  BY <1>1, <1>3, <1>4, RunsJoin
<1> QED BY <1>4, <1>5

\* The end of the frame: the tracker is in step with the panel again.
LEMMA FrameEnds ==
  ASSUME KernelTyped, IdsAreUnique, NEW p, NEW r, Frames(p, r), NEW k,
         NEW t \in Tracker, AllSent(t, k, p, r),
         panel' = p, raw' = r, kslot' = k, alone' = AloneAfter(p, r)
  PROVE  \E u \in Tracker : Runs(t, <<SynReport>>, u) /\ Agrees(u)'
<1>1. Accepted(t, SynReport)
  BY RecordTypes DEF Accepted, Expected, SynReport, Rec
<1>2. PICK u \in Tracker : u = Pushed(t, SynReport)
  BY <1>1, AcceptedIsTaken
<1>3. Runs(t, <<SynReport>>, u)
  BY <1>1, <1>2, RunsOne
<1>4. u = Synchronize(t)
  BY <1>2 DEF Pushed, SynReport, Rec
<1>5. /\ t.primary_slot \in Slot \cup {NoSlot} /\ Consistent(t)
      /\ \A s \in Slot : t.slots[s].pending_release \in BOOLEAN
  BY TrackerParts DEF SlotState
<1>6. \A s \in Slot : Slotwise(t, s, p, r, TRUE, TRUE, TRUE)
  BY DEF AllSent
<1>7. ASSUME NEW s \in Slot, Lone(s, p, r)
      PROVE  /\ t.primary_slot = s /\ t.slots[s].id # Off
             /\ "x" \in AloneAfter(p, r).axes => t.slots[s].x # None
             /\ "y" \in AloneAfter(p, r).axes => t.slots[s].y # None
  <2>1. /\ t.primary_slot = s
        /\ panel[s] = p[s] /\ "x" \in alone.axes => t.slots[s].x # None
        /\ panel[s] = p[s] /\ "y" \in alone.axes => t.slots[s].y # None
        /\ r[s].x # raw[s].x => t.slots[s].x # None
        /\ r[s].y # raw[s].y => t.slots[s].y # None
        /\ t.slots[s].id = p[s]
    BY <1>6, <1>7 DEF Slotwise
  <2>2. \A a \in Axis : a \in AloneAfter(p, r).axes =>
          (panel[s] = p[s] /\ a \in alone.axes) \/ r[s][a] # raw[s][a]
    BY <1>7, LoneFacts
  <2>3. /\ "x" \in AloneAfter(p, r).axes =>
             (panel[s] = p[s] /\ "x" \in alone.axes) \/ r[s].x # raw[s].x
        /\ "y" \in AloneAfter(p, r).axes =>
             (panel[s] = p[s] /\ "y" \in alone.axes) \/ r[s].y # raw[s].y
    BY <2>2 DEF Axis
  <2> QED BY <1>7, <2>1, <2>3 DEF Lone
\* What Agrees' asks, of a tracker u.
<1> DEFINE Slotwise2(v, s) ==
             /\ v.slots[s].id = p[s] /\ v.slots[s].pending_release = FALSE
             /\ ~Emulates => /\ v.slots[s].x \in {None, r[s].x}
                             /\ v.slots[s].y \in {None, r[s].y}
             /\ Lone(s, p, r) => Alone(v, s, AloneAfter(p, r).axes)
<1>8. ASSUME u.current_slot = k, \A s \in Slot : Slotwise2(u, s),
             u.primary_slot # NoSlot =>
               LET primary == u.slots[u.primary_slot]
               IN primary.x # None /\ primary.y # None =>
                    primary.reported = TRUE /\ primary.dirty = FALSE
      PROVE  Agrees(u)'
  <2>1. ASSUME NEW s \in Slot', panel'[s] # Off, panel'[s] = alone'.id
        PROVE  Lone(s, p, r) /\ s \in Slot
    BY <2>1 DEF Lone, Slot
  <2> QED BY <1>8, <2>1 DEF Agrees, Alone, Slot
<1>9. t.current_slot = k
  BY DEF AllSent
<1>10. CASE t.primary_slot = NoSlot
  <2>1. u = t
    BY <1>4, <1>10, SynchronizedIdle
  <2>2. ASSUME NEW s \in Slot PROVE Slotwise2(t, s)
    <3>1. t.slots[s].pending_release = FALSE
      BY <1>5, <1>10, Constants DEF Consistent
    <3>2. ~Lone(s, p, r)
      BY <1>7, <1>10, Constants
    <3> QED BY <1>6, <3>1, <3>2 DEF Slotwise
  <2> QED BY <1>3, <1>8, <1>9, <1>10, <2>1, <2>2
<1>4a. CASE t.primary_slot \in Slot /\ t.slots[t.primary_slot].pending_release = TRUE
  <2> DEFINE q == t.primary_slot
  <2>1. /\ u.current_slot = k /\ u.primary_slot = NoSlot
        /\ \A s \in Slot : s # q => u.slots[s] = t.slots[s]
        /\ u.slots[q] = Fresh
    <3>1. LET v == Synchronize(t)
          IN /\ v.current_slot = t.current_slot /\ v.primary_slot = NoSlot
             /\ \A s \in Slot : s # q => v.slots[s] = t.slots[s]
             /\ v.slots[q] = Fresh
      BY <1>4a, SynchronizedRelease
    <3> QED BY <1>4, <1>9, <3>1
  <2>2. t.slots[q].id = Off
    BY <1>5, <1>4a DEF Consistent
  <2>3. ASSUME NEW s \in Slot PROVE ~Lone(s, p, r)
    BY <1>7, <2>2
  <2>4. ASSUME NEW s \in Slot PROVE Slotwise2(u, s)
    <3>1. CASE s = q
      <4>1. p[s] = Off
        BY <1>6, <2>2, <3>1 DEF Slotwise
      <4> QED BY <2>1, <2>3, <3>1, <4>1 DEF Fresh
    <3>2. CASE s # q
      <4>1. t.slots[s].pending_release = FALSE
        BY <1>5, <3>2 DEF Consistent
      <4> QED BY <1>6, <2>1, <2>3, <3>2, <4>1 DEF Slotwise
    <3> QED BY <3>1, <3>2
  <2> HIDE DEF q, Slotwise2
  <2> QED BY <1>3, <1>8, <2>1, <2>4
<1>12. CASE t.primary_slot \in Slot /\ t.slots[t.primary_slot].pending_release # TRUE
  <2> DEFINE q == t.primary_slot
  <2>1. /\ u.current_slot = k /\ u.primary_slot = q
        /\ \A s \in Slot : s # q => u.slots[s] = t.slots[s]
        /\ u.slots[q].id = t.slots[q].id
        /\ u.slots[q].x = t.slots[q].x /\ u.slots[q].y = t.slots[q].y
        /\ u.slots[q].pending_release = FALSE
        /\ IF t.slots[q].x = None \/ t.slots[q].y = None THEN u.slots[q] = t.slots[q]
           ELSE u.slots[q].reported = TRUE /\ u.slots[q].dirty = FALSE
    <3>1. LET v   == Synchronize(t)
              old == t.slots[q]
              new == v.slots[q]
          IN /\ v.current_slot = t.current_slot /\ v.primary_slot = q
             /\ \A s \in Slot : s # q => v.slots[s] = t.slots[s]
             /\ new.id = old.id /\ new.x = old.x /\ new.y = old.y
             /\ new.pending_release = FALSE
             /\ IF old.x = None \/ old.y = None THEN new = old
                ELSE new.reported = TRUE /\ new.dirty = FALSE
      BY <1>12, SynchronizedContact
    <3> QED BY <1>4, <1>9, <3>1
  <2>2. q \in Slot
    BY <1>12
  <2> HIDE DEF q
  <2>3. ASSUME NEW s \in Slot PROVE Slotwise2(u, s)
    <3>1. CASE s = q
      <4>1. Lone(s, p, r) => Alone(u, s, AloneAfter(p, r).axes)
        BY <1>7, <2>1, <3>1 DEF Alone, q
      <4> QED BY <1>6, <2>1, <3>1, <4>1 DEF Slotwise
    <3>2. CASE s # q
      <4>1. t.slots[s].pending_release = FALSE
        BY <1>5, <3>2 DEF Consistent, q
      <4>2. ~Lone(s, p, r)
        BY <1>7, <3>2 DEF q
      <4> QED BY <1>6, <2>1, <3>2, <4>1, <4>2 DEF Slotwise
    <3> QED BY <3>1, <3>2
  <2> HIDE DEF Slotwise2
  <2> QED BY <1>3, <1>8, <2>1, <2>3
<1> QED BY <1>5, <1>10, <1>4a, <1>12

\* A whole frame.
LEMMA FrameRuns ==
  ASSUME KernelTyped, IdsAreUnique, NEW p, NEW r, Frames(p, r), Changed(p, r) # {},
         panel' = p, raw' = r, kslot' = Max(Changed(p, r)), alone' = AloneAfter(p, r),
         NEW t \in Tracker, Agrees(t)
  PROVE  \E u \in Tracker : Runs(t, FrameRecords(p, r), u) /\ Agrees(u)'
<1> DEFINE a == FlattenSeq(SlotRecordsOf(p, r))
           b == EmulatedX(p, r)
           c == EmulatedY(p, r)
           k == Max(Changed(p, r))
<1>1. /\ a \in Seq(Record) /\ b \in Seq(Record) /\ c \in Seq(Record)
      /\ <<SynReport>> \in Seq(Record)
      /\ FrameRecords(p, r) = ((a \o b) \o c) \o <<SynReport>>
  <2>1. <<SynReport>> \in Seq(Record)
    BY RecordTypes
  <2>2. /\ a \in Seq(Record) /\ b \in Seq(Record) /\ c \in Seq(Record)
        /\ FrameRecords(p, r) = ((a \o b) \o c) \o <<SynReport>>
    BY FrameRecordsType, Zenon DEF Frames
  <2> QED BY <2>1, <2>2
<1>2. PICK v \in Tracker : Runs(t, a, v) /\ AllSent(v, k, p, r)
  BY FrameStarts, SendSlots, SlotsAreAll
<1>3. PICK w \in Tracker : Runs(v, b \o c, w) /\ AllSent(w, k, p, r)
  BY <1>2, SendEmulated
<1>4. PICK u \in Tracker : Runs(w, <<SynReport>>, u) /\ Agrees(u)'
  BY <1>3, FrameEnds
<1> HIDE DEF a, b, c, k
<1>5. b \o c \in Seq(Record) /\ a \o (b \o c) \in Seq(Record) /\ (a \o b) \o c = a \o (b \o c)
  <2>1. b \o c \in Seq(Record)
    BY <1>1, ConcatProperties, Zenon
  <2>2. a \o (b \o c) \in Seq(Record)
    BY <1>1, <2>1, ConcatProperties, Zenon
  <2>3. (a \o b) \o c = a \o (b \o c)
    <3>1. ASSUME NEW e \in Seq(Record), NEW f \in Seq(Record), NEW g \in Seq(Record)
          PROVE  (e \o f) \o g = e \o (f \o g)
      BY ConcatAssociative
    <3> QED BY <1>1, <3>1
  <2> QED BY <2>1, <2>2, <2>3
<1>6. Runs(t, a \o (b \o c), w)
  BY <1>1, <1>2, <1>3, <1>5, RunsJoin
<1>7. Runs(t, (a \o (b \o c)) \o <<SynReport>>, u)
  BY <1>1, <1>4, <1>5, <1>6, RunsJoin
<1> QED BY <1>1, <1>4, <1>5, <1>7

(***************************************************************************)
(* The inductive invariant.                                                *)
(***************************************************************************)
AContact == [phase : {"Pressed", "Moved", "Released"},
             at : [x : X \cup {None}, y : Y \cup {None}], id : Id \cup {Off}]

Copies == [tracker : Tracker, decoded : 0 .. RecordBudget, out : Seq(AContact)]

hand == [pointer |-> pointer, owner |-> owner]

Typed ==
  /\ KernelTyped /\ IdsAreUnique
  /\ queue \in Seq(Record) /\ Len(queue) <= MaxQueue /\ chunk \in Seq(Record)
  /\ tracker \in Tracker /\ decoded \in 0 .. RecordBudget
  /\ staged \in Copies
  /\ stopped \in {None, "dropped", "refused"}
  /\ contacts \in Seq(AContact) /\ hand \in Hand

\* A read starts when the contacts of the one before are dispatched; its own lead
\* from the pointer to the copy of the tracker they were made with.
Leading ==
  /\ Leads(hand, contacts, tracker)
  /\ chunk # <<>> =>
       contacts = <<>> /\ stopped = None /\ Leads(hand, staged.out, staged.tracker)

Unread  == chunk \o queue
Current == IF chunk = <<>> THEN tracker ELSE staged.tracker

\* What is unread will bring the tracker in step with the panel, unless the kernel
\* has dropped some of it.
Ahead ==
  stopped = None =>
    \/ Unread # <<>> /\ Head(Unread) = SynDropped
    \/ \E v \in Tracker : Runs(Current, Unread, v) /\ Agrees(v)

Safe ==
  /\ Typed /\ Leading
  /\ OpenedWhile # "in use" => Ahead /\ stopped # "refused"

\* The initial states.
LEMMA NewTrackerType ==
  NewTracker \in Tracker /\ \A m : m.pointer.down = FALSE => Shows(NewTracker, m)
<1>1. 0 \in Slot /\ NoSlot \notin Slot
  BY Constants
<1>2. Fresh \in SlotState /\ Fresh.reported = FALSE /\ Fresh.pending_release = FALSE
  BY DEF Fresh, SlotState
<1>3. /\ NewTracker.primary_slot = NoSlot /\ NewTracker.current_slot = 0
      /\ NewTracker.slots = [s \in Slot |-> Fresh]
      /\ NewTracker = [current_slot |-> 0, primary_slot |-> NoSlot, slots |-> NewTracker.slots]
  BY DEF NewTracker
<1>4. NewTracker \in [current_slot : Slot, primary_slot : Slot \cup {NoSlot},
                      slots : [Slot -> SlotState]]
  BY <1>1, <1>2, <1>3
<1>5. Consistent(NewTracker)
  BY <1>2, <1>3 DEF Consistent
<1>6. \A m : m.pointer.down = FALSE => Shows(NewTracker, m)
  BY <1>3 DEF Shows, Held
<1> QED BY <1>4, <1>5, <1>6 DEF Tracker

LEMMA Sizes ==
  /\ RecordBudget \in Nat /\ MaxQueue \in Nat \ {0, 1}
  /\ ReadRecords \in Nat \ {0} /\ RenewAt \in Nat \ {0}
  /\ RenewAt - 1 + ReadRecords <= RecordBudget
<1>1. /\ {Slots, ReadRecords, RenewAt} \subseteq Nat \ {0}
      /\ {MaxContacts, MaxBacklog, RecordBudget} \subseteq Nat
      /\ MaxQueue \in Nat \ {0, 1} /\ RenewAt - 1 + ReadRecords <= RecordBudget
  BY TouchAssumption, Zenon
<1> QED BY <1>1

LEMMA NothingType ==
  Nothing \in Copies
<1>1. 0 \in 0 .. RecordBudget
  BY Sizes
<1> QED BY <1>1, NewTrackerType DEF Nothing, Copies

LEMMA KernelStarts == Init => KernelTyped /\ IdsAreUnique
<1> SUFFICES ASSUME Init PROVE KernelTyped /\ IdsAreUnique
  OBVIOUS
<1>1. /\ Slots \in Nat \ {0} /\ MaxContacts \in Nat /\ 0 \in Slot
      /\ alone = [id |-> Off, axes |-> {}]
  BY Constants DEF Init
<1>2. alone \in [id : Id \cup {Off}, axes : SUBSET Axis] /\ alone.id = Off
  BY <1>1
<1>3. raw \in [Slot -> Point \cup {NoPoint}]
  BY DEF Init
<1>4. kslot \in Slot /\ emulated \in Point \cup {NoPoint}
  BY <1>1 DEF Init
<1>5. CASE OpenedWhile # "in use"
  <2>1. panel \in [Slot -> {Off}] /\ landed = 0
    BY <1>5 DEF Init
  <2>2. panel \in [Slot -> Id \cup {Off}] /\ landed \in 0 .. MaxContacts
    BY <1>1, <2>1
  <2> QED BY <1>1, <1>2, <1>3, <1>4, <2>1, <2>2 DEF KernelTyped, IdsAreUnique, Off
<1>6. CASE OpenedWhile = "in use"
  <2>1. /\ panel \in [Slot -> 0 .. Slots]
        /\ \A s, t \in Touched(panel) : s # t => panel[s] # panel[t]
        /\ landed = Slots
    BY <1>6 DEF Init
  <2>2. Slots <= MaxContacts
    BY <1>6, TouchAssumption
  <2>3. panel \in [Slot -> Id \cup {Off}] /\ landed \in 0 .. MaxContacts
    <3>1. \A n \in 0 .. Slots : n \in Id \cup {Off}
      BY <1>1, <2>2 DEF Id, Off
    <3> QED BY <1>1, <2>1, <2>2, <3>1
  <2>4. \A s \in Slot : panel[s] <= landed
    BY <1>1, <2>1
  <2>5. \A s, t \in Slot : panel[s] # Off /\ s # t => panel[s] # panel[t]
    BY <2>1 DEF Touched
  <2>6. alone.id \in 0 .. landed
    BY <1>1, <1>2, <2>1 DEF Off
  <2> QED BY <1>2, <1>3, <1>4, <2>3, <2>4, <2>5, <2>6 DEF KernelTyped, IdsAreUnique
<1> QED BY <1>5, <1>6

LEMMA SafeInit == Init => Safe
<1> SUFFICES ASSUME Init PROVE Safe
  OBVIOUS
<1>1. /\ queue = <<>> /\ chunk = <<>> /\ contacts = <<>>
      /\ tracker = NewTracker /\ staged = Nothing /\ decoded = 0 /\ stopped = None
      /\ pointer = Up /\ owner = Off
  BY DEF Init
<1>2. hand \in Hand /\ hand.pointer.down = FALSE
  BY <1>1 DEF hand, Hand, Up
<1>3. Typed
  <2>1. 0 \in 0 .. RecordBudget /\ Len(<<>>) <= MaxQueue
    BY Sizes
  <2> QED BY <1>1, <1>2, <2>1, KernelStarts, NewTrackerType, NothingType DEF Typed
<1>4. Leading
  <2>1. Shows(NewTracker, hand)
    BY <1>2, NewTrackerType
  <2>2. Leads(hand, <<>>, NewTracker)
    BY <1>2, <2>1, LeadsEmpty
  <2> QED BY <1>1, <2>2 DEF Leading
<1>5. ASSUME OpenedWhile # "in use" PROVE Ahead
  <2>1. Agrees(NewTracker)
    <3>1. panel \in [Slot -> {Off}] /\ kslot = 0
      BY <1>5 DEF Init
    <3>2. NewTracker.current_slot = 0 /\ NewTracker.primary_slot = NoSlot
          /\ \A s \in Slot : NewTracker.slots[s] = Fresh
      BY DEF NewTracker
    <3> QED BY <3>1, <3>2 DEF Agrees, Fresh
  <2>2. Runs(NewTracker, <<>>, NewTracker)
    BY NewTrackerType, RunsEmpty
  <2>3. Unread = <<>> /\ Current = NewTracker
    BY <1>1 DEF Unread, Current
  <2> QED BY <2>1, <2>2, <2>3, NewTrackerType DEF Ahead
<1>6. stopped # "refused"
  BY <1>1 DEF None
<1> QED BY <1>3, <1>4, <1>5, <1>6 DEF Safe

\* The contacts due at the end of a frame.
LEMMA ReportsType ==
  ASSUME NEW t \in Tracker
  PROVE  Reports(t) \in Seq(AContact)
<1>1. CASE t.primary_slot = NoSlot
  BY <1>1 DEF Reports
<1>2. CASE t.primary_slot # NoSlot
  <2> DEFINE state == t.slots[t.primary_slot]
  <2>1. state \in SlotState
    BY <1>2, TrackerParts
  <2>2. \A phase \in {"Pressed", "Moved", "Released"} : Contact(phase, state) \in AContact
    BY <2>1 DEF Contact, AContact, SlotState
  <2>3. \/ Reports(t) = <<>>
        \/ \E phase \in {"Pressed", "Moved", "Released"} : Reports(t) = <<Contact(phase, state)>>
    BY <1>2 DEF Reports
  <2>4. \A contact \in AContact : <<contact>> \in Seq(AContact)
    OBVIOUS
  <2> HIDE DEF state
  <2> QED BY <2>2, <2>3, <2>4, EmptySeq
<1> QED BY <1>1, <1>2

\* What a frame does, apart from the queue.
LEMMA FrameStep ==
  ASSUME Typed, Frame
  PROVE  \E p, r :
           /\ Frames(p, r) /\ Changed(p, r) # {} /\ KernelTyped' /\ IdsAreUnique'
           /\ panel' = p /\ raw' = r /\ kslot' = Max(Changed(p, r))
           /\ alone' = AloneAfter(p, r)
           /\ queue \o FrameRecords(p, r) \in Seq(Record)
           /\ queue' = IF Len(queue \o FrameRecords(p, r)) <= MaxQueue
                       THEN queue \o FrameRecords(p, r) ELSE <<SynDropped, SynReport>>
<1>1. PICK on \in SUBSET Slot : \E moved \in [on -> Point] :
        /\ Changed(PanelAfter(on), RawAfter(moved)) # {}
        /\ panel' = PanelAfter(on) /\ raw' = RawAfter(moved)
        /\ landed' = landed + Cardinality(Landing(on)) /\ landed' <= MaxContacts
        /\ kslot' = Max(Changed(PanelAfter(on), RawAfter(moved)))
        /\ emulated' = EmulatedPoint(PanelAfter(on), RawAfter(moved))
        /\ queue' = IF Len(queue \o FrameRecords(PanelAfter(on), RawAfter(moved))) <= MaxQueue
                    THEN queue \o FrameRecords(PanelAfter(on), RawAfter(moved))
                    ELSE <<SynDropped, SynReport>>
        /\ alone' = AloneAfter(PanelAfter(on), RawAfter(moved))
  BY Zenon DEF Frame
<1>a. PICK moved \in [on -> Point] : \E p, r :
        /\ p = PanelAfter(on) /\ r = RawAfter(moved)
        /\ Changed(p, r) # {} /\ panel' = p /\ raw' = r
        /\ landed' = landed + Cardinality(Landing(on)) /\ landed' <= MaxContacts
        /\ kslot' = Max(Changed(p, r)) /\ emulated' = EmulatedPoint(p, r)
        /\ queue' = IF Len(queue \o FrameRecords(p, r)) <= MaxQueue
                    THEN queue \o FrameRecords(p, r) ELSE <<SynDropped, SynReport>>
        /\ alone' = AloneAfter(p, r)
  BY <1>1, Zenon
<1>2. PICK p, r :
        /\ p = PanelAfter(on) /\ r = RawAfter(moved)
        /\ Changed(p, r) # {} /\ panel' = p /\ raw' = r
        /\ landed' = landed + Cardinality(Landing(on)) /\ landed' <= MaxContacts
        /\ kslot' = Max(Changed(p, r)) /\ emulated' = EmulatedPoint(p, r)
        /\ queue' = IF Len(queue \o FrameRecords(p, r)) <= MaxQueue
                    THEN queue \o FrameRecords(p, r) ELSE <<SynDropped, SynReport>>
        /\ alone' = AloneAfter(p, r)
  BY <1>a, Zenon
<1>3. KernelTyped /\ IdsAreUnique
  BY DEF Typed
<1>4. Follows(on, moved, p, r)
  BY <1>2 DEF Follows
<1> DEFINE c == Cardinality(Landing(on))
<1>5. /\ p \in [Slot -> Id \cup {Off}] /\ r \in [Slot -> Point \cup {NoPoint}]
      /\ landed + c \in landed .. MaxContacts
      /\ \A s \in Slot :
           /\ \/ p[s] = Off \/ p[s] = panel[s]
              \/ panel[s] = Off /\ p[s] \in landed + 1 .. landed + c
           /\ r[s] = raw[s] \/ r[s] \in Point
      /\ \A s, t \in Slot : p[s] # Off /\ s # t => p[s] # p[t]
  BY <1>3, <1>4, FrameFacts
<1> HIDE DEF c
<1>6. landed \in Nat /\ landed' = landed + c /\ MaxContacts \in Nat
  BY <1>2, <1>3, Constants DEF KernelTyped, c
<1>7. Frames(p, r)
  BY <1>5, <1>6 DEF Frames
<1>8. landed' \in 0 .. MaxContacts /\ landed <= landed' /\ \A s \in Slot : p[s] <= landed'
  <2>1. landed' \in 0 .. MaxContacts /\ landed <= landed'
    BY <1>5, <1>6
  <2>2. ASSUME NEW s \in Slot PROVE p[s] <= landed'
    <3>1. panel[s] <= landed /\ panel[s] \in Nat
      BY <1>3 DEF IdsAreUnique, KernelTyped, Id, Off
    <3>2. p[s] = Off \/ p[s] = panel[s] \/ p[s] \in landed + 1 .. landed + c
      BY <1>5
    <3> QED BY <1>5, <1>6, <2>1, <3>1, <3>2 DEF Off
  <2> QED BY <2>1, <2>2
<1>9. /\ alone' \in [id : Id \cup {Off}, axes : SUBSET Axis]
      /\ alone'.id \in {Off} \cup {p[s] : s \in Slot}
  BY <1>2, <1>3, <1>7, AloneType
<1>10. KernelTyped'
  <2>1. kslot' \in Slot
    BY <1>2, <1>3, SlotNamed
  <2>2. emulated' \in Point \cup {NoPoint}
    BY <1>2, <1>3, <1>5, EmulatedFacts DEF KernelTyped
  <2>3. panel' \in [Slot -> Id \cup {Off}] /\ raw' \in [Slot -> Point \cup {NoPoint}]
    BY <1>2, <1>5
  <2> QED BY <1>8, <1>9, <2>1, <2>2, <2>3 DEF KernelTyped, Slot, Id, Axis, Point
<1>4a. IdsAreUnique'
  <2>1. alone'.id \in 0 .. landed'
    <3>1. \A s \in Slot : p[s] \in Nat
      BY <1>5 DEF Id, Off
    <3> QED BY <1>8, <1>9, <3>1 DEF Off
  <2> QED BY <1>2, <1>5, <1>8, <1>9, <2>1 DEF IdsAreUnique, Slot
<1>12. queue \o FrameRecords(p, r) \in Seq(Record)
  <2>1. FrameRecords(p, r) \in Seq(Record)
    BY <1>3, <1>7, FrameRecordsType DEF Frames
  <2> QED BY <2>1, ConcatProperties DEF Typed
<1> QED BY <1>2, <1>7, <1>10, <1>4a, <1>12, Zenon

\* The size of a read.
LEMMA ReadSize ==
  ASSUME NEW S, NEW q \in Seq(S), q # <<>>, NEW size, size = Min({Len(q), ReadRecords})
  PROVE  /\ size \in 1 .. Len(q) /\ size <= ReadRecords
         /\ SubSeq(q, 1, size) \in Seq(S) /\ SubSeq(q, 1, size) # <<>>
         /\ SubSeq(q, size + 1, Len(q)) \in Seq(S)
         /\ Len(SubSeq(q, size + 1, Len(q))) <= Len(q)
         /\ SubSeq(q, 1, size) \o SubSeq(q, size + 1, Len(q)) = q
<1>1. Len(q) \in Nat \ {0} /\ ReadRecords \in Nat \ {0}
  BY Sizes, EmptySeq
<1> DEFINE T == {Len(q), ReadRecords}
<1>2. T \in SUBSET (0 .. Len(q) + ReadRecords) /\ T # {} /\ Len(q) + ReadRecords \in Nat
  BY <1>1
<1>3. size \in T /\ \A k \in T : size <= k
  <2> HIDE DEF T
  <2>1. Min(T) \in T /\ \A k \in T : Min(T) <= k
    BY <1>2, Extremes
  <2> QED BY <2>1 DEF T
<1>4. size \in 1 .. Len(q) /\ size <= ReadRecords
  BY <1>1, <1>3
<1>5. /\ size \in Int /\ size + 1 \in Int /\ Len(q) \in Int /\ 1 \in Int
      /\ \A i \in 1 .. size : i \in 1 .. Len(q)
      /\ \A i \in size + 1 .. Len(q) : i \in 1 .. Len(q)
  <2>1. ASSUME NEW l \in Nat, NEW z \in 1 .. l
        PROVE  /\ z \in Int /\ z + 1 \in Int /\ l \in Int /\ 1 \in Int
               /\ \A i \in 1 .. z : i \in 1 .. l
               /\ \A i \in z + 1 .. l : i \in 1 .. l
    BY <2>1
  <2>2. Len(q) \in Nat
    BY <1>1
  <2> QED BY <1>4, <2>1, <2>2, Zenon
<1> DEFINE a == SubSeq(q, 1, size)
           b == SubSeq(q, size + 1, Len(q))
<1>6. ASSUME NEW m \in Int, NEW n \in Int, \A i \in m .. n : i \in 1 .. Len(q)
      PROVE  /\ SubSeq(q, m, n) \in Seq(S)
             /\ Len(SubSeq(q, m, n)) = IF m <= n THEN n - m + 1 ELSE 0
  <2>1. \A i \in m .. n : q[i] \in S
    BY <1>6, ElementOfSeq
  <2> QED BY <2>1, SubSeqProperties, Zenon
<1>7. a \in Seq(S) /\ Len(a) = IF 1 <= size THEN size - 1 + 1 ELSE 0
  <2>1. size \in Int /\ 1 \in Int /\ \A i \in 1 .. size : i \in 1 .. Len(q)
    BY <1>5
  <2> QED BY <1>6, <2>1, Zenon
<1>8. b \in Seq(S) /\ Len(b) = IF size + 1 <= Len(q) THEN Len(q) - (size + 1) + 1 ELSE 0
  <2>1. size + 1 \in Int /\ Len(q) \in Int /\ \A i \in size + 1 .. Len(q) : i \in 1 .. Len(q)
    BY <1>5
  <2> QED BY <1>6, <2>1, Zenon
<1>9. a \o b = q
  <2>1. 1 \in 1 .. Len(q) + 1 /\ size \in 1 - 1 .. Len(q) /\ Len(q) \in size .. Len(q)
    BY <1>1, <1>4
  <2>2. a \o b = SubSeq(q, 1, Len(q))
    BY <2>1, ConcatAdjacentSubSeq
  <2> QED BY <2>2, SubSeqFull
<1>10. a # <<>> /\ Len(b) <= Len(q)
  <2> HIDE DEF a, b
  <2> QED BY <1>1, <1>4, <1>7, <1>8
<1> HIDE DEF a, b
<1>11. /\ size \in 1 .. Len(q) /\ size <= ReadRecords /\ a \in Seq(S) /\ a # <<>>
       /\ b \in Seq(S) /\ Len(b) <= Len(q) /\ a \o b = q
  BY <1>4, <1>7, <1>8, <1>9, <1>10
<1> QED BY <1>11 DEF a, b

\* A budget renewed at the read is never spent by it.
LEMMA BudgetHolds ==
  ASSUME decoded \in 0 .. RecordBudget, NEW size \in Nat, size <= ReadRecords
  PROVE  /\ Renewed \in 0 .. RecordBudget /\ Renewed + size \in 0 .. RecordBudget
         /\ WithinBudget(size)
<1>1. Renewed \in Nat /\ Renewed < RenewAt
  BY Sizes DEF Renewed
<1>2. Renewed + size <= RecordBudget
  BY <1>1, Sizes
<1>3. Renewed \in 0 .. RecordBudget /\ Renewed + size \in 0 .. RecordBudget
  BY <1>1, <1>2, Sizes
<1> HIDE DEF Renewed
<1> QED BY <1>2, <1>3 DEF WithinBudget

\* The kernel does nothing.
LEMMA KernelStill ==
  ASSUME KernelTyped, IdsAreUnique, UNCHANGED kernel
  PROVE  KernelTyped' /\ IdsAreUnique'
BY DEF KernelTyped, IdsAreUnique, kernel

\* What a read does.
LEMMA ReadStep ==
  ASSUME Typed, Read
  PROVE  /\ stopped = None /\ chunk = <<>> /\ contacts = <<>> /\ queue # <<>>
         /\ chunk' \in Seq(Record) /\ chunk' # <<>> /\ queue' \in Seq(Record)
         /\ Len(queue') <= MaxQueue /\ chunk' \o queue' = queue
         /\ staged' \in Copies /\ staged'.tracker = tracker /\ staged'.out = <<>>
         /\ decoded' \in 0 .. RecordBudget
         /\ UNCHANGED <<kernel, tracker, contacts, stopped, slint>>
<1> DEFINE size == Min({Len(queue), ReadRecords})
<1>1. /\ stopped = None /\ chunk = <<>> /\ contacts = <<>> /\ queue # <<>>
      /\ queue' = SubSeq(queue, size + 1, Len(queue))
      /\ WithinBudget(size) =>
           /\ chunk' = SubSeq(queue, 1, size)
           /\ staged' = [tracker |-> tracker, decoded |-> Renewed + size, out |-> <<>>]
           /\ UNCHANGED stopped
      /\ decoded' = Renewed /\ UNCHANGED <<kernel, tracker, contacts, slint>>
  BY Zenon DEF Read
<1>2. queue \in Seq(Record) /\ Len(queue) <= MaxQueue /\ decoded \in 0 .. RecordBudget
  BY DEF Typed
<1>3. \A n : n = size =>
         /\ n \in 1 .. Len(queue) /\ n <= ReadRecords
         /\ SubSeq(queue, 1, n) \in Seq(Record) /\ SubSeq(queue, 1, n) # <<>>
         /\ SubSeq(queue, n + 1, Len(queue)) \in Seq(Record)
         /\ Len(SubSeq(queue, n + 1, Len(queue))) <= Len(queue)
         /\ SubSeq(queue, 1, n) \o SubSeq(queue, n + 1, Len(queue)) = queue
  BY <1>1, <1>2, ReadSize, Zenon
<1> HIDE DEF size
<1>4. /\ size \in Nat /\ size <= ReadRecords
      /\ chunk' \in Seq(Record) /\ queue' \in Seq(Record) /\ Len(queue') <= MaxQueue
  <2>1. size \in Nat /\ size <= ReadRecords
    BY <1>2, <1>3
  <2>2. queue' \in Seq(Record) /\ Len(queue') <= Len(queue)
    BY <1>1, <1>3, Zenon
  <2>3. WithinBudget(size)
    BY <1>2, <2>1, BudgetHolds
  <2>4. chunk' \in Seq(Record)
    BY <1>1, <1>3, <2>3, Zenon
  <2> QED BY <1>2, <2>1, <2>2, <2>4, Sizes
<1>5. Renewed \in 0 .. RecordBudget /\ Renewed + size \in 0 .. RecordBudget /\ WithinBudget(size)
  BY <1>2, <1>4, BudgetHolds
<1>6. chunk' # <<>> /\ chunk' \o queue' = queue
  BY <1>1, <1>3, <1>5, Zenon
<1>7. staged' \in Copies /\ staged'.tracker = tracker /\ staged'.out = <<>>
  <2>1. tracker \in Tracker /\ <<>> \in Seq(AContact)
    BY DEF Typed
  <2>2. ASSUME NEW t \in Tracker, NEW n \in 0 .. RecordBudget
        PROVE  LET m == [tracker |-> t, decoded |-> n, out |-> <<>>]
               IN m \in Copies /\ m.tracker = t /\ m.out = <<>>
    BY DEF Copies
  <2>3. staged' = [tracker |-> tracker, decoded |-> Renewed + size, out |-> <<>>]
    BY <1>1, <1>5, Zenon
  <2>4. Renewed + size \in 0 .. RecordBudget
    BY <1>5
  <2> HIDE DEF size
  <2> QED BY <2>1, <2>2, <2>3, <2>4
<1>8. /\ kernel' = kernel /\ tracker' = tracker /\ contacts' = contacts
      /\ slint' = slint /\ stopped' = stopped
  BY <1>1, <1>5, Zenon
<1>9. UNCHANGED <<kernel, tracker, contacts, stopped, slint>>
  <2> HIDE DEF size
  <2> QED BY <1>8, Zenon
<1>10. stopped = None /\ chunk = <<>> /\ contacts = <<>> /\ queue # <<>>
  BY <1>1, Zenon
<1>11. decoded' \in 0 .. RecordBudget
  BY <1>1, <1>5, Zenon
<1> QED BY <1>4, <1>6, <1>7, <1>9, <1>10, <1>11, Zenon

\* What pushing a record does.
LEMMA PushStep ==
  ASSUME Typed, PushRecord
  PROVE  \E u \in Tracker, out \in Seq(AContact) :
           /\ chunk # <<>> /\ Head(chunk) \in Record /\ Accepts(staged.tracker, Head(chunk))
           /\ u = Pushed(staged.tracker, Head(chunk))
           /\ out = IF Head(chunk).type = "syn" THEN staged.out \o Reports(staged.tracker)
                    ELSE staged.out
           /\ chunk' = Tail(chunk) /\ chunk' \in Seq(Record)
           /\ IF chunk' # <<>>
              THEN /\ staged' \in Copies /\ staged'.tracker = u /\ staged'.out = out
                   /\ UNCHANGED <<tracker, decoded, contacts>>
              ELSE /\ tracker' = u /\ decoded' = staged.decoded /\ contacts' = out
                   /\ staged' = Nothing
           /\ UNCHANGED <<kernel, queue, stopped, slint>>
<1> DEFINE t == staged.tracker
           record == Head(chunk)
<1>1. PICK u, out :
        /\ u = Pushed(t, record)
        /\ out = IF record.type = "syn" THEN staged.out \o Reports(t) ELSE staged.out
        /\ IF Len(chunk) > 1
           THEN /\ staged' = [staged EXCEPT !.tracker = u, !.out = out]
                /\ UNCHANGED <<tracker, decoded, contacts>>
           ELSE /\ tracker' = u /\ decoded' = staged.decoded /\ contacts' = out
                /\ staged' = Nothing
  BY Zenon DEF PushRecord
<1>2. /\ chunk # <<>> /\ Accepts(t, record) /\ chunk' = Tail(chunk)
      /\ UNCHANGED <<kernel, queue, stopped, slint>>
  BY DEF PushRecord
<1>3. /\ chunk \in Seq(Record) /\ t \in Tracker /\ staged.out \in Seq(AContact)
      /\ staged \in Copies
  BY DEF Typed, Copies
<1>4. /\ record \in Record /\ chunk' \in Seq(Record)
      /\ Len(chunk) > 1 <=> chunk' # <<>>
  <2>1. Len(Tail(chunk)) = Len(chunk) - 1 /\ Len(chunk) \in Nat \ {0} /\ Tail(chunk) \in Seq(Record)
        /\ record \in Record
    BY <1>2, <1>3, HeadTailProperties, EmptySeq
  <2> HIDE DEF record
  <2> QED BY <1>2, <2>1, EmptySeq
<1>5. u \in Tracker
  BY <1>1, <1>2, <1>3, <1>4, PushedTracker DEF Accepts
<1>6. out \in Seq(AContact)
  <2>1. Reports(t) \in Seq(AContact)
    BY <1>3, ReportsType
  <2> HIDE DEF t, record
  <2> QED BY <1>1, <1>3, <2>1, ConcatProperties
<1>7. ASSUME NEW n, n = [staged EXCEPT !.tracker = u, !.out = out]
      PROVE  n \in Copies /\ n.tracker = u /\ n.out = out
  <2> HIDE DEF t, record
  <2> QED BY <1>3, <1>5, <1>6, <1>7 DEF Copies
<1> HIDE DEF t, record
<1>8. IF chunk' # <<>>
      THEN /\ staged' \in Copies /\ staged'.tracker = u /\ staged'.out = out
           /\ UNCHANGED <<tracker, decoded, contacts>>
      ELSE /\ tracker' = u /\ decoded' = staged.decoded /\ contacts' = out
           /\ staged' = Nothing
  BY <1>1, <1>4, <1>7
<1> QED BY <1>1, <1>2, <1>4, <1>5, <1>6, <1>8, Zenon DEF t, record

\* What a dispatch does.
LEMMA DispatchStep ==
  ASSUME Typed, Leading, Dispatch
  PROVE  /\ contacts # <<>> /\ chunk = <<>> /\ contacts' = Tail(contacts)
         /\ contacts' \in Seq(AContact)
         /\ Legal(hand, Head(contacts))
         /\ hand' = After(hand, Head(contacts)) /\ hand' \in Hand
         /\ Leads(hand', contacts', tracker)
         /\ UNCHANGED <<kernel, queue, core, chunk, staged>>
<1>1. contacts # <<>> /\ contacts' = Tail(contacts) /\ UNCHANGED <<kernel, queue, core, chunk, staged>>
  BY DEF Dispatch
<1>2. chunk = <<>> /\ hand \in Hand /\ contacts \in Seq(AContact) /\ Leads(hand, contacts, tracker)
  BY <1>1 DEF Leading, Typed
<1>3. hand' = After(hand, Head(contacts))
  <2>1. pointer' = (IF Head(contacts).phase = "Released" THEN Up
                    ELSE [down |-> TRUE, at |-> Head(contacts).at])
        /\ owner' = CASE Head(contacts).phase = "Pressed"  -> Head(contacts).id
                      [] Head(contacts).phase = "Moved"    -> owner
                      [] Head(contacts).phase = "Released" -> Off
    BY DEF Dispatch
  <2>2. hand.owner = owner
    BY DEF hand
  <2> QED BY <2>1, <2>2, Zenon DEF hand, After
<1>4. /\ Legal(hand, Head(contacts)) /\ After(hand, Head(contacts)) \in Hand
      /\ Leads(After(hand, Head(contacts)), Tail(contacts), tracker)
  BY <1>1, <1>2, LeadsOn, Zenon
<1>5. Tail(contacts) \in Seq(AContact)
  BY <1>1, <1>2, HeadTailProperties
<1> QED BY <1>1, <1>2, <1>3, <1>4, <1>5

\* While the kernel does nothing, the tracker stays in step.
LEMMA AgreesStill ==
  ASSUME NEW v, Agrees(v), UNCHANGED kernel
  PROVE  Agrees(v)'
BY DEF Agrees, kernel

LEMMA TypedStep ==
  ASSUME Safe, [Next]_vars
  PROVE  Typed'
<1>1. Typed /\ Leading
  BY DEF Safe
<1>2. /\ KernelTyped /\ IdsAreUnique
      /\ queue \in Seq(Record) /\ Len(queue) <= MaxQueue /\ chunk \in Seq(Record)
      /\ tracker \in Tracker /\ decoded \in 0 .. RecordBudget
      /\ staged \in Copies
      /\ stopped \in {None, "dropped", "refused"}
      /\ contacts \in Seq(AContact) /\ hand \in Hand
  BY <1>1 DEF Typed
<1>3. CASE Frame
  <2>1. PICK p, r : /\ KernelTyped' /\ IdsAreUnique'
                    /\ queue \o FrameRecords(p, r) \in Seq(Record)
                    /\ queue' = IF Len(queue \o FrameRecords(p, r)) <= MaxQueue
                                THEN queue \o FrameRecords(p, r) ELSE <<SynDropped, SynReport>>
    BY <1>1, <1>3, FrameStep
  <2>2. queue' \in Seq(Record) /\ Len(queue') <= MaxQueue
    <3>1. <<SynDropped, SynReport>> \in Seq(Record) /\ Len(<<SynDropped, SynReport>>) <= MaxQueue
      <4>1. SynDropped \in Record /\ SynReport \in Record /\ 2 <= MaxQueue
        BY RecordTypes, Sizes
      <4> QED BY <4>1
    <3> QED BY <2>1, <3>1
  <2>3. UNCHANGED <<core, chunk, staged, contacts, slint>>
    BY <1>3 DEF Frame
  <2> QED BY <1>2, <2>1, <2>2, <2>3 DEF Typed, core, slint, hand
<1>4. CASE Read
  <2>1. /\ chunk' \in Seq(Record) /\ queue' \in Seq(Record) /\ Len(queue') <= MaxQueue
        /\ decoded' \in 0 .. RecordBudget
        /\ staged' \in Copies /\ staged'.tracker = tracker /\ staged'.out = <<>>
        /\ UNCHANGED <<kernel, tracker, contacts, stopped, slint>>
    BY <1>1, <1>4, ReadStep, Zenon
  <2>2. KernelTyped' /\ IdsAreUnique'
    BY <1>2, <2>1, KernelStill
  <2> QED BY <1>2, <2>1, <2>2 DEF Typed, slint, hand
<1>5. CASE PushRecord
  <2>1. PICK u \in Tracker, out \in Seq(AContact) :
          /\ chunk' \in Seq(Record)
          /\ IF chunk' # <<>>
             THEN /\ staged' \in Copies /\ staged'.tracker = u /\ staged'.out = out
                  /\ UNCHANGED <<tracker, decoded, contacts>>
             ELSE /\ tracker' = u /\ decoded' = staged.decoded /\ contacts' = out
                  /\ staged' = Nothing
          /\ UNCHANGED <<kernel, queue, stopped, slint>>
    BY <1>1, <1>5, PushStep, Zenon
  <2>2. staged.decoded \in 0 .. RecordBudget
    BY <1>2 DEF Copies
  <2>3. /\ staged' \in Copies
        /\ tracker' \in Tracker /\ decoded' \in 0 .. RecordBudget /\ contacts' \in Seq(AContact)
    <3>1. CASE chunk' # <<>>
      BY <1>2, <2>1, <2>2, <3>1
    <3>2. CASE chunk' = <<>>
      BY <2>1, <2>2, <3>2, NothingType
    <3> QED BY <3>1, <3>2
  <2>4. KernelTyped' /\ IdsAreUnique'
    BY <1>2, <2>1, KernelStill
  <2> QED BY <1>2, <2>1, <2>3, <2>4 DEF Typed, slint, hand
<1>6. CASE RefuseRecord
  <2>1. /\ stopped' \in {"dropped", "refused"} /\ chunk' = <<>> /\ staged' = Nothing
        /\ UNCHANGED <<kernel, queue, tracker, decoded, contacts, slint>>
    BY <1>6 DEF RefuseRecord
  <2>2. KernelTyped' /\ IdsAreUnique'
    BY <1>2, <2>1, KernelStill
  <2> QED BY <1>2, <2>1, <2>2, NothingType, EmptySeq DEF Typed, slint, hand
<1>7. CASE Dispatch
  <2>1. /\ contacts' \in Seq(AContact) /\ hand' \in Hand
        /\ UNCHANGED <<kernel, queue, core, chunk, staged>>
    BY <1>1, <1>7, DispatchStep, Zenon
  <2>2. KernelTyped' /\ IdsAreUnique'
    BY <1>2, <2>1, KernelStill
  <2> QED BY <1>2, <2>1, <2>2 DEF Typed, core
<1>8. CASE UNCHANGED vars
  <2>1. KernelTyped' /\ IdsAreUnique'
    BY <1>2, <1>8, KernelStill DEF vars
  <2> QED BY <1>2, <1>8, <2>1 DEF Typed, vars, core, slint, hand
<1> QED BY <1>3, <1>4, <1>5, <1>6, <1>7, <1>8 DEF Next

LEMMA LeadingStep ==
  ASSUME Safe, [Next]_vars
  PROVE  Leading'
<1>1. Typed /\ Leading /\ hand \in Hand /\ Leads(hand, contacts, tracker)
  BY DEF Safe, Typed, Leading
<1>2. CASE Frame
  <2>1. UNCHANGED <<core, chunk, staged, contacts, slint>>
    BY <1>2 DEF Frame
  <2> QED BY <1>1, <2>1 DEF Leading, core, slint, hand
<1>3. CASE Read
  <2>1. /\ stopped = None /\ contacts = <<>>
        /\ staged' \in Copies /\ staged'.tracker = tracker /\ staged'.out = <<>>
        /\ UNCHANGED <<kernel, tracker, contacts, stopped, slint>>
    BY <1>1, <1>3, ReadStep, Zenon
  <2> QED BY <1>1, <2>1 DEF Leading, slint, hand
<1>4. CASE PushRecord
  <2> DEFINE t == staged.tracker
             record == Head(chunk)
  <2>1. PICK u \in Tracker, out \in Seq(AContact) :
          /\ chunk # <<>> /\ record \in Record /\ Accepts(t, record)
          /\ u = Pushed(t, record)
          /\ out = IF record.type = "syn" THEN staged.out \o Reports(t) ELSE staged.out
          /\ IF chunk' # <<>>
             THEN /\ staged' \in Copies /\ staged'.tracker = u /\ staged'.out = out
                  /\ UNCHANGED <<tracker, decoded, contacts>>
             ELSE /\ tracker' = u /\ decoded' = staged.decoded /\ contacts' = out
                  /\ staged' = Nothing
          /\ UNCHANGED <<kernel, queue, stopped, slint>>
    BY <1>1, <1>4, PushStep, Zenon
  <2>2. /\ contacts = <<>> /\ stopped = None /\ Leads(hand, staged.out, t)
        /\ t \in Tracker /\ staged.out \in Seq(AContact) /\ chunk \in Seq(Record)
    BY <1>1, <2>1 DEF Leading, Typed, Copies
  <2>3. OpenedWhile # "in use" => Expected(t, record)
    <3>1. SUFFICES ASSUME OpenedWhile # "in use" PROVE Expected(t, record)
      OBVIOUS
    <3>2. Ahead /\ Current = t
      BY <2>1, <3>1 DEF Safe, Current
    <3>3. queue \in Seq(Record) /\ Unread \in Seq(Record) /\ Unread # <<>> /\ Head(Unread) = record
      <4>1. queue \in Seq(Record)
        BY <1>1 DEF Typed
      <4> QED BY <2>1, <2>2, <4>1 DEF Unread
    <3>4. record # SynDropped
      BY <2>1 DEF Accepts, SynDropped, Rec
    <3>5. PICK v \in Tracker : Runs(t, Unread, v)
      BY <2>2, <3>2, <3>3, <3>4 DEF Ahead
    <3>6. Accepted(t, record)
      <4> HIDE DEF t, record
      <4> QED BY <2>2, <3>3, <3>5, RunsOn
    <3> QED BY <3>6 DEF Accepted
  <2>4. Leads(hand, out, u)
    <3> HIDE DEF t, record
    <3>1. CASE record.type = "syn"
      <4>1. u = Synchronize(t) /\ out = staged.out \o Reports(t)
        BY <2>1, <3>1 DEF Pushed
      <4>2. CASE Reports(t) = <<>> /\ \A m \in Hand : Shows(t, m) => Shows(u, m)
        <5>1. out = staged.out
          BY <2>2, <4>1, <4>2, ConcatEmptySeq
        <5> QED BY <1>1, <2>2, <4>2, <5>1, LeadsStill
      <4>3. ASSUME NEW contact, Reports(t) = <<contact>>,
                   \A m \in Hand : Shows(t, m) => Legal(m, contact) /\ Shows(u, After(m, contact))
            PROVE  Leads(hand, out, u)
        <5>1. contact \in AContact
          <6>1. <<contact>> \in Seq(AContact)
            BY <2>2, <4>3, ReportsType
          <6> QED BY <6>1
        <5>2. Leads(hand, staged.out \o <<contact>>, u)
          BY <1>1, <2>2, <4>3, <5>1, LeadsFurther
        <5> QED BY <4>1, <4>3, <5>2
      <4> QED BY <2>2, <4>1, <4>2, <4>3, ShowsAfterFrame
    <3>2. CASE record.type # "syn"
      <4>1. \A m \in Hand : Shows(t, m) => Shows(u, m)
        BY <2>1, <2>2, <2>3, <3>2, ShowsWithinFrame DEF Accepts
      <4>2. out = staged.out
        BY <2>1, <3>2
      <4> QED BY <1>1, <2>2, <4>1, <4>2, LeadsStill
    <3> QED BY <3>1, <3>2
  <2>5. hand' = hand
    BY <2>1 DEF hand, slint
  <2>6. CASE chunk' # <<>>
    <3>1. /\ staged'.tracker = u /\ staged'.out = out
          /\ UNCHANGED <<tracker, contacts, stopped>>
      BY <2>1, <2>6, Zenon
    <3> HIDE DEF t, record
    <3> QED BY <1>1, <2>2, <2>4, <2>5, <2>6, <3>1 DEF Leading
  <2>7. CASE chunk' = <<>>
    BY <2>1, <2>4, <2>5, <2>7 DEF Leading
  <2> QED BY <2>6, <2>7
<1>5. CASE RefuseRecord
  <2>1. chunk' = <<>> /\ UNCHANGED <<tracker, contacts, slint>>
    BY <1>5 DEF RefuseRecord
  <2> QED BY <1>1, <2>1 DEF Leading, slint, hand
<1>6. CASE Dispatch
  <2>1. /\ chunk = <<>> /\ Leads(hand', contacts', tracker)
        /\ UNCHANGED <<kernel, queue, core, chunk, staged>>
    BY <1>1, <1>6, DispatchStep, Zenon
  <2> QED BY <2>1 DEF Leading, core
<1>7. CASE UNCHANGED vars
  BY <1>1, <1>7 DEF Leading, vars, core, slint, hand
<1> QED BY <1>2, <1>3, <1>4, <1>5, <1>6, <1>7 DEF Next

LEMMA AheadStep ==
  ASSUME Safe, [Next]_vars, OpenedWhile # "in use"
  PROVE  Ahead' /\ stopped' # "refused"
<1>1. Typed /\ Leading /\ Ahead /\ stopped # "refused"
  BY DEF Safe
<1>2. /\ KernelTyped /\ IdsAreUnique /\ queue \in Seq(Record) /\ chunk \in Seq(Record)
      /\ tracker \in Tracker
  BY <1>1 DEF Typed
<1>3. CASE Frame
  <2>1. /\ stopped = None /\ chunk = <<>>
        /\ UNCHANGED <<core, chunk, staged, contacts, slint>>
    BY <1>3 DEF Frame
  <2>2. PICK p, r :
           /\ Frames(p, r) /\ Changed(p, r) # {}
           /\ panel' = p /\ raw' = r /\ kslot' = Max(Changed(p, r))
           /\ alone' = AloneAfter(p, r)
           /\ queue \o FrameRecords(p, r) \in Seq(Record)
           /\ queue' = IF Len(queue \o FrameRecords(p, r)) <= MaxQueue
                       THEN queue \o FrameRecords(p, r) ELSE <<SynDropped, SynReport>>
    BY <1>1, <1>3, FrameStep
  <2>3. Unread = queue /\ Current = tracker /\ Unread' = queue' /\ Current' = tracker
    <3>1. \A s \in Seq(Record) : <<>> \o s = s
      BY ConcatEmptySeq
    <3>2. queue' \in Seq(Record)
      BY TypedStep DEF Typed
    <3> QED BY <1>2, <2>1, <3>1, <3>2 DEF Unread, Current, core
  <2>4. FrameRecords(p, r) \in Seq(Record) /\ FrameRecords(p, r) # <<>>
    <3>1. /\ FrameRecords(p, r) \in Seq(Record)
          /\ FlattenSeq(SlotRecordsOf(p, r)) \in Seq(Record)
          /\ EmulatedX(p, r) \in Seq(Record) /\ EmulatedY(p, r) \in Seq(Record)
          /\ FrameRecords(p, r) = ((FlattenSeq(SlotRecordsOf(p, r)) \o EmulatedX(p, r))
                                     \o EmulatedY(p, r)) \o <<SynReport>>
      BY <1>2, <2>2, FrameRecordsType DEF Frames
    <3>2. \A a \in Seq(Record), x \in Record : a \o <<x>> # <<>>
      BY NotEmpty, Zenon
    <3>3. (FlattenSeq(SlotRecordsOf(p, r)) \o EmulatedX(p, r)) \o EmulatedY(p, r) \in Seq(Record)
      BY <3>1, ConcatProperties
    <3> QED BY <3>1, <3>2, <3>3, RecordTypes
  <2>5. CASE Len(queue \o FrameRecords(p, r)) <= MaxQueue
    <3>1. queue' = queue \o FrameRecords(p, r)
      BY <2>2, <2>5
    <3>2. CASE queue # <<>> /\ Head(queue) = SynDropped
      <4>1. queue' # <<>> /\ Head(queue') = SynDropped
        BY <1>2, <2>4, <3>1, <3>2, FirstOfTwo
      <4> QED BY <2>1, <2>3, <4>1, <1>1 DEF Ahead, core
    <3>3. CASE \E v \in Tracker : Runs(tracker, queue, v) /\ Agrees(v)
      <4>1. PICK v \in Tracker : Runs(tracker, queue, v) /\ Agrees(v)
        BY <3>3
      <4>2. PICK u \in Tracker : Runs(v, FrameRecords(p, r), u) /\ Agrees(u)'
        BY <1>2, <2>2, <4>1, FrameRuns
      <4>3. Runs(tracker, queue \o FrameRecords(p, r), u)
        BY <1>2, <2>4, <4>1, <4>2, RunsJoin
      <4>4. \E w \in Tracker : Runs(Current', Unread', w) /\ Agrees(w)'
        BY <2>3, <3>1, <4>2, <4>3
      <4> QED BY <2>1, <4>4, <1>1 DEF Ahead, core
    <3> QED BY <1>1, <2>1, <2>3, <3>2, <3>3 DEF Ahead
  <2>6. CASE ~(Len(queue \o FrameRecords(p, r)) <= MaxQueue)
    <3>1. queue' = <<SynDropped, SynReport>>
      BY <2>2, <2>6
    <3>2. queue' # <<>> /\ Head(queue') = SynDropped
      <4>1. SynDropped \in Record /\ SynReport \in Record
        BY RecordTypes
      <4> QED BY <3>1, <4>1, ShortSequences, Zenon
    <3> QED BY <1>1, <2>1, <2>3, <3>2 DEF Ahead, core
  <2> QED BY <2>5, <2>6
<1>4. CASE Read
  <2>1. /\ chunk = <<>> /\ stopped = None /\ chunk' # <<>> /\ chunk' \o queue' = queue
        /\ staged' \in Copies /\ staged'.tracker = tracker /\ staged'.out = <<>>
        /\ UNCHANGED <<kernel, tracker, contacts, stopped, slint>>
    BY <1>1, <1>4, ReadStep, Zenon
  <2>2. Unread = queue /\ Current = tracker /\ Unread' = queue /\ Current' = tracker
    <3>1. <<>> \o queue = queue
      BY <1>2, ConcatEmptySeq
    <3> QED BY <2>1, <3>1 DEF Unread, Current
  <2>3. \A v : Agrees(v) => Agrees(v)'
    BY <2>1, AgreesStill
  <2> QED BY <1>1, <2>1, <2>2, <2>3 DEF Ahead
<1>5. ASSUME chunk # <<>>
      PROVE  /\ Current = staged.tracker /\ staged.tracker \in Tracker /\ stopped = None
             /\ Unread \in Seq(Record) /\ Unread # <<>> /\ Head(Unread) = Head(chunk)
             /\ Tail(chunk) \in Seq(Record) /\ Tail(Unread) = Tail(chunk) \o queue
  <2>1. Current = staged.tracker /\ staged.tracker \in Tracker /\ stopped = None
    BY <1>1, <1>5 DEF Current, Typed, Leading, Copies
  <2>2. /\ Unread \in Seq(Record) /\ Unread # <<>> /\ Head(Unread) = Head(chunk)
        /\ Tail(chunk) \in Seq(Record) /\ Tail(Unread) = Tail(chunk) \o queue
    <3>1. Tail(chunk) \in Seq(Record)
      BY <1>2, <1>5, HeadTailProperties
    <3> QED BY <1>2, <1>5, <3>1, FirstOfTwo DEF Unread
  <2> QED BY <2>1, <2>2
<1>6. CASE PushRecord
  <2>1. PICK u \in Tracker, out \in Seq(AContact) :
          /\ chunk # <<>> /\ Accepts(staged.tracker, Head(chunk))
          /\ u = Pushed(staged.tracker, Head(chunk))
          /\ chunk' = Tail(chunk)
          /\ IF chunk' # <<>>
             THEN /\ staged' \in Copies /\ staged'.tracker = u /\ staged'.out = out
                  /\ UNCHANGED <<tracker, decoded, contacts>>
             ELSE /\ tracker' = u /\ decoded' = staged.decoded /\ contacts' = out
                  /\ staged' = Nothing
          /\ UNCHANGED <<kernel, queue, stopped, slint>>
    BY <1>1, <1>6, PushStep, Zenon
  <2>2. Head(Unread) # SynDropped
    <3>1. Head(chunk) # SynDropped
      <4>1. SynDropped.type = "dropped"
        BY DEF SynDropped, Rec
      <4>2. Head(chunk).type # "dropped"
        BY <2>1, Zenon DEF Accepts
      <4> QED BY <4>1, <4>2
    <3> QED BY <1>5, <2>1, <3>1
  <2>3. PICK v \in Tracker : Runs(Current, Unread, v) /\ Agrees(v)
    BY <1>1, <1>5, <2>1, <2>2 DEF Ahead
  <2>4. Runs(u, Tail(Unread), v)
    BY <1>5, <2>1, <2>3, RunsOn
  <2>5. Unread' = Tail(Unread) /\ Current' = u
    <3>1. Unread' = Tail(Unread)
      <4>1. Unread' = Tail(chunk) \o queue
        BY <2>1 DEF Unread
      <4> QED BY <1>5, <2>1, <4>1
    <3>2. Current' = u
      <4>1. chunk' # <<>> => staged'.tracker = u
        BY <2>1, Zenon
      <4>2. chunk' = <<>> => tracker' = u
        BY <2>1, Zenon
      <4> QED BY <4>1, <4>2 DEF Current
    <3> QED BY <3>1, <3>2
  <2>6. Agrees(v)'
    BY <2>1, <2>3, AgreesStill
  <2> QED BY <1>1, <2>1, <2>4, <2>5, <2>6 DEF Ahead
<1>7. CASE RefuseRecord
  <2>1. /\ chunk # <<>> /\ ~Accepts(staged.tracker, Head(chunk))
        /\ stopped' = IF Head(chunk) = SynDropped THEN "dropped" ELSE "refused"
    BY <1>7 DEF RefuseRecord
  <2>2. Head(chunk) = SynDropped
    <3>1. SUFFICES ASSUME Head(Unread) # SynDropped PROVE FALSE
      BY <1>5, <2>1
    <3>2. PICK v \in Tracker : Runs(Current, Unread, v)
      BY <1>1, <1>5, <2>1, <3>1 DEF Ahead
    <3>3. Accepted(staged.tracker, Head(chunk))
      BY <1>5, <2>1, <3>2, RunsOn
    <3> QED BY <1>5, <2>1, <3>3, AcceptedIsTaken
  <2>3. stopped' = "dropped"
    BY <2>1, <2>2
  <2> QED BY <2>3 DEF Ahead, None
<1>8. CASE Dispatch
  <2>1. UNCHANGED <<kernel, queue, core, chunk, staged>>
    BY <1>8 DEF Dispatch
  <2>2. \A v : Agrees(v) => Agrees(v)'
    BY <2>1, AgreesStill
  <2>3. Unread' = Unread /\ Current' = Current /\ stopped' = stopped
    BY <2>1 DEF Unread, Current, core
  <2> QED BY <1>1, <2>2, <2>3 DEF Ahead
<1>9. CASE UNCHANGED vars
  <2>1. UNCHANGED <<kernel, queue, core, chunk, staged>>
    BY <1>9 DEF vars
  <2>2. \A v : Agrees(v) => Agrees(v)'
    BY <2>1, AgreesStill
  <2>3. Unread' = Unread /\ Current' = Current /\ stopped' = stopped
    BY <2>1 DEF Unread, Current, core
  <2> QED BY <1>1, <2>2, <2>3 DEF Ahead
<1> QED BY <1>3, <1>4, <1>6, <1>7, <1>8, <1>9 DEF Next

(***************************************************************************)
(* The theorems.                                                           *)
(***************************************************************************)
\* Whatever the kernel sends and however it is read, the tracker follows the panel
\* and the pointer follows the tracker.
THEOREM Inductive == Spec => []Safe
<1>1. Safe /\ [Next]_vars => Safe'
  BY TypedStep, LeadingStep, AheadStep DEF Safe
<1> QED BY SafeInit, <1>1, PTL DEF Spec

LEMMA SafeTypes == Safe => TypeOK
<1> SUFFICES ASSUME Safe PROVE TypeOK
  OBVIOUS
<1>1. /\ KernelTyped /\ Len(queue) <= MaxQueue /\ tracker \in Tracker
      /\ decoded \in 0 .. RecordBudget /\ stopped \in {None, "dropped", "refused"}
      /\ hand \in Hand
  BY DEF Safe, Typed
<1>2. /\ tracker.current_slot \in Slot /\ tracker.primary_slot \in Slot \cup {NoSlot}
      /\ tracker.slots \in [Slot -> SlotState] /\ Consistent(tracker)
  BY <1>1, TrackerParts
<1>3. tracker.primary_slot # NoSlot => PrimaryState.id # Off \/ PrimaryState.pending_release
  BY <1>2 DEF PrimaryState, Consistent
<1>4. \A s \in Slot : tracker.slots[s].reported => tracker.primary_slot = s
  <2> TAKE s \in Slot
  <2>1. tracker.slots[s].reported \in BOOLEAN
    BY <1>2 DEF SlotState
  <2> QED BY <1>2, <2>1 DEF Consistent
<1>5. pointer \in [down : BOOLEAN, at : Point \cup {NoPoint}] /\ owner \in Id \cup {Off}
      /\ (pointer.down <=> owner # Off)
  <2>1. /\ hand.pointer = pointer /\ hand.owner = owner
        /\ hand.pointer \in [down : BOOLEAN, at : Point \cup {NoPoint}]
        /\ hand.owner \in Id \cup {Off}
        /\ (hand.pointer.down = TRUE <=> hand.owner # Off)
    <3>1. hand.pointer = pointer /\ hand.owner = owner
      BY DEF hand
    <3> HIDE DEF hand
    <3> QED BY <1>1, <3>1 DEF Hand
  <2> QED BY <2>1
<1> QED BY <1>1, <1>2, <1>3, <1>4, <1>5 DEF TypeOK, KernelTyped

\* The state of the chain stays well formed: slots, ids and coordinates in their
\* ranges, only the primary contact reported, the queue and the budget within bounds.
THEOREM TypeCorrect == Spec => []TypeOK
BY Inductive, SafeTypes, PTL

\* Slint sees presses and releases strictly in turn, whenever the shell opened the
\* device, however its driver orders a frame and whatever the reads cut it into.
THEOREM PressesAlternate == Spec => ContactsAlternate
<1>1. Safe /\ [Next]_vars =>
        [Dispatch => (Head(contacts).phase = "Pressed" <=> ~pointer.down)]_vars
  <2> SUFFICES ASSUME Safe, Dispatch
               PROVE  Head(contacts).phase = "Pressed" <=> ~pointer.down
    OBVIOUS
  <2>1. Typed /\ Leading /\ hand \in Hand
    BY DEF Safe, Typed
  <2>2. Legal(hand, Head(contacts))
    BY <2>1, DispatchStep
  <2>3. hand.pointer = pointer
    BY DEF hand
  <2>4. pointer.down \in BOOLEAN
    <3> HIDE DEF hand
    <3> QED BY <2>1, <2>3 DEF Hand
  <2> QED BY <2>2, <2>3, <2>4 DEF Legal
<1> QED BY Inductive, <1>1, PTL DEF Spec, ContactsAlternate

\* Opened on an untouched panel whose current slot is 0, the pump is never stopped
\* by the order, the ids or the number of the records.
THEOREM NothingElseStops ==
  ASSUME OpenedWhile # "in use"
  PROVE  Spec => []OnlyOverflowStops
<1>1. Safe => OnlyOverflowStops
  BY DEF Safe, OnlyOverflowStops
<1> QED BY Inductive, <1>1, PTL

LEMMA Fields ==
  ASSUME NEW a, NEW b, NEW q, q = [x |-> a, y |-> b]
  PROVE  q.x = a /\ q.y = b
OBVIOUS

LEMMA SamePoint ==
  ASSUME NEW a \in Point \cup {NoPoint}, NEW b \in Point \cup {NoPoint}, a.x = b.x, a.y = b.y
  PROVE  a = b
BY DEF Point, NoPoint

\* With nothing under way the tracker is in step with the panel, and the pointer
\* shows what it holds.
LEMMA SettledState ==
  ASSUME OpenedWhile # "in use", Safe, Settled
  PROVE  /\ Agrees(tracker) /\ Shows(tracker, hand) /\ Consistent(tracker)
         /\ tracker.primary_slot \in Slot \cup {NoSlot}
         /\ KernelTyped /\ IdsAreUnique
         /\ hand.pointer = pointer /\ hand.owner = owner /\ pointer.down \in BOOLEAN
<1>1. /\ queue = <<>> /\ chunk = <<>> /\ contacts = <<>> /\ stopped = None
  BY DEF Settled
<1>2. /\ KernelTyped /\ IdsAreUnique /\ tracker \in Tracker /\ hand \in Hand
      /\ Leads(hand, contacts, tracker) /\ Ahead
  BY DEF Safe, Typed, Leading
<1>3. Shows(tracker, hand)
  BY <1>1, <1>2, LeadsEmpty
<1>4. Unread = <<>> /\ Current = tracker
  <2>1. queue \in Seq(Record) /\ <<>> \o queue = queue
    BY ConcatEmptySeq DEF Safe, Typed
  <2> QED BY <1>1, <2>1 DEF Unread, Current
<1>5. PICK v \in Tracker : Runs(tracker, <<>>, v) /\ Agrees(v)
  BY <1>1, <1>2, <1>4 DEF Ahead
<1>6. v = tracker
  BY <1>5 DEF Runs
<1>7. hand.pointer = pointer /\ hand.owner = owner
  BY DEF hand
<1>8. pointer.down \in BOOLEAN
  <2> HIDE DEF hand
  <2> QED BY <1>2, <1>7 DEF Hand
<1> QED BY <1>2, <1>3, <1>5, <1>6, <1>7, <1>8, TrackerParts

\* Opened on an untouched panel whose current slot is 0, without pointer emulation:
\* a pressed pointer is where the contact that pressed it is once all it sent has been read.
THEOREM OwnerKept ==
  ASSUME OpenedWhile # "in use", ~Emulates
  PROVE  Spec => []OwnerKeepsPointer
<1>1. Safe => OwnerKeepsPointer
  <2> SUFFICES ASSUME Safe, Settled, pointer.down
               PROVE  \E s \in Slot : panel[s] = owner /\ raw[s] = pointer.at
    BY DEF OwnerKeepsPointer
  <2>1. /\ Agrees(tracker) /\ Shows(tracker, hand) /\ Consistent(tracker)
        /\ tracker.primary_slot \in Slot \cup {NoSlot}
        /\ KernelTyped /\ hand.pointer = pointer /\ hand.owner = owner
    BY SettledState
  <2> HIDE DEF hand
  <2> DEFINE s == tracker.primary_slot
             state == tracker.slots[s]
  <2>2. s \in Slot /\ state.reported = TRUE
    BY <2>1 DEF Shows, Held
  <2>3. /\ state.id = panel[s] /\ state.pending_release = FALSE
        /\ state.x \in {None, raw[s].x} /\ state.y \in {None, raw[s].y}
    BY <2>1, <2>2 DEF Agrees
  <2>4. state.x # None /\ state.y # None
    BY <2>1, <2>2 DEF Consistent
  <2>5. state.dirty = FALSE
    BY <2>1, <2>2, <2>4, Constants DEF Agrees
  <2>6. owner = state.id /\ pointer.at = [x |-> state.x, y |-> state.y]
    BY <2>1, <2>2, <2>3, <2>5 DEF Shows, Held
  <2>7. raw[s] = pointer.at
    <3>1. raw[s] \in Point \cup {NoPoint} /\ pointer.at \in Point \cup {NoPoint}
      <4>1. hand \in Hand
        BY DEF Safe, Typed
      <4> QED BY <2>1, <2>2, <4>1 DEF KernelTyped, Hand
    <3>2. pointer.at.x = state.x /\ pointer.at.y = state.y
      <4>1. PICK a, b, q : q = pointer.at /\ a = state.x /\ b = state.y
        OBVIOUS
      <4>2. q = [x |-> a, y |-> b]
        BY <2>6, <4>1
      <4>3. q.x = a /\ q.y = b
        BY <4>2, Fields
      <4> QED BY <4>1, <4>3
    <3>3. pointer.at.x = raw[s].x /\ pointer.at.y = raw[s].y
      BY <2>3, <2>4, <3>2
    <3> QED BY <3>1, <3>3, SamePoint, Zenon
  <2> QED BY <2>2, <2>3, <2>6, <2>7
<1> QED BY Inductive, <1>1, PTL

\* Opened on an untouched panel whose current slot is 0: a contact alone on it has
\* the pointer by the time both of its coordinates have been sent and read.
THEOREM LonePresses ==
  ASSUME OpenedWhile # "in use"
  PROVE  Spec => []LoneContactPresses
<1>1. Safe => LoneContactPresses
  <2> SUFFICES ASSUME Safe, Settled, alone.id # Off, alone.axes = Axis
               PROVE  owner = alone.id
    BY DEF LoneContactPresses
  <2>1. /\ Agrees(tracker) /\ Shows(tracker, hand) /\ IdsAreUnique
        /\ hand.pointer = pointer /\ hand.owner = owner
    BY SettledState
  <2> HIDE DEF hand
  <2>2. PICK s \in Slot : panel[s] = alone.id
    BY <2>1 DEF IdsAreUnique
  <2>3. Alone(tracker, s, Axis) /\ tracker.slots[s].id = panel[s]
        /\ tracker.slots[s].pending_release = FALSE
    BY <2>1, <2>2 DEF Agrees
  <2>4. tracker.primary_slot = s /\ tracker.slots[s].x # None /\ tracker.slots[s].y # None
    BY <2>3 DEF Alone, Axis
  <2>5. tracker.slots[s].reported = TRUE
    BY <2>1, <2>2, <2>4, Constants DEF Agrees
  <2>6. Held(tracker)
    BY <2>2, <2>4, <2>5, Constants DEF Held
  <2> QED BY <2>1, <2>2, <2>3, <2>4, <2>6 DEF Shows
<1> QED BY Inductive, <1>1, PTL
=============================================================================
