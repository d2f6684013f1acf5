-------------------------- MODULE CrashBudgetProofs --------------------------
(***************************************************************************)
(* The safety of the crash budget, for every policy, every clock, any set  *)
(* of process identifiers and any number of lives.                         *)
(***************************************************************************)
EXTENDS CrashBudget, SequenceTheorems, FiniteSetTheorems, TLAPS

(***************************************************************************)
(* The inductive invariant.  The bound is on the permitted starts, which   *)
(* only this specification remembers; the code knows the record.  So the   *)
(* invariant says what a record keeps of them: every copy on the disk, and *)
(* the one being written, holds each permitted start that still counts at  *)
(* its last second, in a place of its own.                                 *)
(***************************************************************************)
Sorted(starts) == \A j, k \in DOMAIN starts : j < k => starts[j] <= starts[k]

\* Of the starts p, by position, those that still count at second t.
Recent(p, t) == {k \in DOMAIN p : t - p[k] < Window}

\* The first n of the recorded starts hold all of them.
Covers(p, starts, n, t) ==
  \E g \in Injection(Recent(p, t), 1 .. n) :
    \A k \in Recent(p, t) : starts[g[k]] = p[k]

\* What a record must be before a guardian may read it, when the starts p have
\* been permitted.
Sound(p, f) ==
  /\ f.readable /\ Sorted(f.starts) /\ Len(f.starts) <= MaximumUnprovenStarts
  /\ p # <<>> =>
       /\ f.starts # <<>> /\ Last(p) <= Last(f.starts)
       /\ Covers(p, f.starts, Len(f.starts), Last(f.starts))

\* BudgetBound, of any starts p.
Bounded(p) ==
  \A k \in DOMAIN p :
    Cardinality({j \in DOMAIN p : p[j] <= p[k] /\ p[k] - p[j] < Window})
      <= MaximumUnprovenStarts

Replacing == {"Open", "Write", "Sync", "Rename", "SyncParent"}

\* What is being written: nothing, or a record that ends with this start and
\* holds the earlier ones before it.
Encoded ==
  pc \in Replacing =>
    \/ purpose = "stable" /\ encoded = <<>>
    \/ /\ purpose = "attempt" /\ encoded # <<>> /\ Last(encoded) = now
       /\ Sorted(encoded) /\ Len(encoded) <= MaximumUnprovenStarts
       /\ permitted # <<>> =>
            Last(permitted) <= now /\ Covers(permitted, encoded, Len(encoded) - 1, now)

\* No record is replaced by one whose data is not on the disk, and one that has
\* been replaced holds what was written.
Replaced ==
  /\ whole /\ (pc = "Rename" => synced)
  /\ pc = "SyncParent" => path = Recorded(encoded)
  /\ pc = "SyncParent" /\ purpose = "stable" => permitted = <<>>

\* A guardian that has been let through is the last in a durable record.
LetThrough ==
  pc = "Running" /\ purpose = "attempt" =>
    durable = path /\ permitted # <<>> /\ Last(path.starts) = Last(permitted)

\* What is written before anything ran is a start.
Started == pc = "Begin" => purpose = "attempt"

\* Every second announced belongs to the present record, which is full.
Announced ==
  \A r \in retries :
    Len(path.starts) = MaximumUnprovenStarts /\ r = path.starts[1] + Window

IInv ==
  /\ TypeOK /\ Sorted(permitted) /\ Bounded(permitted)
  /\ Sound(permitted, path) /\ Sound(permitted, durable)
  /\ Encoded /\ Replaced /\ LetThrough /\ Started /\ Announced

(***************************************************************************)
(* Lemmas about records, with no state but the clock.                      *)
(***************************************************************************)
\* A sequence of seconds.
LEMMA Seconds ==
  ASSUME NEW s \in Seq(Timestamp)
  PROVE  /\ Len(s) \in Nat /\ DOMAIN s = 1 .. Len(s)
         /\ \A k \in 1 .. Len(s) : s[k] \in Timestamp /\ s[k] \in Nat
<1>1. \A k \in 1 .. Len(s) : s[k] \in Timestamp
  BY ElementOfSeq
<1>2. \A t \in Timestamp : t \in Nat
  BY CrashBudgetAssumption DEF Timestamp
<1> QED BY <1>1, <1>2, LenProperties

\* The first n positions.
LEMMA Positions ==
  ASSUME NEW n \in Nat
  PROVE  IsFiniteSet(1 .. n) /\ Cardinality(1 .. n) = n
BY FS_Interval

\* The last of a nonempty sequence of seconds is one of them.
LEMMA LastOfSeq ==
  ASSUME NEW s \in Seq(Timestamp), s # <<>>
  PROVE  /\ Len(s) \in Nat \ {0} /\ DOMAIN s = 1 .. Len(s)
         /\ Len(s) \in DOMAIN s /\ Last(s) \in Timestamp
<1>1. Len(s) \in Nat \ {0}
  BY EmptySeq
<1>2. Last(s) \in Timestamp
  BY <1>1, ElementOfSeq DEF Last
<1> QED BY <1>1, <1>2, LenProperties

\* A downward closed set of positions is an initial segment.
LEMMA InitialSegment ==
  ASSUME NEW n \in Nat, NEW E \in SUBSET (1 .. n),
         \A k \in E : \A j \in 1 .. k : j \in E
  PROVE  /\ Cardinality(E) \in 0 .. n
         /\ E = 1 .. Cardinality(E)
<1>1. IsFiniteSet(1 .. n) /\ Cardinality(1 .. n) = n
  BY Positions
<1>2. IsFiniteSet(E) /\ Cardinality(E) \in Nat /\ Cardinality(E) <= n
  BY <1>1, FS_Subset, FS_CardinalityType
<1>3. ASSUME NEW k \in E
      PROVE  k \in 1 .. Cardinality(E)
  <2>1. k \in 1 .. n /\ 1 .. k \in SUBSET E
    OBVIOUS
  <2>2. Cardinality(1 .. k) = k
    BY <2>1, Positions
  <2>3. Cardinality(1 .. k) <= Cardinality(E)
    BY <2>1, <1>2, FS_Subset
  <2> QED BY <2>1, <2>2, <2>3, <1>2
<1>4. E \in SUBSET (1 .. Cardinality(E))
  BY <1>3
<1>5. /\ IsFiniteSet(1 .. Cardinality(E))
      /\ Cardinality(1 .. Cardinality(E)) = Cardinality(E)
  BY <1>2, FS_Interval
<1>6. E = 1 .. Cardinality(E)
  BY <1>4, <1>5, FS_Subset
<1> QED BY <1>2, <1>6

\* What is retained of a record the clock is not behind is its last part, and
\* that is what has not expired.
LEMMA RetainedSuffix ==
  ASSUME TypeOK, NEW s \in Seq(Timestamp), Sorted(s), ~ClockRegressed(s)
  PROVE  \E e \in 0 .. Len(s) :
           /\ Retained(s) \in Seq(Timestamp) /\ Len(Retained(s)) = Len(s) - e
           /\ \A i \in 1 .. Len(s) - e : Retained(s)[i] = s[e + i]
           /\ \A k \in DOMAIN s : k > e <=> now - s[k] < Window
<1>1. Len(s) \in Nat /\ DOMAIN s = 1 .. Len(s) /\ \A k \in 1 .. Len(s) : s[k] \in Timestamp
  BY Seconds
<1>2. now \in Nat /\ Window \in Nat /\ \A k \in 1 .. Len(s) : s[k] \in Nat
  BY Seconds, CrashBudgetAssumption DEF TypeOK, Timestamp
<1> DEFINE E == {k \in DOMAIN s : now - s[k] >= Window}
<1>3. ASSUME NEW k \in E, NEW j \in 1 .. k
      PROVE  j \in E
  <2>1. j \in DOMAIN s /\ s[j] \in Nat /\ s[k] \in Nat /\ now - s[k] >= Window
    <3>1. k \in 1 .. Len(s) /\ now - s[k] >= Window
      BY <1>1
    <3>2. j \in 1 .. Len(s)
      BY <1>1, <3>1
    <3> QED BY <1>1, <1>2, <3>1, <3>2
  <2>2. s[j] <= s[k]
    <3>1. j = k \/ j < k
      BY <1>1
    <3> QED BY <1>1, <2>1, <3>1 DEF Sorted
  <2>3. now - s[j] >= Window
    BY <2>1, <2>2, <1>2
  <2> QED BY <2>1, <2>3
<1>4. E \in SUBSET (1 .. Len(s))
  BY <1>1
<1>5. /\ Cardinality(E) \in 0 .. Len(s) /\ E = 1 .. Cardinality(E)
  <2> HIDE DEF E
  <2> QED BY <1>1, <1>3, <1>4, InitialSegment
<1>6. PICK e \in 0 .. Len(s) : e = Cardinality(E)
  BY <1>5
<1>7. Retained(s) = SubSeq(s, e + 1, Len(s))
  BY <1>6 DEF Retained
<1>8. /\ SubSeq(s, e + 1, Len(s)) \in Seq(Timestamp)
      /\ Len(SubSeq(s, e + 1, Len(s))) = Len(s) - e
      /\ \A i \in 1 .. Len(s) - e : SubSeq(s, e + 1, Len(s))[i] = s[e + i]
  <2>1. \A i \in e + 1 .. Len(s) : s[i] \in Timestamp
    BY <1>1
  <2>2. e + 1 \in Int /\ Len(s) \in Int
    BY <1>1
  <2>3. /\ SubSeq(s, e + 1, Len(s)) \in Seq(Timestamp)
        /\ Len(SubSeq(s, e + 1, Len(s)))
             = IF e + 1 <= Len(s) THEN Len(s) - (e + 1) + 1 ELSE 0
        /\ \A i \in 1 .. Len(s) - (e + 1) + 1 :
             SubSeq(s, e + 1, Len(s))[i] = s[e + 1 + i - 1]
    BY <2>1, <2>2, SubSeqProperties
  <2>4. Len(s) - (e + 1) + 1 = Len(s) - e
    BY <1>1
  <2>5. \A i \in 1 .. Len(s) - e : e + 1 + i - 1 = e + i
    BY <1>1
  <2>6. e + 1 <= Len(s) \/ Len(s) - e = 0
    BY <1>1, <1>6
  <2>7. Len(SubSeq(s, e + 1, Len(s))) = Len(s) - e
    BY <1>1, <2>3, <2>4, <2>6
  <2> QED BY <2>3, <2>4, <2>5, <2>7
<1>9. \A k \in DOMAIN s : k > e <=> now - s[k] < Window
  <2> TAKE k \in DOMAIN s
  <2>1. k > e <=> k \notin E
    <3>1. E = 1 .. e /\ k \in Nat \ {0} /\ e \in Nat
      BY <1>1, <1>5, <1>6
    <3> HIDE DEF E
    <3> QED BY <3>1
  <2>2. k \notin E <=> ~(now - s[k] >= Window)
    OBVIOUS
  <2>3. now \in Nat /\ s[k] \in Nat
    BY <1>1, <1>2
  <2> QED BY <2>1, <2>2, <2>3, <1>2
<1> QED BY <1>7, <1>8, <1>9

\* Nothing permitted needs no place.
LEMMA NothingToCover ==
  ASSUME NEW s, NEW n, NEW t
  PROVE  Covers(<<>>, s, n, t)
<1>1. Recent(<<>>, t) = {}
  BY DEF Recent
<1>2. [k \in {} |-> k] \in Injection({}, 1 .. n)
  BY DEF Injection, IsInjective
<1> QED BY <1>1, <1>2 DEF Covers

\* A record that covers what counts at its last second yields a new one that
\* covers what counts now: what has expired is not missed.
LEMMA RetainedCovers ==
  ASSUME TypeOK, NEW p \in Seq(Timestamp),
         NEW s \in Seq(Timestamp), s # <<>>, Sorted(s), ~ClockRegressed(s),
         Covers(p, s, Len(s), Last(s))
  PROVE  Covers(p, Append(Retained(s), now), Len(Retained(s)), now)
<1>1. PICK e \in 0 .. Len(s) :
        /\ Retained(s) \in Seq(Timestamp) /\ Len(Retained(s)) = Len(s) - e
        /\ \A i \in 1 .. Len(s) - e : Retained(s)[i] = s[e + i]
        /\ \A k \in DOMAIN s : k > e <=> now - s[k] < Window
  BY RetainedSuffix
<1>2. PICK g \in Injection(Recent(p, Last(s)), 1 .. Len(s)) :
        \A k \in Recent(p, Last(s)) : s[g[k]] = p[k]
  BY DEF Covers
<1>3. /\ Len(s) \in Nat \ {0} /\ DOMAIN s = 1 .. Len(s) /\ Last(s) \in Nat
      /\ now \in Nat /\ Window \in Nat /\ Last(s) <= now
  BY LastOfSeq, CrashBudgetAssumption DEF TypeOK, Timestamp, ClockRegressed
<1>4. \A k \in DOMAIN p : p[k] \in Nat
  BY Seconds
<1>5. ASSUME NEW k \in Recent(p, now)
      PROVE  /\ k \in Recent(p, Last(s)) /\ g[k] \in 1 .. Len(s)
             /\ g[k] - e \in 1 .. Len(s) - e
             /\ s[g[k]] = p[k] /\ e + (g[k] - e) = g[k]
  <2>1. k \in DOMAIN p /\ now - p[k] < Window /\ p[k] \in Nat
    BY <1>4 DEF Recent
  <2>2. Last(s) - p[k] < Window
    BY <2>1, <1>3
  <2>3. k \in Recent(p, Last(s))
    BY <2>1, <2>2 DEF Recent
  <2>4. g[k] \in 1 .. Len(s) /\ s[g[k]] = p[k]
    BY <1>2, <2>3 DEF Injection
  <2>5. g[k] > e
    BY <1>1, <1>3, <2>1, <2>4
  <2> QED BY <1>1, <1>3, <2>3, <2>4, <2>5
<1> DEFINE h == [k \in Recent(p, now) |-> g[k] - e]
<1>6. h \in [Recent(p, now) -> 1 .. Len(s) - e]
  BY <1>5
<1>7. ASSUME NEW j \in Recent(p, now), NEW k \in Recent(p, now), h[j] = h[k]
      PROVE  j = k
  <2>1. g[j] = g[k]
    <3>1. g[j] - e = g[k] - e /\ g[j] \in Int /\ g[k] \in Int /\ e \in Int
      BY <1>1, <1>3, <1>5, <1>7
    <3> QED BY <3>1
  <2> QED BY <2>1, <1>2, <1>5 DEF Injection, IsInjective
<1>8. h \in Injection(Recent(p, now), 1 .. Len(Retained(s)))
  BY <1>1, <1>6, <1>7 DEF Injection, IsInjective
<1>9. ASSUME NEW k \in Recent(p, now)
      PROVE  Append(Retained(s), now)[h[k]] = p[k]
  <2>1. h[k] = g[k] - e
    OBVIOUS
  <2>2. Retained(s)[h[k]] = p[k]
    BY <1>1, <1>5, <2>1
  <2>3. h[k] \in 1 .. Len(Retained(s))
    BY <1>1, <1>5, <2>1
  <2> QED BY <1>1, <2>2, <2>3, AppendProperties DEF TypeOK
<1> HIDE DEF h
<1> QED BY <1>8, <1>9 DEF Covers

\* More places are as good.
LEMMA CoversMore ==
  ASSUME NEW p, NEW s, NEW n \in Nat \ {0}, NEW t, Covers(p, s, n - 1, t)
  PROVE  Covers(p, s, n, t)
<1>1. PICK g \in Injection(Recent(p, t), 1 .. n - 1) :
        \A k \in Recent(p, t) : s[g[k]] = p[k]
  BY DEF Covers
<1>2. 1 .. n - 1 \subseteq 1 .. n
  OBVIOUS
<1>3. g \in Injection(Recent(p, t), 1 .. n)
  BY <1>2 DEF Injection
<1> QED BY <1>1, <1>3 DEF Covers

\* A record that holds every recent start before its last one, which is the start
\* that is now permitted, holds the permitted starts and keeps to the budget.
LEMMA PermittedCovers ==
  ASSUME NEW p \in Seq(Timestamp), Sorted(p), Bounded(p),
         NEW s \in Seq(Timestamp), s # <<>>, Len(s) <= MaximumUnprovenStarts,
         p # <<>> => Last(p) <= Last(s),
         Covers(p, s, Len(s) - 1, Last(s))
  PROVE  LET q == Append(p, Last(s))
         IN  /\ q \in Seq(Timestamp) /\ q # <<>> /\ Last(q) = Last(s)
             /\ Sorted(q) /\ Bounded(q) /\ Covers(q, s, Len(s), Last(s))
<1> DEFINE q == Append(p, Last(s))
           n == Len(p)
           v == Last(s)
<1>1. PICK g \in Injection(Recent(p, v), 1 .. Len(s) - 1) :
        \A k \in Recent(p, v) : s[g[k]] = p[k]
  BY DEF Covers
<1>2. /\ Len(s) \in Nat \ {0} /\ v \in Timestamp /\ v \in Nat
      /\ s[Len(s)] = v
  BY LastOfSeq DEF Timestamp, Last
<1>3. /\ n \in Nat /\ DOMAIN p = 1 .. n
      /\ \A k \in 1 .. n : p[k] \in Nat
  BY Seconds
<1>4. /\ q \in Seq(Timestamp) /\ Len(q) = n + 1 /\ DOMAIN q = 1 .. n + 1
      /\ q[n + 1] = v /\ \A k \in 1 .. n : q[k] = p[k]
  BY <1>2, AppendProperties, LenProperties
<1>5. q # <<>> /\ Last(q) = v
  BY <1>3, <1>4, EmptySeq DEF Last
<1>6. \A k \in 1 .. n : p[k] <= v
  <2> TAKE k \in 1 .. n
  <2>1. p # <<>> /\ n \in 1 .. n
    BY <1>3, EmptySeq
  <2>2. p[k] <= p[n] /\ p[n] = Last(p) /\ p[n] \in Nat
    BY <1>3, <2>1 DEF Sorted, Last
  <2> QED BY <1>2, <1>3, <2>1, <2>2
<1>7. Window \in Nat \ {0} /\ MaximumUnprovenStarts \in Nat
  BY CrashBudgetAssumption
<1>8. Recent(q, v) = Recent(p, v) \cup {n + 1} /\ n + 1 \notin Recent(p, v)
  BY <1>2, <1>3, <1>4, <1>7 DEF Recent
<1> DEFINE h == [k \in Recent(q, v) |-> IF k = n + 1 THEN Len(s) ELSE g[k]]
<1>9. h \in Injection(Recent(q, v), 1 .. Len(s))
  <2>1. \A k \in Recent(p, v) : g[k] \in 1 .. Len(s) - 1 /\ k # n + 1
    BY <1>1, <1>8 DEF Injection
  <2>2. \A k \in Recent(q, v) : h[k] \in 1 .. Len(s)
    BY <1>2, <1>8, <2>1
  <2>3. ASSUME NEW j \in Recent(q, v), NEW k \in Recent(q, v), h[j] = h[k]
        PROVE  j = k
    <3>1. CASE j \in Recent(p, v) /\ k \in Recent(p, v)
      <4>1. h[j] = g[j] /\ h[k] = g[k]
        BY <3>1, <2>1
      <4> QED BY <3>1, <4>1, <2>3, <1>1 DEF Injection, IsInjective
    <3>2. CASE j \in Recent(p, v) /\ k = n + 1
      BY <3>2, <2>1, <2>3, <1>2
    <3>3. CASE j = n + 1 /\ k \in Recent(p, v)
      BY <3>3, <2>1, <2>3, <1>2
    <3>4. CASE j = n + 1 /\ k = n + 1
      BY <3>4
    <3> QED BY <3>1, <3>2, <3>3, <3>4, <1>8
  <2> QED BY <2>2, <2>3 DEF Injection, IsInjective
<1>10. \A k \in Recent(q, v) : s[h[k]] = q[k]
  <2> TAKE k \in Recent(q, v)
  <2>1. CASE k = n + 1
    BY <2>1, <1>2, <1>4
  <2>2. CASE k \in Recent(p, v)
    <3>1. k # n + 1 /\ k \in 1 .. n /\ h[k] = g[k]
      BY <2>2, <1>3, <1>8 DEF Recent
    <3> QED BY <3>1, <2>2, <1>1, <1>4
  <2> QED BY <2>1, <2>2, <1>8
<1>11. Covers(q, s, Len(s), v)
  <2> HIDE DEF h, q, v
  <2> QED BY <1>9, <1>10 DEF Covers
<1>12. Sorted(q)
  <2> SUFFICES ASSUME NEW j \in 1 .. n + 1, NEW k \in 1 .. n + 1, j < k
               PROVE  q[j] <= q[k]
    BY <1>4 DEF Sorted
  <2>1. CASE k = n + 1
    BY <2>1, <1>3, <1>4, <1>6
  <2>2. CASE k \in 1 .. n
    <3>1. j \in 1 .. n
      BY <2>2, <1>3
    <3>2. p[j] <= p[k]
      BY <2>2, <3>1, <1>3 DEF Sorted
    <3> QED BY <2>2, <3>1, <3>2, <1>4
  <2> QED BY <2>1, <2>2, <1>3
<1>13. ASSUME NEW k \in 1 .. n + 1
       PROVE  Cardinality({j \in DOMAIN q : q[j] <= q[k] /\ q[k] - q[j] < Window})
                <= MaximumUnprovenStarts
  <2> DEFINE C == {j \in DOMAIN q : q[j] <= q[k] /\ q[k] - q[j] < Window}
  <2>1. CASE q[k] = v
    <3>1. C = Recent(q, v)
      BY <2>1, <1>2, <1>3, <1>4, <1>6 DEF Recent
    <3>2. Cardinality(Recent(q, v)) <= Len(s)
      <4>1. IsFiniteSet(1 .. Len(s)) /\ Cardinality(1 .. Len(s)) = Len(s)
        BY <1>2, Positions
      <4> HIDE DEF h, q, v
      <4> QED BY <4>1, <1>9, FS_Injection
    <3>3. IsFiniteSet(Recent(q, v)) /\ Cardinality(Recent(q, v)) \in Nat
      <4>1. IsFiniteSet(1 .. Len(s))
        BY <1>2, Positions
      <4> HIDE DEF h, q, v
      <4> QED BY <4>1, <1>9, FS_Injection, FS_CardinalityType
    <3>4. Cardinality(Recent(q, v)) <= MaximumUnprovenStarts
      <4> HIDE DEF h, q, v
      <4> QED BY <3>2, <3>3, <1>2, <1>7
    <3> QED BY <3>1, <3>4
  <2>2. CASE q[k] # v
    <3>1. k \in 1 .. n /\ q[k] = p[k] /\ p[k] < v
      BY <2>2, <1>2, <1>3, <1>4, <1>6
    <3>2. C = {j \in DOMAIN p : p[j] <= p[k] /\ p[k] - p[j] < Window}
      BY <3>1, <1>2, <1>3, <1>4
    <3> QED BY <3>1, <3>2, <1>3 DEF Bounded
  <2> QED BY <2>1, <2>2
<1>14. Bounded(q)
  <2> HIDE DEF q
  <2> QED BY <1>4, <1>13 DEF Bounded
<1> QED BY <1>4, <1>5, <1>11, <1>12, <1>14

\* Nothing recorded, nothing permitted: a sound beginning, whatever is permitted.
LEMMA EmptyRecord ==
  /\ <<>> \in Seq(Timestamp) /\ Len(<<>>) = 0
  /\ Sorted(<<>>) /\ Bounded(<<>>)
  /\ Recorded(<<>>) \in File /\ Sound(<<>>, Recorded(<<>>))
<1>1. <<>> \in Seq(Timestamp) /\ Len(<<>>) = 0 /\ DOMAIN <<>> = {}
  BY EmptySeq
<1>2. Sorted(<<>>) /\ Bounded(<<>>)
  BY <1>1 DEF Sorted, Bounded
<1> QED BY <1>1, <1>2, CrashBudgetAssumption DEF Recorded, File, Sound

(***************************************************************************)
(* The initial states, and one lemma for each action.                      *)
(***************************************************************************)
LEMMA InitInv == Init => IInv
<1> SUFFICES ASSUME Init PROVE IInv
  OBVIOUS
<1>1. TypeOK
  BY EmptyRecord, CrashBudgetAssumption DEF Init, TypeOK, Down
<1>2. Sorted(permitted) /\ Bounded(permitted) /\ Sound(permitted, path)
        /\ Sound(permitted, durable)
  BY EmptyRecord DEF Init
<1>3. Encoded /\ Replaced /\ LetThrough /\ Started /\ Announced
  BY DEF Init, Encoded, Replaced, LetThrough, Started, Announced, Replacing
<1> QED BY <1>1, <1>2, <1>3 DEF IInv

\* A step that leaves the record and the history alone.
LEMMA SameRecord ==
  ASSUME IInv, TypeOK', Encoded', LetThrough', Started',
         UNCHANGED <<path, durable, whole, permitted, retries>>,
         pc' # "SyncParent", pc' = "Rename" => synced'
  PROVE  IInv'
<1>1. Replaced' /\ Announced'
  BY DEF IInv, Replaced, Announced
<1> QED BY <1>1 DEF IInv

LEMMA StartStep ==
  ASSUME IInv, GuardianStarts
  PROVE  IInv'
<1>1. TypeOK'
  BY EmptyRecord, CrashBudgetAssumption
     DEF IInv, TypeOK, GuardianStarts, disk, Writing, Down
<1>2. Encoded' /\ LetThrough' /\ Started'
  BY DEF GuardianStarts, Encoded, LetThrough, Started, Replacing
<1> QED BY <1>1, <1>2, SameRecord DEF GuardianStarts, disk

\* A start that is permitted writes what is retained and itself.
LEMMA PermitStep ==
  ASSUME IInv, Begin, Parses(path), ~ClockRegressed(path.starts),
         ~Exhausted(path.starts), Permit(path.starts)
  PROVE  IInv'
<1> DEFINE s == path.starts
           kept == Retained(s)
<1>0. s \in Seq(Timestamp) /\ Sorted(s)
  BY DEF IInv, TypeOK, File, Sound
<1>1. PICK e \in 0 .. Len(s) :
        /\ kept \in Seq(Timestamp) /\ Len(kept) = Len(s) - e
        /\ \A i \in 1 .. Len(s) - e : kept[i] = s[e + i]
  BY <1>0, RetainedSuffix DEF IInv
<1>2. /\ Len(s) \in Nat /\ DOMAIN s = 1 .. Len(s)
      /\ \A k \in 1 .. Len(s) : s[k] \in Nat /\ s[k] <= now
      /\ now \in Nat /\ now \in Timestamp
  <2>1. Len(s) \in Nat /\ DOMAIN s = 1 .. Len(s) /\ \A k \in 1 .. Len(s) : s[k] \in Nat
    BY <1>0, Seconds
  <2>2. now \in Nat /\ now \in Timestamp
    BY CrashBudgetAssumption DEF IInv, TypeOK, Timestamp
  <2>3. ASSUME NEW k \in 1 .. Len(s)
        PROVE  s[k] <= now
    <3>1. s # <<>> /\ Len(s) \in 1 .. Len(s)
      BY <2>1, EmptySeq
    <3>2. s[Len(s)] <= now
      BY <3>1, <2>1, <2>2 DEF ClockRegressed, Last
    <3>3. s[k] <= s[Len(s)]
      BY <3>1, <2>1, <1>0, k = Len(s) \/ k < Len(s) DEF Sorted
    <3> QED BY <3>1, <3>2, <3>3, <2>1, <2>2
  <2> QED BY <2>1, <2>2, <2>3
<1>3. Len(kept) \in Nat /\ Len(kept) < MaximumUnprovenStarts
  BY <1>1, <1>2, CrashBudgetAssumption DEF Exhausted
<1>4. /\ encoded' = Append(kept, now) /\ encoded' \in Seq(Timestamp)
      /\ Len(encoded') = Len(kept) + 1 /\ DOMAIN encoded' = 1 .. Len(kept) + 1
      /\ encoded'[Len(kept) + 1] = now
      /\ \A i \in 1 .. Len(kept) : encoded'[i] = kept[i]
  <2>1. encoded' = Append(kept, now)
    BY DEF Permit
  <2>0. kept \in Seq(Timestamp) /\ now \in Timestamp
    BY <1>1, <1>2
  <2> HIDE DEF kept
  <2>2. /\ Append(kept, now) \in Seq(Timestamp)
        /\ Len(Append(kept, now)) = Len(kept) + 1
        /\ \A i \in 1 .. Len(kept) : Append(kept, now)[i] = kept[i]
        /\ Append(kept, now)[Len(kept) + 1] = now
    BY <2>0, AppendProperties
  <2>3. DOMAIN Append(kept, now) = 1 .. Len(kept) + 1
    BY <2>2, LenProperties
  <2> QED BY <2>1, <2>2, <2>3
<1>5. encoded' # <<>> /\ Last(encoded') = now
  BY <1>3, <1>4, EmptySeq DEF Last
<1>6. Sorted(encoded')
  <2> SUFFICES ASSUME NEW j \in 1 .. Len(kept) + 1, NEW k \in 1 .. Len(kept) + 1, j < k
               PROVE  encoded'[j] <= encoded'[k]
    BY <1>4 DEF Sorted
  <2>1. j \in 1 .. Len(kept) /\ e + j \in 1 .. Len(s) /\ encoded'[j] = s[e + j]
    BY <1>1, <1>2, <1>3, <1>4
  <2>2. CASE k = Len(kept) + 1
    BY <2>1, <2>2, <1>2, <1>4
  <2>3. CASE k # Len(kept) + 1
    <3>1. e + k \in 1 .. Len(s) /\ encoded'[k] = s[e + k] /\ e + j < e + k
      BY <2>3, <1>1, <1>2, <1>3, <1>4
    <3> QED BY <2>1, <3>1, <1>0, <1>2 DEF Sorted
  <2> QED BY <2>2, <2>3
<1>7. ASSUME permitted # <<>>
      PROVE  Last(permitted) <= now /\ Covers(permitted, encoded', Len(kept), now)
  <2>1. /\ s # <<>> /\ Last(permitted) <= Last(s) /\ Covers(permitted, s, Len(s), Last(s))
        /\ permitted \in Seq(Timestamp) /\ TypeOK
    BY <1>7 DEF IInv, Sound, TypeOK
  <2>2. Covers(permitted, encoded', Len(kept), now)
    BY <2>1, <1>0, <1>4, RetainedCovers
  <2>3. Last(s) <= now /\ Last(s) \in Nat /\ Last(permitted) \in Nat
    BY <2>1, <1>0, <1>2, <1>7, LastOfSeq DEF Last, Timestamp
  <2> QED BY <2>1, <2>2, <2>3, <1>2
<1>8. Encoded'
  <2>1. pc' = "Open" /\ now' = now /\ UNCHANGED <<permitted, purpose>>
    BY DEF Permit, Begin
  <2>2. purpose = "attempt"
    BY DEF IInv, Started, Begin
  <2>3. Len(encoded') - 1 = Len(kept) /\ Len(encoded') <= MaximumUnprovenStarts
    BY <1>3, <1>4, CrashBudgetAssumption
  <2> QED BY <2>1, <2>2, <2>3, <1>5, <1>6, <1>7 DEF Encoded
<1>9. TypeOK'
  BY <1>4 DEF IInv, TypeOK, Begin, Permit, Writing, disk
<1> HIDE DEF s, kept
<1> QED BY <1>8, <1>9, SameRecord DEF Begin, Permit, LetThrough, Started, disk

\* A full record, all of which counts: the second announced is the one at which its
\* first start expires.
LEMMA FullRecord ==
  ASSUME IInv, Parses(path), ~ClockRegressed(path.starts), Exhausted(path.starts)
  PROVE  /\ Len(path.starts) = MaximumUnprovenStarts
         /\ RetryAt(path.starts) = path.starts[1] + Window
         /\ RetryAt(path.starts) \in Nat /\ now < RetryAt(path.starts)
<1> DEFINE s == path.starts
<1>1. s \in Seq(Timestamp) /\ Sorted(s) /\ Len(s) <= MaximumUnprovenStarts /\ TypeOK
  BY DEF IInv, TypeOK, File, Sound
<1>2. PICK e \in 0 .. Len(s) :
        /\ Len(Retained(s)) = Len(s) - e
        /\ \A i \in 1 .. Len(s) - e : Retained(s)[i] = s[e + i]
        /\ \A k \in DOMAIN s : k > e <=> now - s[k] < Window
  BY <1>1, RetainedSuffix
<1>3. /\ MaximumUnprovenStarts \in Nat \ {0} /\ Window \in Nat /\ now \in Nat
      /\ Len(s) \in Nat /\ DOMAIN s = 1 .. Len(s)
      /\ \A k \in 1 .. Len(s) : s[k] \in Nat
  BY <1>1, Seconds, CrashBudgetAssumption DEF TypeOK, Timestamp
<1>4. Len(s) - e >= MaximumUnprovenStarts
  BY <1>2 DEF Exhausted
<1>5. e = 0 /\ Len(s) = MaximumUnprovenStarts /\ 1 \in 1 .. Len(s)
  BY <1>1, <1>2, <1>3, <1>4
<1>6. Retained(s)[1] = s[1] /\ now - s[1] < Window /\ s[1] \in Nat
  BY <1>2, <1>3, <1>5
<1> HIDE DEF s
<1>7. RetryAt(s) = s[1] + Window
  BY <1>6 DEF RetryAt
<1> QED BY <1>3, <1>5, <1>6, <1>7 DEF s

LEMMA BeginStep ==
  ASSUME IInv, Begin
  PROVE  IInv'
<1>1. CASE Refuse
  <2>1. TypeOK'
    BY <1>1 DEF IInv, TypeOK, Begin, Refuse, Down, disk
  <2>2. Encoded' /\ LetThrough' /\ Started'
    BY <1>1 DEF Refuse, Encoded, LetThrough, Started, Replacing
  <2> QED BY <1>1, <2>1, <2>2, SameRecord DEF Begin, Refuse, disk
<1>2. CASE /\ Parses(path) /\ ~ClockRegressed(path.starts)
           /\ ~Exhausted(path.starts) /\ Permit(path.starts)
  BY <1>2, PermitStep
<1>3. CASE /\ Parses(path) /\ ~ClockRegressed(path.starts) /\ Exhausted(path.starts)
           /\ RetryAt(path.starts) <= MaxTimestamp /\ pc' = "Fallback"
           /\ retries' = retries \cup {RetryAt(path.starts)} /\ UNCHANGED encoded
  <2>1. /\ Len(path.starts) = MaximumUnprovenStarts
        /\ RetryAt(path.starts) = path.starts[1] + Window /\ RetryAt(path.starts) \in Nat
    BY <1>3, FullRecord
  <2>2. Announced'
    BY <1>3, <2>1 DEF IInv, Announced, Begin, disk
  <2>3. RetryAt(path.starts) \in Timestamp
    BY <1>3, <2>1, CrashBudgetAssumption DEF Timestamp
  <2>4. TypeOK'
    BY <1>3, <2>3 DEF IInv, TypeOK, Begin, Down, disk
  <2>5. Encoded' /\ LetThrough' /\ Started' /\ Replaced'
    BY <1>3 DEF IInv, Encoded, LetThrough, Started, Replaced, Replacing, Begin, disk
  <2> QED BY <2>2, <2>4, <2>5 DEF IInv, Begin, disk
<1> QED BY <1>1, <1>2, <1>3 DEF Begin

\* The steps of a write before the file is replaced, and after one has failed.
LEMMA TemporaryStep ==
  ASSUME IInv, OpenTemporary \/ WriteAll \/ SyncAll \/ RemoveTemporary
  PROVE  IInv'
<1>1. TypeOK'
  <2>1. CASE OpenTemporary
    <3>1. suffix' \in 0 .. TemporaryAttempts - 1
      BY <2>1, CrashBudgetAssumption DEF IInv, TypeOK, OpenTemporary, Failed
    <3>2. names' \subseteq Pids \X (0 .. TemporaryAttempts - 1)
      BY <2>1 DEF IInv, TypeOK, OpenTemporary
    <3>3. pc' \in Down \cup Writing /\ synced' \in BOOLEAN
      BY <2>1 DEF IInv, TypeOK, OpenTemporary, Failed, Down, Writing
    <3> QED BY <2>1, <3>1, <3>2, <3>3 DEF IInv, TypeOK, OpenTemporary, history
  <2>2. CASE WriteAll
    BY <2>2 DEF IInv, TypeOK, WriteAll, Writing, disk, history
  <2>3. CASE SyncAll
    BY <2>3 DEF IInv, TypeOK, SyncAll, Writing, history
  <2>4. CASE RemoveTemporary
    BY <2>4 DEF IInv, TypeOK, RemoveTemporary, Down, history
  <2> QED BY <2>1, <2>2, <2>3, <2>4
<1>2. UNCHANGED <<now, path, durable, whole, permitted, retries, purpose, encoded>>
  BY DEF OpenTemporary, WriteAll, SyncAll, RemoveTemporary, disk, history
<1>3. /\ pc' \in Replacing => pc \in Replacing
      /\ pc' \notin {"Begin", "Running", "SyncParent"} /\ (pc' = "Rename" => synced')
  BY DEF OpenTemporary, WriteAll, SyncAll, RemoveTemporary, Failed, Replacing
<1>4. Encoded' /\ LetThrough' /\ Started'
  BY <1>2, <1>3 DEF IInv, Encoded, LetThrough, Started
<1> QED BY <1>1, <1>2, <1>3, <1>4, SameRecord

\* The new record takes the place of the old one.
LEMMA RenameStep ==
  ASSUME IInv, Rename
  PROVE  IInv'
<1>1. CASE pc' = "Remove" /\ UNCHANGED <<path, names, whole, permitted, retries>>
  <2>1. TypeOK'
    BY <1>1 DEF IInv, TypeOK, Rename, Writing
  <2>2. Encoded' /\ LetThrough' /\ Started'
    BY <1>1 DEF Encoded, LetThrough, Started, Replacing
  <2> QED BY <1>1, <2>1, <2>2, SameRecord DEF Rename
<1>2. CASE /\ path' = Recorded(encoded) /\ whole' = synced
           /\ names' = names \ {<<pid, suffix>>} /\ pc' = "SyncParent"
           /\ permitted' = IF purpose = "stable" THEN <<>> ELSE permitted
           /\ retries' = {}
  <2>0. UNCHANGED <<now, durable, synced, pid, purpose, encoded, suffix, lives>> /\ synced
    BY DEF Rename, IInv, Replaced
  <2>1. path'.starts = encoded /\ path'.readable /\ path' \in File
    BY <1>2 DEF Recorded, File, IInv, TypeOK
  <2>2. CASE purpose = "stable"
    <3>1. encoded = <<>> /\ permitted' = <<>>
      BY <1>2, <2>2 DEF IInv, Encoded, Rename, Replacing
    <3>2. TypeOK'
      BY <1>2, <2>0, <2>1, <3>1, EmptyRecord DEF IInv, TypeOK, Writing
    <3>3. Sound(permitted', path') /\ Sorted(permitted') /\ Bounded(permitted')
      BY <1>2, <3>1, EmptyRecord
    <3>4. Sound(permitted', durable')
      BY <2>0, <3>1 DEF IInv, Sound
    <3>5. Encoded' /\ Replaced' /\ LetThrough' /\ Started' /\ Announced'
      BY <1>2, <2>0, <2>2, <3>1
         DEF IInv, Encoded, Replaced, LetThrough, Started, Announced, Replacing
    <3> QED BY <3>2, <3>3, <3>4, <3>5 DEF IInv
  <2>3. CASE purpose = "attempt"
    <3>0. permitted' = permitted
      BY <1>2, <2>3
    <3>1. /\ encoded # <<>> /\ Last(encoded) = now
          /\ Sorted(encoded) /\ Len(encoded) <= MaximumUnprovenStarts
          /\ permitted # <<>> =>
               Last(permitted) <= now /\ Covers(permitted, encoded, Len(encoded) - 1, now)
      BY <2>3 DEF IInv, Encoded, Rename, Replacing
    <3>2. TypeOK'
      BY <1>2, <2>0, <2>1, <3>0 DEF IInv, TypeOK, Writing
    <3>3. permitted # <<>> => Covers(permitted, encoded, Len(encoded), now)
      <4>1. encoded \in Seq(Timestamp) /\ Len(encoded) \in Nat \ {0}
        BY <3>1, EmptySeq DEF IInv, TypeOK
      <4> QED BY <4>1, <3>1, CoversMore
    <3>4. Sound(permitted', path')
      BY <2>1, <3>0, <3>1, <3>3 DEF Sound
    <3>5. Encoded' /\ Replaced' /\ LetThrough' /\ Started' /\ Announced'
      BY <1>2, <2>0, <2>3, <3>0
         DEF IInv, Encoded, Replaced, LetThrough, Started, Announced, Replacing, Rename
    <3> QED BY <2>0, <3>0, <3>2, <3>4, <3>5 DEF IInv
  <2> QED BY <2>2, <2>3 DEF IInv, TypeOK
<1> QED BY <1>1, <1>2 DEF Rename

\* The directory is synced: the record is durable, and a start is permitted.
LEMMA SyncParentStep ==
  ASSUME IInv, SyncParent
  PROVE  IInv'
<1>0. /\ UNCHANGED <<now, path, names, synced, whole, pid, purpose, encoded, suffix>>
      /\ UNCHANGED <<lives, retries>>
      /\ path = Recorded(encoded) /\ path.starts = encoded /\ pc \in Replacing
  BY DEF SyncParent, IInv, Replaced, Recorded, Replacing
<1>1. Announced' /\ pc' \in {"Running", "Remove"}
  BY <1>0 DEF IInv, Announced, SyncParent, Succeed
<1>2. CASE pc' = "Remove" /\ durable' \in {durable, path} /\ UNCHANGED permitted
  <2>1. TypeOK'
    BY <1>0, <1>2 DEF IInv, TypeOK, Writing
  <2>2. Sound(permitted', durable') /\ Sound(permitted', path')
    BY <1>0, <1>2 DEF IInv
  <2>3. Encoded' /\ Replaced' /\ LetThrough' /\ Started'
    BY <1>0, <1>2 DEF IInv, Encoded, Replaced, LetThrough, Started, Replacing
  <2> QED BY <1>1, <1>2, <2>1, <2>2, <2>3 DEF IInv
<1>3. CASE durable' = path /\ Succeed
  <2>0. pc' = "Running"
    BY <1>3 DEF Succeed
  <2>1. CASE purpose = "stable"
    <3>1. UNCHANGED permitted
      BY <1>3, <2>1 DEF Succeed
    <3>2. TypeOK'
      BY <1>0, <1>3, <2>0, <3>1 DEF IInv, TypeOK
    <3>3. Sound(permitted', durable') /\ Sound(permitted', path')
      BY <1>0, <1>3, <3>1 DEF IInv
    <3>4. Encoded' /\ Replaced' /\ LetThrough' /\ Started'
      BY <1>0, <2>0, <2>1 DEF IInv, Encoded, Replaced, LetThrough, Started, Replacing
    <3> QED BY <1>1, <3>1, <3>2, <3>3, <3>4 DEF IInv
  <2>2. CASE purpose = "attempt"
    <3>1. permitted' = Append(permitted, Last(encoded))
      BY <1>3, <2>2 DEF Succeed
    <3>2. /\ encoded # <<>> /\ Last(encoded) = now
          /\ Sorted(encoded) /\ Len(encoded) <= MaximumUnprovenStarts
          /\ permitted # <<>> =>
               Last(permitted) <= now /\ Covers(permitted, encoded, Len(encoded) - 1, now)
      BY <1>0, <2>2 DEF IInv, Encoded
    <3>3. /\ permitted \in Seq(Timestamp) /\ encoded \in Seq(Timestamp)
          /\ Sorted(permitted) /\ Bounded(permitted)
          /\ permitted # <<>> => Last(permitted) <= Last(encoded)
          /\ Covers(permitted, encoded, Len(encoded) - 1, Last(encoded))
      BY <3>2, NothingToCover DEF IInv, TypeOK
    <3>4. /\ permitted' \in Seq(Timestamp) /\ permitted' # <<>>
          /\ Last(permitted') = Last(encoded)
          /\ Sorted(permitted') /\ Bounded(permitted')
          /\ Covers(permitted', encoded, Len(encoded), Last(encoded))
      BY <3>1, <3>2, <3>3, PermittedCovers
    <3>5. Last(permitted') <= Last(encoded)
      BY <3>2, <3>3, <3>4, LastOfSeq DEF Timestamp
    <3>6. Sound(permitted', path')
      BY <1>0, <3>2, <3>4, <3>5 DEF IInv, Sound
    <3>7. Sound(permitted', durable')
      BY <1>0, <1>3, <3>6
    <3>8. TypeOK'
      BY <1>0, <1>3, <2>0, <3>4 DEF IInv, TypeOK
    <3>9. Encoded' /\ Replaced' /\ LetThrough' /\ Started'
      BY <1>0, <1>3, <2>0, <3>4
         DEF IInv, Encoded, Replaced, LetThrough, Started, Replacing
    <3> QED BY <1>1, <3>4, <3>6, <3>7, <3>8, <3>9 DEF IInv
  <2> QED BY <2>1, <2>2 DEF IInv, TypeOK
<1> QED BY <1>2, <1>3 DEF SyncParent

\* A guardian proven stable writes nothing; one that ends leaves what it wrote.
LEMMA MarkStep ==
  ASSUME IInv, MarkStable
  PROVE  IInv'
<1>1. TypeOK'
  BY EmptyRecord, CrashBudgetAssumption
     DEF IInv, TypeOK, MarkStable, Writing, disk, history
<1>2. Encoded' /\ LetThrough' /\ Started'
  BY DEF MarkStable, Encoded, LetThrough, Started
<1> QED BY <1>1, <1>2, SameRecord DEF MarkStable, disk, history

LEMMA EndStep ==
  ASSUME IInv, GuardianEnds \/ ClockMoves
  PROVE  IInv'
<1>1. TypeOK'
  BY DEF IInv, TypeOK, GuardianEnds, ClockMoves, Down, disk, guardian, history
<1>2. pc' \in Down
  BY DEF GuardianEnds, ClockMoves, Down, guardian
<1>3. Encoded' /\ LetThrough' /\ Started'
  BY <1>2 DEF Encoded, LetThrough, Started, Replacing, Down
<1> QED BY <1>1, <1>2, <1>3, SameRecord
       DEF GuardianEnds, ClockMoves, disk, guardian, history, Down

\* A power cut leaves one of the two records, both sound.
LEMMA PowerStep ==
  ASSUME IInv, PowerLoss
  PROVE  IInv'
<1>1. /\ path' = durable' /\ durable' \in {durable, path} /\ whole' /\ pc' = "Off"
      /\ UNCHANGED permitted /\ (path' # path => retries' = {})
      /\ (path' = path => retries' = retries)
  BY DEF PowerLoss, IInv, Replaced
<1>2. TypeOK'
  BY <1>1 DEF IInv, TypeOK, PowerLoss, Down
<1>3. Sound(permitted', path') /\ Sound(permitted', durable')
  BY <1>1 DEF IInv
<1>4. Encoded' /\ Replaced' /\ LetThrough' /\ Started' /\ Announced'
  BY <1>1 DEF IInv, Encoded, Replaced, LetThrough, Started, Announced, Replacing
<1> QED BY <1>1, <1>2, <1>3, <1>4 DEF IInv

\* Every step of the guardian, the clock and the power keeps the invariant.
LEMMA NextInv ==
  ASSUME IInv, [Next]_vars
  PROVE  IInv'
<1>1. CASE UNCHANGED vars
  BY <1>1 DEF IInv, TypeOK, Encoded, Replaced, LetThrough, Started, Announced, vars,
     disk, guardian, history
<1>2. CASE Next
  BY <1>2, StartStep, BeginStep, TemporaryStep, RenameStep, SyncParentStep, MarkStep,
     EndStep, PowerStep DEF Next
<1> QED BY <1>1, <1>2

(***************************************************************************)
(* The theorems.                                                           *)
(***************************************************************************)
\* In every reachable state, every copy of the record holds the permitted starts
\* that count, and the parts above fit together.
THEOREM Inductive == Spec => []IInv
<1>1. IInv /\ [Next]_vars => IInv'
  BY NextInv
<1> QED BY InitInv, <1>1, PTL DEF Spec

\* Every variable keeps its type.
THEOREM TypeCorrect == Spec => []TypeOK
<1>1. IInv => TypeOK
  BY DEF IInv
<1> QED BY Inductive, <1>1, PTL

\* Whatever fails, is killed, cut off or set back: no window of Window seconds
\* holds more permitted starts than the policy (CrashBudgetPolicy, begin) allows.
THEOREM KeepsToBudget == Spec => []BudgetBound
<1>1. IInv => BudgetBound
  BY DEF IInv, Bounded, BudgetBound
<1> QED BY Inductive, <1>1, PTL

\* No interruption of write_history leaves a file that parse rejects, before or
\* after a power cut.
THEOREM AlwaysReadable == Spec => []StateStaysReadable
<1>1. IInv => StateStaysReadable
  BY DEF IInv, Sound, Sorted, Parses, StateStaysReadable
<1> QED BY Inductive, <1>1, PTL

\* begin lets a guardian go on only when its own start, and every earlier one that
\* still counts, would survive a power cut.
THEOREM PermitsDurably == Spec => []StartIsDurable
<1>1. IInv => StartIsDurable
  <2> SUFFICES ASSUME IInv, pc = "Running", purpose = "attempt"
               PROVE  /\ durable = path /\ Last(path.starts) = Last(permitted)
                      /\ \A k \in DOMAIN permitted :
                           Last(permitted) - permitted[k] < Window =>
                             \E j \in DOMAIN durable.starts :
                               durable.starts[j] = permitted[k]
    BY DEF StartIsDurable
  <2>1. durable = path /\ permitted # <<>> /\ Last(path.starts) = Last(permitted)
    BY DEF IInv, LetThrough
  <2>2. PICK g \in Injection(Recent(permitted, Last(permitted)),
                             1 .. Len(durable.starts)) :
          \A k \in Recent(permitted, Last(permitted)) :
            durable.starts[g[k]] = permitted[k]
    BY <2>1 DEF IInv, Sound, Covers
  <2>3. DOMAIN durable.starts = 1 .. Len(durable.starts)
    BY LenProperties DEF IInv, TypeOK, File
  <2>4. ASSUME NEW k \in DOMAIN permitted, Last(permitted) - permitted[k] < Window
        PROVE  \E j \in DOMAIN durable.starts : durable.starts[j] = permitted[k]
    <3>1. k \in Recent(permitted, Last(permitted))
      BY <2>4 DEF Recent
    <3> QED BY <3>1, <2>2, <2>3 DEF Injection
  <2> QED BY <2>1, <2>4
<1> QED BY Inductive, <1>1, PTL

\* A second that CrashBudgetDecision::Fallback announced is kept for as long as the
\* record is the one it was computed from.
THEOREM RetryIsKept == Spec => RetryIsExact
<1>1. ASSUME IInv, Next, pc = "Begin", pc' = "Fallback", NEW r \in retries
      PROVE  now < r
  <2>1. Begin
    BY <1>1 DEF Next, GuardianStarts, OpenTemporary, WriteAll, SyncAll, Rename,
       SyncParent, RemoveTemporary, MarkStable, GuardianEnds, PowerLoss, ClockMoves, Down
  <2>2. Parses(path) /\ ~ClockRegressed(path.starts) /\ Exhausted(path.starts)
    BY <1>1, <2>1 DEF Begin, Refuse, Permit
  <2>3. now < RetryAt(path.starts) /\ RetryAt(path.starts) = path.starts[1] + Window
    BY <1>1, <2>2, FullRecord
  <2>4. r = path.starts[1] + Window
    BY <1>1 DEF IInv, Announced
  <2> QED BY <2>3, <2>4
<1>2. IInv /\ [Next]_vars
        => [(pc = "Begin" /\ pc' = "Fallback") => \A r \in retries : now < r]_vars
  BY <1>1
<1>3. Spec => [][(pc = "Begin" /\ pc' = "Fallback") => \A r \in retries : now < r]_vars
  BY <1>2, Inductive, PTL DEF Spec
<1> QED BY <1>3 DEF RetryIsExact
=============================================================================
