---------------------------- MODULE CrashBudget ----------------------------
(***************************************************************************)
(* The persistent startup-crash budget of ferrink-supervisor.  Before it   *)
(* touches anything else, a guardian records its start in a small file on  *)
(* the root filesystem; a guardian proven stable clears the file; once     *)
(* MaximumUnprovenStarts recorded starts lie in the window, the next one   *)
(* selects stock instead of Ferrink.                                       *)
(*                                                                         *)
(* The file is replaced through a temporary: create_new, write, fsync,     *)
(* rename, fsync of the directory.  Any step may fail, the guardian may be *)
(* killed between any two, the power may be cut, and the wall clock may    *)
(* move either way between lives and within one.                           *)
(***************************************************************************)
EXTENDS Naturals, Sequences, FiniteSets

CONSTANTS
  MaximumUnprovenStarts,  \* policy: recorded starts that select fallback
  Window,                 \* policy: seconds a recorded start counts
  MaxTimestamp,           \* u64::MAX, the last second that can be written
  TemporaryAttempts,      \* TEMPORARY_ATTEMPTS
  Pids,                   \* process identifiers a guardian may be given
  MaxLives                \* bound: guardians started in one behaviour

ASSUME CrashBudgetAssumption ==
  /\ MaximumUnprovenStarts \in Nat \ {0}
  /\ Window \in Nat \ {0}
  /\ MaxTimestamp \in Nat
  /\ TemporaryAttempts \in Nat \ {0}
  /\ IsFiniteSet(Pids) /\ Pids # {}
  /\ MaxLives \in Nat

(***************************************************************************)
(* A file is what a reader makes of it: the recorded starts, or nothing    *)
(* readable.  An absent file reads as no starts.                           *)
(***************************************************************************)
Timestamp == 0 .. MaxTimestamp
File      == [readable : BOOLEAN, starts : Seq(Timestamp)]
Recorded(starts) == [readable |-> TRUE, starts |-> starts]
Torn      == [readable |-> FALSE, starts |-> <<>>]

\* CrashBudgetHistory::parse also rejects starts that are out of order.
Parses(f) ==
  f.readable /\ \A j, k \in DOMAIN f.starts : j < k => f.starts[j] <= f.starts[k]

VARIABLES
  now,       \* the wall clock, in seconds
  path,      \* disk: the state file as every process sees it
  durable,   \* disk: the state file a power cut would leave
  names,     \* disk: temporary names taken, {<<pid, suffix>>}
  pid,       \* guardian: its process identifier
  pc,        \* guardian: the next call
  purpose,   \* guardian: what the write under way is for
  encoded,   \* guardian: the starts being written
  suffix,    \* guardian: the suffix of the temporary being tried
  synced,    \* disk: the temporary last written has been fsynced
  whole,     \* disk: the data of the state file has been fsynced
  lives,     \* bound: guardians started so far
  permitted, \* history: start times permitted since the last stable mark
  retries    \* history: retry times announced since the record last changed

disk     == <<path, durable, names, synced, whole>>
guardian == <<pid, pc, purpose, encoded, suffix>>
history  == <<lives, permitted, retries>>
vars     == <<now, disk, guardian, history>>

Writing == {"Open", "Write", "Sync", "Rename", "SyncParent", "Remove"}
Down    == {"Off", "Refused", "Fallback"}

Init ==
  /\ now \in Timestamp
  /\ path = Recorded(<<>>) /\ durable = path
  /\ names = {} /\ synced = TRUE /\ whole = TRUE
  /\ pid \in Pids /\ pc = "Off" /\ purpose = "attempt"
  /\ encoded = <<>> /\ suffix = 0
  /\ lives = 0 /\ permitted = <<>> /\ retries = {}

(***************************************************************************)
(* begin: read_history, begin_attempt.                                     *)
(***************************************************************************)
\* The kernel gives the new guardian any pid, also one used before.
GuardianStarts ==
  /\ pc \in Down /\ lives < MaxLives
  /\ lives' = lives + 1
  /\ pid' \in Pids /\ pc' = "Begin"
  /\ purpose' = "attempt" /\ encoded' = <<>> /\ suffix' = 0
  /\ UNCHANGED <<now, disk, permitted, retries>>

Last(starts) == starts[Len(starts)]

\* retain: the starts are ordered, so the expired ones come first.
\* Mutant: a start still counts in the second its window ends.
RetainedOneSecondMore(starts) ==
  LET expired == Cardinality({k \in DOMAIN starts : now - starts[k] > Window})
  IN SubSeq(starts, expired + 1, Len(starts))

Retained(starts) ==
  LET expired == Cardinality({k \in DOMAIN starts : now - starts[k] >= Window})
  IN SubSeq(starts, expired + 1, Len(starts))

ClockRegressed(starts) == starts # <<>> /\ Last(starts) > now
\* Mutant: one more start than the policy allows.
ExhaustedOneLater(starts) == Len(Retained(starts)) > MaximumUnprovenStarts
Exhausted(starts)      == Len(Retained(starts)) >= MaximumUnprovenStarts
RetryAt(starts)        == Retained(starts)[1] + Window

Refuse == pc' = "Refused" /\ UNCHANGED <<encoded, retries>>

Permit(starts) ==
  /\ encoded' = Append(Retained(starts), now)
  /\ pc' = "Open" /\ UNCHANGED retries

\* An unreadable or malformed file, a clock behind the last start and a retry
\* time past MaxTimestamp all refuse; so may any I/O error.  The clock was read
\* just before.
Begin ==
  /\ pc = "Begin"
  /\ \/ Refuse
     \/ /\ Parses(path) /\ ~ClockRegressed(path.starts)
        /\ \/ ~Exhausted(path.starts) /\ Permit(path.starts)
           \/ /\ Exhausted(path.starts)
              /\ RetryAt(path.starts) <= MaxTimestamp
              /\ pc' = "Fallback"
              /\ retries' = retries \cup {RetryAt(path.starts)}
              /\ UNCHANGED encoded
  /\ UNCHANGED <<now, disk, pid, purpose, suffix, lives, permitted>>

(***************************************************************************)
(* write_history, for a permitted start and for mark_stable.               *)
(***************************************************************************)
Failed == pc' = "Refused" /\ UNCHANGED suffix

\* create_new: a taken name moves on to the next suffix, of which there are
\* TemporaryAttempts; any other error, and the last collision, ends the write.
OpenTemporary ==
  /\ pc = "Open"
  /\ \/ Failed /\ UNCHANGED <<names, synced>>
     \/ /\ <<pid, suffix>> \in names /\ suffix + 1 < TemporaryAttempts
        /\ suffix' = suffix + 1 /\ UNCHANGED <<pc, names, synced>>
     \/ /\ <<pid, suffix>> \notin names
        /\ names' = names \cup {<<pid, suffix>>} /\ synced' = FALSE
        /\ pc' = "Write" /\ UNCHANGED suffix
  /\ UNCHANGED <<now, path, durable, whole, pid, purpose, encoded, history>>

WriteAll ==
  /\ pc = "Write"
  /\ pc' \in {"Sync", "Remove"}
  /\ UNCHANGED <<now, disk, pid, purpose, encoded, suffix, history>>

\* Mutant: the data is not fsynced before the rename.
SkipSyncAll ==
  /\ pc = "Sync"
  /\ pc' = "Rename"
  /\ UNCHANGED <<now, disk, pid, purpose, encoded, suffix, history>>

SyncAll ==
  /\ pc = "Sync"
  /\ \/ pc' = "Rename" /\ synced' = TRUE
     \/ pc' = "Remove" /\ synced' \in BOOLEAN
  /\ UNCHANGED <<now, path, durable, names, whole, pid, purpose, encoded, suffix, history>>

\* rename(2): the new content replaces the old at once, and the temporary name
\* is free again.
Rename ==
  /\ pc = "Rename"
  /\ \/ /\ path' = Recorded(encoded) /\ whole' = synced
        /\ names' = names \ {<<pid, suffix>>}
        /\ pc' = "SyncParent"
        /\ permitted' = IF purpose = "stable" THEN <<>> ELSE permitted
        /\ retries' = {}
     \/ pc' = "Remove" /\ UNCHANGED <<path, names, whole, permitted, retries>>
  /\ UNCHANGED <<now, durable, synced, pid, purpose, encoded, suffix, lives>>

Succeed ==
  /\ pc' = "Running"
  /\ permitted' = IF purpose = "attempt" THEN Append(permitted, Last(encoded))
                                         ELSE permitted

\* Mutant: the directory is not synced.
SkipSyncParent ==
  /\ pc = "SyncParent"
  /\ Succeed
  /\ UNCHANGED <<now, disk, pid, purpose, encoded, suffix, lives, retries>>

\* The write reports failure when only the directory sync fails, although the
\* file has been replaced.
SyncParent ==
  /\ pc = "SyncParent"
  /\ \/ durable' = path /\ Succeed
     \/ /\ durable' \in {durable, path}
        /\ pc' = "Remove" /\ UNCHANGED permitted
  /\ UNCHANGED <<now, path, names, synced, whole, pid, purpose, encoded, suffix, lives, retries>>

\* After a failed step: the temporary is removed, best effort.
RemoveTemporary ==
  /\ pc = "Remove"
  /\ names' \in {names, names \ {<<pid, suffix>>}}
  /\ pc' = "Refused"
  /\ UNCHANGED <<now, path, durable, synced, whole, pid, purpose, encoded, suffix, history>>

(***************************************************************************)
(* mark_stable, and everything the guardian does not decide.               *)
(***************************************************************************)
\* Called once: after STABLE_SUPERVISION, or on a clean handoff.
MarkStable ==
  /\ pc = "Running" /\ purpose = "attempt"
  /\ purpose' = "stable" /\ encoded' = <<>> /\ suffix' = 0
  /\ pc' = "Open"
  /\ UNCHANGED <<now, disk, pid, history>>

\* The guardian ends, or is killed in the middle of anything.
GuardianEnds ==
  /\ pc \notin Down
  /\ pc' = "Off"
  /\ UNCHANGED <<now, disk, pid, purpose, encoded, suffix, history>>

\* A power cut keeps what was synced.  A replaced file whose directory was not
\* synced may be the old one or the new one, and the new one is whole only when
\* its data was synced; a temporary name may vanish.
PowerLoss ==
  /\ \E survivor \in {durable, IF whole THEN path ELSE Torn} :
       path' = survivor /\ durable' = survivor
  /\ names' \in SUBSET names
  /\ synced' = TRUE /\ whole' = TRUE
  /\ pc' = "Off"
  /\ retries' = IF path' = path THEN retries ELSE {}
  /\ UNCHANGED <<now, pid, purpose, encoded, suffix, lives, permitted>>

\* Time passes, or the clock is set.
ClockMoves ==
  /\ pc \in Down
  /\ now' \in Timestamp /\ now' # now
  /\ UNCHANGED <<disk, guardian, history>>

Next ==
  \/ GuardianStarts \/ Begin
  \/ OpenTemporary \/ WriteAll \/ SyncAll \/ Rename \/ SyncParent \/ RemoveTemporary
  \/ MarkStable \/ GuardianEnds \/ PowerLoss \/ ClockMoves

Spec == Init /\ [][Next]_vars

(***************************************************************************)
(* Properties.                                                             *)
(***************************************************************************)
TypeOK ==
  /\ now \in Timestamp
  /\ path \in File /\ durable \in File
  /\ names \subseteq Pids \X (0 .. TemporaryAttempts - 1)
  /\ synced \in BOOLEAN /\ whole \in BOOLEAN
  /\ pid \in Pids
  /\ pc \in Down \cup {"Begin", "Running"} \cup Writing
  /\ purpose \in {"attempt", "stable"}
  /\ encoded \in Seq(Timestamp)
  /\ suffix \in 0 .. TemporaryAttempts - 1
  /\ lives \in 0 .. MaxLives
  /\ permitted \in Seq(Timestamp)
  /\ retries \subseteq Timestamp

\* The policy (CrashBudgetPolicy, begin): between two stable marks no window of
\* Window seconds holds more than MaximumUnprovenStarts permitted starts, over
\* every failure, kill, power cut and clock change.
BudgetBound ==
  \A k \in DOMAIN permitted :
    Cardinality({j \in DOMAIN permitted :
                   permitted[j] <= permitted[k] /\ permitted[k] - permitted[j] < Window})
      <= MaximumUnprovenStarts

\* "Atomically records" (PersistentCrashBudget::begin): whatever interrupts a
\* write, the state file and what a power cut would leave of it still parse, so
\* that no interruption makes every later boot refuse.
StateStaysReadable == Parses(path) /\ Parses(durable)

\* A guardian goes on only once its start would survive a power cut, together
\* with every earlier start that still counts against it.
StartIsDurable ==
  (pc = "Running" /\ purpose = "attempt") =>
    /\ durable = path
    /\ Last(path.starts) = Last(permitted)
    /\ \A k \in DOMAIN permitted :
         Last(permitted) - permitted[k] < Window =>
           \E j \in DOMAIN durable.starts : durable.starts[j] = permitted[k]

\* The announced retry second (CrashBudgetDecision::Fallback, "earliest
\* wall-clock second at which another attempt may be made") is kept: as long as
\* the record is the one it was computed from, over any number of starts, kills
\* and power cuts, no start is turned away at or after an announced second.
RetryIsExact ==
  [][(pc = "Begin" /\ pc' = "Fallback") => \A r \in retries : now < r]_vars
=============================================================================
