----------------------------- MODULE StockLease -----------------------------
(***************************************************************************)
(* What the foreground transaction promises, with the order of its calls   *)
(* and the shape of its records left out.                                  *)
(*                                                                         *)
(* A lease displaces resources of the stock UI (the suspend inhibitor, the *)
(* Pillow layer, its running processes).  It owes every resource it may    *)
(* have displaced, gives each one back once, and reports the ones it could *)
(* not give back; nothing else is left displaced when it ends.             *)
(***************************************************************************)
CONSTANTS
  Resource,   \* what a lease can displace
  Revocable   \* resources a holder may displace and give back while it holds

VARIABLES
  phase,      \* "outside", "taking", "held" or "returning"
  displaced,  \* resources that differ from what the lease found
  owed,       \* resources the lease has recorded it must give back
  reported    \* resources it failed to give back

abstract == <<phase, displaced, owed, reported>>

Init ==
  /\ phase = "outside"
  /\ displaced = {} /\ owed = {} /\ reported = {}

Begin ==
  /\ phase = "outside" /\ phase' = "taking"
  /\ displaced' = {} /\ owed' = {} /\ reported' = {}

\* A resource is owed before, or at the latest when, it is displaced.
Claim(r) ==
  /\ phase = "taking" /\ phase' \in {"taking", "returning"}
  /\ owed' = owed \cup {r}
  /\ displaced' \in {displaced, displaced \cup {r}}
  /\ UNCHANGED reported

Displace(r) ==
  /\ phase = "taking" /\ r \in owed
  /\ displaced' = displaced \cup {r}
  /\ UNCHANGED <<phase, owed, reported>>

Hold ==
  /\ phase = "taking" /\ phase' = "held"
  /\ UNCHANGED <<displaced, owed, reported>>

\* A holder takes a revocable resource again, or gives it up; when it cannot,
\* it still owes the resource.
Take(r) ==
  /\ phase = "held" /\ phase' \in {"held", "returning"}
  /\ owed' = owed \cup {r}
  /\ displaced' \in {displaced, displaced \cup {r}}
  /\ UNCHANGED reported

Forgo(r) ==
  /\ phase = "held" /\ r \in owed
  /\ \/ phase' = "held" /\ owed' = owed \ {r} /\ displaced' = displaced \ {r}
     \/ /\ phase' = "returning" /\ owed' = owed
        /\ displaced' \in {displaced, displaced \ {r}}
  /\ UNCHANGED reported

Return ==
  /\ phase \in {"taking", "held"} /\ phase' = "returning"
  /\ UNCHANGED <<displaced, owed, reported>>

\* Each resource is given back once, whatever happened to the others; the last
\* one may end the lease.
GiveBack(r) ==
  /\ phase = "returning" /\ r \in owed
  /\ owed' = owed \ {r}
  /\ \/ displaced' = displaced \ {r} /\ UNCHANGED reported
     \/ /\ displaced' \in {displaced, displaced \ {r}}
        /\ reported' = reported \cup {r}
  /\ phase' = "returning" \/ (phase' = "outside" /\ owed' = {})

\* The lease ends when it owes nothing more.
End ==
  /\ phase = "returning" /\ owed = {}
  /\ phase' = "outside"
  /\ UNCHANGED <<displaced, owed, reported>>

\* A stopped process exits: there is nothing left to give back of it.
Vanish(r) ==
  /\ displaced' = displaced \ {r}
  /\ UNCHANGED <<phase, owed, reported>>

\* The acquisition is refused before it displaced anything, or the owner is
\* killed and everything it owed is forgotten.
Abandon ==
  /\ phase' = "outside"
  /\ displaced' = {} /\ owed' = {} /\ reported' = {}

Next ==
  \/ Begin \/ Hold \/ Return \/ End \/ Abandon
  \/ \E r \in Resource :
       Claim(r) \/ Displace(r) \/ GiveBack(r) \/ Vanish(r)
  \/ \E r \in Resource \cap Revocable : Take(r) \/ Forgo(r)

Spec == Init /\ [][Next]_abstract

(***************************************************************************)
(* What the lease promises.                                                *)
(***************************************************************************)
LeaseTypeOK ==
  /\ phase \in {"outside", "taking", "held", "returning"}
  /\ displaced \subseteq Resource
  /\ owed \subseteq Resource
  /\ reported \subseteq Resource

\* Nothing is displaced that is neither owed nor reported.
NothingForgotten == displaced \subseteq owed \cup reported

\* A lease that has ended without a report has displaced nothing.
NothingLeftBehind == phase = "outside" /\ reported = {} => displaced = {}
=============================================================================
