---------------------------- MODULE ShellProcess ----------------------------
(***************************************************************************)
(* What the guardian may count on from the shell it has started: a process *)
(* that writes its readiness byte before anything else, and leaves at most *)
(* one command, on a clean exit.  Guardian runs such processes; Shell is   *)
(* shown to be one.                                                        *)
(***************************************************************************)
CONSTANTS
  Requests,   \* the commands a shell may leave
  NoRequest   \* nothing, or nothing the guardian can use

VARIABLES
  shell,    \* starting, ready, or how it ended: stillborn, failed, clean
  command   \* what the command socket holds

Init == shell = "starting" /\ command = NoRequest

\* The readiness byte stays in the socket of a shell that exits after it.
BecomesReady == shell = "starting" /\ shell' = "ready" /\ UNCHANGED command

Exits ==
  \/ shell = "starting" /\ shell' = "stillborn" /\ UNCHANGED command
  \/ shell = "ready" /\ shell' = "failed" /\ UNCHANGED command
  \/ shell = "ready" /\ shell' = "clean" /\ command' \in Requests \cup {NoRequest}

Next == BecomesReady \/ Exits

Spec == Init /\ [][Next]_<<shell, command>>
=============================================================================
