------------------------------ MODULE Guardian ------------------------------
(***************************************************************************)
(* The main loop of ferrink-shell-guardian-kindle: one life of the process *)
(* that records its start, takes the foreground lease, runs the shell,     *)
(* carries out the one command the shell leaves when it exits cleanly, and *)
(* gives the lease back.                                                   *)
(*                                                                         *)
(* acquire_*_foreground, restore and set_suspend_inhibited are single      *)
(* steps here (Foreground takes them apart), and so are the reads and      *)
(* writes of the crash budget (CrashBudget takes those apart).  The shell, *)
(* the application, and the senders of HUP, INT and TERM are other         *)
(* processes and move on their own.                                        *)
(***************************************************************************)
EXTENDS Naturals

CONSTANTS
  Indices,          \* indices a launch command may carry
  Apps,             \* those of registered applications
  PreventsSuspend,  \* those that require prevent_suspend
  NoApp,            \* no application
  MaxShells         \* bound: shells spawned in one behaviour

ASSUME GuardianAssumption ==
  /\ PreventsSuspend \subseteq Apps /\ Apps \subseteq Indices
  /\ NoApp \notin Indices
  /\ MaxShells \in Nat

VARIABLES
  startup,    \* StartupMode of the command line
  mediated,   \* applications whose manifest says stock-mediated
  pc,         \* guardian: the next call of run_on_target
  lease,      \* guardian: TRUE while it owns the foreground lease
  inhibited,  \* device: the lease keeps the automatic suspend off
  deferring,  \* guardian: the signal guard is installed
  pending,    \* guardian: DEFERRED_SIGNAL is set
  budget,     \* guardian: it holds an attempt not yet marked stable
  record,     \* disk: the attempt in the crash-budget file
  after,      \* guardian: where a successful restoration leads
  shell,      \* the shell process
  command,    \* the command in the shell's socket
  app,        \* the application process: its index, or NoApp
  result,     \* guardian: how it ended
  restored,   \* history: whether the last restoration reported success
  proven,     \* history: the stable-supervision time has been reached
  signalled,  \* history: a signal has arrived since the guard was installed
  shells      \* bound: shells spawned so far

arguments == <<startup, mediated>>
process  == <<pc, after, result>>
owned    == <<lease, inhibited>>
signals  == <<deferring, pending, signalled>>
crash    == <<budget, record, proven>>
children == <<shell, command, app>>
vars     == <<arguments, process, owned, signals, crash, children, restored, shells>>

\* The commands a clean shell leaves: one action, or nothing usable.  The index of a
\* launch is held against MAX_APPLICATIONS here, and against the catalog at Dispatch.
SystemAction == [kind : {"Reboot", "PowerOff"}, index : {NoApp}]
Request ==
  [kind : {"ReturnToStock"}, index : {NoApp}] \cup SystemAction
    \cup [kind : {"LaunchApplication"}, index : Indices]
NoRequest == [kind |-> "Unusable", index |-> NoApp]

Selected == command.index
Ended    == {"Exited", "Killed", "Rebooting"}

Init ==
  /\ startup \in {"StockRunning", "StockStarting"}
  /\ mediated \in SUBSET Apps
  /\ pc = "Begin" /\ after = "Finish" /\ result = "none"
  /\ lease = FALSE /\ inhibited = FALSE
  /\ deferring = FALSE /\ pending = FALSE /\ signalled = FALSE
  /\ budget = FALSE /\ record = "none" /\ proven = FALSE
  /\ shell = "none" /\ command = NoRequest /\ app = NoApp
  /\ restored = TRUE /\ shells = 0

(***************************************************************************)
(* Leaving run_on_target.  The children are dropped, which kills them, and *)
(* the signal guard restores the handlers; a lease that is still owned is  *)
(* dropped too, and dropping a lease does nothing.                         *)
(***************************************************************************)
ExitWith(outcome) ==
  /\ pc' = "Exited" /\ result' = outcome
  /\ shell' = "none" /\ app' = NoApp
  /\ deferring' = FALSE /\ pending' = FALSE
  /\ UNCHANGED <<after, command, signalled>>

\* The shell is gone, or is terminated (SIGTERM, a deadline, SIGKILL), and the
\* guardian turns to `step`.
WithoutShell(step) ==
  /\ shell' = "none" /\ pc' = step
  /\ UNCHANGED <<result, command, app, signals>>

RestoreTo(step) == WithoutShell("Restore") /\ after' = step

(***************************************************************************)
(* Before the lease.                                                       *)
(***************************************************************************)
\* The crash budget comes first; it is optional, may be exhausted and may fail.
\* A failed begin may have recorded the attempt all the same.
Begin ==
  /\ pc = "Begin"
  /\ \/ /\ pc' = "Preflight"
        /\ \/ budget' = TRUE /\ record' = "unproven"
           \/ UNCHANGED <<budget, record>>
        /\ UNCHANGED <<after, result, children, signals>>
     \/ /\ record' \in {"none", "unproven"} /\ UNCHANGED budget
        /\ ExitWith("err")
  /\ UNCHANGED <<arguments, owned, proven, restored, shells>>

\* Profile, report, manifests, icons: any may refuse.  A guardian that starts
\* before stock refuses stock-mediated applications.
Preflight ==
  /\ pc = "Preflight"
  /\ \/ /\ startup = "StockStarting" => mediated = {}
        /\ pc' = "Install"
        /\ UNCHANGED <<after, result, children, signals>>
     \/ ExitWith("err")
  /\ UNCHANGED <<arguments, owned, crash, restored, shells>>

InstallSignalGuard ==
  /\ pc = "Install"
  /\ \/ /\ deferring' = TRUE /\ pending' = FALSE /\ pc' = "Acquire"
        /\ UNCHANGED <<after, result, children, signalled>>
     \/ ExitWith("err")
  /\ UNCHANGED <<arguments, owned, crash, restored, shells>>

\* A failed acquisition has rolled back, perhaps not completely.
Acquire ==
  /\ pc = "Acquire"
  /\ \/ /\ lease' = TRUE /\ inhibited' = TRUE /\ pc' = "Choose" /\ UNCHANGED restored
     \/ /\ pc' = "Finish" /\ restored' \in BOOLEAN /\ UNCHANGED owned
  /\ UNCHANGED <<arguments, after, result, signals, crash, children, shells>>

(***************************************************************************)
(* The shell.                                                              *)
(***************************************************************************)
\* A pending signal, and a failing spawn, end the lease.
Choose ==
  /\ pc = "Choose"
  /\ \/ /\ ~pending /\ shells < MaxShells
        /\ shells' = shells + 1
        /\ shell' = "starting" /\ command' = NoRequest /\ pc' = "AwaitReadiness"
        /\ UNCHANGED <<after, result, app, signals>>
     \/ RestoreTo("Finish") /\ UNCHANGED shells
  /\ UNCHANGED <<arguments, owned, crash, restored>>

\* A wrong byte, an early exit, a signal or the readiness deadline ends it.
AwaitReadiness ==
  /\ pc = "AwaitReadiness"
  /\ \/ /\ shell \notin {"starting", "stillborn"}
        /\ pc' = "AllowSuspend"
        /\ UNCHANGED <<after, result, children, signals>>
     \/ RestoreTo("Finish")
  /\ UNCHANGED <<arguments, owned, crash, restored, shells>>

\* set_suspend_inhibited(false), once the shell is ready.
AllowSuspend ==
  /\ pc = "AllowSuspend"
  /\ \/ /\ inhibited' = FALSE /\ pc' = "Supervise"
        /\ UNCHANGED <<after, result, children, signals>>
     \/ inhibited' \in BOOLEAN /\ RestoreTo("Finish")
  /\ UNCHANGED <<arguments, lease, crash, restored, shells>>

\* mark_stable_if_due, once the guardian is old enough or when forced.
MarkStable(next, failing) ==
  \/ ~budget /\ UNCHANGED <<budget, record>> /\ next
  \/ budget /\ budget' = FALSE /\ record' = "cleared" /\ next
  \/ budget /\ UNCHANGED budget /\ record' \in {record, "cleared"} /\ failing

SuperviseMarksStable ==
  /\ pc = "Supervise" /\ budget
  /\ proven' = TRUE
  /\ MarkStable(UNCHANGED <<process, children, signals>>, RestoreTo("Finish"))
  /\ UNCHANGED <<arguments, owned, restored, shells>>

\* Only a clean exit is followed by reading the command.
SupervisedShellEnds ==
  /\ pc = "Supervise"
  /\ \/ /\ shell = "clean" /\ command # NoRequest
        /\ WithoutShell("Dispatch") /\ UNCHANGED after
     \/ /\ shell = "failed" \/ (shell = "clean" /\ command = NoRequest)
        /\ RestoreTo("Finish")
  /\ UNCHANGED <<arguments, owned, crash, restored, shells>>

\* A failing poll terminates the shell.
SupervisePollFails ==
  /\ pc = "Supervise"
  /\ RestoreTo("Finish")
  /\ UNCHANGED <<arguments, owned, crash, restored, shells>>

\* Mutant: a shell that is still running is not looked at for a signal.
SuperviseIgnoringSignal ==
  /\ pc = "Supervise" /\ pending /\ shell # "ready"
  /\ RestoreTo("Finish")
  /\ UNCHANGED <<arguments, owned, crash, restored, shells>>

\* A pending signal does too.
SuperviseSignalled ==
  /\ pc = "Supervise" /\ pending
  /\ RestoreTo("Finish")
  /\ UNCHANGED <<arguments, owned, crash, restored, shells>>

(***************************************************************************)
(* The command.  A signal that is pending by now wins over it.             *)
(***************************************************************************)
Dispatch ==
  /\ pc = "Dispatch"
  /\ \/ pending /\ pc' = "Restore" /\ after' = "Finish"
     \/ /\ ~pending
        /\ \/ command.kind = "ReturnToStock" /\ pc' = "Restore" /\ after' = "MarkReturned"
           \/ /\ command.kind = "LaunchApplication" /\ Selected \in Apps
              /\ pc' = "HandOff" /\ UNCHANGED after
           \/ command \in SystemAction /\ pc' = "MarkAction" /\ UNCHANGED after
  /\ UNCHANGED <<arguments, result, owned, signals, crash, children, restored, shells>>

\* An index outside the catalog: the error is returned without restoring the lease.
RefuseLaunch ==
  /\ pc = "Dispatch" /\ ~pending
  /\ command.kind = "LaunchApplication" /\ Selected \notin Apps
  /\ ExitWith("err")
  /\ UNCHANGED <<arguments, owned, crash, restored, shells>>

\* Mutant: a restoration that reports a failed stage counts as one that worked.
RestoreIgnoringFailure ==
  /\ pc = "Restore"
  /\ lease' = FALSE /\ inhibited' = FALSE
  /\ restored' \in BOOLEAN /\ pc' = after
  /\ UNCHANGED <<arguments, after, result, children, signals, crash, shells>>

\* Every restoration ends the lease; one that reports a failed stage ends the
\* guardian.
Restore ==
  /\ pc = "Restore"
  /\ lease' = FALSE /\ inhibited' = FALSE
  /\ \/ /\ restored' = TRUE /\ pc' = after
        /\ UNCHANGED <<after, result, children, signals>>
     \/ restored' = FALSE /\ ExitWith("err")
  /\ UNCHANGED <<arguments, crash, shells>>

\* Mutant: a start that could not be marked stable does not matter any more.
MarkReturnedBestEffort ==
  /\ pc = "MarkReturned"
  /\ MarkStable(pc' = "FinishReturned" /\ UNCHANGED <<after, result, children, signals>>,
                pc' = "FinishReturned" /\ UNCHANGED <<after, result, children, signals>>)
  /\ UNCHANGED <<arguments, owned, proven, restored, shells>>

\* ReturnToStock, continued: mark_stable, forced.
MarkReturned ==
  /\ pc = "MarkReturned"
  /\ MarkStable(pc' = "FinishReturned" /\ UNCHANGED <<after, result, children, signals>>,
                ExitWith("err"))
  /\ UNCHANGED <<arguments, owned, proven, restored, shells>>

\* Mutant: a deferred signal is forgotten.
FinishReturnedOk ==
  /\ pc = "FinishReturned"
  /\ ExitWith("ok")
  /\ UNCHANGED <<arguments, owned, crash, restored, shells>>

FinishReturned ==
  /\ pc = "FinishReturned"
  /\ \/ ~pending /\ ExitWith("ok")
     \/ ExitWith("err")
  /\ UNCHANGED <<arguments, owned, crash, restored, shells>>

\* The end of every other path that has restored stock: an error.
Finish ==
  /\ pc = "Finish"
  /\ ExitWith("err")
  /\ UNCHANGED <<arguments, owned, crash, restored, shells>>

(***************************************************************************)
(* LaunchApplication.                                                      *)
(***************************************************************************)
\* Mutant: every application runs under the lease.
HandOffUnderLease ==
  /\ pc = "HandOff"
  /\ inhibited' = (Selected \in PreventsSuspend)
  /\ pc' = "SpawnApplication"
  /\ UNCHANGED <<arguments, after, result, lease, signals, crash, children, restored, shells>>

\* A stock-mediated application gets a restored stock; any other runs inside
\* the lease, under the suspend policy its manifest asks for.
HandOff ==
  /\ pc = "HandOff"
  /\ \/ /\ Selected \in mediated
        /\ pc' = "Restore" /\ after' = "SpawnApplication" /\ UNCHANGED inhibited
     \/ /\ Selected \notin mediated
        /\ \/ /\ inhibited' = (Selected \in PreventsSuspend)
              /\ pc' = "SpawnApplication" /\ UNCHANGED after
           \/ inhibited' \in BOOLEAN /\ pc' = "Restore" /\ after' = "Exit"
  /\ UNCHANGED <<arguments, result, lease, signals, crash, children, restored, shells>>

\* A failing spawn returns to Ferrink like an application that has ended.
SpawnApplication ==
  /\ pc = "SpawnApplication"
  /\ \/ app' = Selected /\ pc' = "SuperviseApplication"
     \/ pc' = "AfterApplication" /\ UNCHANGED app
  /\ UNCHANGED <<arguments, after, result, owned, signals, crash, shell, command, restored, shells>>

\* Where an interrupted application leads: a lease still owned is given back.
Interrupted ==
  IF lease THEN pc' = "Restore" /\ after' = "Finish" ELSE pc' = "Finish" /\ UNCHANGED after

ApplicationMarksStable ==
  /\ pc = "SuperviseApplication" /\ budget
  /\ proven' = TRUE
  /\ MarkStable(UNCHANGED <<pc, after, app>>, Interrupted /\ app' = NoApp)
  /\ UNCHANGED <<arguments, result, owned, signals, shell, command, restored, shells>>

\* A failing poll terminates the application, and so does a pending signal.
ApplicationPollFails ==
  /\ pc = "SuperviseApplication"
  /\ app' = NoApp
  /\ Interrupted
  /\ UNCHANGED <<arguments, result, owned, signals, crash, shell, command, restored, shells>>

ApplicationSignalled ==
  /\ pc = "SuperviseApplication" /\ pending
  /\ app' = NoApp
  /\ Interrupted
  /\ UNCHANGED <<arguments, result, owned, signals, crash, shell, command, restored, shells>>

ApplicationEnded ==
  /\ pc = "SuperviseApplication" /\ app = NoApp
  /\ pc' = "AfterApplication"
  /\ UNCHANGED <<arguments, after, result, owned, signals, crash, children, restored, shells>>

\* Mutant: the next shell starts under the suspend policy of the application.
AfterApplicationAsIs ==
  /\ pc = "AfterApplication"
  /\ \/ pending /\ Interrupted
     \/ /\ ~pending /\ UNCHANGED after
        /\ pc' = IF Selected \in mediated THEN "Acquire" ELSE "Choose"
  /\ UNCHANGED <<arguments, result, owned, signals, crash, children, restored, shells>>

\* Mutant: a suspend policy that cannot be put back ends the guardian at once.
AfterApplicationUnrestored ==
  /\ pc = "AfterApplication"
  /\ \/ pending /\ Interrupted /\ UNCHANGED inhibited
     \/ /\ ~pending
        /\ \/ /\ Selected \in mediated
              /\ pc' = "Acquire" /\ UNCHANGED <<inhibited, after>>
           \/ /\ Selected \notin mediated
              /\ \/ inhibited' = TRUE /\ pc' = "Choose" /\ UNCHANGED after
                 \/ inhibited' \in BOOLEAN /\ pc' = "Exit" /\ UNCHANGED after
  /\ UNCHANGED <<arguments, result, lease, signals, crash, children, restored, shells>>

\* Back to Ferrink: a new lease after a stock-mediated application, the same one
\* with suspend inhibited again after any other.
AfterApplication ==
  /\ pc = "AfterApplication"
  /\ \/ pending /\ Interrupted /\ UNCHANGED inhibited
     \/ /\ ~pending
        /\ \/ /\ Selected \in mediated
              /\ pc' = "Acquire" /\ UNCHANGED <<inhibited, after>>
           \/ /\ Selected \notin mediated
              /\ \/ inhibited' = TRUE /\ pc' = "Choose" /\ UNCHANGED after
                 \/ inhibited' \in BOOLEAN /\ pc' = "Restore" /\ after' = "Exit"
  /\ UNCHANGED <<arguments, result, lease, signals, crash, children, restored, shells>>

\* An error that is returned without finishing the signal guard.
Exit ==
  /\ pc = "Exit"
  /\ ExitWith("err")
  /\ UNCHANGED <<arguments, owned, crash, restored, shells>>

(***************************************************************************)
(* Reboot and PowerOff.  The lease is kept until exec has failed, but the  *)
(* two calls before it return their errors without restoring it.           *)
(***************************************************************************)
MarkAction ==
  /\ pc = "MarkAction"
  /\ MarkStable(pc' = "FinishAction" /\ UNCHANGED <<after, result, children, signals>>,
                ExitWith("err"))
  /\ UNCHANGED <<arguments, owned, proven, restored, shells>>

FinishAction ==
  /\ pc = "FinishAction"
  /\ \/ ExitWith("err")
     \/ /\ deferring' = FALSE /\ pending' = FALSE
        /\ IF pending THEN pc' = "Restore" /\ after' = "Exit"
                      ELSE pc' = "Exec" /\ UNCHANGED after
        /\ UNCHANGED <<result, children, signalled>>
  /\ UNCHANGED <<arguments, owned, crash, restored, shells>>

Exec ==
  /\ pc = "Exec"
  /\ \/ pc' = "Rebooting" /\ UNCHANGED after
     \/ pc' = "Restore" /\ after' = "Exit"
  /\ UNCHANGED <<arguments, result, owned, signals, crash, children, restored, shells>>

(***************************************************************************)
(* The other processes.                                                    *)
(***************************************************************************)
\* Choose has started it; from there it is an abstract shell, which Shell refines.
Child == INSTANCE ShellProcess WITH Requests <- Request

ShellBecomesReady ==
  /\ Child!BecomesReady
  /\ UNCHANGED <<arguments, process, owned, signals, crash, app, restored, shells>>

ShellExits ==
  /\ Child!Exits
  /\ UNCHANGED <<arguments, process, owned, signals, crash, app, restored, shells>>

ApplicationExits ==
  /\ app # NoApp
  /\ app' = NoApp
  /\ UNCHANGED <<arguments, process, owned, signals, crash, shell, command, restored, shells>>

\* HUP, INT or TERM while the guard defers them.
SignalArrives ==
  /\ pc \notin Ended /\ deferring
  /\ pending' = TRUE /\ signalled' = TRUE
  /\ UNCHANGED <<arguments, process, owned, deferring, crash, children, restored, shells>>

\* KILL at any time, or HUP, INT or TERM while nothing defers them.
GuardianKilled ==
  /\ pc \notin Ended
  /\ pc' = "Killed"
  /\ UNCHANGED <<arguments, after, result, owned, signals, crash, children, restored, shells>>

\* What the guardian does when nothing fails it: each step is bounded by a
\* command deadline, the readiness deadline, a termination deadline or one turn
\* of a polling loop.
Guardian ==
  \/ Begin \/ Preflight \/ InstallSignalGuard \/ Acquire
  \/ Choose \/ AwaitReadiness \/ AllowSuspend
  \/ SupervisedShellEnds \/ SuperviseSignalled
  \/ Dispatch \/ RefuseLaunch \/ Restore \/ MarkReturned \/ FinishReturned \/ Finish
  \/ HandOff \/ SpawnApplication
  \/ ApplicationSignalled \/ ApplicationEnded \/ AfterApplication \/ Exit
  \/ MarkAction \/ FinishAction \/ Exec

\* What a turn of a polling loop may also do.
Supervision ==
  \/ SuperviseMarksStable \/ SupervisePollFails
  \/ ApplicationMarksStable \/ ApplicationPollFails

Environment ==
  \/ ShellBecomesReady \/ ShellExits \/ ApplicationExits
  \/ SignalArrives \/ GuardianKilled

Next == Guardian \/ Supervision \/ Environment

Spec == Init /\ [][Next]_vars /\ WF_vars(Guardian)

(***************************************************************************)
(* Properties.                                                             *)
(***************************************************************************)
TypeOK ==
  /\ startup \in {"StockRunning", "StockStarting"} /\ mediated \subseteq Apps
  /\ pc \in Ended \cup
       {"Begin", "Preflight", "Install", "Acquire", "Choose", "AwaitReadiness",
        "AllowSuspend", "Supervise", "Dispatch", "Restore", "MarkReturned",
        "FinishReturned", "Finish", "HandOff", "SpawnApplication",
        "SuperviseApplication", "AfterApplication", "Exit", "MarkAction",
        "FinishAction", "Exec"}
  /\ after \in {"Finish", "MarkReturned", "SpawnApplication", "Exit"}
  /\ result \in {"none", "ok", "err"}
  /\ lease \in BOOLEAN /\ inhibited \in BOOLEAN
  /\ deferring \in BOOLEAN /\ pending \in BOOLEAN /\ signalled \in BOOLEAN
  /\ budget \in BOOLEAN /\ record \in {"none", "unproven", "cleared"}
  /\ shell \in {"none", "starting", "stillborn", "ready", "clean", "failed"}
  /\ command \in Request \cup {NoRequest}
  /\ app \in Apps \cup {NoApp}
  /\ restored \in BOOLEAN /\ proven \in BOOLEAN
  /\ shells \in 0 .. MaxShells

\* Whoever draws owns the screen it draws on: the shell only runs under the
\* lease, never beside an application, and an application runs under the lease
\* exactly when its handoff is the supervisor's (run_on_target's two loops).
OneForeground ==
  pc # "Killed" =>
    /\ shell # "none" => lease /\ app = NoApp
    /\ app # NoApp => (lease <=> app \notin mediated)

\* Automatic suspend follows whoever is in front: off while a shell starts, on
\* while it runs, and off under the lease exactly for the applications that ask
\* for it, whatever ran before.
SuspendFollowsForeground ==
  /\ pc = "AwaitReadiness" => inhibited
  /\ pc = "Supervise" => ~inhibited
  /\ (app # NoApp /\ lease) => (inhibited <=> app \in PreventsSuspend)

\* A deferred signal is never lost: once one has arrived the guardian neither
\* reports success nor reboots the device.
SignalVetoes ==
  signalled => result # "ok" /\ pc \notin {"Exec", "Rebooting"}

\* Success means that stock is back without a reported failure and that this
\* start no longer counts against the crash budget.
SuccessMeansStock ==
  result = "ok" => ~lease /\ restored /\ record # "unproven"

\* The start stops counting against the crash budget only when the guardian has
\* run for the stable-supervision time, has restored stock on request, or was
\* asked for a system action.
ClearedWhenProven ==
  record = "cleared" =>
    \/ proven
    \/ command.kind = "ReturnToStock" /\ restored /\ ~lease
    \/ command \in SystemAction

\* A deferred signal ends the guardian, wherever it arrives.
SignalEndsGuardian == pending ~> pc \in Ended

\* "Failures and deferred HUP/INT/TERM restore stock" (print_help).
FailuresRestoreStock == result = "err" => ~lease

\* How far it goes wrong: over any sequence of shells and applications and any failing
\* calls, an error leaves stock stopped only on two ways out, a system action that was
\* not carried out and a launch of an application that is not registered.
KeptOnTwoWaysOut ==
  result = "err" /\ lease =>
    \/ command \in SystemAction
    \/ command.kind = "LaunchApplication" /\ Selected \notin Apps

\* What a guardian reports at its end is true of stock: success that it is back and its
\* start no longer counts, an error that it is back or on which way it was lost.
EndAccountsForStock == SuccessMeansStock /\ KeptOnTwoWaysOut
=============================================================================
