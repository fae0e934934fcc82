------------------------------ MODULE Debugger ------------------------------
(***************************************************************************)
(* The VMs that are debugged together with the front end that drives them, *)
(* the adapter an editor talks to or the shell.                            *)
(***************************************************************************)
EXTENDS DebugAdapter, DebugShell

vars == <<debugVars, sessionVars, shellVars>>

Init == InitDebug /\ InitAdapter /\ InitShell

Next ==
  \/ AdapterStep /\ UNCHANGED shellVars
  \/ ShellStep /\ UNCHANGED sessionVars
  \/ \E v \in VMs : (EnterHandler(v) \/ Unregister(v)) /\ UNCHANGED <<sessionVars, shellVars>>
  \/ \E c \in Callers : CallerStep(c) /\ UNCHANGED <<sessionVars, shellVars>>

Spec == Init /\ [][Next]_vars

(* Goroutines that can go on do, and a worker does not stay in a handler.  *)
(* A request is taken by a VM after those that were sent to it before.     *)
(* Nothing is assumed of the user.                                         *)
GoesOn(c) ==
  \/ (Handler(c) \/ CloseQueue) /\ UNCHANGED shellVars
  \/ (Return \/ Load) /\ UNCHANGED sessionVars
  \/ (BeginTerminate(c) \/ TerminatedAll(c) \/ WaitForTermination(c))
       /\ UNCHANGED <<sessionVars, shellVars>>
IsTaken(c) == (Deliver(c) \/ TerminateOne(c)) /\ UNCHANGED <<sessionVars, shellVars>>
HandlerEnds(v) ==
  \/ HandlerSends(v) /\ UNCHANGED shellVars
  \/ HandlerPrints(v) /\ UNCHANGED sessionVars

FairSpec ==
  /\ Spec
  /\ \A c \in Callers : WF_vars(GoesOn(c)) /\ SF_vars(IsTaken(c))
  /\ \A v \in VMs : WF_vars(HandlerEnds(v))

TypeOK == DebugTypeOK /\ AdapterTypeOK /\ ShellTypeOK
==============================================================================
