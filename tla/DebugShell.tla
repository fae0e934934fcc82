----------------------------- MODULE DebugShell -----------------------------
(***************************************************************************)
(* cmd/debug.go: the debugger on the command line.  One goroutine reads    *)
(* commands and executes them one after another; the scripts run beside    *)
(* it.  job[shell] is the command being executed.                          *)
(***************************************************************************)
EXTENDS DebugVMs

VARIABLES
  running,   (* whether Coordinator.Run has been called for this helper    *)
  current    (* CurrentScript, the script that commands are about          *)

shellVars == <<running, current>>

InitShell == running = FALSE /\ current = 1

shell   == CHOOSE c \in Goroutines : TRUE
Command == job[shell]
VM      == <<helper, current>>

(* The shell waits for a command, and reads one the setup names.           *)
Prompt(k) ==
  /\ Alive /\ setup.front = "shell" /\ Command.pc = "done"
  /\ k \in setup.requests

Calls(k, pc) ==
  job' = [job EXCEPT ![shell] = [Idle EXCEPT !.kind = k, !.pc = pc, !.thread = current,
                                             !.helper = helper]]

(* load: an error of a script ends the program.  reset leaves the old VMs  *)
(* to their Terminate; the new helper begins with the first script.        *)
Load ==
  /\ Alive /\ setup.front = "shell"
  /\ \/ helper = 0 /\ Command.pc = "done"
     \/ Command.kind = "reset" /\ Command.pc = "terminated"
  /\ running' = FALSE
  /\ \/ Make /\ helper' = made' /\ UNCHANGED died
     \/ MakeFails /\ Die("exit") /\ UNCHANGED helper
  /\ current' = 1
  /\ job' = [job EXCEPT ![shell] = Idle]
  /\ UNCHANGED <<setup, starts, finished>>

Reset ==
  /\ Prompt("reset") /\ helper # 0 /\ made < Helpers
  /\ Calls("reset", "terminate")
  /\ UNCHANGED <<vmVars, helperVars, died, shellVars>>

Choose ==
  /\ Prompt("choose") /\ helper # 0
  /\ current' \in 1..setup.scripts
  /\ UNCHANGED <<debugVars, running>>

Pause ==
  /\ Prompt("pause") /\ helper # 0
  /\ Calls("pause", "send")
  /\ UNCHANGED <<vmVars, helperVars, died, shellVars>>

(* The first continue or step starts the coordinator.                      *)
StartRunning_Always ==
  running' = TRUE /\ RunCoordinator
StartRunning ==
  /\ running' = TRUE
  /\ IF running THEN UNCHANGED starts ELSE RunCoordinator

ContinueFirst ==
  /\ Prompt("continue") /\ helper # 0 /\ ~running
  /\ StartRunning
  /\ UNCHANGED <<vmVars, setup, helper, made, registered, finished, job, died, current>>

(* Later ones resume the script if its state is paused: State() takes the  *)
(* lock, which the worker releases in handlers too, and Resume comes after *)
(* it.                                                                     *)
Continue ==
  /\ Prompt("continue") /\ helper # 0 /\ running
  /\ mode[VM] = "paused"
  /\ Calls("continue", "send")
  /\ UNCHANGED <<vmVars, helperVars, died, shellVars>>

Step ==
  /\ Prompt("step") /\ helper # 0
  /\ StartRunning
  /\ Calls("step", "send")
  /\ UNCHANGED <<vmVars, setup, helper, made, registered, finished, died, current>>

(* break and delete; a line without a statement is refused.                *)
Break ==
  /\ Prompt("break") /\ helper # 0
  /\ \E l \in Lines :
       breakpoints' = [breakpoints EXCEPT ![VM] = IF l \in @ THEN @ \ {l}
                                                  ELSE IF l \in ValidBreakpoints THEN @ \union {l}
                                                  ELSE @]
  /\ UNCHANGED <<mode, stepping, event, helperVars, job, died, shellVars>>

(* The command returns when the VM has taken the request.                  *)
Return ==
  /\ Alive /\ setup.front = "shell" /\ Command.pc = "sent"
  /\ job' = [job EXCEPT ![shell] = Idle]
  /\ UNCHANGED <<vmVars, helperVars, died, shellVars>>

(* prepareVM's handlers only print.                                        *)
HandlerPrints(v) ==
  /\ Alive /\ setup.front = "shell" /\ mode[v] = "handler"
  /\ LeaveHandler(v)
  /\ UNCHANGED <<stepping, breakpoints, helperVars, job, died, shellVars>>

ShellStep ==
  \/ Load \/ Reset \/ Choose \/ Pause \/ ContinueFirst \/ Continue \/ Step \/ Break \/ Return
  \/ \E v \in VMs : HandlerPrints(v)

ShellTypeOK == running \in BOOLEAN /\ current \in 1..setup.scripts
==============================================================================
