------------------------------ MODULE DebugVMs ------------------------------
(***************************************************************************)
(* pkg/debug/helper.go: the scripts that are being debugged, one helper    *)
(* after another, and the goroutines that act on them.  A VM <<g, t>> is   *)
(* script t of helper g.  Of its worker (YololVM) only what a debugger     *)
(* notices is left: it takes requests, or is in a handler, or is gone.     *)
(* Which of the VMs has the permission to run a line is left open.         *)
(***************************************************************************)
EXTENDS Integers

CONSTANTS
  Setups,      (* who drives the debugger, what it debugs, what it is asked *)
  MaxScripts,  (* the most scripts a setup has                             *)
  Helpers,     (* how many helpers may be made: 1 + bound on the restarts  *)
  Lines,       (* source lines a user puts breakpoints on                  *)
  Invalid,     (* those among them without a statement                     *)
  Goroutines   (* goroutines that handle requests and commands             *)

ASSUME DebugAssumption ==
  /\ MaxScripts \in Nat \ {0} /\ Helpers \in Nat \ {0}
  /\ Invalid \subseteq Lines
  /\ Goroutines # {} /\ Goroutines \intersect Nat = {}
  /\ \A s \in Setups :
       /\ s.front \in {"dap", "shell"} /\ s.kind \in {"scripts", "test"}
       /\ s.scripts \in 1..MaxScripts

Threads == 1..MaxScripts
VMs     == (1..Helpers) \X Threads

(* Besides the handlers, the goroutine a restart leaves behind for every   *)
(* helper it abandons; it is named by the helper.                          *)
Callers == Goroutines \union 1..Helpers

VARIABLES
  setup,         (* front: "dap" or "shell"; kind: "scripts", or "test",   *)
                 (* whose scripts may end; scripts: how many; requests     *)
  helper, made,  (* the helper in use, 0 for nil; how many were made       *)
  mode,          (* a VM: not made, "runs" (takes requests), "handler",    *)
                 (* "paused", "gone" (stateRequests is closed)             *)
  stepping,      (* StateStepping                                          *)
  event,         (* why the VM is in a handler                             *)
  breakpoints, registered, starts,  (* of a VM; of a helper: c.vms and     *)
                 (* how often Coordinator.Run was called                   *)
  finished,      (* FinishedVMs                                            *)
  job,           (* what each caller is doing                              *)
  died           (* why the process ended                                  *)

vmVars     == <<mode, stepping, event, breakpoints>>
helperVars == <<setup, helper, made, registered, starts, finished>>
debugVars  == <<vmVars, helperVars, job, died>>

Idle == [kind |-> "idle", pc |-> "done", thread |-> 0, helper |-> 0, todo |-> {}]

InitDebug ==
  /\ setup \in Setups
  /\ helper = 0 /\ made = 0
  /\ mode = [v \in VMs |-> "none"]
  /\ stepping = [v \in VMs |-> FALSE]
  /\ event = [v \in VMs |-> "none"]
  /\ breakpoints = [v \in VMs |-> {}]
  /\ registered = [g \in 1..Helpers |-> {}]
  /\ starts = [g \in 1..Helpers |-> 0]
  /\ finished = [g \in 1..Helpers |-> {}]
  /\ job = [c \in Callers |-> Idle]
  /\ died = "no"

Alive == died = "no"
Die(cause) == died' = cause

Goto(c, pc) == job' = [job EXCEPT ![c].pc = pc]

(***************************************************************************)
(* FromScripts, FromTest: every script gets a VM, registered with a new    *)
(* coordinator.  It is resumed at once and waits for its first permission. *)
(* VMs made before a later script turns out not to parse are never seen    *)
(* again.                                                                  *)
(***************************************************************************)
Make ==
  /\ made < Helpers
  /\ made' = made + 1
  /\ LET new == 1..setup.scripts
     IN /\ mode' = [v \in VMs |-> IF v \in {made + 1} \X new THEN "runs" ELSE mode[v]]
        /\ registered' = [registered EXCEPT ![made + 1] = new]
  /\ UNCHANGED <<stepping, event, breakpoints>>

MakeFails ==
  /\ made < Helpers
  /\ UNCHANGED <<made, registered, vmVars>>

ValidBreakpoints == Lines \ Invalid

(* Coordinator.Run of the helper in use.                                   *)
RunCoordinator == starts' = [starts EXCEPT ![helper] = @ + 1]

(***************************************************************************)
(* The workers.  Nothing runs before the coordinator.  A step ends at the  *)
(* next source line, a breakpoint is met on a line that has one, any line  *)
(* may fail, and the scripts of a test end on their own.  FinishedVMs is   *)
(* written through the helper in use, which is nil after a failed restart. *)
(***************************************************************************)
Reasons(v) ==
  {"exception"}
    \union (IF stepping[v] THEN {"step"} ELSE {})
    \union (IF breakpoints[v] # {} THEN {"breakpoint"} ELSE {})
    \union (IF setup.kind = "test" THEN {"finish"} ELSE {})

EnterHandler(v) ==
  /\ Alive /\ mode[v] = "runs" /\ starts[v[1]] > 0
  /\ \E r \in Reasons(v) :
       /\ mode' = [mode EXCEPT ![v] = "handler"]
       /\ event' = [event EXCEPT ![v] = r]
       /\ IF setup.front = "dap" /\ r = "finish" /\ helper # 0
            THEN finished' = [finished EXCEPT ![helper] = @ \union {v[2]}]
            ELSE UNCHANGED finished
       /\ IF setup.front = "dap" /\ helper = 0 THEN Die("nil helper") ELSE UNCHANGED died
  /\ UNCHANGED <<stepping, breakpoints, setup, helper, made, registered, starts, job>>

(* The handlers return false: the worker pauses, and ends after the finish *)
(* handler.                                                                *)
LeaveHandler(v) ==
  /\ mode' = [mode EXCEPT ![v] = IF event[v] = "finish" THEN "gone" ELSE "paused"]
  /\ event' = [event EXCEPT ![v] = "none"]

(* The coordinator notices that a VM has closed its channel.               *)
Unregister(v) ==
  /\ Alive /\ mode[v] = "gone" /\ v[2] \in registered[v[1]] /\ starts[v[1]] > 0
  /\ registered' = [registered EXCEPT ![v[1]] = @ \ {v[2]}]
  /\ UNCHANGED <<vmVars, setup, helper, made, starts, finished, job, died>>

(***************************************************************************)
(* requestState: the caller is blocked until the worker takes the request; *)
(* if the worker has ended the send panics.                                *)
(***************************************************************************)
Takes(v) == mode[v] \in {"runs", "paused"}

Obey(v, what) ==
  /\ mode' = [mode EXCEPT ![v] = CASE what = "terminate" -> "gone"
                                   [] what = "pause"     -> "paused"
                                   [] OTHER              -> "runs"]
  /\ stepping' = [stepping EXCEPT ![v] = what \in {"next", "step"}]
  /\ UNCHANGED <<event, breakpoints>>

JobVM(c) == <<job[c].helper, job[c].thread>>

Deliver(c) ==
  /\ Alive /\ job[c].pc = "send"
  /\ \/ /\ Takes(JobVM(c))
        /\ Obey(JobVM(c), job[c].kind)
        /\ Goto(c, "sent")
        /\ UNCHANGED died
     \/ /\ mode[JobVM(c)] = "gone"
        /\ Die("closed VM")
        /\ UNCHANGED <<vmVars, job>>
  /\ UNCHANGED helperVars

(***************************************************************************)
(* Coordinator.Terminate and WaitForTermination of the helper a caller has *)
(* looked up.  The loop is over the VMs registered when it begins, in      *)
(* their order; how the shifting slice can disturb it is Coordinator's.    *)
(***************************************************************************)
BeginTerminate(c) ==
  /\ Alive /\ job[c].pc = "terminate"
  /\ job' = [job EXCEPT ![c].pc = "terminating", ![c].todo = registered[job[c].helper]]
  /\ UNCHANGED <<vmVars, helperVars, died>>

TerminateOne(c) ==
  /\ Alive /\ job[c].pc = "terminating"
  /\ \E t \in job[c].todo :
       /\ \A later \in job[c].todo : t <= later
       /\ LET v == <<job[c].helper, t>>
          IN \/ /\ Takes(v)
                /\ Obey(v, "terminate")
                /\ job' = [job EXCEPT ![c].todo = @ \ {t}]
                /\ UNCHANGED died
             \/ /\ mode[v] = "gone"
                /\ Die("closed VM")
                /\ UNCHANGED <<vmVars, job>>
  /\ UNCHANGED helperVars

(* What follows: disconnect is going to wait, the goroutine of a restart   *)
(* ends.                                                                   *)
TerminatedAll(c) ==
  /\ Alive /\ job[c].pc = "terminating" /\ job[c].todo = {}
  /\ job' = CASE job[c].kind = "disconnect" -> [job EXCEPT ![c].pc = "await"]
              [] job[c].kind = "abandoned" -> [job EXCEPT ![c] = Idle]
              [] OTHER -> [job EXCEPT ![c].pc = "terminated"]
  /\ UNCHANGED <<vmVars, helperVars, died>>

(* The pc tells whether the helper is the one that was terminated.         *)
WaitForTermination(c) ==
  /\ Alive /\ job[c].pc \in {"wait", "stray"}
  /\ \A t \in job[c].todo : mode[<<job[c].helper, t>>] = "gone"
  /\ job' = [job EXCEPT ![c].pc = "sent", ![c].todo = {}]
  /\ UNCHANGED <<vmVars, helperVars, died>>

CallerStep(c) ==
  Deliver(c) \/ BeginTerminate(c) \/ TerminateOne(c) \/ TerminatedAll(c) \/ WaitForTermination(c)

Busy(c) == job[c].pc # "done"

DebugTypeOK ==
  /\ helper \in 0..made /\ made \in 0..Helpers
  /\ mode \in [VMs -> {"none", "runs", "handler", "paused", "gone"}]
  /\ stepping \in [VMs -> BOOLEAN]
  /\ event \in [VMs -> {"none", "exception", "step", "breakpoint", "finish"}]
  /\ breakpoints \in [VMs -> SUBSET ValidBreakpoints]
  /\ \A g \in 1..Helpers : registered[g] \subseteq Threads /\ finished[g] \subseteq Threads
  /\ \A c \in Callers : job[c].todo \subseteq Threads

(* Coordinator.Run is called once for each helper: a second call would     *)
(* start a second goroutine, and two scripts could run a line at a time.   *)
RunsOnce == \A g \in 1..Helpers : starts[g] <= 1

(* Every request is answered and every command returns to the prompt,      *)
(* unless the process ends.  The exception is a disconnect that waits for  *)
(* the helper a restart put in place of the one it has terminated          *)
(* (OnDisconnectRequest reads h.helper for each of the two calls): nobody  *)
(* terminates those scripts.                                               *)
Stray(c) == job[c].pc = "stray" /\ \E t \in job[c].todo : mode[<<job[c].helper, t>>] # "gone"
RequestsEnd == \A c \in Goroutines : Busy(c) ~> (~Busy(c) \/ ~Alive \/ Stray(c))

(* Only scripts that have finished are marked as finished.                 *)
FinishedIsTrue ==
  helper # 0 => \A t \in finished[helper] :
    \/ mode[<<helper, t>>] = "gone"
    \/ mode[<<helper, t>>] = "handler" /\ event[<<helper, t>>] = "finish"
==============================================================================
