----------------------------- MODULE Coordinator -----------------------------
(***************************************************************************)
(* pkg/vm/coordinator.go: the goroutine that hands out permissions to run  *)
(* a line, the VMs registered with it, and the goroutines that call        *)
(* Terminate and WaitForTermination.  A VM is what VMLifecycle says of it. *)
(*                                                                         *)
(* c.vms is a slice: remove() shifts the rest of its backing array down in *)
(* place, while "range c.vms" in another goroutine goes on reading the     *)
(* same array up to the length the slice had when the loop began.          *)
(***************************************************************************)
EXTENDS Integers, FiniteSets

CONSTANTS
  N,            (* how many VMs are registered before Run                   *)
  Terminators,  (* goroutines that call Terminate                           *)
  Waiters,      (* goroutines that call WaitForTermination                  *)
  Pausable,     (* VMs that a debugger pauses                              *)
  MayEnd        (* whether a program ends or fails without being told to    *)

ASSUME CoordinatorAssumption ==
  /\ N \in Nat \ {0}
  /\ Terminators \intersect Waiters = {}
  /\ Pausable \subseteq 1..N
  /\ MayEnd \in BOOLEAN

VMs     == 1..N
Callers == Terminators \union Waiters

VARIABLES
  phase, paused,   (* VMLifecycle, for every VM                            *)
  doomed,          (* VMs that took a Terminate while they had a line      *)
  array, length,   (* c.vms; the channel slices are kept in the same order *)
  cpc, i,          (* the coordinator goroutine and its loop index         *)
  call,            (* what each caller is doing                            *)
  idx, bound,      (* its position in the range loop and the loop's end    *)
  target,          (* the VM it is blocked on, 0 if none                   *)
  served,          (* history: VMs that got a line in this round           *)
  roundLength      (* history: the length when the round began             *)

vmVars     == <<phase, paused, doomed>>
coordVars  == <<array, length, cpc, i>>
callerVars == <<call, idx, bound, target>>
history    == <<served, roundLength>>
vars       == <<vmVars, coordVars, callerVars, history>>

Init ==
  /\ phase = [v \in VMs |-> "out"]
  /\ paused = [v \in VMs |-> TRUE]
  /\ doomed = {}
  /\ array = [k \in VMs |-> k]
  /\ length = N
  /\ cpc = "idle" /\ i = 1
  /\ call = [g \in Callers |-> "idle"]
  /\ idx = [g \in Callers |-> 1]
  /\ bound = [g \in Callers |-> 0]
  /\ target = [g \in Callers |-> 0]
  /\ served = {} /\ roundLength = N

(* A send on the closed stateRequests panics, and the process with it.     *)
Alive == \A g \in Callers : call[g] # "panicked"

(***************************************************************************)
(* The coordinator goroutine.                                              *)
(***************************************************************************)
Run ==
  /\ Alive /\ cpc = "idle"
  /\ cpc' = "offer"
  /\ UNCHANGED <<vmVars, array, length, i, callerVars, history>>

Current == array[i]

(* remove(idx)                                                             *)
Remove_ClearsTail(k) ==
  /\ array' = [j \in VMs |-> IF j = length THEN 0
                            ELSE IF k <= j /\ j < length THEN array[j + 1] ELSE array[j]]
  /\ length' = length - 1
Remove_TakesNext(k) ==
  /\ array' = [j \in VMs |-> IF k < j /\ j < length THEN array[j + 1] ELSE array[j]]
  /\ length' = length - 1
Remove(k) ==
  /\ array' = [j \in VMs |-> IF k <= j /\ j < length THEN array[j + 1] ELSE array[j]]
  /\ length' = length - 1

(* runch <- struct{}{}                                                     *)
Offer_NoAwait ==
  /\ Alive /\ cpc = "offer" /\ i <= length
  /\ phase[Current] = "wait" /\ ~paused[Current]
  /\ phase' = [phase EXCEPT ![Current] = "in"]
  /\ i' = i + 1
  /\ served' = served \union {Current}
  /\ UNCHANGED <<paused, doomed, array, length, cpc, callerVars, roundLength>>
Offer_ToPaused ==
  /\ Alive /\ cpc = "offer" /\ i <= length
  /\ phase[Current] = "wait"
  /\ phase' = [phase EXCEPT ![Current] = "in"]
  /\ cpc' = "await"
  /\ served' = served \union {Current}
  /\ UNCHANGED <<paused, doomed, array, length, i, callerVars, roundLength>>
Offer ==
  /\ Alive /\ cpc = "offer" /\ i <= length
  /\ phase[Current] = "wait" /\ ~paused[Current]
  /\ phase' = [phase EXCEPT ![Current] = "in"]
  /\ cpc' = "await"
  /\ served' = served \union {Current}
  /\ UNCHANGED <<paused, doomed, array, length, i, callerVars, roundLength>>

(* case <-donech: the VM is gone.  continue goes on with the next index,   *)
(* although remove has moved the next VM to this one.                      *)
OfferToClosed_NoRemove ==
  /\ Alive /\ cpc = "offer" /\ i <= length
  /\ phase[Current] = "gone"
  /\ i' = i + 1
  /\ UNCHANGED <<vmVars, array, length, cpc, callerVars, history>>
OfferToClosed ==
  /\ Alive /\ cpc = "offer" /\ i <= length
  /\ phase[Current] = "gone"
  /\ Remove(i)
  /\ i' = i + 1
  /\ UNCHANGED <<vmVars, cpc, callerVars, history>>

(* _, open := <-donech                                                     *)
Await ==
  /\ Alive /\ cpc = "await"
  /\ phase[Current] \in {"in", "gone"} /\ ~paused[Current]
  /\ IF phase[Current] = "in"
     THEN /\ phase' = [phase EXCEPT ![Current] =
                         IF Current \in doomed THEN "leaving" ELSE "out"]
          /\ UNCHANGED <<array, length>>
     ELSE UNCHANGED phase /\ Remove(i)
  /\ i' = i + 1
  /\ cpc' = "offer"
  /\ UNCHANGED <<paused, doomed, callerVars, history>>

NextRound_NoReset ==
  /\ Alive /\ cpc = "offer" /\ i > length /\ length = 0
  /\ cpc' = "returned"
  /\ UNCHANGED <<vmVars, array, length, i, callerVars, history>>
NextRound_FromSecond ==
  /\ Alive /\ cpc = "offer" /\ i > length
  /\ IF length = 0 THEN cpc' = "returned" /\ UNCHANGED i
                   ELSE i' = 2 /\ UNCHANGED cpc
  /\ served' = {} /\ roundLength' = length
  /\ UNCHANGED <<vmVars, array, length, callerVars>>
NextRound ==
  /\ Alive /\ cpc = "offer" /\ i > length
  /\ IF length = 0 THEN cpc' = "returned" /\ UNCHANGED i
                   ELSE i' = 1 /\ UNCHANGED cpc
  /\ served' = {} /\ roundLength' = length
  /\ UNCHANGED <<vmVars, array, length, callerVars>>

(***************************************************************************)
(* A registered VM on its own.                                             *)
(***************************************************************************)
Arrive(v) ==
  /\ Alive /\ phase[v] = "out" /\ ~paused[v]
  /\ phase' = [phase EXCEPT ![v] = "wait"]
  /\ UNCHANGED <<paused, doomed, coordVars, callerVars, history>>

(* The program is over or failed: nothing stops between two lines else.    *)
Finish(v) ==
  /\ Alive /\ MayEnd /\ phase[v] = "out" /\ ~paused[v]
  /\ phase' = [phase EXCEPT ![v] = "leaving"]
  /\ UNCHANGED <<paused, doomed, coordVars, callerVars, history>>

Close(v) ==
  /\ Alive /\ phase[v] = "leaving"
  /\ phase' = [phase EXCEPT ![v] = "gone"]
  /\ UNCHANGED <<paused, doomed, coordVars, callerVars, history>>

Pause(v) ==
  /\ Alive /\ v \in Pausable
  /\ phase[v] \in {"out", "wait", "in"} /\ ~paused[v] /\ v \notin doomed
  /\ paused' = [paused EXCEPT ![v] = TRUE]
  /\ UNCHANGED <<phase, doomed, coordVars, callerVars, history>>

Resume(v) ==
  /\ Alive /\ paused[v]
  /\ paused' = [paused EXCEPT ![v] = FALSE]
  /\ UNCHANGED <<phase, doomed, coordVars, callerVars, history>>

(***************************************************************************)
(* Terminate and WaitForTermination: "for _, v := range c.vms".            *)
(***************************************************************************)
Call(g) ==
  /\ Alive /\ call[g] = "idle"
  /\ call' = [call EXCEPT ![g] = "ranging"]
  /\ bound' = [bound EXCEPT ![g] = length]
  /\ UNCHANGED <<vmVars, coordVars, idx, target, history>>

Ranging(g) == Alive /\ call[g] = "ranging"

(* range evaluates the length of the slice once.                           *)
LoopEnd_Live(g) == length
LoopEnd(g) == bound[g]

NextElement(g) ==
  /\ Ranging(g) /\ target[g] = 0 /\ idx[g] <= LoopEnd(g)
  /\ target' = [target EXCEPT ![g] = array[idx[g]]]
  /\ idx' = [idx EXCEPT ![g] = @ + 1]
  /\ UNCHANGED <<vmVars, coordVars, call, bound, history>>

Return(g) ==
  /\ Ranging(g) /\ target[g] = 0 /\ idx[g] > LoopEnd(g)
  /\ call' = [call EXCEPT ![g] = "returned"]
  /\ UNCHANGED <<vmVars, coordVars, idx, bound, target, history>>

(* The VM takes the request: between two lines it leaves, in a line the    *)
(* deferred report comes first.                                            *)
TakeTerminate_NoReport(g) ==
  /\ Ranging(g) /\ target[g] # 0
  /\ phase[target[g]] \in {"out", "wait", "in"}
  /\ phase' = [phase EXCEPT ![target[g]] = "leaving"]
  /\ paused' = [paused EXCEPT ![target[g]] = FALSE]
  /\ target' = [target EXCEPT ![g] = 0]
  /\ UNCHANGED <<doomed, coordVars, call, idx, bound, history>>
TakeTerminate(g) ==
  /\ Ranging(g) /\ target[g] # 0
  /\ LET v == target[g] IN
     /\ phase[v] \in {"out", "wait", "in"} /\ v \notin doomed
     /\ IF phase[v] = "in"
        THEN doomed' = doomed \union {v} /\ UNCHANGED phase
        ELSE phase' = [phase EXCEPT ![v] = "leaving"] /\ UNCHANGED doomed
     /\ paused' = [paused EXCEPT ![v] = FALSE]
  /\ target' = [target EXCEPT ![g] = 0]
  /\ UNCHANGED <<coordVars, call, idx, bound, history>>

(* The channel is closed, before the send or while it blocks.              *)
SendOnClosed(g) ==
  /\ Ranging(g) /\ target[g] # 0
  /\ phase[target[g]] = "gone"
  /\ call' = [call EXCEPT ![g] = "panicked"]
  /\ UNCHANGED <<vmVars, coordVars, idx, bound, target, history>>

(* <-v.terminationChannel                                                  *)
SeeTermination(g) ==
  /\ Ranging(g) /\ target[g] # 0
  /\ phase[target[g]] = "gone"
  /\ target' = [target EXCEPT ![g] = 0]
  /\ UNCHANGED <<vmVars, coordVars, call, idx, bound, history>>

Coordinate == Offer \/ OfferToClosed \/ Await \/ NextRound

VMStep(v) == Arrive(v) \/ Finish(v) \/ Close(v)

TerminatorStep(g) == TakeTerminate(g) \/ SendOnClosed(g)

Next ==
  \/ Run \/ Coordinate
  \/ \E v \in VMs : VMStep(v) \/ Pause(v) \/ Resume(v)
  \/ \E g \in Callers : Call(g) \/ NextElement(g) \/ Return(g)
  \/ \E g \in Terminators : TerminatorStep(g)
  \/ \E g \in Waiters : SeeTermination(g)

Spec == Init /\ [][Next]_vars

(* The goroutines are scheduled and a program does not stop between two    *)
(* lines.  A waiting VM chooses at random between the permission and a     *)
(* Terminate, so that a Terminate offered again and again is taken.        *)
(* Nothing obliges a debugger to call Run, Pause or Resume.                *)
FairSpec ==
  /\ Spec
  /\ WF_vars(Coordinate)
  /\ \A v \in VMs : WF_vars(VMStep(v))
  /\ \A g \in Callers : WF_vars(NextElement(g) \/ Return(g))
  /\ \A g \in Terminators : SF_vars(TakeTerminate(g)) /\ WF_vars(SendOnClosed(g))
  /\ \A g \in Waiters : WF_vars(SeeTermination(g))

(***************************************************************************)
(* Properties.                                                             *)
(***************************************************************************)
TypeOK ==
  /\ phase \in [VMs -> {"out", "wait", "in", "leaving", "gone"}]
  /\ paused \in [VMs -> BOOLEAN]
  /\ doomed \subseteq VMs
  /\ array \in [VMs -> VMs]
  /\ length \in 0..N
  /\ cpc \in {"idle", "offer", "await", "returned"}
  /\ i \in 1..(N + 1)
  /\ call \in [Callers -> {"idle", "ranging", "returned", "panicked"}]
  /\ idx \in [Callers -> 1..(N + 1)]
  /\ bound \in [Callers -> 0..N]
  /\ target \in [Callers -> 0..N]
  /\ served \subseteq VMs /\ roundLength \in 0..N

(* The scripts run line by line: no two VMs execute a line at the same     *)
(* time, so a line reads and writes the global variables undisturbed.      *)
OneLineAtATime ==
  \A u, v \in VMs : phase[u] = "in" /\ phase[v] = "in" => u = v

(* The coordinator waits for the VM that has the permission, and that VM   *)
(* does not close its channel before it has reported.                      *)
AwaitsTheRunner ==
  /\ cpc = "await" => i <= length /\ phase[Current] = "in"
  /\ \A v \in VMs : phase[v] = "in" => cpc = "await" /\ v = Current

(* remove() takes out the VM that is gone and no other: whoever still runs *)
(* is registered, and nobody twice.                                        *)
NobodyLost ==
  /\ \A j, k \in 1..length : array[j] = array[k] => j = k
  /\ \A v \in VMs : phase[v] # "gone" => \E k \in 1..length : array[k] = v

(* Every VM keeps to the protocol the coordinator is written against.      *)
Contract(v) == INSTANCE VMLifecycle WITH phase <- phase[v], paused <- paused[v]
VMContract ==
  /\ \A v \in VMs : Contract(v)!Init
  /\ [][\A v \in VMs : [Contract(v)!Next]_<<phase[v], paused[v]>>]_vmVars

(* When Terminate returns, every VM has been told to stop, even though the *)
(* array it ranges over is shifted while it does so.                       *)
TerminateReachesAll ==
  \A g \in Terminators : call[g] = "returned" =>
    \A v \in VMs : phase[v] \in {"leaving", "gone"} \/ v \in doomed

(* Once every VM is gone the coordinator goroutine ends, and every         *)
(* WaitForTermination that is under way returns.                           *)
AllGone == \A v \in VMs : phase[v] = "gone"
CoordinatorEnds ==
  /\ (AllGone /\ cpc # "idle") ~> (cpc = "returned" \/ ~Alive)
  /\ \A g \in Waiters : (AllGone /\ call[g] = "ranging") ~> (call[g] = "returned" \/ ~Alive)

(* Every VM that waits gets its line, unless the VM the coordinator has    *)
(* come to is paused.                                                      *)
Held == cpc # "idle" /\ i <= length /\ paused[Current]
TurnComes ==
  \A v \in VMs : (phase[v] = "wait" /\ cpc # "idle") ~> (phase[v] # "wait" \/ Held \/ ~Alive)

(* A round of the coordinator gives a line to every registered VM, but for *)
(* every VM removed on the way the one behind it misses its turn.          *)
Registered == {array[k] : k \in 1..length}
EveryoneServed ==
  (cpc = "offer" /\ i > length) =>
    Cardinality(Registered \ served) <= roundLength - length

(* Terminating VMs, some of which have ended on their own, is harmless.    *)
NobodyPanics == Alive
==============================================================================
