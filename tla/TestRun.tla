------------------------------- MODULE TestRun -------------------------------
(***************************************************************************)
(* pkg/testing/test.go: Test.Run executes the cases of a test one after    *)
(* another, each with a Coordinator and VMs of its own.  A runtime error   *)
(* calls the error handler in the goroutine of the VM; it records the      *)
(* error and starts a goroutine that terminates all scripts.  The          *)
(* variables of Coordinator are those of the case that runs.               *)
(***************************************************************************)
EXTENDS Coordinator, FiniteSetsExt

CONSTANT
  Tests  (* how many cases a test has, and the bound on its runtime errors  *)

ASSUME TestRunAssumption ==
  /\ \A t \in Tests :
       /\ t.cases \in Nat \ {0} /\ t.errors \in Nat
       /\ t.errors <= Cardinality(Terminators)  (* one goroutine for each   *)
  /\ Cardinality(Waiters) = 1                   (* Run itself               *)

VARIABLES
  test,          (* one of Tests, chosen in TestInit                       *)
  caseNr, step,  (* the case, and the point Run has reached in it           *)
  fails,         (* what is recorded: numbers of errors, wrong outputs      *)
  read,          (* fails as an append in progress has read it              *)
  flock,         (* the VMs whose handlers hold the mutex                   *)
  handler,       (* the error each VM's handler is about, 0 for none        *)
  spawned,       (* Terminate goroutines that have not begun                *)
  late,          (* those that still run when the next case begins          *)
  raised, hasty  (* history: errors so far; whether results were compared   *)
                 (* while a script still ran                                *)

runVars  == <<caseNr, step, test>>
failVars == <<fails, read, flock, handler, raised, hasty>>
testVars == <<runVars, failVars, spawned, late>>

(* What fails may hold besides the numbers of the errors.                  *)
WrongOutput == 0
BadScript   == -1

runner == CHOOSE w \in Waiters : TRUE
Appenders == VMs \union Waiters

TestInit ==
  /\ Init
  /\ test \in Tests
  /\ caseNr = 1 /\ step = "create"
  /\ fails = {} /\ read = [a \in Appenders |-> {}]
  /\ flock = {} /\ handler = [v \in VMs |-> 0]
  /\ spawned = {} /\ late = {} /\ raised = 0 /\ hasty = FALSE

(***************************************************************************)
(* Test.Run.                                                               *)
(***************************************************************************)

(* A new coordinator, and VMs that are resumed as they are created.  What  *)
(* earlier cases left of their Terminate goroutines goes on with the old   *)
(* coordinator.                                                            *)
CreateVMs ==
  /\ Alive /\ step = "create"
  /\ phase' = [v \in VMs |-> "out"] /\ paused' = [v \in VMs |-> FALSE]
  /\ doomed' = {}
  /\ array' = [k \in VMs |-> k] /\ length' = N
  /\ cpc' = "idle" /\ i' = 1
  /\ late' = late \union spawned \union {g \in Terminators : call[g] = "ranging"}
  /\ call' = [g \in Callers |->
                IF g \in Waiters THEN "idle" ELSE IF g \in late' THEN "returned" ELSE call[g]]
  /\ idx' = [g \in Callers |-> 1] /\ bound' = [g \in Callers |-> 0]
  /\ target' = [g \in Callers |-> 0]
  /\ served' = {} /\ roundLength' = N
  /\ spawned' = {}
  /\ step' = "run"
  /\ UNCHANGED <<test, caseNr, failVars>>

(* Every case reads and compiles the scripts again.  If one of them cannot *)
(* be loaded Run returns that error alone.                                 *)
CreateFails ==
  /\ Alive /\ step = "create"
  /\ fails' = {BadScript}
  /\ step' = "returned"
  /\ UNCHANGED <<vars, test, caseNr, read, flock, handler, raised, hasty, spawned, late>>

RunCase ==
  /\ step = "run" /\ Run
  /\ step' = "wait"
  /\ UNCHANGED <<test, caseNr, failVars, spawned, late>>

WaitForCase ==
  /\ step = "wait" /\ Call(runner)
  /\ step' = "waiting"
  /\ UNCHANGED <<test, caseNr, failVars, spawned, late>>

(* CheckResults compares the global variables; append, without the mutex,  *)
(* reads the slice before it writes it.                                    *)
CheckResults ==
  /\ Alive /\ step = "waiting" /\ call[runner] = "returned"
  /\ \E wrong \in {{}, {WrongOutput}} : read' = [read EXCEPT ![runner] = fails \union wrong]
  /\ hasty' = (hasty \/ ~AllGone)
  /\ step' = "append"
  /\ UNCHANGED <<vars, test, caseNr, fails, flock, handler, raised, spawned, late>>

AppendResults ==
  /\ Alive /\ step = "append"
  /\ fails' = read[runner] /\ read' = [read EXCEPT ![runner] = {}]
  /\ IF caseNr < test.cases THEN caseNr' = caseNr + 1 /\ step' = "create"
                       ELSE step' = "returned" /\ UNCHANGED caseNr
  /\ UNCHANGED <<vars, test, flock, handler, raised, hasty, spawned, late>>

(***************************************************************************)
(* A line that fails is reported to the coordinator like any other, then   *)
(* the error handler is called.  Until it returns the VM does nothing      *)
(* else; with true it goes on with the next line.                          *)
(***************************************************************************)
LineEnds ==
  /\ Await
  /\ \/ UNCHANGED <<handler, raised>>
     \/ /\ phase'[Current] = "out" /\ raised < test.errors
        /\ raised' = raised + 1
        /\ handler' = [handler EXCEPT ![Current] = raised']
  /\ UNCHANGED <<runVars, fails, read, flock, hasty, spawned, late>>

(* flock.Lock(), and append reads the slice.                               *)
LockFails_Never(v) ==
  /\ Alive /\ handler[v] # 0 /\ v \notin flock
  /\ flock' = flock \union {v}
  /\ read' = [read EXCEPT ![v] = fails]
  /\ UNCHANGED <<vars, runVars, fails, handler, raised, hasty, spawned, late>>
LockFails(v) ==
  /\ Alive /\ handler[v] # 0 /\ flock = {}
  /\ flock' = {v}
  /\ read' = [read EXCEPT ![v] = fails]
  /\ UNCHANGED <<vars, runVars, fails, handler, raised, hasty, spawned, late>>

(* append writes it, go coord.Terminate(), and the deferred Unlock.        *)
RecordError_GoesOn(v) ==
  /\ Alive /\ v \in flock
  /\ fails' = read[v] \union {handler[v]} /\ read' = [read EXCEPT ![v] = {}]
  /\ flock' = flock \ {v}
  /\ handler' = [handler EXCEPT ![v] = 0]
  /\ UNCHANGED <<vars, runVars, raised, hasty, spawned, late>>
RecordError(v) ==
  /\ Alive /\ v \in flock
  /\ fails' = read[v] \union {handler[v]} /\ read' = [read EXCEPT ![v] = {}]
  /\ spawned' = spawned \union {CHOOSE g \in Terminators : call[g] = "idle" /\ g \notin spawned}
  /\ flock' = flock \ {v}
  /\ handler' = [handler EXCEPT ![v] = 0]
  /\ UNCHANGED <<vars, runVars, raised, hasty, late>>

BeginTerminate(g) ==
  /\ g \in spawned /\ Call(g)
  /\ spawned' = spawned \ {g}
  /\ UNCHANGED <<runVars, failVars, late>>

(* The VMs of an earlier case have ended: if the coordinator has removed   *)
(* all of them the loop is empty, otherwise the send panics.               *)
LateTerminate(g) ==
  /\ Alive /\ g \in late
  /\ late' = late \ {g}
  /\ \E outcome \in {"returned", "panicked"} : call' = [call EXCEPT ![g] = outcome]
  /\ UNCHANGED <<vmVars, coordVars, idx, bound, target, history, runVars, failVars, spawned>>

(***************************************************************************)
(* What Coordinator does, except that a VM in its error handler waits.     *)
(***************************************************************************)
Free(v) == v # 0 => handler[v] = 0

CoordinateCase == (Offer \/ OfferToClosed \/ NextRound) /\ UNCHANGED testVars
VMGoesOn(v)    == Free(v) /\ VMStep(v) /\ UNCHANGED testVars
Ranges(g)      == (NextElement(g) \/ Return(g)) /\ UNCHANGED testVars
IsTaken(g)     == Free(target[g]) /\ TakeTerminate(g) /\ UNCHANGED testVars
Panics(g)      == SendOnClosed(g) /\ UNCHANGED testVars
Sees           == SeeTermination(runner) /\ UNCHANGED testVars

RunStep == CreateVMs \/ CreateFails \/ RunCase \/ WaitForCase \/ CheckResults \/ AppendResults

TestNext ==
  \/ RunStep \/ CoordinateCase \/ LineEnds \/ Sees
  \/ \E v \in VMs : LockFails(v) \/ RecordError(v) \/ VMGoesOn(v)
  \/ \E g \in Callers : Ranges(g)
  \/ \E g \in Terminators : BeginTerminate(g) \/ IsTaken(g) \/ Panics(g) \/ LateTerminate(g)

allVars == <<vars, testVars>>

TestSpec == TestInit /\ [][TestNext]_allVars

(* As in Coordinator; a program may loop for ever.                         *)
TestFairSpec ==
  /\ TestSpec
  /\ WF_allVars(RunStep) /\ WF_allVars(CoordinateCase \/ LineEnds) /\ WF_allVars(Sees)
  /\ \A v \in VMs :
       /\ WF_allVars(VMGoesOn(v)) /\ WF_allVars(RecordError(v)) /\ SF_allVars(LockFails(v))
  /\ \A g \in Callers : WF_allVars(Ranges(g))
  /\ \A g \in Terminators :
       /\ WF_allVars(BeginTerminate(g)) /\ WF_allVars(Panics(g)) /\ WF_allVars(LateTerminate(g))
       /\ SF_allVars(IsTaken(g))

(***************************************************************************)
(* Properties.                                                             *)
(***************************************************************************)

(* No error is lost: however the handlers of two scripts and Run overlap,  *)
(* when Run returns every runtime error is among the failures, and the     *)
(* results were compared when no script ran any more.  There is one way to *)
(* lose errors: if the scripts cannot be loaded for a later case, Run      *)
(* returns this and nothing of what the earlier cases recorded.            *)
NoErrorLost ==
  step = "returned" => (fails = {BadScript} \/ 1..raised \subseteq fails) /\ ~hasty

MostCases == Max({t.cases : t \in Tests})

(* A runtime error ends the case, even if the scripts loop for ever.       *)
TestEnds ==
  \A k \in 1..MostCases :
    (caseNr = k /\ \E v \in VMs : handler[v] # 0) ~>
      (caseNr > k \/ step = "returned" \/ ~Alive)
==============================================================================
