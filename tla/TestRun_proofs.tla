---------------------------- MODULE TestRun_proofs ----------------------------
(***************************************************************************)
(* Theorems about TestRun for every set of tests.                          *)
(***************************************************************************)
EXTENDS TestRun, Coordinator_proofs

RunTypeOK ==
  /\ handler \in [VMs -> Nat] /\ raised \in Nat
  /\ read \in [Appenders -> SUBSET Int] /\ fails \subseteq Int
  /\ flock \subseteq VMs /\ hasty \in BOOLEAN
  /\ step \in {"create", "run", "wait", "waiting", "append", "returned"}
  /\ caseNr \in Nat \ {0}

(***************************************************************************)
(* NoErrorLost is not inductive: what append writes is what it has read.   *)
(* The slice a handler has read is still the slice when it writes it       *)
(* (flock), and Run appends without the mutex when no handler is left,     *)
(* because every VM is gone by then.  That is so unless the results were   *)
(* compared hastily.  The error of a script that cannot be loaded takes    *)
(* the place of all that was recorded.                                     *)
(***************************************************************************)
Handled(v) == handler[v] # 0
Quiet == AllGone \/ cpc = "idle"
ErrorsKept ==
  /\ \A v \in VMs : Handled(v) => phase[v] = "out" /\ step \in {"run", "wait", "waiting"}
  /\ step \in {"create", "append", "returned"} => Quiet
  /\ \A u, v \in flock : u = v
  /\ \A v \in flock : Handled(v) /\ read[v] = fails
  /\ step # "append" => \/ \A e \in 1..raised : e \in fails \/ \E v \in VMs : handler[v] = e
                        \/ step = "returned" /\ fails = {BadScript}
  /\ step = "append" => 1..raised \subseteq read[runner]

(* Run is in no set of VMs that call Terminate, and there is a Run.        *)
LEMMA RunnerWaits == runner \in Waiters /\ runner \in Callers /\ runner \notin Terminators
<1>1. Waiters # {}
  BY TestRunAssumption, FS_EmptySet
<1> QED
  BY <1>1, CoordinatorAssumption DEF runner, Callers

(* Coordinator's part of a step is a step of Coordinator, but for a new    *)
(* case and a Terminate that comes too late.                               *)
LEMMA CaseSteps ==
  ASSUME TestNext
  PROVE  [Next]_vars \/ CreateVMs \/ \E g \in Terminators : LateTerminate(g)
<1> USE RunnerWaits
<1>1. CASE RunStep
  BY <1>1 DEF RunStep, CreateFails, RunCase, WaitForCase, CheckResults, AppendResults, Next
<1>2. CASE CoordinateCase \/ LineEnds \/ Sees
  BY <1>2 DEF CoordinateCase, LineEnds, Sees, Next, Coordinate
<1>3. CASE \E v \in VMs : LockFails(v) \/ RecordError(v) \/ VMGoesOn(v)
  BY <1>3 DEF LockFails, RecordError, VMGoesOn, Next
<1>4. CASE \E g \in Callers : Ranges(g)
  BY <1>4 DEF Ranges, Next
<1>5. CASE \E g \in Terminators : BeginTerminate(g) \/ IsTaken(g) \/ Panics(g)
  BY <1>5 DEF BeginTerminate, IsTaken, Panics, Next, TerminatorStep, Callers
<1> QED
  BY <1>1, <1>2, <1>3, <1>4, <1>5 DEF TestNext

(* The invariant of Coordinator holds in every case of a test.             *)
LEMMA EachCaseInv == TestSpec => []Inv
<1>1. TestInit => Inv
  BY InitInv DEF TestInit
<1>2. Inv /\ [TestNext]_allVars => Inv'
  <2> SUFFICES ASSUME Inv, [TestNext]_allVars PROVE Inv'
    OBVIOUS
  <2> USE VMsAreNumbers
  <2>1. CASE [Next]_vars
    BY <2>1, StepInv
  <2>2. CASE CreateVMs
    <3>1. /\ phase' = [v \in VMs |-> "out"] /\ paused' = [v \in VMs |-> FALSE] /\ doomed' = {}
          /\ array' = [k \in VMs |-> k] /\ length' = N /\ cpc' = "idle" /\ i' = 1
          /\ served' = {} /\ roundLength' = N
      BY <2>2 DEF CreateVMs
    <3>2. /\ idx' \in [Callers -> 1..(N + 1)] /\ bound' \in [Callers -> 0..N]
          /\ target' \in [Callers -> 0..N]
      BY <2>2 DEF CreateVMs
    <3>3. call' \in [Callers -> {"idle", "ranging", "returned", "panicked"}]
      BY <2>2 DEF CreateVMs, Inv, TypeOK
    <3>4. TypeOK'
      BY <3>1, <3>2, <3>3 DEF TypeOK
    <3>5. AwaitsTheRunner' /\ NobodyLost'
      BY <3>1 DEF AwaitsTheRunner, NobodyLost
    <3> QED
      BY <3>4, <3>5 DEF Inv
  <2>3. ASSUME NEW g \in Terminators, LateTerminate(g) PROVE Inv'
    <3>1. UNCHANGED <<phase, paused, doomed, array, length, cpc, i, idx, bound, target, served, roundLength>>
      BY <2>3 DEF LateTerminate, vmVars, coordVars, history
    <3>2. call' \in [Callers -> {"idle", "ranging", "returned", "panicked"}]
      BY <2>3 DEF LateTerminate, Inv, TypeOK
    <3>3. TypeOK'
      BY <3>1, <3>2 DEF Inv, TypeOK
    <3>4. AwaitsTheRunner' /\ NobodyLost'
      BY <3>1 DEF Inv, AwaitsTheRunner, NobodyLost, Current
    <3> QED
      BY <3>3, <3>4 DEF Inv
  <2>4. CASE UNCHANGED allVars
    BY <2>4, <2>1 DEF allVars
  <2> QED
    BY <2>1, <2>2, <2>3, <2>4, CaseSteps
<1> QED
  BY <1>1, <1>2, PTL DEF TestSpec
(* Within a case a VM that is gone stays gone, and the coordinator, once   *)
(* it runs, does not become idle again.                                    *)
LEMMA QuietStays ==
  ASSUME Inv, [Next]_vars \/ \E g \in Terminators : LateTerminate(g)
  PROVE  /\ \A v \in VMs : phase[v] = "gone" => phase'[v] = "gone"
         /\ ~Run => (Quiet => Quiet')
<1> USE VMsAreNumbers DEF vmVars, coordVars, callerVars, history
<1>1. TypeOK
  BY DEF Inv
<1>2. CASE UNCHANGED <<phase, cpc>>
  BY <1>2 DEF Quiet, AllGone
<1>3. CASE Offer \/ Await
  <2>1. Current \in VMs /\ phase[Current] # "gone" /\ cpc # "idle"
    BY <1>1, <1>3 DEF Offer, Await, Current, TypeOK, Inv, AwaitsTheRunner
  <2>2. \E to \in {"in", "leaving", "out"} : phase' = [phase EXCEPT ![Current] = to]
    BY <1>3, <2>1 DEF Offer, Await
  <2> QED
    BY <1>1, <2>1, <2>2 DEF Quiet, AllGone, TypeOK
<1>4. ASSUME NEW v \in VMs, phase[v] # "gone", NEW to, phase' = [phase EXCEPT ![v] = to], cpc' = cpc
      PROVE  /\ \A u \in VMs : phase[u] = "gone" => phase'[u] = "gone"
             /\ Quiet => Quiet'
  BY <1>1, <1>4 DEF Quiet, AllGone, TypeOK
<1>5. ASSUME NEW v \in VMs, VMStep(v)
      PROVE  /\ \A u \in VMs : phase[u] = "gone" => phase'[u] = "gone"
             /\ Quiet => Quiet'
  BY <1>4, <1>5 DEF VMStep, Arrive, Finish, Close
<1>6. ASSUME NEW g \in Terminators, TakeTerminate(g)
      PROVE  /\ \A u \in VMs : phase[u] = "gone" => phase'[u] = "gone"
             /\ Quiet => Quiet'
  <2>1. target[g] \in VMs /\ cpc' = cpc
    BY <1>1, <1>6 DEF TakeTerminate, TypeOK, Callers
  <2>2. CASE phase' = phase
    BY <2>1, <2>2 DEF Quiet, AllGone
  <2>3. CASE phase' # phase
    BY <1>4, <1>6, <2>1, <2>3 DEF TakeTerminate
  <2> QED
    BY <2>2, <2>3
<1>7. CASE NextRound
  BY <1>7 DEF NextRound, Quiet, AllGone
<1>8. CASE Run
  BY <1>8 DEF Run
<1> QED
  BY <1>2, <1>3, <1>5, <1>6, <1>7, <1>8
     DEF Next, Coordinate, OfferToClosed, Pause, Resume, Call, NextElement, Return, TerminatorStep,
         SendOnClosed, SeeTermination, LateTerminate, vars

(* Each step keeps the types.                                              *)
LEMMA StepRunType == Inv /\ RunTypeOK /\ [TestNext]_allVars => RunTypeOK'
<1> SUFFICES ASSUME Inv, RunTypeOK, [TestNext]_allVars PROVE RunTypeOK'
  OBVIOUS
<1> USE RunnerWaits DEF runVars, failVars, testVars
<1>1. runner \in Appenders /\ VMs \subseteq Appenders
  BY DEF Appenders
<1>2. CASE UNCHANGED <<failVars, caseNr>> /\ step' \in {step, "run", "wait", "waiting"}
  BY <1>2 DEF RunTypeOK
<1>3. CASE CreateFails
  BY <1>3 DEF CreateFails, RunTypeOK, BadScript
<1>4. CASE CheckResults
  <2>1. PICK wrong \in {{}, {WrongOutput}} : read' = [read EXCEPT ![runner] = fails \union wrong]
    BY <1>4 DEF CheckResults
  <2>2. fails \union wrong \in SUBSET Int
    <3>1. wrong \subseteq Int
      BY DEF WrongOutput
    <3> QED
      BY <3>1 DEF RunTypeOK
  <2>3. read' \in [Appenders -> SUBSET Int]
    BY <2>1, <2>2 DEF RunTypeOK
  <2> QED
    BY <1>4, <2>3 DEF CheckResults, RunTypeOK
<1>5. CASE AppendResults
  BY <1>1, <1>5 DEF AppendResults, RunTypeOK
<1>6. CASE LineEnds
  <2>1. raised + 1 \in Nat
    BY DEF RunTypeOK
  <2> QED
    BY <1>6, <2>1 DEF LineEnds, RunTypeOK
<1>7. ASSUME NEW v \in VMs, LockFails(v) PROVE RunTypeOK'
  BY <1>7 DEF LockFails, RunTypeOK
<1>8. ASSUME NEW v \in VMs, RecordError(v) PROVE RunTypeOK'
  <2>1. read[v] \in SUBSET Int /\ handler[v] \in Int
    BY <1>1 DEF RunTypeOK
  <2> QED
    BY <1>8, <2>1 DEF RecordError, RunTypeOK
<1> QED
  BY <1>2, <1>3, <1>4, <1>5, <1>6, <1>7, <1>8
     DEF TestNext, RunStep, CreateVMs, RunCase, WaitForCase, CoordinateCase, Sees, VMGoesOn, Ranges,
         BeginTerminate, IsTaken, Panics, LateTerminate, allVars

(* Unless the results are compared hastily each step keeps the errors.     *)
LEMMA StepKeeps == Inv /\ RunTypeOK /\ ErrorsKept /\ [TestNext]_allVars => hasty' \/ ErrorsKept'
<1> SUFFICES ASSUME Inv, RunTypeOK, ErrorsKept, [TestNext]_allVars PROVE hasty' \/ ErrorsKept'
  OBVIOUS
<1> USE RunnerWaits DEF runVars, failVars, testVars
<1>1. TypeOK /\ runner \in Appenders /\ VMs \subseteq Appenders /\ RunTypeOK
  BY DEF Inv, Appenders
<1>2. Quiet => \A v \in VMs : phase[v] = "gone" \/ cpc = "idle"
  BY DEF Quiet, AllGone
<1>3. ASSUME UNCHANGED <<failVars, step, caseNr>>, Quiet => Quiet',
             \A v \in VMs : Handled(v) => phase'[v] = phase[v]
      PROVE  ErrorsKept'
  BY <1>3 DEF ErrorsKept, Handled
<1>4. ASSUME [Next]_vars \/ \E g \in Terminators : LateTerminate(g), ~Run PROVE Quiet => Quiet'
  BY <1>4, QuietStays
<1>5. CASE CreateVMs
  <2>1. step = "create" /\ step' = "run" /\ UNCHANGED failVars
    BY <1>5 DEF CreateVMs
  <2>2. \A v \in VMs : ~Handled(v)
    BY <2>1 DEF ErrorsKept
  <2> QED
    BY <2>1, <2>2 DEF ErrorsKept, Handled
<1>6. CASE CreateFails
  <2>1. /\ step = "create" /\ step' = "returned" /\ fails' = {BadScript}
        /\ UNCHANGED <<phase, cpc, read, flock, handler, raised>>
    BY <1>6 DEF CreateFails, vars, vmVars, coordVars
  <2>2. \A v \in VMs : ~Handled(v)
    BY <2>1 DEF ErrorsKept
  <2>3. Quiet' /\ flock = {}
    BY <1>1, <2>1, <2>2 DEF ErrorsKept, RunTypeOK, Quiet, AllGone
  <2> QED
    BY <2>1, <2>2, <2>3 DEF ErrorsKept, Handled
<1>7. CASE RunCase \/ WaitForCase
  <2>1. /\ step \in {"run", "wait"} /\ step' \in {"wait", "waiting"}
        /\ UNCHANGED <<failVars, phase>>
    BY <1>7 DEF RunCase, WaitForCase, Run, Call, vmVars
  <2> QED
    BY <2>1 DEF ErrorsKept, Handled
<1>8. CASE CheckResults
  <2>1. /\ step = "waiting" /\ step' = "append" /\ hasty' = (hasty \/ ~AllGone)
        /\ UNCHANGED <<phase, cpc, fails, flock, handler, raised>>
        /\ \E wrong \in {{}, {WrongOutput}} : read' = [read EXCEPT ![runner] = fails \union wrong]
    BY <1>8 DEF CheckResults, vars, vmVars, coordVars
  <2>2. ASSUME AllGone PROVE ErrorsKept'
    <3>1. \A v \in VMs : ~Handled(v)
      BY <2>2 DEF ErrorsKept, AllGone
    <3>2. flock = {}
      BY <1>1, <3>1 DEF ErrorsKept, RunTypeOK
    <3>3. fails \subseteq read'[runner]
      BY <1>1, <2>1 DEF RunTypeOK
    <3>4. 1..raised \subseteq fails
      BY <1>1, <2>1, <3>1 DEF ErrorsKept, Handled, RunTypeOK
    <3>5. Quiet'
      BY <2>1, <2>2 DEF Quiet, AllGone
    <3> QED
      BY <2>1, <3>1, <3>2, <3>3, <3>4, <3>5 DEF ErrorsKept, Handled
  <2>3. ~AllGone => hasty'
    BY <2>1, Zenon
  <2> QED
    BY <2>2, <2>3, Zenon
<1>9. CASE AppendResults
  <2>1. /\ step = "append" /\ step' \in {"create", "returned"} /\ fails' = read[runner]
        /\ UNCHANGED <<phase, cpc, flock, handler, raised>>
    BY <1>9 DEF AppendResults, vars, vmVars, coordVars
  <2>2. \A v \in VMs : ~Handled(v)
    BY <2>1 DEF ErrorsKept
  <2>3. flock = {}
    BY <1>1, <2>2 DEF ErrorsKept, RunTypeOK
  <2>4. Quiet' /\ 1..raised \subseteq fails'
    BY <2>1 DEF ErrorsKept, Quiet, AllGone
  <2> QED
    BY <2>1, <2>2, <2>3, <2>4 DEF ErrorsKept, Handled
<1>10. CASE LineEnds
  <2>1. Current \in VMs /\ phase[Current] \in {"in", "gone"} /\ cpc = "await" /\ cpc' = "offer" /\ step' = step
    <3>1. cpc = "await" /\ cpc' = "offer" /\ phase[Current] \in {"in", "gone"} /\ step' = step
      BY <1>10 DEF LineEnds, Await
    <3>2. i \in 1..length /\ length \in 0..N
      BY <1>1, <3>1 DEF Inv, AwaitsTheRunner, TypeOK
    <3>3. Current \in VMs
      BY <1>1, <3>2, VMsAreNumbers DEF TypeOK, Current
    <3> QED
      BY <3>1, <3>3
  <2>2. /\ \A v \in VMs : v # Current => phase'[v] = phase[v]
        /\ phase[Current] = "gone" => phase'[Current] = "gone"
        /\ UNCHANGED <<fails, read, flock, caseNr>>
    BY <1>1, <1>10, <2>1 DEF LineEnds, Await, TypeOK
  <2>3. ~Handled(Current)
    BY <2>1 DEF ErrorsKept
  <2>4. Quiet => Quiet'
    BY <2>1, <2>2 DEF Quiet, AllGone
  <2>5. CASE UNCHANGED <<handler, raised>>
    BY <2>1, <2>2, <2>3, <2>4, <2>5 DEF ErrorsKept, Handled
  <2>6. CASE /\ phase'[Current] = "out"
             /\ raised' = raised + 1 /\ handler' = [handler EXCEPT ![Current] = raised']
    <3>1. /\ handler'[Current] = raised + 1 /\ raised + 1 # 0
          /\ \A v \in VMs : v # Current => handler'[v] = handler[v]
      BY <1>1, <2>1, <2>6 DEF RunTypeOK
    <3>2. step \in {"run", "wait", "waiting"}
      <4>1. phase[Current] # "gone" /\ ~Quiet
        BY <2>1, <2>2, <2>6 DEF Quiet, AllGone
      <4> QED
        BY <1>1, <4>1 DEF ErrorsKept, RunTypeOK
    <3>3. \A v \in VMs : Handled(v)' => phase'[v] = "out"
      BY <2>2, <2>6, <3>1 DEF ErrorsKept, Handled
    <3>4. \A v \in flock : v # Current /\ Handled(v)' /\ read'[v] = fails'
      BY <1>1, <2>2, <2>3, <3>1 DEF ErrorsKept, Handled, RunTypeOK
    <3>5. \A e \in 1..raised' : e \in fails' \/ \E v \in VMs : handler'[v] = e
      <4>1. \A e \in 1..raised' : e \in 1..raised \/ e = raised + 1
        BY <1>1, <2>6 DEF RunTypeOK
      <4>2. ASSUME NEW e \in 1..raised PROVE e \in fails \/ \E v \in VMs : handler'[v] = e
        <5>1. e # 0 /\ (e \in fails \/ \E v \in VMs : handler[v] = e)
          BY <3>2 DEF ErrorsKept
        <5> QED
          BY <2>3, <3>1, <5>1 DEF Handled
      <4> QED
        BY <2>1, <2>2, <3>1, <4>1, <4>2
    <3> QED
      BY <2>1, <2>2, <3>2, <3>3, <3>4, <3>5 DEF ErrorsKept
  <2> QED
    BY <1>10, <2>5, <2>6 DEF LineEnds
<1>11. ASSUME NEW v \in VMs, LockFails(v) PROVE ErrorsKept'
  <2>1. /\ Handled(v) /\ flock = {} /\ flock' = {v} /\ read' = [read EXCEPT ![v] = fails]
        /\ UNCHANGED <<phase, cpc, step, fails, handler, raised>>
    BY <1>11 DEF LockFails, Handled, vars, vmVars, coordVars
  <2>2. read'[v] = fails' /\ step # "append"
    BY <1>1, <2>1 DEF RunTypeOK, ErrorsKept
  <2>3. Quiet => Quiet'
    BY <2>1 DEF Quiet, AllGone
  <2> QED
    BY <2>1, <2>2, <2>3 DEF ErrorsKept, Handled
<1>12. ASSUME NEW v \in VMs, RecordError(v) PROVE ErrorsKept'
  <2>1. /\ v \in flock /\ flock' = flock \ {v} /\ fails' = read[v] \union {handler[v]}
        /\ handler' = [handler EXCEPT ![v] = 0]
        /\ UNCHANGED <<phase, cpc, step, raised>>
    BY <1>12 DEF RecordError, vars, vmVars, coordVars
  <2>2. flock' = {} /\ fails' = fails \union {handler[v]} /\ step \in {"run", "wait", "waiting"}
    BY <2>1 DEF ErrorsKept
  <2>3. handler'[v] = 0 /\ \A u \in VMs : u # v => handler'[u] = handler[u]
    BY <1>1, <2>1 DEF RunTypeOK
  <2>4. \A e \in 1..raised : e \in fails' \/ \E u \in VMs : handler'[u] = e
    BY <2>2, <2>3 DEF ErrorsKept
  <2> QED
    BY <2>1, <2>2, <2>3, <2>4 DEF ErrorsKept, Handled
<1>13. CASE CoordinateCase
  <2>1. \A v \in VMs : Handled(v) => phase'[v] = phase[v]
    BY <1>1, <1>13 DEF CoordinateCase, Offer, OfferToClosed, NextRound, vmVars, ErrorsKept, TypeOK
  <2>2. [Next]_vars /\ ~Run /\ UNCHANGED <<failVars, step, caseNr>>
    BY <1>13 DEF CoordinateCase, Next, Coordinate, Run, Offer, OfferToClosed, NextRound
  <2> QED
    BY <1>3, <1>4, <2>1, <2>2
<1>14. ASSUME NEW v \in VMs, VMGoesOn(v) PROVE ErrorsKept'
  <2>1. \A u \in VMs : Handled(u) => phase'[u] = phase[u]
    <3>1. ~Handled(v)
      BY <1>14, VMsAreNumbers DEF VMGoesOn, Free, Handled
    <3> QED
      BY <1>1, <1>14, <3>1 DEF VMGoesOn, VMStep, Arrive, Finish, Close, TypeOK
  <2>2. [Next]_vars /\ ~Run /\ UNCHANGED <<failVars, step, caseNr>>
    <3>1. cpc' = cpc
      BY <1>14 DEF VMGoesOn, VMStep, Arrive, Finish, Close, coordVars
    <3> QED
      BY <1>14, <3>1 DEF VMGoesOn, Next, Run
  <2> QED
    BY <1>3, <1>4, <2>1, <2>2
<1>15. ASSUME NEW g \in Terminators, IsTaken(g) PROVE ErrorsKept'
  <2>1. \A u \in VMs : Handled(u) => phase'[u] = phase[u]
    <3>1. ~Handled(target[g])
      BY <1>15 DEF IsTaken, Free, TakeTerminate, Handled
    <3> QED
      BY <1>1, <1>15, <3>1 DEF IsTaken, TakeTerminate, TypeOK
  <2>2. [Next]_vars /\ ~Run /\ UNCHANGED <<failVars, step, caseNr>>
    <3>1. cpc' = cpc
      BY <1>15 DEF IsTaken, TakeTerminate, coordVars
    <3> QED
      BY <1>15, <3>1 DEF IsTaken, Next, TerminatorStep, Run
  <2> QED
    BY <1>3, <1>4, <2>1, <2>2
<1>16. ASSUME UNCHANGED <<failVars, step, caseNr, phase, cpc>> PROVE ErrorsKept'
  BY <1>3, <1>16 DEF Quiet, AllGone
<1>17. CASE \/ Sees \/ UNCHANGED allVars
            \/ \E g \in Callers : Ranges(g)
            \/ \E g \in Terminators : BeginTerminate(g) \/ Panics(g) \/ LateTerminate(g)
  BY <1>16, <1>17
     DEF Sees, SeeTermination, Ranges, NextElement, Return, BeginTerminate, Call, Panics, SendOnClosed,
         LateTerminate, allVars, vars, vmVars, coordVars
<1> QED
  BY <1>5, <1>6, <1>7, <1>8, <1>9, <1>10, <1>11, <1>12, <1>13, <1>14, <1>15, <1>17 DEF TestNext, RunStep

-----------------------------------------------------------------------------
(***************************************************************************)
(* WaitForTermination.  With two VMs remove() moves a VM to a place that   *)
(* was a gone VM's, so that the loop misses nobody; a third VM can be      *)
(* moved to the place the loop has just passed.                            *)
(***************************************************************************)
WaitsForAll ==
  /\ call[runner] = "idle" => idx[runner] = 1 /\ target[runner] = 0
  /\ call[runner] = "ranging" =>
       \A v \in VMs : phase[v] = "gone" \/ target[runner] = v \/ \E k \in Ahead(runner) : array[k] = v
  /\ call[runner] = "returned" => AllGone
  /\ step = "waiting" => call[runner] # "idle"
  /\ ~hasty

(* What the loop has ahead of it stays there until it is gone.             *)
LEMMA RemoveMovesToGone ==
  ASSUME N <= 2, TypeOK, NEW r \in 1..length, Remove(r), phase[array[r]] = "gone", NEW k \in VMs
  PROVE  array'[k] = array[k] \/ phase[array[k]] = "gone"
<1>1. length \in 1..N /\ k \in 1..N /\ N \in Nat
  BY VMsAreNumbers DEF TypeOK
<1>2. CASE r <= k /\ k < length
  <2>1. r = k
    BY <1>1, <1>2
  <2> QED
    BY <2>1
<1>3. CASE ~(r <= k /\ k < length)
  BY <1>1, <1>3, VMsAreNumbers DEF Remove
<1> QED
  BY <1>2, <1>3

(* With two VMs each step keeps the loop complete.                         *)
LEMMA StepWaits ==
  ASSUME N <= 2, Inv, RunTypeOK, WaitsForAll, [TestNext]_allVars
  PROVE  WaitsForAll'
<1> USE RunnerWaits, VMsAreNumbers DEF vmVars, coordVars, callerVars, history, runVars, failVars, testVars
<1> DEFINE r == runner
<1>1. TypeOK /\ idx[r] \in 1..(N + 1) /\ bound[r] \in 0..N /\ target[r] \in 0..N
  BY DEF Inv, TypeOK
<1>2. Ahead(r) \subseteq VMs
  BY <1>1 DEF Ahead
<1>3. ASSUME \A v \in VMs : phase[v] = "gone" => phase'[v] = "gone",
             call'[r] = call[r], idx'[r] = idx[r], bound'[r] = bound[r],
             target'[r] = target[r] \/ phase'[target[r]] = "gone",
             call[r] = "idle" => target'[r] = target[r],
             \A k \in VMs : array'[k] = array[k] \/ phase'[array[k]] = "gone",
             hasty' = hasty, step' = "waiting" => step = "waiting"
      PROVE  WaitsForAll'
  <2>1. Ahead(r)' = Ahead(r) /\ runner' = runner
    BY <1>3 DEF Ahead
  <2>2. ASSUME call[r] = "ranging", NEW v \in VMs
        PROVE  phase'[v] = "gone" \/ target'[r] = v \/ \E k \in Ahead(r) : array'[k] = v
    <3>1. CASE phase[v] = "gone" \/ target[r] = v
      BY <1>3, <3>1
    <3>2. ASSUME NEW k \in Ahead(r), array[k] = v PROVE array'[k] = v \/ phase'[v] = "gone"
      BY <1>2, <1>3, <3>2
    <3> QED
      BY <2>2, <3>1, <3>2 DEF WaitsForAll
  <2>3. call[r] = "returned" => AllGone'
    BY <1>3 DEF WaitsForAll, AllGone
  <2> QED
    BY <1>3, <2>1, <2>2, <2>3 DEF WaitsForAll
<1>4. ASSUME [Next]_vars PROVE \A v \in VMs : phase[v] = "gone" => phase'[v] = "gone"
  BY <1>4, QuietStays
<1>5. ASSUME [Next]_vars, UNCHANGED <<call, idx, bound, target, array, hasty>>, step' = "waiting" => step = "waiting"
      PROVE  WaitsForAll'
  BY <1>3, <1>4, <1>5
<1>6. CASE CreateVMs
  <2>1. /\ call'[r] = "idle" /\ idx'[r] = 1 /\ target'[r] = 0 /\ hasty' = hasty /\ step' = "run"
    BY <1>6 DEF CreateVMs
  <2> QED
    BY <2>1 DEF WaitsForAll
<1>7. CASE WaitForCase
  <2>1. /\ call[r] = "idle" /\ call'[r] = "ranging" /\ idx'[r] = 1 /\ bound'[r] = length
        /\ hasty' = hasty /\ UNCHANGED <<phase, array, length>>
    BY <1>7 DEF WaitForCase, Call, WaitsForAll, Inv, TypeOK
  <2>2. Ahead(r)' = 1..length
    BY <2>1 DEF Ahead
  <2>3. \A v \in VMs : phase[v] # "gone" => \E k \in 1..length : array[k] = v
    BY DEF Inv, NobodyLost
  <2> QED
    BY <2>1, <2>2, <2>3 DEF WaitsForAll
<1>8. CASE CheckResults
  <2>1. /\ call[r] = "returned" /\ hasty' = (hasty \/ ~AllGone) /\ step' = "append" /\ UNCHANGED vars
    BY <1>8 DEF CheckResults
  <2>2. AllGone /\ ~hasty
    BY <2>1, Zenon DEF WaitsForAll
  <2>3. ~hasty'
    BY <2>1, <2>2, Zenon
  <2> QED
    BY <2>1, <2>2, <2>3 DEF WaitsForAll, vars, AllGone, Ahead
<1>9. CASE RunCase \/ CreateFails \/ AppendResults
  BY <1>5, <1>9 DEF RunCase, Run, Next, CreateFails, AppendResults, vars
<1>10. CASE CoordinateCase \/ LineEnds
  <2>1. CASE UNCHANGED array
    BY <1>5, <1>10, <2>1
       DEF CoordinateCase, LineEnds, Offer, OfferToClosed, Await, NextRound, Next, Coordinate
  <2>2. CASE array' # array
    <3>1. /\ i \in 1..length /\ Remove(i) /\ phase[array[i]] = "gone" /\ phase' = phase
          /\ UNCHANGED <<call, idx, bound, target, hasty, step>>
      BY <1>1, <1>10, <2>2
         DEF CoordinateCase, LineEnds, Offer, OfferToClosed, Await, NextRound, Current, TypeOK, Inv, AwaitsTheRunner
    <3>2. \A k \in VMs : array'[k] = array[k] \/ phase[array[k]] = "gone"
      BY <1>1, <3>1, RemoveMovesToGone
    <3> QED
      BY <1>3, <3>1, <3>2
  <2> QED
    BY <2>1, <2>2
<1>11. CASE Sees
  <2>1. /\ phase' = phase /\ array' = array /\ UNCHANGED <<call, idx, bound, hasty, step>>
        /\ call[r] = "ranging" /\ phase[target[r]] = "gone"
    BY <1>11 DEF Sees, SeeTermination, Ranging
  <2> QED
    BY <1>3, <2>1
<1>12. ASSUME NEW v \in VMs, LockFails(v) \/ RecordError(v) \/ VMGoesOn(v) PROVE WaitsForAll'
  BY <1>5, <1>12 DEF LockFails, RecordError, VMGoesOn, VMStep, Arrive, Finish, Close, Next, vars
<1>13. CASE NextElement(r) /\ UNCHANGED testVars
  <2>1. /\ call[r] = "ranging" /\ call'[r] = "ranging" /\ target[r] = 0
        /\ target'[r] = array[idx[r]] /\ idx'[r] = idx[r] + 1 /\ bound'[r] = bound[r]
        /\ UNCHANGED <<phase, array, hasty, step>>
    BY <1>1, <1>13 DEF NextElement, Ranging, LoopEnd, TypeOK
  <2>2. \A k \in Ahead(r) : k = idx[r] \/ k \in Ahead(r)'
    BY <1>1, <2>1 DEF Ahead
  <2> QED
    BY <2>1, <2>2 DEF WaitsForAll
<1>14. CASE Return(r) /\ UNCHANGED testVars
  <2>1. /\ call[r] = "ranging" /\ call'[r] = "returned" /\ target[r] = 0 /\ Ahead(r) = {}
        /\ UNCHANGED <<phase, hasty, step>>
    BY <1>1, <1>14 DEF Return, Ranging, LoopEnd, TypeOK, Ahead
  <2>2. AllGone
    BY <2>1 DEF WaitsForAll, AllGone
  <2> QED
    BY <2>1, <2>2 DEF WaitsForAll, AllGone
<1>15. ASSUME NEW g \in Callers, g # r, Ranges(g) PROVE WaitsForAll'
  <2>1. /\ UNCHANGED <<phase, array, hasty, step>>
        /\ call'[r] = call[r] /\ idx'[r] = idx[r] /\ bound'[r] = bound[r] /\ target'[r] = target[r]
    BY <1>1, <1>15 DEF Ranges, NextElement, Return, TypeOK
  <2> QED
    BY <1>3, <2>1
<1>16. ASSUME NEW g \in Terminators, BeginTerminate(g) \/ IsTaken(g) \/ Panics(g) \/ LateTerminate(g)
       PROVE  WaitsForAll'
  <2>1. /\ UNCHANGED <<array, hasty, step>> /\ g # r
        /\ call'[r] = call[r] /\ idx'[r] = idx[r] /\ bound'[r] = bound[r] /\ target'[r] = target[r]
    BY <1>1, <1>16 DEF BeginTerminate, Call, IsTaken, TakeTerminate, Panics, SendOnClosed, LateTerminate, TypeOK, Inv
  <2>2. [Next]_vars \/ phase' = phase
    BY <1>16 DEF BeginTerminate, IsTaken, Panics, LateTerminate, Next, TerminatorStep, Callers
  <2> QED
    BY <1>3, <1>4, <2>1, <2>2
<1>17. CASE UNCHANGED allVars
  BY <1>5, <1>17 DEF allVars, vars
<1> QED
  BY <1>6, <1>7, <1>8, <1>9, <1>10, <1>11, <1>12, <1>13, <1>14, <1>15, <1>16, <1>17
     DEF TestNext, RunStep, Ranges
-----------------------------------------------------------------------------
(* The types and the errors along a test.                                  *)
LEMMA TestInitOK == TestInit => RunTypeOK /\ ErrorsKept /\ WaitsForAll
<1> SUFFICES ASSUME TestInit PROVE RunTypeOK /\ ErrorsKept /\ WaitsForAll
  OBVIOUS
<1> USE RunnerWaits DEF TestInit, Init
<1>1. RunTypeOK
  <2>1. 1 \in Nat \ {0} /\ read \in [Appenders -> SUBSET Int]
    OBVIOUS
  <2> QED
    BY <2>1 DEF RunTypeOK
<1>2. ErrorsKept
  BY DEF ErrorsKept, Handled, Quiet
<1>3. WaitsForAll
  BY DEF WaitsForAll
<1> QED
  BY <1>1, <1>2, <1>3

(* Unless Run has compared results while a script still ran, it returns    *)
(* every runtime error, for any number of scripts, or, if the scripts of   *)
(* some case could not be loaded, that error alone.                        *)
Returned == fails = {BadScript} \/ 1..raised \subseteq fails
THEOREM ErrorsReturned == TestSpec => [](step = "returned" /\ ~hasty => Returned)
<1> DEFINE Safe == RunTypeOK /\ (hasty \/ ErrorsKept)
<1>1. TestInit => Safe
  BY TestInitOK
<1>2. Inv /\ Safe /\ [TestNext]_allVars => Safe'
  <2> SUFFICES ASSUME Inv, Safe, [TestNext]_allVars PROVE Safe'
    OBVIOUS
  <2>1. hasty => hasty'
    BY DEF TestNext, RunStep, CreateVMs, CreateFails, RunCase, WaitForCase, CheckResults, AppendResults,
           CoordinateCase, LineEnds, Sees, LockFails, RecordError, VMGoesOn, Ranges, BeginTerminate, IsTaken,
           Panics, LateTerminate, allVars, testVars, failVars
  <2> QED
    BY <2>1, StepRunType, StepKeeps, Zenon
<1>3. Safe => (step = "returned" /\ ~hasty => Returned)
  <2> SUFFICES ASSUME RunTypeOK, ErrorsKept, step = "returned" PROVE Returned
    OBVIOUS
  <2>1. \A v \in VMs : ~Handled(v)
    BY DEF ErrorsKept
  <2>2. \A e \in 1..raised : \A v \in VMs : handler[v] # e
    BY <2>1 DEF Handled, RunTypeOK
  <2> QED
    BY <2>2 DEF ErrorsKept, Returned
<1> QED
  BY <1>1, <1>2, <1>3, EachCaseInv, PTL DEF TestSpec

(* With one or two scripts Run does wait for all of them, so that nothing  *)
(* is compared hastily, and errors are lost only to a script that cannot   *)
(* be loaded; with three scripts Run may miss one.                         *)
THEOREM NothingLost == ASSUME N <= 2 PROVE TestSpec => []NoErrorLost
<1>1. TestInit => RunTypeOK /\ WaitsForAll
  BY TestInitOK
<1>2. Inv /\ RunTypeOK /\ WaitsForAll /\ [TestNext]_allVars => RunTypeOK' /\ WaitsForAll'
  BY StepRunType, StepWaits
<1>3. WaitsForAll /\ (step = "returned" /\ ~hasty => Returned) => NoErrorLost
  BY DEF WaitsForAll, NoErrorLost, Returned
<1> QED
  BY <1>1, <1>2, <1>3, EachCaseInv, ErrorsReturned, PTL DEF TestSpec

===============================================================================
