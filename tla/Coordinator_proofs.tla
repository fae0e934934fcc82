-------------------------- MODULE Coordinator_proofs --------------------------
(***************************************************************************)
(* Theorems about Coordinator for every number of VMs and every set of     *)
(* callers.                                                                *)
(***************************************************************************)
EXTENDS Coordinator, FiniteSetTheorems, TLAPS

(***************************************************************************)
(* OneLineAtATime is not inductive: that no second VM has a line depends   *)
(* on the coordinator waiting for the first (AwaitsTheRunner), and that it *)
(* waits for the right one depends on remove() never disturbing the slot   *)
(* it has come to (NobodyLost, from which a VM removed is a VM gone).      *)
(***************************************************************************)
Inv == TypeOK /\ AwaitsTheRunner /\ NobodyLost

(* VMs are numbered from 1 to N.                                           *)
LEMMA VMsAreNumbers == N \in Nat \ {0} /\ VMs = 1..N /\ N \in VMs
BY CoordinatorAssumption DEF VMs

(* What remove() leaves: every VM but the removed one, still only once.    *)
LEMMA RemoveKeepsOthers ==
  ASSUME TypeOK, NobodyLost, NEW k \in 1..length, Remove(k)
  PROVE  /\ array' \in [VMs -> VMs]
         /\ length' \in 0..N
         /\ \A j, m \in 1..length' : array'[j] = array'[m] => j = m
         /\ \A v \in VMs : v # array[k] /\ (\E j \in 1..length : array[j] = v) =>
               \E j \in 1..length' : array'[j] = v
<1> USE VMsAreNumbers
<1>1. length' = length - 1 /\ length' \in 0..N /\ length \in 1..N
  BY DEF Remove, TypeOK
<1>2. array' \in [VMs -> VMs]
  BY <1>1 DEF Remove, TypeOK
<1>3. \A j \in 1..length' : array'[j] = IF k <= j THEN array[j + 1] ELSE array[j]
  BY <1>1 DEF Remove
<1>4. \A j, m \in 1..length' : array'[j] = array'[m] => j = m
  BY <1>1, <1>3 DEF NobodyLost
<1>5. ASSUME NEW v \in VMs, v # array[k], NEW j \in 1..length, array[j] = v
      PROVE  \E m \in 1..length' : array'[m] = v
  <2>1. CASE j < k
    <3>1. j \in 1..length' /\ array'[j] = v
      BY <2>1, <1>1, <1>3, <1>5
    <3> QED
      BY <3>1
  <2>2. CASE j > k
    <3>1. j - 1 \in 1..length' /\ array'[j - 1] = v
      BY <2>2, <1>1, <1>3, <1>5
    <3> QED
      BY <3>1
  <2> QED
    BY <2>1, <2>2, <1>5
<1> QED
  BY <1>1, <1>2, <1>4, <1>5

(* Before Run every VM is registered once and none has a line.             *)
LEMMA InitInv == Init => Inv
BY VMsAreNumbers DEF Init, Inv, TypeOK, AwaitsTheRunner, NobodyLost, Current

(* Each step keeps the invariant.                                          *)
LEMMA StepInv == Inv /\ [Next]_vars => Inv'
<1> SUFFICES ASSUME Inv, [Next]_vars PROVE Inv'
  OBVIOUS
<1> USE VMsAreNumbers DEF vmVars, coordVars, callerVars, history, Inv
<1>1. CASE Run
  BY <1>1 DEF Run, TypeOK, AwaitsTheRunner, NobodyLost, Current
<1>2. CASE Offer
  <2>1. array[i] \in VMs /\ i <= length /\ cpc = "offer" /\ phase[array[i]] = "wait"
    BY <1>2 DEF Offer, TypeOK, Current
  <2>2. /\ phase' = [phase EXCEPT ![array[i]] = "in"]
        /\ cpc' = "await" /\ served' = served \union {array[i]}
        /\ UNCHANGED <<paused, doomed, array, length, i, call, idx, bound, target, roundLength>>
    BY <1>2 DEF Offer, Current
  <2>3. TypeOK'
    <3>1. served' \subseteq VMs
      BY <2>1, <2>2 DEF TypeOK
    <3>2. phase' \in [VMs -> {"out", "wait", "in", "leaving", "gone"}]
      BY <2>1, <2>2 DEF TypeOK
    <3> QED
      BY <3>1, <3>2, <2>2 DEF TypeOK
  <2>4. AwaitsTheRunner'
    BY <2>1, <2>2 DEF TypeOK, AwaitsTheRunner, Current
  <2>5. NobodyLost'
    <3>1. \A v \in VMs : phase'[v] # "gone" => phase[v] # "gone"
      BY <2>1, <2>2 DEF TypeOK
    <3> QED
      BY <3>1, <2>2 DEF NobodyLost
  <2> QED
    BY <2>3, <2>4, <2>5
<1>3. CASE OfferToClosed
  <2>1. i \in 1..length /\ Remove(i) /\ phase[array[i]] = "gone" /\ i' = i + 1 /\ cpc = "offer"
    BY <1>3 DEF OfferToClosed, Current, TypeOK
  <2>2. UNCHANGED <<phase, paused, doomed, cpc, call, idx, bound, target, served, roundLength>>
    BY <1>3 DEF OfferToClosed
  <2>3. array' \in [VMs -> VMs] /\ length' \in 0..N /\ i' \in 1..(N + 1)
    <3>1. array' \in [VMs -> VMs] /\ length' \in 0..N
      BY <2>1, RemoveKeepsOthers
    <3>2. i' \in 1..(N + 1)
      BY <2>1 DEF TypeOK
    <3> QED
      BY <3>1, <3>2
  <2>4. TypeOK'
    BY <2>2, <2>3 DEF TypeOK
  <2>5. AwaitsTheRunner'
    BY <2>1, <2>2 DEF AwaitsTheRunner
  <2>6. NobodyLost'
    BY <2>1, <2>2, RemoveKeepsOthers DEF NobodyLost
  <2> QED
    BY <2>4, <2>5, <2>6
<1>4. CASE Await
  <2>1. /\ phase[array[i]] = "in" /\ array[i] \in VMs
        /\ i <= length /\ i' = i + 1 /\ cpc' = "offer"
    BY <1>4 DEF Await, AwaitsTheRunner, TypeOK, Current
  <2>2. /\ UNCHANGED <<array, length, paused, doomed, call, idx, bound, target, served, roundLength>>
        /\ phase' = [phase EXCEPT ![array[i]] = IF array[i] \in doomed THEN "leaving" ELSE "out"]
    BY <2>1, <1>4 DEF Await, Current
  <2>3. \E to \in {"leaving", "out"} : phase' = [phase EXCEPT ![array[i]] = to]
    BY <2>2
  <2>4. TypeOK'
    <3>1. i' \in 1..(N + 1)
      BY <2>1 DEF TypeOK
    <3>2. phase' \in [VMs -> {"out", "wait", "in", "leaving", "gone"}]
      BY <2>1, <2>3 DEF TypeOK
    <3> QED
      BY <3>1, <3>2, <2>1, <2>2 DEF TypeOK
  <2>5. AwaitsTheRunner'
    BY <2>1, <2>3 DEF TypeOK, AwaitsTheRunner, Current
  <2>6. NobodyLost'
    <3>1. \A v \in VMs : phase[v] = "gone" => phase'[v] = "gone"
      BY <2>1, <2>3 DEF TypeOK
    <3>2. array' = array /\ length' = length
      BY <2>2
    <3> QED
      BY <3>1, <3>2 DEF NobodyLost
  <2> QED
    BY <2>4, <2>5, <2>6
<1>5. CASE NextRound
  <2>1. /\ cpc = "offer" /\ cpc' \in {"offer", "returned"} /\ i' \in {1, i}
        /\ served' = {} /\ roundLength' = length
    BY <1>5 DEF NextRound
  <2>2. UNCHANGED <<phase, paused, doomed, array, length, call, idx, bound, target>>
    BY <1>5 DEF NextRound
  <2>3. TypeOK'
    <3>1. i' \in 1..(N + 1) /\ length' \in 0..N /\ roundLength' \in 0..N
      BY <2>1, <2>2 DEF TypeOK
    <3>2. served' \subseteq VMs /\ cpc' \in {"idle", "offer", "await", "returned"}
      BY <2>1
    <3> QED
      BY <3>1, <3>2, <2>2 DEF TypeOK
  <2>4. AwaitsTheRunner'
    BY <2>1, <2>2 DEF AwaitsTheRunner
  <2>5. NobodyLost'
    BY <2>2 DEF NobodyLost
  <2> QED
    BY <2>3, <2>4, <2>5
<1>6. ASSUME NEW v \in VMs, NEW from \in {"out", "leaving", "wait"}, NEW to \in {"wait", "leaving", "gone"},
             phase[v] = from, phase' = [phase EXCEPT ![v] = to],
             paused' \in [VMs -> BOOLEAN], doomed' \subseteq VMs, target' \in [Callers -> 0..N],
             UNCHANGED <<array, length, cpc, i, call, idx, bound, served, roundLength>>,
             from = "leaving" \/ to # "gone"
      PROVE  Inv'
  <2>1. TypeOK'
    BY <1>6 DEF TypeOK
  <2>2. AwaitsTheRunner'
    <3>1. \A u \in VMs : phase'[u] = "in" <=> phase[u] = "in"
      BY <1>6 DEF TypeOK
    <3>2. cpc = "await" => array[i] \in VMs
      BY DEF AwaitsTheRunner, TypeOK
    <3> QED
      BY <1>6, <3>1, <3>2 DEF AwaitsTheRunner, Current
  <2>3. NobodyLost'
    BY <1>6 DEF TypeOK, NobodyLost
  <2> QED
    BY <2>1, <2>2, <2>3
<1>7. ASSUME NEW v \in VMs, VMStep(v) PROVE Inv'
  <2>1. /\ paused \in [VMs -> BOOLEAN] /\ doomed \subseteq VMs /\ target \in [Callers -> 0..N]
        /\ UNCHANGED <<paused, doomed, target, array, length, cpc, i, call, idx, bound, served, roundLength>>
    BY <1>7 DEF VMStep, Arrive, Finish, Close, TypeOK, coordVars, callerVars, history
  <2>2. CASE Arrive(v)
    BY <1>6, <2>1, <2>2 DEF Arrive
  <2>3. CASE Finish(v)
    BY <1>6, <2>1, <2>3 DEF Finish
  <2>4. CASE Close(v)
    BY <1>6, <2>1, <2>4 DEF Close
  <2> QED
    BY <1>7, <2>2, <2>3, <2>4 DEF VMStep
<1>8. ASSUME UNCHANGED <<phase, array, length, cpc, i, served, roundLength>>,
             paused' \in [VMs -> BOOLEAN], doomed' \subseteq VMs,
             call' \in [Callers -> {"idle", "ranging", "returned", "panicked"}],
             idx' \in [Callers -> 1..(N + 1)], bound' \in [Callers -> 0..N],
             target' \in [Callers -> 0..N]
      PROVE  Inv'
  BY <1>8 DEF TypeOK, AwaitsTheRunner, NobodyLost, Current
<1>9. ASSUME NEW v \in VMs, Pause(v) \/ Resume(v) PROVE Inv'
  BY <1>8, <1>9 DEF Pause, Resume, TypeOK
<1>10. ASSUME NEW g \in Callers, Call(g) PROVE Inv'
  BY <1>8, <1>10 DEF Call, TypeOK
<1>11. ASSUME NEW g \in Callers, NextElement(g) PROVE Inv'
  <2>1. idx[g] \in VMs
    BY <1>11 DEF NextElement, LoopEnd, TypeOK
  <2>2. array[idx[g]] \in 0..N /\ idx[g] + 1 \in 1..(N + 1)
    BY SMTT(30), <2>1 DEF TypeOK
  <2> QED
    BY <1>8, <1>11, <2>2 DEF NextElement, TypeOK
<1>12. ASSUME NEW g \in Callers, Return(g) PROVE Inv'
  BY <1>8, <1>12 DEF Return, TypeOK
<1>13. ASSUME NEW g \in Terminators, TakeTerminate(g) PROVE Inv'
  <2>1. g \in Callers /\ target[g] \in VMs
    BY <1>13 DEF Callers, TakeTerminate, TypeOK
  <2>2. /\ paused' \in [VMs -> BOOLEAN]
        /\ target' \in [Callers -> 0..N]
        /\ UNCHANGED <<array, length, cpc, i, call, idx, bound, served, roundLength>>
    <3>1. paused' = [paused EXCEPT ![target[g]] = FALSE] /\ target' = [target EXCEPT ![g] = 0]
      BY <1>13 DEF TakeTerminate
    <3>2. UNCHANGED <<array, length, cpc, i, call, idx, bound, served, roundLength>>
      BY <1>13 DEF TakeTerminate, coordVars, history
    <3>3. paused \in [VMs -> BOOLEAN] /\ target \in [Callers -> 0..N] /\ 0 \in 0..N
      BY DEF TypeOK
    <3>4. paused' \in [VMs -> BOOLEAN]
      BY <3>1, <3>3
    <3>5. target' \in [Callers -> 0..N]
      BY <3>1, <3>3
    <3> QED
      BY <3>2, <3>4, <3>5
  <2>3. CASE phase[target[g]] = "in"
    <3>0. phase' = phase /\ doomed' = doomed \union {target[g]}
      BY <2>3, <1>13 DEF TakeTerminate
    <3>1. UNCHANGED phase /\ doomed' \subseteq VMs
      BY <2>1, <3>0 DEF TypeOK
    <3>2. bound' \in [Callers -> 0..N] /\ idx' \in [Callers -> 1..(N + 1)]
      BY <2>2 DEF TypeOK
    <3>3. call' \in [Callers -> {"idle", "ranging", "returned", "panicked"}]
      BY <2>2 DEF TypeOK
    <3>4. UNCHANGED <<phase, array, length, cpc, i, served, roundLength>>
      BY <3>1, <2>2
    <3> HIDE DEF Inv
    <3> QED
      BY <3>1, <3>2, <3>3, <3>4, <2>2, <1>8
  <2>4. CASE phase[target[g]] \in {"out", "wait"}
    <3>0. phase' = [phase EXCEPT ![target[g]] = "leaving"] /\ UNCHANGED doomed
      BY <2>4, <1>13 DEF TakeTerminate
    <3>1. phase' = [phase EXCEPT ![target[g]] = "leaving"] /\ doomed' \subseteq VMs
      BY <3>0 DEF TypeOK
    <3> QED
      BY <3>1, <2>1, <2>2, <2>4, <1>6
  <2> QED
    BY <2>3, <2>4, <1>13 DEF TakeTerminate
<1>14. ASSUME NEW g \in Terminators, SendOnClosed(g) PROVE Inv'
  BY <1>8, <1>14 DEF SendOnClosed, Callers, TypeOK
<1>15. ASSUME NEW g \in Waiters, SeeTermination(g) PROVE Inv'
  <2>1. target' = [target EXCEPT ![g] = 0] /\ 0 \in 0..N
    BY <1>15 DEF SeeTermination
  <2>2. target' \in [Callers -> 0..N]
    BY <2>1 DEF TypeOK
  <2> QED
    BY <1>8, <1>15, <2>2 DEF SeeTermination, TypeOK
<1>16. CASE UNCHANGED vars
  BY <1>16 DEF vars, TypeOK, AwaitsTheRunner, NobodyLost, Current
<1>17. CASE Next
  <2> HIDE DEF Inv
  <2> QED
    BY <1>17, <1>1, <1>2, <1>3, <1>4, <1>5, <1>7, <1>9, <1>10, <1>11, <1>12, <1>13, <1>14, <1>15
       DEF Next, Coordinate, TerminatorStep
<1> QED
  BY <1>16, <1>17

(* The invariant holds in every state.                                     *)
LEMMA Invariance == Spec => []Inv
BY InitInv, StepInv, PTL DEF Spec

(* The variables keep their types: no index leaves the slice.              *)
THEOREM TypeCorrect == Spec => []TypeOK
<1>1. Inv => TypeOK
  BY DEF Inv
<1> QED
  BY <1>1, Invariance, PTL

(* The coordinator waits for the VM it gave the permission to.             *)
THEOREM AwaitsCorrectly == Spec => []AwaitsTheRunner
<1>1. Inv => AwaitsTheRunner
  BY DEF Inv
<1> QED
  BY <1>1, Invariance, PTL

(* However many VMs there are, lines exclude each other.                   *)
THEOREM LinesExclude == Spec => []OneLineAtATime
<1>1. Inv => OneLineAtATime
  BY DEF Inv, AwaitsTheRunner, OneLineAtATime
<1> QED
  BY <1>1, Invariance, PTL

(* remove() never loses a VM that still runs.                              *)
THEOREM NoVMIsLost == Spec => []NobodyLost
<1>1. Inv => NobodyLost
  BY DEF Inv
<1> QED
  BY <1>1, Invariance, PTL
-----------------------------------------------------------------------------
(***************************************************************************)
(* Terminate.  A VM it has not told yet is its target or lies ahead of it  *)
(* in the array, unless remove() has shifted that VM to a place it has     *)
(* passed.  Then remove() has left the last VM of the slice in two places  *)
(* ahead of it (it does not clear the slot it frees), and the second time  *)
(* it comes to that VM it can only block or panic: it does not return.     *)
(***************************************************************************)
Told(v) == phase[v] \in {"leaving", "gone"} \/ v \in doomed
Ahead(g) == idx[g]..bound[g]
Stuck(g) ==
  \/ target[g] # 0 /\ Told(target[g])
  \/ \E k \in Ahead(g) : Told(array[k]) \/ array[k] = target[g]
  \/ \E j, k \in Ahead(g) : j < k /\ array[j] = array[k]
OnItsWay(g) ==
  /\ call[g] = "idle" => idx[g] = 1 /\ target[g] = 0
  /\ call[g] = "ranging" =>
       /\ length <= bound[g]
       /\ \/ Stuck(g)
          \/ \A v \in VMs : Told(v) \/ target[g] = v \/ \E k \in Ahead(g) : array[k] = v
  /\ call[g] = "returned" => \A v \in VMs : Told(v)
TellsAll == \A g \in Terminators : OnItsWay(g)

(* remove() shifts nothing ahead of a range loop, or the loop has a VM     *)
(* twice ahead of it.                                                      *)
LEMMA RemoveDoubles ==
  ASSUME TypeOK, NEW g \in Callers, length <= bound[g], NEW r \in 1..length, Remove(r)
  PROVE  \/ \A k \in Ahead(g) : array'[k] = array[k]
         \/ \E j, k \in Ahead(g) : j < k /\ array'[j] = array'[k]
<1> USE VMsAreNumbers
<1>1. /\ length \in 1..N /\ idx[g] \in 1..(N + 1) /\ bound[g] \in 0..N
      /\ \A j \in VMs : array'[j] = IF r <= j /\ j < length THEN array[j + 1] ELSE array[j]
  BY DEF TypeOK, Remove
<1>2. CASE r < length /\ idx[g] < length
  <2>1. /\ length - 1 \in VMs /\ length \in VMs
        /\ array'[length - 1] = array[length] /\ array'[length] = array[length]
    BY <1>1, <1>2
  <2>2. length - 1 \in Ahead(g) /\ length \in Ahead(g) /\ length - 1 < length
    BY <1>1, <1>2 DEF Ahead
  <2> QED
    BY <2>1, <2>2
<1>3. CASE r = length \/ idx[g] >= length
  BY <1>1, <1>3 DEF Ahead
<1> QED
  BY <1>1, <1>2, <1>3

(* Each step keeps every Terminate on its way.                             *)
LEMMA StepTells == Inv /\ TellsAll /\ [Next]_vars => TellsAll'
<1> SUFFICES ASSUME Inv, TellsAll, [Next]_vars, NEW g \in Terminators PROVE OnItsWay(g)'
  BY DEF TellsAll
<1> USE VMsAreNumbers DEF vmVars, coordVars, callerVars, history
<1>1. TypeOK /\ OnItsWay(g) /\ g \in Callers
  BY DEF Inv, TellsAll, Callers
<1>0. \A k \in Ahead(g) : k \in VMs /\ array[k] \in VMs /\ k >= idx[g]
  <2>1. idx[g] \in 1..(N + 1) /\ bound[g] \in 0..N
    BY <1>1 DEF TypeOK
  <2>2. Ahead(g) \subseteq VMs /\ \A k \in Ahead(g) : k >= idx[g]
    BY <2>1 DEF Ahead
  <2> QED
    BY <1>1, <2>2 DEF TypeOK
<1>2. \A v \in VMs : Told(v) => phase'[v] \in {"leaving", "gone"} \/ v \in doomed'
  <2>1. CASE Offer \/ Await
    <3>1. PICK u \in VMs, to \in {"in", "leaving", "out"} :
            /\ phase[u] \in {"wait", "in", "gone"} /\ UNCHANGED doomed
            /\ phase[u] = "gone" => UNCHANGED phase
            /\ phase[u] # "gone" => phase' = [phase EXCEPT ![u] = to]
      <4>1. Current \in VMs
        BY SMTT(30), <2>1, <1>1 DEF Offer, Await, Current, TypeOK, Inv, AwaitsTheRunner
      <4> QED
        BY SMTT(30), <2>1, <4>1 DEF Offer, Await
    <3> QED
      BY <1>1, <3>1 DEF Told, TypeOK
  <2>2. CASE UNCHANGED <<phase, doomed>>
    BY <2>2 DEF Told
  <2>3. ASSUME NEW v \in VMs, VMStep(v) PROVE \A u \in VMs : Told(u) => phase'[u] \in {"leaving", "gone"} \/ u \in doomed'
    BY <1>1, <2>3 DEF VMStep, Arrive, Finish, Close, Told, TypeOK
  <2>4. ASSUME NEW h \in Terminators, TakeTerminate(h)
        PROVE  \A u \in VMs : Told(u) => phase'[u] \in {"leaving", "gone"} \/ u \in doomed'
    BY <1>1, <2>4 DEF TakeTerminate, Told, TypeOK
  <2> QED
    BY <2>1, <2>2, <2>3, <2>4
       DEF Next, Run, Coordinate, OfferToClosed, NextRound, Pause, Resume, Call, NextElement, Return,
           TerminatorStep, SendOnClosed, SeeTermination, vars
<1>3. ASSUME call'[g] = call[g], idx'[g] = idx[g], bound'[g] = bound[g], target'[g] = target[g],
             length' <= length, length' \in Int,
             \/ call[g] # "ranging"
             \/ \A k \in Ahead(g) : array'[k] = array[k]
             \/ \E j, k \in Ahead(g) : j < k /\ array'[j] = array'[k]
      PROVE  OnItsWay(g)'
  <2>1. CASE call[g] # "ranging"
    BY <1>1, <1>2, <1>3, <2>1 DEF OnItsWay, Told
  <2>2. CASE call[g] = "ranging"
    <3>1. length' <= bound'[g]
      BY <1>1, <1>3, <2>2 DEF OnItsWay, TypeOK
    <3>2. Ahead(g)' = Ahead(g) /\ Ahead(g) \subseteq VMs
      BY <1>0, <1>3 DEF Ahead
    <3>3. target[g] # 0 => target[g] \in VMs
      BY <1>1 DEF TypeOK
    <3>4. CASE \A k \in Ahead(g) : array'[k] = array[k]
      <4>1. Stuck(g) => Stuck(g)'
        BY <1>0, <1>2, <1>3, <3>2, <3>3, <3>4 DEF Stuck, Told
      <4> QED
        BY <1>1, <1>2, <1>3, <2>2, <3>1, <3>2, <3>4, <4>1 DEF OnItsWay, Told
    <3>5. CASE \E j, k \in Ahead(g) : j < k /\ array'[j] = array'[k]
      <4>1. Stuck(g)'
        BY <3>2, <3>5 DEF Stuck
      <4> QED
        BY <1>3, <2>2, <3>1, <4>1 DEF OnItsWay
    <3> QED
      BY <1>3, <2>2, <3>4, <3>5
  <2> QED
    BY <2>1, <2>2
<1>4. length \in Int
  BY <1>1 DEF TypeOK
<1>5. CASE OfferToClosed \/ Await
  <2>1. UNCHANGED <<call, idx, bound, target>>
    BY <1>5 DEF OfferToClosed, Await
  <2>2. UNCHANGED <<array, length>> \/ (Remove(i) /\ i \in 1..length)
    BY <1>1, <1>5 DEF OfferToClosed, Await, TypeOK, Inv, AwaitsTheRunner
  <2>3. length' <= length /\ length' \in Int
    BY <1>4, <2>2 DEF Remove
  <2>4. call[g] = "ranging" => length <= bound[g]
    BY <1>1 DEF OnItsWay
  <2>5. \/ call[g] # "ranging"
        \/ \A k \in Ahead(g) : array'[k] = array[k]
        \/ \E j, k \in Ahead(g) : j < k /\ array'[j] = array'[k]
    BY <1>1, <2>2, <2>4, RemoveDoubles
  <2> QED
    BY <1>3, <2>1, <2>3, <2>5
<1>6. ASSUME UNCHANGED <<array, length, call, idx, bound, target>> PROVE OnItsWay(g)'
  BY <1>3, <1>4, <1>6
<1>7. ASSUME NEW h \in Callers, h # g,
             Call(h) \/ NextElement(h) \/ Return(h) \/ TakeTerminate(h) \/ SendOnClosed(h) \/ SeeTermination(h)
      PROVE  OnItsWay(g)'
  <2>1. UNCHANGED <<array, length>>
    BY <1>7 DEF Call, NextElement, Return, TakeTerminate, SendOnClosed, SeeTermination
  <2>2. call'[g] = call[g] /\ idx'[g] = idx[g] /\ bound'[g] = bound[g] /\ target'[g] = target[g]
    BY <1>1, <1>7 DEF Call, NextElement, Return, TakeTerminate, SendOnClosed, SeeTermination, TypeOK
  <2> QED
    BY <1>3, <1>4, <2>1, <2>2
<1>8. CASE Call(g)
  <2>1. /\ call'[g] = "ranging" /\ bound'[g] = length /\ idx'[g] = 1 /\ target'[g] = 0
        /\ UNCHANGED <<phase, doomed, array, length>>
    BY <1>1, <1>8 DEF Call, TypeOK, OnItsWay
  <2>2. \A v \in VMs : phase[v] # "gone" => \E k \in 1..length : array[k] = v
    BY DEF Inv, NobodyLost
  <2>3. Ahead(g)' = 1..length
    BY <2>1 DEF Ahead
  <2>4. \A v \in VMs : Told(v)' \/ \E k \in Ahead(g)' : array'[k] = v
    BY <2>1, <2>2, <2>3 DEF Told
  <2> QED
    BY <1>4, <2>1, <2>4 DEF OnItsWay
<1>9. CASE NextElement(g)
  <2>1. /\ call[g] = "ranging" /\ call'[g] = "ranging" /\ target[g] = 0
        /\ target'[g] = array[idx[g]] /\ idx'[g] = idx[g] + 1 /\ bound'[g] = bound[g]
        /\ idx[g] \in Ahead(g) /\ UNCHANGED <<phase, doomed, array, length>>
    BY <1>1, <1>9 DEF NextElement, Ranging, LoopEnd, TypeOK, Ahead
  <2>2. \A k \in Ahead(g) : k = idx[g] \/ k \in Ahead(g)'
    BY <1>1, <2>1 DEF Ahead, TypeOK
  <2>3. array[idx[g]] # 0 /\ \A k \in Ahead(g) : array[k] # target[g] /\ k >= idx[g]
    BY <1>0, <2>1
  <2>4. Stuck(g) => Stuck(g)'
    <3> SUFFICES ASSUME Stuck(g) PROVE Stuck(g)'
      OBVIOUS
    <3>1. CASE \E k \in Ahead(g) : Told(array[k])
      <4>1. PICK k \in Ahead(g) : Told(array[k])
        BY <3>1
      <4>2. Told(array[k])'
        BY <2>1, <4>1 DEF Told
      <4> QED
        BY <2>1, <2>2, <2>3, <4>1, <4>2 DEF Stuck
    <3>2. CASE \E j, k \in Ahead(g) : j < k /\ array[j] = array[k]
      <4>1. PICK j \in Ahead(g), k \in Ahead(g) : j < k /\ array[j] = array[k]
        BY <3>2
      <4>2. k \in Ahead(g)'
        BY <1>1, <2>1, <2>2, <2>3, <4>1 DEF Ahead, TypeOK
      <4> QED
        BY <2>1, <2>2, <4>1, <4>2 DEF Stuck
    <3> QED
      BY <2>1, <2>3, <3>1, <3>2 DEF Stuck
  <2>5. ASSUME NEW v \in VMs, Told(v) \/ target[g] = v \/ \E k \in Ahead(g) : array[k] = v
        PROVE  Told(v)' \/ target'[g] = v \/ \E k \in Ahead(g)' : array'[k] = v
    BY <2>1, <2>2, <2>5 DEF Told
  <2> QED
    BY <1>1, <2>1, <2>4, <2>5 DEF OnItsWay
<1>10. CASE Return(g)
  <2>1. /\ call[g] = "ranging" /\ call'[g] = "returned" /\ target[g] = 0 /\ Ahead(g) = {}
        /\ UNCHANGED <<phase, doomed>>
    BY <1>1, <1>10 DEF Return, Ranging, LoopEnd, TypeOK, Ahead
  <2>2. \A v \in VMs : Told(v)
    BY <1>1, <2>1 DEF OnItsWay, Stuck
  <2> QED
    BY <2>1, <2>2 DEF OnItsWay, Told
<1>11. CASE TakeTerminate(g)
  <2>1. /\ call[g] = "ranging" /\ call'[g] = "ranging" /\ target[g] \in VMs /\ target'[g] = 0
        /\ ~Told(target[g]) /\ idx'[g] = idx[g] /\ bound'[g] = bound[g] /\ UNCHANGED <<array, length>>
    BY SMTT(30), <1>1, <1>11 DEF TakeTerminate, Ranging, TypeOK, Told
  <2>2. phase'[target[g]] = "leaving" \/ target[g] \in doomed'
    BY <1>1, <1>11, <2>1 DEF TakeTerminate, TypeOK
  <2>3. Ahead(g)' = Ahead(g) /\ \A k \in Ahead(g) : array[k] \in VMs
    BY <1>0, <2>1 DEF Ahead
  <2>4. Stuck(g) => Stuck(g)'
    BY <1>2, <2>1, <2>2, <2>3 DEF Stuck, Told
  <2>5. ASSUME NEW v \in VMs, Told(v) \/ target[g] = v \/ \E k \in Ahead(g) : array[k] = v
        PROVE  Told(v)' \/ target'[g] = v \/ \E k \in Ahead(g)' : array'[k] = v
    BY <1>2, <2>1, <2>2, <2>3, <2>5 DEF Told
  <2> QED
    BY <1>1, <2>1, <2>4, <2>5 DEF OnItsWay
<1>12. CASE SendOnClosed(g)
  BY <1>1, <1>12 DEF SendOnClosed, OnItsWay, TypeOK
<1>13. g \notin Waiters
  BY CoordinatorAssumption
<1> QED
  BY <1>5, <1>6, <1>7, <1>8, <1>9, <1>10, <1>11, <1>12, <1>13
     DEF Next, Run, Coordinate, Offer, NextRound, VMStep, Arrive, Finish, Close, Pause, Resume,
         TerminatorStep, vars, Callers

(* Whenever Terminate returns every VM has been told to stop, although the *)
(* coordinator shifts the array under it: rather than miss one it blocks   *)
(* or panics.                                                              *)
THEOREM TerminateTellsAll == Spec => []TerminateReachesAll
<1>1. Init => TellsAll
  BY DEF Init, TellsAll, OnItsWay, Callers
<1>2. TellsAll => TerminateReachesAll
  BY DEF TellsAll, OnItsWay, TerminateReachesAll, Told
<1> QED
  BY <1>1, <1>2, StepTells, Invariance, PTL DEF Spec
-----------------------------------------------------------------------------
(***************************************************************************)
(* A round.  Of the VMs it has passed, those without a line are at most as *)
(* many as were removed: remove() moves one VM to a place already passed.  *)
(***************************************************************************)
Passed == {array[k] : k \in {j \in 1..length : j < i}}
RoundOK ==
  /\ length <= roundLength
  /\ cpc = "await" => Current \in served
  /\ Cardinality(Passed \ served) <= roundLength - length

(* Each step of the coordinator keeps count, and no one else disturbs it.  *)
LEMMA StepRound == Inv /\ RoundOK /\ [Next]_vars => RoundOK'
<1> SUFFICES ASSUME Inv, RoundOK, [Next]_vars PROVE RoundOK'
  OBVIOUS
<1> USE VMsAreNumbers DEF vmVars, coordVars, callerVars, history
<1>1. /\ length \in 0..N /\ i \in 1..(N + 1) /\ array \in [VMs -> VMs] /\ roundLength \in 0..N
      /\ served \subseteq VMs
  BY DEF Inv, TypeOK
<1>2. IsFiniteSet(VMs) /\ Passed \subseteq VMs
  <2>1. \A k \in 1..length : array[k] \in VMs
    BY <1>1
  <2>2. IsFiniteSet(1..N)
    BY FS_Interval
  <2> QED
    BY <2>1, <2>2 DEF Passed
<1>3. /\ IsFiniteSet(Passed \ served) /\ Cardinality(Passed \ served) \in Nat
      /\ Cardinality(Passed \ served) <= roundLength - length
  BY <1>2, FS_Subset, FS_CardinalityType DEF RoundOK
<1>4. ASSUME NEW S \in SUBSET (Passed \ served), Passed' \ served' = S,
             UNCHANGED <<length, roundLength>>, cpc' = "await" => Current' \in served'
      PROVE  RoundOK'
  <2>1. Cardinality(S) \in Nat /\ Cardinality(S) <= Cardinality(Passed \ served)
    BY <1>3, FS_Subset, FS_CardinalityType
  <2>2. Cardinality(S) <= roundLength - length
    BY <1>1, <1>3, <2>1
  <2>3. Cardinality(Passed' \ served') <= roundLength' - length'
    BY <1>4, <2>2
  <2>4. length' <= roundLength'
    BY <1>4 DEF RoundOK
  <2> QED
    BY <1>4, <2>3, <2>4 DEF RoundOK
<1>5. CASE Offer
  <2>1. /\ served' = served \union {Current} /\ UNCHANGED <<array, length, i, roundLength>>
    BY <1>5 DEF Offer
  <2>2. Passed' = Passed /\ Current' = Current
    BY <2>1 DEF Passed, Current
  <2> QED
    BY <1>4, <2>1, <2>2
<1>6. CASE OfferToClosed
  <2>1. /\ i \in 1..length /\ Remove(i) /\ i' = i + 1 /\ cpc' = "offer" /\ UNCHANGED <<served, roundLength>>
    BY <1>1, <1>6 DEF OfferToClosed
  <2>2. PICK x \in VMs : x = IF i < length THEN array[i + 1] ELSE array[i]
    BY <1>1, <2>1
  <2>3. /\ length' = length - 1
        /\ \A k \in 1..length' : k < i' => (array'[k] = array[k] /\ k < i) \/ array'[k] = x
    BY <1>1, <2>1, <2>2 DEF Remove
  <2>4. Passed' \ served' \subseteq (Passed \ served) \union {x}
    BY <1>1, <2>1, <2>3 DEF Passed
  <2>5. /\ IsFiniteSet((Passed \ served) \union {x})
        /\ Cardinality((Passed \ served) \union {x}) <= Cardinality(Passed \ served) + 1
        /\ Cardinality((Passed \ served) \union {x}) \in Nat
    <3>1. ASSUME NEW A, IsFiniteSet(A), NEW y
          PROVE  IsFiniteSet(A \union {y}) /\ Cardinality(A \union {y}) <= Cardinality(A) + 1
      <4>1. Cardinality(A) \in Nat
        BY <3>1, FS_CardinalityType
      <4>2. y \in A => A \union {y} = A
        OBVIOUS
      <4> QED
        BY <3>1, <4>1, <4>2, FS_AddElement
    <3> QED
      BY <1>3, <3>1, FS_CardinalityType
  <2>6. PICK S \in SUBSET ((Passed \ served) \union {x}) : Passed' \ served' = S
    BY <2>4
  <2>7. Cardinality(S) \in Nat /\ Cardinality(S) <= Cardinality(Passed \ served) + 1
    BY <1>3, <2>5, FS_Subset, FS_CardinalityType
  <2>8. Cardinality(Passed' \ served') <= roundLength' - length'
    <3>1. roundLength' = roundLength /\ length' = length - 1
      BY <2>1, <2>3
    <3>2. Cardinality(S) <= roundLength - (length - 1)
      BY <1>1, <1>3, <2>7
    <3> QED
      BY <2>6, <3>1, <3>2
  <2> QED
    BY <1>1, <2>1, <2>3, <2>8 DEF RoundOK
<1>7. CASE Await
  <2>1. /\ phase[Current] = "in" /\ i <= length /\ Current \in served
    BY <1>7 DEF Await, Inv, AwaitsTheRunner, RoundOK
  <2>2. /\ i' = i + 1 /\ cpc' = "offer" /\ UNCHANGED <<array, length, served, roundLength>>
    BY <1>7, <2>1 DEF Await
  <2>3. Passed' \subseteq Passed \union {array[i]} /\ array[i] \in served
    <3>1. \A k \in 1..length : k < i' => k < i \/ k = i
      BY <1>1, <2>2
    <3> QED
      BY <2>1, <2>2, <3>1 DEF Passed, Current
  <2>4. PICK S \in SUBSET (Passed \ served) : Passed' \ served' = S
    BY <2>2, <2>3
  <2> QED
    BY <1>4, <2>2, <2>4
<1>8. CASE NextRound
  <2>1. /\ UNCHANGED <<array, length>> /\ cpc' # "await" /\ served' = {} /\ roundLength' = length
        /\ length = 0 \/ i' = 1
    BY <1>8 DEF NextRound
  <2>2. Passed' = {}
    BY <1>1, <2>1 DEF Passed
  <2>3. Cardinality(Passed' \ served') = 0
    BY <2>2, FS_EmptySet
  <2> QED
    BY <1>1, <2>1, <2>3 DEF RoundOK
<1>9. CASE UNCHANGED <<array, length, i, served, roundLength>> /\ (cpc' = cpc \/ cpc' = "offer")
  <2>1. Passed' = Passed /\ Current' = Current
    BY <1>9 DEF Passed, Current
  <2> QED
    BY <1>4, <1>9, <2>1 DEF RoundOK
<1> QED
  BY <1>5, <1>6, <1>7, <1>8, <1>9
     DEF Next, Run, Coordinate, VMStep, Arrive, Finish, Close, Pause, Resume, Call, NextElement, Return,
         TerminatorStep, TakeTerminate, SendOnClosed, SeeTermination, vars

(* However many VMs end in a round, no more VMs miss their turn.           *)
THEOREM RoundServes == Spec => []EveryoneServed
<1>1. Init => RoundOK
  <2> SUFFICES ASSUME Init PROVE RoundOK
    OBVIOUS
  <2>1. Passed \ served = {} /\ length = N /\ roundLength = N /\ cpc = "idle"
    BY VMsAreNumbers DEF Init, Passed
  <2> QED
    BY <2>1, VMsAreNumbers, FS_EmptySet DEF RoundOK
<1>2. Inv /\ RoundOK => EveryoneServed
  <2> SUFFICES ASSUME Inv, RoundOK, i > length PROVE Cardinality(Registered \ served) <= roundLength - length
    BY DEF EveryoneServed
  <2>1. Registered = Passed
    BY DEF Inv, TypeOK, Registered, Passed
  <2> QED
    BY <2>1 DEF RoundOK
<1> QED
  BY <1>1, <1>2, StepRound, Invariance, PTL DEF Spec

-----------------------------------------------------------------------------
(* Every step of the model is, for every VM, a step its lifecycle allows:  *)
(* the coordinator and its callers ask nothing else of a VM.               *)
THEOREM VMsKeepContract == Spec => VMContract
<1>1. Init => \A v \in VMs : Contract(v)!Init
  BY DEF Init, Contract!Init
<1>2. Inv /\ [Next]_vars => [\A v \in VMs : [Contract(v)!Next]_<<phase[v], paused[v]>>]_vmVars
  <2> SUFFICES ASSUME Inv, [Next]_vars, NEW v \in VMs
               PROVE  Contract(v)!Next \/ UNCHANGED <<phase[v], paused[v]>>
    OBVIOUS
  <2> USE VMsAreNumbers DEF vmVars, coordVars, callerVars, history
  <2>1. TypeOK
    BY DEF Inv
  <2>2. CASE UNCHANGED <<phase, paused>>
    BY <2>2
  <2>3. ASSUME NEW u \in VMs, u # v, NEW to, phase' = [phase EXCEPT ![u] = to],
               paused' = paused \/ paused' = [paused EXCEPT ![u] = FALSE]
        PROVE  UNCHANGED <<phase[v], paused[v]>>
    BY <2>1, <2>3 DEF TypeOK
  <2>4. CASE Offer
    <3>1. Current \in VMs /\ phase' = [phase EXCEPT ![Current] = "in"] /\ paused' = paused
          /\ phase[Current] = "wait" /\ ~paused[Current]
      BY <2>1, <2>4 DEF Offer, Current, TypeOK
    <3>2. CASE v = Current
      BY <2>1, <3>1, <3>2 DEF TypeOK, Contract!Next, Contract!Grant, Contract!Moves
    <3>3. CASE v # Current
      BY <2>3, <3>1, <3>3
    <3> QED
      BY <3>2, <3>3
  <2>5. CASE Await
    <3>1. PICK to \in {"out", "leaving"} :
            /\ Current \in VMs /\ phase' = [phase EXCEPT ![Current] = to] /\ paused' = paused
            /\ phase[Current] = "in" /\ ~paused[Current]
      <4>1. Current \in VMs /\ phase[Current] = "in"
        BY <2>1, <2>5 DEF Await, Current, TypeOK, Inv, AwaitsTheRunner
      <4> QED
        BY <2>5, <4>1 DEF Await
    <3>2. CASE v = Current
      BY <2>1, <3>1, <3>2 DEF TypeOK, Contract!Next, Contract!Report, Contract!Moves
    <3>3. CASE v # Current
      BY <2>3, <3>1, <3>3
    <3> QED
      BY <3>2, <3>3
  <2>6. ASSUME NEW u \in VMs, VMStep(u) \/ Pause(u) \/ Resume(u)
        PROVE  Contract(v)!Next \/ UNCHANGED <<phase[v], paused[v]>>
    <3>1. CASE u # v
      BY <2>1, <2>6, <3>1 DEF VMStep, Arrive, Finish, Close, Pause, Resume, TypeOK
    <3>2. CASE u = v
      <4>1. CASE Arrive(v)
        BY <2>1, <4>1 DEF Arrive, TypeOK, Contract!Next, Contract!Arrive, Contract!Moves
      <4>2. CASE Finish(v)
        BY <2>1, <4>2 DEF Finish, TypeOK, Contract!Next, Contract!Leave
      <4>3. CASE Close(v)
        BY <2>1, <4>3 DEF Close, TypeOK, Contract!Next, Contract!Close, Contract!Moves
      <4>4. CASE Pause(v)
        BY <2>1, <4>4 DEF Pause, TypeOK, Contract!Next, Contract!Pause
      <4>5. CASE Resume(v)
        BY <2>1, <4>5 DEF Resume, TypeOK, Contract!Next, Contract!Resume
      <4> QED
        BY <2>6, <3>2, <4>1, <4>2, <4>3, <4>4, <4>5 DEF VMStep
    <3> QED
      BY <3>1, <3>2
  <2>7. ASSUME NEW g \in Terminators, TakeTerminate(g)
        PROVE  Contract(v)!Next \/ UNCHANGED <<phase[v], paused[v]>>
    <3>1. g \in Callers /\ target[g] \in VMs
      BY <2>1, <2>7 DEF Callers, TakeTerminate, VMs, TypeOK
    <3>2. paused' = [paused EXCEPT ![target[g]] = FALSE]
      BY <2>7 DEF TakeTerminate
    <3>3. \/ phase[target[g]] = "in" /\ phase' = phase
          \/ phase[target[g]] \in {"out", "wait"} /\ phase' = [phase EXCEPT ![target[g]] = "leaving"]
      BY <2>7 DEF TakeTerminate
    <3>4. CASE v # target[g]
      BY <2>1, <3>1, <3>2, <3>3, <3>4 DEF TypeOK
    <3>5. CASE v = target[g] /\ phase[v] = "in"
      BY <2>1, <3>2, <3>3, <3>5 DEF TypeOK, Contract!Next, Contract!Resume
    <3>6. CASE v = target[g] /\ phase[v] # "in"
      BY <2>1, <3>2, <3>3, <3>6 DEF TypeOK, Contract!Next, Contract!Leave
    <3> QED
      BY <3>4, <3>5, <3>6
  <2> QED
    BY <2>2, <2>4, <2>5, <2>6, <2>7
       DEF Next, Run, Coordinate, OfferToClosed, NextRound, Call, NextElement, Return,
           TerminatorStep, SendOnClosed, SeeTermination, vars
<1> QED
  BY <1>1, <1>2, Invariance, PTL DEF Spec, VMContract

-----------------------------------------------------------------------------
(***************************************************************************)
(* When one Terminate is harmless.  Who has been told to stop has been     *)
(* told by it, and the VMs ahead of it are different and have not been     *)
(* told.  remove() takes out only a VM that has been told, which lies      *)
(* behind; with two VMs it shifts the last one to a place behind, too.     *)
(***************************************************************************)
OnlyOnce(g) ==
  /\ call[g] = "idle" => target[g] = 0 /\ idx[g] = 1 /\ \A v \in VMs : ~Told(v)
  /\ call[g] = "ranging" =>
       /\ length <= bound[g]
       /\ target[g] # 0 => ~Told(target[g])
       /\ \A k \in Ahead(g) : ~Told(array[k]) /\ array[k] # target[g]
       /\ \A j, k \in Ahead(g) : array[j] = array[k] => j = k
TellsOnce == Alive /\ \A g \in Terminators : OnlyOnce(g)
Alone == N <= 2 /\ ~MayEnd /\ (\A g, h \in Terminators : g = h)

(* Each step keeps it so.                                                  *)
LEMMA StepOnlyOnce == Alone /\ Inv /\ TellsOnce /\ [Next]_vars => TellsOnce'
<1> SUFFICES ASSUME Alone, Inv, TellsOnce, [Next]_vars PROVE TellsOnce'
  OBVIOUS
<1> USE VMsAreNumbers DEF vmVars, coordVars, callerVars, history
<1>1. TypeOK /\ Terminators \subseteq Callers
  BY DEF Inv, Callers
<1>2. \A g \in Terminators : \A k \in Ahead(g) : k \in VMs /\ array[k] \in VMs /\ k >= idx[g]
  <2>1. \A g \in Terminators : idx[g] \in 1..(N + 1) /\ bound[g] \in 0..N
    BY <1>1 DEF TypeOK
  <2>2. \A g \in Terminators : Ahead(g) \subseteq VMs /\ \A k \in Ahead(g) : k >= idx[g]
    BY <2>1 DEF Ahead
  <2> QED
    BY <1>1, <2>2 DEF TypeOK
<1>3. ASSUME \A v \in VMs : Told(v)' => Told(v), UNCHANGED <<array, length, callerVars>>
      PROVE  TellsOnce'
  <2>1. \A g \in Terminators : Ahead(g)' = Ahead(g)
    BY <1>3 DEF Ahead
  <2>2. \A g \in Terminators : target[g] # 0 => target[g] \in VMs
    BY <1>1 DEF TypeOK
  <2> QED
    BY <1>2, <1>3, <2>1, <2>2 DEF TellsOnce, OnlyOnce, Alive
<1>4. ASSUME NEW r \in 1..length, Remove(r), Told(array[r]), UNCHANGED <<vmVars, callerVars>>
      PROVE  TellsOnce'
  <2>1. ASSUME NEW g \in Terminators PROVE OnlyOnce(g)'
    <3>1. OnlyOnce(g) /\ length \in 1..2 /\ length' = length - 1 /\ array[r] \in VMs
      <4>1. length \in 0..N /\ array \in [VMs -> VMs] /\ N \in 1..2
        BY <1>1 DEF TypeOK, Alone
      <4>2. length \in 1..2 /\ r \in VMs
        BY <4>1
      <4> QED
        BY <1>4, <4>1, <4>2 DEF TellsOnce, Remove
    <3>2. \A v \in VMs : Told(v)' <=> Told(v)
      BY <1>4 DEF Told
    <3>3. call[g] # "idle"
      BY <1>4, <3>1 DEF OnlyOnce
    <3>4. ASSUME call[g] = "ranging" PROVE \A k \in Ahead(g) : array'[k] = array[k]
      <4>1. r \notin Ahead(g)
        BY <1>4, <3>1, <3>4 DEF OnlyOnce
      <4>2. \A k \in Ahead(g) : k \in 1..2 /\ k # r
        BY <1>2, <4>1 DEF Alone
      <4>3. \A k \in Ahead(g) : ~(r <= k /\ k < length)
        BY <1>4, <3>1, <4>2
      <4> QED
        BY <1>2, <1>4, <4>3 DEF Remove
    <3>5. Ahead(g)' = Ahead(g)
      BY <1>4 DEF Ahead
    <3>6. target[g] # 0 => target[g] \in VMs
      BY <1>1 DEF TypeOK
    <3>7. bound[g] \in 0..N
      BY <1>1 DEF TypeOK
    <3>8. call[g] = "ranging" => length' <= bound'[g]
      BY <1>4, <3>1, <3>7 DEF OnlyOnce
    <3> QED
      BY <1>2, <1>4, <3>1, <3>2, <3>3, <3>4, <3>5, <3>6, <3>8 DEF OnlyOnce
  <2> QED
    BY <1>4, <2>1 DEF TellsOnce, Alive
<1>5. CASE Offer \/ Await
  <2>1. Current \in VMs
    BY <1>5, <1>1 DEF Offer, Await, Current, TypeOK, Inv, AwaitsTheRunner
  <2>2. \A v \in VMs : Told(v)' => Told(v)
    BY <1>1, <1>5, <2>1 DEF Offer, Await, Told, TypeOK, Inv, AwaitsTheRunner
  <2>3. UNCHANGED <<array, length, callerVars>>
    BY <1>5 DEF Offer, Await, Inv, AwaitsTheRunner
  <2> QED
    BY <1>3, <2>2, <2>3
<1>6. CASE OfferToClosed
  <2>1. i \in 1..length /\ Remove(i) /\ Told(array[i]) /\ UNCHANGED <<vmVars, callerVars>>
    BY <1>1, <1>6 DEF OfferToClosed, Current, Told, TypeOK
  <2> QED
    BY <1>4, <2>1
<1>7. CASE Run \/ NextRound \/ UNCHANGED vars
  BY <1>3, <1>7 DEF Run, NextRound, vars, Told
<1>8. ASSUME NEW v \in VMs, VMStep(v) \/ Pause(v) \/ Resume(v) PROVE TellsOnce'
  <2>1. \A u \in VMs : Told(u)' => Told(u)
    BY <1>1, <1>8 DEF VMStep, Arrive, Finish, Close, Pause, Resume, Told, TypeOK, Alone
  <2>2. UNCHANGED <<array, length, callerVars>>
    BY <1>8 DEF VMStep, Arrive, Finish, Close, Pause, Resume
  <2> QED
    BY <1>3, <2>1, <2>2
<1>9. ASSUME NEW g \in Callers, UNCHANGED <<vmVars, array, length>>,
              \A h \in Callers : h # g => /\ call'[h] = call[h] /\ idx'[h] = idx[h]
                                          /\ bound'[h] = bound[h] /\ target'[h] = target[h],
              g \in Terminators => OnlyOnce(g)', Alive'
       PROVE  TellsOnce'
  <2>1. \A v \in VMs : Told(v)' <=> Told(v)
    BY <1>9 DEF Told
  <2>2. ASSUME NEW h \in Terminators, h # g PROVE OnlyOnce(h)'
    <3>1. /\ OnlyOnce(h) /\ Ahead(h)' = Ahead(h) /\ (target[h] # 0 => target[h] \in VMs)
          /\ call'[h] = call[h] /\ idx'[h] = idx[h] /\ bound'[h] = bound[h] /\ target'[h] = target[h]
      BY <1>1, <1>9, <2>2 DEF Ahead, TellsOnce, TypeOK
    <3> QED
      BY <1>2, <1>9, <2>1, <3>1 DEF OnlyOnce
  <2> QED
    BY <1>9, <2>2 DEF TellsOnce
<1>10. ASSUME NEW g \in Callers, Call(g) PROVE TellsOnce'
  <2>1. ASSUME g \in Terminators PROVE OnlyOnce(g)'
    <3>1. /\ OnlyOnce(g) /\ call[g] = "idle" /\ call'[g] = "ranging" /\ bound'[g] = length
          /\ idx'[g] = 1 /\ target'[g] = 0 /\ UNCHANGED <<vmVars, array, length>> /\ length \in 0..N
      BY <1>1, <1>10, <2>1 DEF Call, TellsOnce, OnlyOnce, TypeOK
    <3>2. Ahead(g)' = 1..length
      BY <3>1 DEF Ahead
    <3>3. \A k \in 1..length : k \in VMs /\ array[k] \in VMs
      BY <1>1, <3>1 DEF TypeOK
    <3>4. \A v \in VMs : ~Told(v)'
      BY <3>1 DEF OnlyOnce, Told
    <3> QED
      BY <3>1, <3>2, <3>3, <3>4 DEF OnlyOnce, Inv, NobodyLost
  <2>2. Alive'
    BY <1>1, <1>10 DEF Call, Alive, TellsOnce, TypeOK
  <2> QED
    BY <1>1, <1>9, <1>10, <2>1, <2>2 DEF Call, TypeOK
<1>11. ASSUME NEW g \in Callers, NextElement(g) PROVE TellsOnce'
  <2>1. ASSUME g \in Terminators PROVE OnlyOnce(g)'
    <3>1. /\ OnlyOnce(g) /\ call[g] = "ranging" /\ call'[g] = "ranging" /\ idx[g] \in 1..bound[g]
          /\ idx'[g] = idx[g] + 1 /\ target'[g] = array[idx[g]]
          /\ bound'[g] = bound[g] /\ bound[g] \in 0..N /\ UNCHANGED <<vmVars, array, length>>
      <4>1. idx[g] \in 1..(N + 1) /\ bound[g] \in 0..N /\ idx[g] <= bound[g]
        BY <1>1, <1>11 DEF NextElement, LoopEnd, TypeOK
      <4>2. idx' = [idx EXCEPT ![g] = @ + 1] /\ target' = [target EXCEPT ![g] = array[idx[g]]]
            /\ UNCHANGED <<vmVars, array, length, call, bound>> /\ call[g] = "ranging"
        BY <1>11 DEF NextElement, Ranging
      <4> QED
        BY <1>1, <2>1, <4>1, <4>2 DEF TellsOnce, TypeOK
    <3>2. idx[g] \in Ahead(g) /\ Ahead(g)' \subseteq Ahead(g) /\ idx[g] \notin Ahead(g)'
      BY <3>1 DEF Ahead
    <3>3. \A v \in VMs : Told(v)' <=> Told(v)
      BY <3>1 DEF Told
    <3> QED
      BY <1>2, <2>1, <3>1, <3>2, <3>3 DEF OnlyOnce
  <2>2. Alive'
    BY <1>11 DEF NextElement, Ranging, Alive
  <2> QED
    BY <1>1, <1>9, <1>11, <2>1, <2>2 DEF NextElement, TypeOK
<1>12. ASSUME NEW g \in Callers, Return(g) PROVE TellsOnce'
  <2>1. g \in Terminators => OnlyOnce(g)'
    BY <1>1, <1>12 DEF Return, OnlyOnce, TypeOK
  <2>2. Alive'
    BY <1>1, <1>12 DEF Return, Ranging, Alive, TypeOK
  <2> QED
    BY <1>1, <1>9, <1>12, <2>1, <2>2 DEF Return, TypeOK
<1>13. ASSUME NEW g \in Waiters, SeeTermination(g) PROVE TellsOnce'
  <2>1. g \in Callers /\ g \notin Terminators
    BY CoordinatorAssumption DEF Callers
  <2>2. Alive'
    BY <1>13 DEF SeeTermination, Ranging, Alive
  <2> QED
    BY <1>1, <1>9, <1>13, <2>1, <2>2 DEF SeeTermination, TypeOK
<1>14. ASSUME NEW g \in Terminators, SendOnClosed(g) PROVE TellsOnce'
  <2>1. target[g] # 0 /\ Told(target[g]) /\ call[g] = "ranging"
    BY <1>14 DEF SendOnClosed, Ranging, Told
  <2> QED
    BY <2>1 DEF TellsOnce, OnlyOnce
<1>15. ASSUME NEW g \in Terminators, TakeTerminate(g) PROVE TellsOnce'
  <2>1. /\ OnlyOnce(g) /\ call[g] = "ranging" /\ target[g] \in VMs
        /\ target' = [target EXCEPT ![g] = 0] /\ UNCHANGED <<array, length, call, idx, bound>>
    BY <1>1, <1>15 DEF TakeTerminate, Ranging, TellsOnce, TypeOK
  <2>2. PICK u \in VMs : u = target[g]
    BY <2>1
  <2>3. \A v \in VMs : Told(v)' => Told(v) \/ v = u
    <3>1. \/ doomed' = doomed \union {u} /\ phase' = phase
          \/ phase' = [phase EXCEPT ![u] = "leaving"] /\ doomed' = doomed
      BY <1>15, <2>2 DEF TakeTerminate
    <3>2. \A v \in VMs : v # u => phase'[v] = phase[v]
      BY <1>1, <3>1 DEF TypeOK
    <3> QED
      BY <3>1, <3>2 DEF Told
  <2>4. Ahead(g)' = Ahead(g) /\ target'[g] = 0
    BY <1>1, <2>1 DEF Ahead, TypeOK
  <2>5. \A k \in Ahead(g) : ~Told(array[k])' /\ array[k] \in VMs /\ array'[k] = array[k]
    BY <1>2, <2>1, <2>2, <2>3 DEF OnlyOnce
  <2>6. OnlyOnce(g)'
    BY <2>1, <2>4, <2>5 DEF OnlyOnce
  <2> QED
    BY <2>1, <2>6 DEF TellsOnce, Alone, Alive
<1> QED
  BY <1>5, <1>6, <1>7, <1>8, <1>10, <1>11, <1>12, <1>13, <1>14, <1>15
     DEF Next, Coordinate, TerminatorStep

(* A single Terminate on at most two VMs that do not end on their own      *)
(* never sends on a channel that is closed.  With three VMs it may: the    *)
(* shift of remove() can put the last one ahead of the loop twice.         *)
THEOREM TwoAreSafe == ASSUME Alone PROVE Spec => []NobodyPanics
<1>1. Init => TellsOnce
  BY VMsAreNumbers DEF Init, TellsOnce, OnlyOnce, Alive, Told, Callers
<1>2. TellsOnce => NobodyPanics
  BY DEF TellsOnce, NobodyPanics
<1> QED
  BY <1>1, <1>2, StepOnlyOnce, Invariance, PTL DEF Spec
===============================================================================
