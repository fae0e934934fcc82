---------------------------- MODULE JsonRpc_proofs ----------------------------
(***************************************************************************)
(* Theorems about JsonRpc for all sets of callers at either end.           *)
(***************************************************************************)
EXTENDS JsonRpc, FiniteSetTheorems, SequenceTheorems, TLAPS

(***************************************************************************)
(* The inductive invariant.  A call and its response are one token that    *)
(* travels from end to end: it lies at place k > 0 of a stream, or (place  *)
(* 0) in the hand of the goroutine that reads it.                          *)
(***************************************************************************)
Places(e) == 0..Len(wire[e])
Carried(e, k) == IF k = 0 THEN inHand[e] ELSE {wire[e][k]}
IsToken(m) == m.kind # "notify"

(* Ids are given out once: seq counts the goroutines that have one.        *)
HasId(e) == {g \in Callers : Home(g) = e /\ call[g] \notin {"idle", "notified"}}
IdsUnique ==
  /\ \A e \in Ends : seq[e] = Cardinality(HasId(e))
  /\ \A e \in Ends : \A g \in HasId(e) : id[g] \in 1..seq[e]
  /\ \A e \in Ends : \A g, h \in HasId(e) : id[g] = id[h] => g = h

(* A token carries the id of the call it is about, which was sent and has  *)
(* not been answered; a call is on its way to the other end, a response to *)
(* the caller's.                                                           *)
TokenTrue(e, m) ==
  /\ id[m.of] = m.id /\ call[m.of] \in {"waiting", "leaving", "gaveup"}
  /\ Home(m.of) = IF m.kind = "call" THEN Peer(e) ELSE e
TokensTrue ==
  \A e \in Ends : \A k \in Places(e) : \A m \in Carried(e, k) :
    IsToken(m) => TokenTrue(e, m)

(* There is only one token for every call.                                 *)
TokensOnce ==
  \A d, e \in Ends : \A j \in Places(d), k \in Places(e) :
    \A m \in Carried(d, j), n \in Carried(e, k) :
      (IsToken(m) /\ IsToken(n) /\ m.of = n.of) => d = e /\ j = k

(* What the reading goroutine has in hand, and whom it delivers to.        *)
LoopOK ==
  \A e \in Ends :
    /\ loop[e] \in {"reading", "returned"} => inHand[e] = {} /\ rchan[e] = {}
    /\ loop[e] = "handling" =>
         rchan[e] = {} /\ \E m \in Messages : inHand[e] = {m} /\ m.kind # "response"
    /\ loop[e] = "delivering" =>
         \E m \in Messages :
           /\ inHand[e] = {m} /\ m.kind = "response" /\ rchan[e] \subseteq {m.of}
           /\ \A p \in pending[e] : p[1] # m.id

(* Whoever waits is pending, or about to get the response.                 *)
WaitingIsPending ==
  \A g \in Callers : call[g] \in {"registered", "waiting"} =>
    <<id[g], g>> \in pending[Home(g)] \/ g \in rchan[Home(g)]

Inv ==
  /\ TypeOK /\ IdsUnique /\ TokensTrue /\ TokensOnce /\ LoopOK
  /\ NothingLeftPending /\ WaitingIsPending /\ OwnAnswer

-----------------------------------------------------------------------------
(* Who is at home where; every caller has a home.                          *)
LEMMA Homes ==
  /\ IsFiniteSet(Callers) /\ Cardinality(Callers) \in Nat
  /\ \A g \in Callers : Home(g) \in Ends
  /\ \A e \in Ends : Peer(e) \in Ends /\ Peer(e) # e /\ Peer(Peer(e)) = e
<1>1. IsFiniteSet(Callers)
  BY RpcAssumption, FS_Union DEF Callers
<1> QED
  BY <1>1, FS_CardinalityType DEF Home, Ends, Peer

(* Appending to a stream adds the message at a place of its own.           *)
LEMMA WriteAdds ==
  ASSUME TypeOK, NEW e \in Ends, NEW m \in Messages, Write(e, m)
  PROVE  /\ wire' \in [Ends -> Seq(Messages)]
         /\ \A d \in Ends : \A k \in Places(d)' \ {0} :
              \/ k \in Places(d) /\ Carried(d, k)' = Carried(d, k)
              \/ d = e /\ k \notin Places(e) /\ k = Len(wire[e]) + 1 /\ Carried(d, k)' = {m}
<1>1. \A d \in Ends : wire[d] \in Seq(Messages) /\ Len(wire[d]) \in Nat
  BY LenProperties DEF TypeOK
<1>2. CASE open
  <2>1. wire' = [wire EXCEPT ![e] = Append(wire[e], m)]
    BY <1>2 DEF Write
  <2>2. /\ Append(wire[e], m) \in Seq(Messages)
        /\ Len(Append(wire[e], m)) = Len(wire[e]) + 1
        /\ \A k \in 1..Len(wire[e]) : Append(wire[e], m)[k] = wire[e][k]
        /\ Append(wire[e], m)[Len(wire[e]) + 1] = m
    BY <1>1, AppendProperties
  <2>3. wire'[e] = Append(wire[e], m) /\ \A d \in Ends : d # e => wire'[d] = wire[d]
    BY <2>1 DEF TypeOK
  <2>4. wire' \in [Ends -> Seq(Messages)]
    BY <2>1, <2>2 DEF TypeOK
  <2>5. ASSUME NEW k \in Places(e)' \ {0}
        PROVE  \/ k \in Places(e) /\ Carried(e, k)' = Carried(e, k)
               \/ k \notin Places(e) /\ k = Len(wire[e]) + 1 /\ Carried(e, k)' = {m}
    BY <1>1, <2>2, <2>3 DEF Places, Carried
  <2>6. ASSUME NEW d \in Ends \ {e}, NEW k \in Places(d)' \ {0}
        PROVE  k \in Places(d) /\ Carried(d, k)' = Carried(d, k)
    BY <2>3 DEF Places, Carried
  <2> QED
    BY <2>4, <2>5, <2>6
<1>3. CASE ~open
  <2>1. wire' = wire
    BY <1>3 DEF Write, TypeOK
  <2> QED
    BY <1>1, <2>1 DEF TypeOK, Places, Carried
<1> QED
  BY <1>2, <1>3

(* Reading moves every message of a stream one place towards the hand.     *)
LEMMA ReadShifts ==
  ASSUME TypeOK, LoopOK, NEW e \in Ends, Read(e)
  PROVE  /\ wire' \in [Ends -> Seq(Messages)]
         /\ Head(wire[e]) \in Messages /\ inHand' = [inHand EXCEPT ![e] = {Head(wire[e])}]
         /\ Len(wire[e]) \in Nat /\ Len(wire'[e]) = Len(wire[e]) - 1
         /\ \A k \in Places(e)' : k + 1 \in Places(e) /\ Carried(e, k)' = Carried(e, k + 1)
         /\ \A d \in Ends \ {e} : Places(d)' = Places(d)
         /\ \A d \in Ends \ {e} : \A k \in Places(d) : Carried(d, k)' = Carried(d, k)
<1> DEFINE w == wire[e]
<1>1. w \in Seq(Messages) /\ w # <<>>
  BY DEF Read, TypeOK
<1>2. /\ Head(w) \in Messages /\ Tail(w) \in Seq(Messages) /\ Len(w) \in Nat
      /\ Len(Tail(w)) = Len(w) - 1 /\ \A k \in 1..Len(Tail(w)) : Tail(w)[k] = w[k + 1]
  BY <1>1, HeadTailProperties, LenProperties
<1>3. Head(w) = w[1]
  BY <1>1
<1>4. wire' = [wire EXCEPT ![e] = Tail(w)] /\ inHand' = [inHand EXCEPT ![e] = {Head(w)}]
  BY DEF Read
<1>5. /\ wire'[e] = Tail(w) /\ inHand'[e] = {Head(w)}
      /\ \A d \in Ends \ {e} : wire'[d] = wire[d] /\ inHand'[d] = inHand[d]
  BY <1>4 DEF TypeOK
<1>6. wire' \in [Ends -> Seq(Messages)]
  BY <1>2, <1>4 DEF TypeOK
<1>7. ASSUME NEW k \in Places(e)'
      PROVE  k + 1 \in Places(e) /\ Carried(e, k)' = Carried(e, k + 1)
  <2>1. k \in Nat /\ k + 1 \in Places(e)
    BY <1>2, <1>5 DEF Places
  <2>2. CASE k = 0
    BY <2>1, <2>2, <1>3, <1>5 DEF Carried
  <2>3. CASE k # 0
    BY <2>1, <2>3, <1>2, <1>5 DEF Carried, Places
  <2> QED
    BY <2>1, <2>2, <2>3
<1> QED
  BY <1>2, <1>4, <1>5, <1>6, <1>7 DEF Places, Carried

(* The cleanup of a call takes its id out of the table of its end.         *)
LEMMA ForgetTakesOut ==
  ASSUME TypeOK, NEW g \in Callers, Forget(g)
  PROVE  /\ pending' \in [Ends -> SUBSET (Ids \X Callers)]
         /\ \A e \in Ends : \A p : p \in pending'[e] <=> p \in pending[e] /\ (e = Home(g) => p[1] # id[g])
<1>1. pending' = [pending EXCEPT ![Home(g)] = {p \in pending[Home(g)] : p[1] # id[g]}]
  BY DEF Forget, Without
<1> QED
  BY <1>1, Homes DEF TypeOK

-----------------------------------------------------------------------------
(* At the start nobody has called.                                         *)
LEMMA InitInv == Init => Inv
<1> SUFFICES ASSUME Init PROVE Inv
  OBVIOUS
<1>1. TypeOK
  BY Homes DEF Init, TypeOK, Ids, CallMethods
<1>2. IdsUnique
  <2>1. \A e \in Ends : HasId(e) = {}
    BY DEF Init, HasId
  <2> QED
    BY <2>1, FS_EmptySet DEF Init, IdsUnique
<1>3. \A e \in Ends : \A k \in Places(e) : Carried(e, k) = {}
  BY DEF Init, Places, Carried
<1>4. TokensTrue /\ TokensOnce
  BY <1>3 DEF TokensTrue, TokensOnce
<1>5. LoopOK /\ NothingLeftPending /\ WaitingIsPending /\ OwnAnswer
  BY DEF Init, LoopOK, NothingLeftPending, WaitingIsPending, OwnAnswer
<1> QED
  BY <1>1, <1>2, <1>4, <1>5 DEF Inv

(* The types.  That ids stay in range is a matter of counting: seq is at   *)
(* most the number of goroutines.                                          *)
LEMMA StepType == Inv /\ [Next]_vars => TypeOK'
<1> SUFFICES ASSUME Inv, [Next]_vars PROVE TypeOK'
  OBVIOUS
<1> USE Homes DEF connVars, loopVars, callerVars, Inv, Goes
<1>1. ASSUME NEW g \in Callers, Notify(g) PROVE TypeOK'
  <2>1. Message("notify", 0, "event", g) \in Messages
    BY DEF Message, Messages, Ids
  <2>2. wire' \in [Ends -> Seq(Messages)]
    BY <1>1, <2>1, WriteAdds DEF Notify
  <2> QED
    BY <1>1, <2>2 DEF Notify, TypeOK
<1>2. ASSUME NEW g \in Callers, Register(g) PROVE TypeOK'
  <2>1. NextId(Home(g)) \in Ids
    <3>1. g \notin HasId(Home(g)) /\ HasId(Home(g)) \subseteq Callers
      BY <1>2 DEF Register, HasId
    <3>2. IsFiniteSet(HasId(Home(g)))
      BY <3>1, FS_Subset
    <3>3. /\ Cardinality(HasId(Home(g)) \union {g}) = Cardinality(HasId(Home(g))) + 1
          /\ Cardinality(HasId(Home(g))) \in Nat
      BY <3>1, <3>2, FS_AddElement, FS_CardinalityType
    <3>4. Cardinality(HasId(Home(g)) \union {g}) <= Cardinality(Callers)
      BY <3>1, FS_Subset
    <3> QED
      BY <3>3, <3>4 DEF IdsUnique, NextId, Ids
  <2>2. <<NextId(Home(g)), g>> \in Ids \X Callers
    BY <2>1
  <2>3. Without(Home(g), NextId(Home(g))) \union {<<NextId(Home(g)), g>>} \in SUBSET (Ids \X Callers)
    BY <2>2 DEF Without, TypeOK
  <2>4. pending' \in [Ends -> SUBSET (Ids \X Callers)]
    BY <1>2, <2>3 DEF Register, TypeOK
  <2>5. seq' \in [Ends -> Ids] /\ id' \in [Callers -> Ids] /\ method' \in [Callers -> CallMethods]
    BY <1>2, <2>1 DEF Register, TypeOK
  <2> QED
    BY <1>2, <2>4, <2>5 DEF Register, TypeOK
<1>3. ASSUME NEW g \in Callers, Send(g) PROVE TypeOK'
  <2>1. Message("call", id[g], method[g], g) \in Messages
    BY DEF Message, Messages, TypeOK
  <2>2. wire' \in [Ends -> Seq(Messages)]
    BY <1>3, <2>1, WriteAdds DEF Send
  <2> QED
    BY <1>3, <2>2 DEF Send, TypeOK
<1>4. ASSUME NEW g \in Callers, SendFails(g) \/ Leave(g) PROVE TypeOK'
  <2>1. TypeOK /\ Forget(g)
    BY <1>4 DEF SendFails, Leave
  <2>2. pending' \in [Ends -> SUBSET (Ids \X Callers)]
    BY <2>1, ForgetTakesOut
  <2>3. CASE SendFails(g)
    BY <2>2, <2>3 DEF SendFails, TypeOK
  <2>4. CASE Leave(g)
    BY <2>2, <2>4 DEF Leave, TypeOK
  <2> QED
    BY <1>4, <2>3, <2>4
<1>5. ASSUME NEW g \in Callers, Receive(g) PROVE TypeOK'
  <2>1. {m.of : m \in inHand[Home(g)]} \subseteq Callers
    BY DEF TypeOK, Messages
  <2>2. answer' \in [Callers -> SUBSET Callers]
    BY <1>5, <2>1 DEF Receive, TypeOK
  <2>3. pending' \in [Ends -> SUBSET (Ids \X Callers)]
    <3>1. TypeOK /\ Forget(g)
      BY <1>5 DEF Receive
    <3> HIDE DEF Inv
    <3> QED
      BY <3>1, ForgetTakesOut
  <2> QED
    BY <1>5, <2>2, <2>3 DEF Receive, TypeOK
<1>6. ASSUME NEW g \in Callers, Abandon(g) PROVE TypeOK'
  <2>1. Message("notify", id[g], "cancel", g) \in Messages
    BY DEF Message, Messages, TypeOK
  <2>2. wire' \in [Ends -> Seq(Messages)]
    BY <1>6, <2>1, WriteAdds DEF Abandon
  <2> QED
    BY <1>6, <2>2 DEF Abandon, TypeOK
<1>7. ASSUME NEW e \in Ends, Read(e) PROVE TypeOK'
  <2> DEFINE m == Head(wire[e])
  <2>1. wire' \in [Ends -> Seq(Messages)] /\ m \in Messages /\ inHand' = [inHand EXCEPT ![e] = {m}]
    BY <1>7, ReadShifts
  <2>2. inHand' \in [Ends -> SUBSET Messages]
    BY <2>1 DEF TypeOK
  <2>3. m.id \in Ids
    BY <2>1 DEF Messages
  <2> HIDE DEF m
  <2>4. CASE m.kind = "response"
    <3>1. /\ loop' = [loop EXCEPT ![e] = "delivering"]
          /\ rchan' = [rchan EXCEPT ![e] = {g \in Callers : <<m.id, g>> \in pending[e]}]
          /\ pending' = [pending EXCEPT ![e] = Without(e, m.id)] /\ UNCHANGED handling
      BY <1>7, <2>4 DEF Read, m
    <3>2. pending' \in [Ends -> SUBSET (Ids \X Callers)]
      <4>1. Without(e, m.id) \in SUBSET (Ids \X Callers)
        BY DEF TypeOK, Without
      <4> QED
        BY <3>1, <4>1 DEF TypeOK
    <3> QED
      BY <1>7, <2>1, <2>2, <3>1, <3>2 DEF Read, TypeOK
  <2>5. CASE m.kind # "response"
    <3>1. /\ loop' = [loop EXCEPT ![e] = "handling"] /\ UNCHANGED <<pending, rchan>>
          /\ handling' = [handling EXCEPT ![e] = IF m.kind = "call" THEN @ \union {m.id} ELSE @]
      BY <1>7, <2>5 DEF Read, m
    <3>2. handling' \in [Ends -> SUBSET Ids]
      BY <3>1, <2>3 DEF TypeOK
    <3> QED
      BY <1>7, <2>1, <2>2, <3>1, <3>2 DEF Read, TypeOK
  <2> QED
    BY <2>4, <2>5
<1>8. ASSUME NEW e \in Ends, ReadFails(e) PROVE TypeOK'
  BY <1>8 DEF ReadFails, TypeOK
<1>9. ASSUME NEW e \in Ends, Handle(e) PROVE TypeOK'
  <2>1. PICK m \in inHand[e] :
          IF Replies(m) /\ m.id \in handling[e]
          THEN /\ handling' = [handling EXCEPT ![e] = @ \ {m.id}]
               /\ Write(Peer(e), Response(m))
          ELSE UNCHANGED <<handling, wire>>
    BY <1>9 DEF Handle
  <2>2. m \in Messages
    BY DEF TypeOK
  <2>3. Response(m) \in Messages
    BY <2>2 DEF Messages, Response, Message
  <2>4. handling' \in [Ends -> SUBSET Ids]
    <3>1. handling \in [Ends -> SUBSET Ids] /\ handling[e] \ {m.id} \in SUBSET Ids
      BY DEF TypeOK
    <3> QED
      BY <2>1, <3>1
  <2>5. wire' \in [Ends -> Seq(Messages)]
    <3>1. Write(Peer(e), Response(m)) => wire' \in [Ends -> Seq(Messages)]
      BY <2>3, WriteAdds
    <3> QED
      BY <2>1, <3>1 DEF TypeOK
  <2> QED
    BY <1>9, <2>4, <2>5 DEF Handle, TypeOK
<1>10. CASE Hangup
  BY <1>10 DEF Hangup, TypeOK
<1>11. CASE UNCHANGED vars
  BY <1>11 DEF vars, TypeOK
<1> QED
  BY <1>1, <1>2, <1>3, <1>4, <1>5, <1>6, <1>7, <1>8, <1>9, <1>10, <1>11
     DEF Next, CallerStep, LoopStep

(* Ids stay unique: seq grows with every goroutine that gets one.          *)
LEMMA StepIds == Inv /\ [Next]_vars => IdsUnique'
<1> SUFFICES ASSUME Inv, [Next]_vars PROVE IdsUnique'
  OBVIOUS
<1> USE Homes DEF connVars, loopVars, callerVars, Inv, Goes
<1>1. ASSUME NEW g \in Callers, Register(g) PROVE IdsUnique'
  <2> DEFINE e == Home(g)
  <2>1. g \notin HasId(e) /\ HasId(e) \subseteq Callers
    BY <1>1 DEF Register, HasId
  <2>2. /\ call' = [call EXCEPT ![g] = "registered"] /\ id' = [id EXCEPT ![g] = seq[e] + 1]
        /\ seq' = [seq EXCEPT ![e] = seq[e] + 1]
    BY <1>1 DEF Register, NextId
  <2>3. HasId(e)' = HasId(e) \union {g} /\ \A d \in Ends \ {e} : HasId(d)' = HasId(d)
    BY <2>2 DEF HasId, TypeOK
  <2>4. IsFiniteSet(HasId(e)) /\ seq[e] = Cardinality(HasId(e)) /\ seq[e] \in Nat
    BY <2>1, FS_Subset, FS_CardinalityType DEF IdsUnique
  <2>5. Cardinality(HasId(e)') = seq[e] + 1
    <3>1. Cardinality(HasId(e) \union {g}) = seq[e] + 1
      BY <2>1, <2>4, FS_AddElement
    <3> QED
      BY <2>3, <3>1
  <2>6. \A d \in Ends : seq'[d] = Cardinality(HasId(d)')
    BY <2>2, <2>3, <2>5 DEF IdsUnique, TypeOK
  <2>7. \A h \in HasId(e) : id'[h] = id[h] /\ id[h] \in 1..seq[e]
    BY <2>1, <2>2 DEF IdsUnique, TypeOK
  <2>8. id'[g] = seq[e] + 1 /\ seq'[e] = seq[e] + 1
    BY <2>2 DEF TypeOK
  <2>9. \A d \in Ends \ {e} : seq'[d] = seq[d] /\ \A h \in HasId(d) : id'[h] = id[h]
    BY <2>2 DEF TypeOK, HasId
  <2>10. \A d \in Ends : \A h \in HasId(d)' : id'[h] \in 1..seq'[d]
    BY <2>3, <2>4, <2>7, <2>8, <2>9 DEF IdsUnique
  <2>11. \A d \in Ends : \A h, k \in HasId(d)' : id'[h] = id'[k] => h = k
    BY <2>3, <2>4, <2>7, <2>8, <2>9 DEF IdsUnique
  <2> QED
    BY <2>6, <2>10, <2>11 DEF IdsUnique
<1>2. ASSUME UNCHANGED <<seq, id>>,
             \A g \in Callers : call'[g] \in {"idle", "notified"} <=> call[g] \in {"idle", "notified"}
      PROVE  IdsUnique'
  <2>1. \A e \in Ends : HasId(e)' = HasId(e)
    BY <1>2 DEF HasId
  <2> QED
    BY <1>2, <2>1 DEF IdsUnique
<1>3. ASSUME NEW g \in Callers, Notify(g) \/ CallerStep(g) \/ Abandon(g) PROVE IdsUnique'
  BY <1>2, <1>3 DEF Notify, CallerStep, Send, SendFails, Receive, Leave, Abandon, TypeOK
<1>4. ASSUME NEW e \in Ends, LoopStep(e) PROVE IdsUnique'
  BY <1>2, <1>4 DEF LoopStep, Read, ReadFails, Handle
<1>5. CASE Hangup \/ UNCHANGED vars
  BY <1>2, <1>5 DEF Hangup, vars
<1> QED
  BY <1>1, <1>3, <1>4, <1>5 DEF Next

-----------------------------------------------------------------------------
(* If no token is new or has moved, what has been said of them stays true  *)
(* as long as their calls are not answered.                                *)
LEMMA TokensStay ==
  ASSUME Inv,
         \A e \in Ends : \A k \in Places(e)' : \A m \in Carried(e, k)' :
           IsToken(m) => /\ k \in Places(e) /\ m \in Carried(e, k)
                         /\ id'[m.of] = m.id /\ call'[m.of] \in {"waiting", "leaving", "gaveup"}
  PROVE  TokensTrue' /\ TokensOnce'
<1>1. TokensTrue'
  BY DEF Inv, TokensTrue, TokenTrue
<1>2. TokensOnce'
  BY DEF Inv, TokensOnce
<1> QED
  BY <1>1, <1>2

(* A token is about a call under way.                                      *)
LEMMA TokensAbout ==
  ASSUME Inv, NEW e \in Ends, NEW k \in Places(e), NEW m \in Carried(e, k), IsToken(m)
  PROVE  m \in Messages /\ m.of \in Callers /\ TokenTrue(e, m)
<1>1. m \in Messages
  <2>1. wire[e] \in Seq(Messages) /\ inHand[e] \subseteq Messages
    BY DEF Inv, TypeOK
  <2>2. \A j \in 1..Len(wire[e]) : wire[e][j] \in Messages
    BY <2>1, ElementOfSeq
  <2> QED
    BY <2>1, <2>2 DEF Carried, Places
<1> QED
  BY <1>1 DEF Inv, TokensTrue, Messages

(* A token that is added keeps them true if it is the only one of its call *)
(* that remains.                                                           *)
LEMMA TokenAdded ==
  ASSUME Inv, NEW p \in Ends, NEW n \in Messages, NEW last,
         id'[n.of] = n.id, call'[n.of] \in {"waiting", "leaving", "gaveup"},
         Home(n.of) = IF n.kind = "call" THEN Peer(p) ELSE p,
         \A d \in Ends : \A k \in Places(d)' : \A m \in Carried(d, k)' :
           \/ ~IsToken(m)
           \/ /\ k \in Places(d) /\ m \in Carried(d, k) /\ m.of # n.of
              /\ id'[m.of] = m.id /\ call'[m.of] \in {"waiting", "leaving", "gaveup"}
           \/ d = p /\ k = last /\ m = n
  PROVE  TokensTrue' /\ TokensOnce'
<1>1. TokensTrue'
  BY DEF Inv, TokensTrue, TokenTrue
<1>2. TokensOnce'
  <2> SUFFICES ASSUME NEW d \in Ends, NEW e \in Ends, NEW j \in Places(d)', NEW k \in Places(e)',
                      NEW m \in Carried(d, j)', NEW o \in Carried(e, k)',
                      IsToken(m), IsToken(o), m.of = o.of
               PROVE  d = e /\ j = k
    BY DEF TokensOnce
  <2>1. \/ j \in Places(d) /\ m \in Carried(d, j) /\ m.of # n.of
        \/ d = p /\ j = last /\ m = n
    OBVIOUS
  <2>2. \/ k \in Places(e) /\ o \in Carried(e, k) /\ o.of # n.of
        \/ e = p /\ k = last /\ o = n
    OBVIOUS
  <2> QED
    BY <2>1, <2>2 DEF Inv, TokensOnce
<1> QED
  BY <1>1, <1>2

(* Tokens: a call goes out with Send, is turned into its response by       *)
(* Handle, and is used up by Receive.                                      *)
LEMMA StepTokens == Inv /\ [Next]_vars => TokensTrue' /\ TokensOnce'
<1> SUFFICES ASSUME Inv, [Next]_vars PROVE TokensTrue' /\ TokensOnce'
  OBVIOUS
<1> USE Homes DEF connVars, loopVars, callerVars, Goes
<1>1. TypeOK /\ LoopOK
  BY DEF Inv
<1>2. ASSUME UNCHANGED <<wire, inHand>>,
             \A g \in Callers : call[g] \in {"waiting", "leaving", "gaveup"} =>
               id'[g] = id[g] /\ call'[g] \in {"waiting", "leaving", "gaveup"}
      PROVE  TokensTrue' /\ TokensOnce'
  <2>1. ASSUME NEW e \in Ends, NEW k \in Places(e)', NEW m \in Carried(e, k)', IsToken(m)
        PROVE  /\ k \in Places(e) /\ m \in Carried(e, k)
               /\ id'[m.of] = m.id /\ call'[m.of] \in {"waiting", "leaving", "gaveup"}
    <3>1. k \in Places(e) /\ m \in Carried(e, k)
      BY <1>2, <2>1 DEF Places, Carried
    <3> QED
      BY <1>2, <2>1, <3>1, TokensAbout DEF TokenTrue
  <2> QED
    BY <2>1, TokensStay
<1>3. ASSUME NEW g \in Callers, NEW n \in Messages, ~IsToken(n), NEW e \in Ends, Write(e, n),
             UNCHANGED <<inHand, id>>, NEW to, call' = [call EXCEPT ![g] = to],
             call[g] = "idle" \/ to = "leaving"
      PROVE  TokensTrue' /\ TokensOnce'
  <2>1. ASSUME NEW d \in Ends, NEW k \in Places(d)', NEW m \in Carried(d, k)', IsToken(m)
        PROVE  /\ k \in Places(d) /\ m \in Carried(d, k)
               /\ id'[m.of] = m.id /\ call'[m.of] \in {"waiting", "leaving", "gaveup"}
    <3>1. k \in Places(d) /\ m \in Carried(d, k)
      <4>1. CASE k = 0
        <5>1. 0 \in Places(d)
          BY <1>1, LenProperties DEF TypeOK, Places
        <5> QED
          BY <1>3, <4>1, <5>1 DEF Carried
      <4>2. CASE k # 0
        BY <1>1, <1>3, <2>1, <4>2, WriteAdds
      <4> QED
        BY <4>1, <4>2
    <3> QED
      BY <1>1, <1>3, <2>1, <3>1, TokensAbout DEF TokenTrue, TypeOK
  <2> QED
    BY <2>1, TokensStay
<1>4. ASSUME NEW g \in Callers, Notify(g) PROVE TokensTrue' /\ TokensOnce'
  <2>1. Message("notify", 0, "event", g) \in Messages /\ ~IsToken(Message("notify", 0, "event", g))
    BY DEF Message, Messages, Ids, IsToken
  <2> QED
    BY <1>3, <1>4, <2>1 DEF Notify
<1>5. ASSUME NEW g \in Callers, Abandon(g) PROVE TokensTrue' /\ TokensOnce'
  <2>1. Message("notify", id[g], "cancel", g) \in Messages /\ ~IsToken(Message("notify", id[g], "cancel", g))
    BY <1>1 DEF Message, Messages, IsToken, TypeOK
  <2> QED
    BY <1>3, <1>5, <2>1 DEF Abandon
<1>6. ASSUME NEW g \in Callers, Register(g) \/ SendFails(g) \/ Leave(g)
      PROVE  TokensTrue' /\ TokensOnce'
  BY <1>1, <1>2, <1>6 DEF Register, SendFails, Leave, TypeOK
<1>7. ASSUME NEW g \in Callers, Send(g) PROVE TokensTrue' /\ TokensOnce'
  <2>0. /\ Message("call", id[g], method[g], g) \in Messages
        /\ \A p \in Ends : Len(wire[p]) + 1 \in Nat
    BY <1>1, LenProperties DEF Message, Messages, TypeOK
  <2>1. PICK n \in Messages, p \in Ends, last \in Nat :
          /\ n = Message("call", id[g], method[g], g) /\ p = Peer(Home(g)) /\ last = Len(wire[p]) + 1
          /\ n.of = g /\ n.id = id[g] /\ n.kind = "call"
          /\ UNCHANGED <<inHand, id>> /\ call[g] = "registered" /\ call' = [call EXCEPT ![g] = "waiting"]
          /\ Write(p, n)
    BY <1>7, <2>0 DEF Send, Message
  <2>2. ASSUME NEW d \in Ends, NEW k \in Places(d)'
        PROVE  \/ k \in Places(d) /\ Carried(d, k)' = Carried(d, k)
               \/ d = p /\ k = last /\ Carried(d, k)' = {n}
    <3>1. CASE k = 0
      <4>1. 0 \in Places(d)
        BY <1>1, LenProperties DEF TypeOK, Places
      <4> QED
        BY <2>1, <3>1, <4>1 DEF Carried
    <3>2. CASE k # 0
      BY <1>1, <2>1, <3>2, WriteAdds
    <3> QED
      BY <3>1, <3>2
  <2>3. ASSUME NEW d \in Ends, NEW k \in Places(d), NEW m \in Carried(d, k), IsToken(m)
        PROVE  m.of # g /\ id'[m.of] = m.id /\ call'[m.of] \in {"waiting", "leaving", "gaveup"}
    BY <1>1, <2>1, <2>3, TokensAbout DEF TokenTrue, TypeOK
  <2>4. /\ id'[n.of] = n.id /\ call'[n.of] \in {"waiting", "leaving", "gaveup"}
        /\ Home(n.of) = IF n.kind = "call" THEN Peer(p) ELSE p
    BY <1>1, <2>1 DEF TypeOK
  <2>5. ASSUME NEW d \in Ends, NEW k \in Places(d)', NEW m \in Carried(d, k)'
        PROVE  \/ ~IsToken(m)
               \/ /\ k \in Places(d) /\ m \in Carried(d, k) /\ m.of # n.of
                  /\ id'[m.of] = m.id /\ call'[m.of] \in {"waiting", "leaving", "gaveup"}
               \/ d = p /\ k = last /\ m = n
    BY <2>1, <2>2, <2>3
  <2> QED
    BY <2>4, <2>5, TokenAdded
<1>8. ASSUME NEW g \in Callers, Receive(g) PROVE TokensTrue' /\ TokensOnce'
  <2> DEFINE e == Home(g)
  <2>1. PICK r \in Messages : inHand[e] = {r} /\ r.kind = "response" /\ g = r.of
    BY <1>1, <1>8 DEF Receive, LoopOK
  <2>2. 0 \in Places(e) /\ r \in Carried(e, 0) /\ IsToken(r)
    BY <1>1, <2>1, LenProperties DEF Places, Carried, TypeOK, IsToken
  <2>3. /\ inHand' = [inHand EXCEPT ![e] = {}] /\ UNCHANGED <<wire, id>>
        /\ call' = [call EXCEPT ![g] = "answered"]
    BY <1>8 DEF Receive
  <2>4. ASSUME NEW d \in Ends, NEW k \in Places(d)', NEW m \in Carried(d, k)', IsToken(m)
        PROVE  /\ k \in Places(d) /\ m \in Carried(d, k)
               /\ id'[m.of] = m.id /\ call'[m.of] \in {"waiting", "leaving", "gaveup"}
    <3>1. k \in Places(d) /\ m \in Carried(d, k) /\ (d # e \/ k # 0)
      BY <1>1, <2>3, <2>4 DEF Places, Carried, TypeOK
    <3>2. m.of # g
      BY <2>1, <2>2, <2>4, <3>1 DEF Inv, TokensOnce
    <3> QED
      BY <1>1, <2>3, <2>4, <3>1, <3>2, TokensAbout DEF TokenTrue, TypeOK
  <2> QED
    BY <2>4, TokensStay
<1>9. ASSUME NEW e \in Ends, Read(e) PROVE TokensTrue' /\ TokensOnce'
  <2> DEFINE From(d, k) == IF d = e THEN k + 1 ELSE k
  <2>1. \A d \in Ends : \A k \in Places(d)' :
          k \in Int /\ From(d, k) \in Places(d) /\ Carried(d, k)' = Carried(d, From(d, k))
    BY <1>1, <1>9, ReadShifts DEF Places
  <2>2. UNCHANGED <<id, call>>
    BY <1>9 DEF Read
  <2>3. \A d \in Ends : \A m : TokenTrue(d, m)' = TokenTrue(d, m)
    BY <2>2 DEF TokenTrue
  <2>4. TokensTrue'
    BY <2>1, <2>3 DEF Inv, TokensTrue
  <2>5. TokensOnce'
    <3> SUFFICES ASSUME NEW d \in Ends, NEW c \in Ends, NEW j \in Places(d)', NEW k \in Places(c)',
                        NEW m \in Carried(d, j)', NEW n \in Carried(c, k)',
                        IsToken(m), IsToken(n), m.of = n.of
                 PROVE  d = c /\ j = k
      BY DEF TokensOnce
    <3>1. d = c /\ From(d, j) = From(c, k)
      BY <2>1 DEF Inv, TokensOnce
    <3> QED
      BY <2>1, <3>1
  <2> QED
    BY <2>4, <2>5
<1>10. ASSUME NEW e \in Ends, Handle(e) PROVE TokensTrue' /\ TokensOnce'
  <2>1. PICK m \in inHand[e] :
          IF Replies(m) /\ m.id \in handling[e]
          THEN Write(Peer(e), Response(m))
          ELSE UNCHANGED wire
    BY <1>10 DEF Handle
  <2>2. inHand' = [inHand EXCEPT ![e] = {}] /\ UNCHANGED <<id, call>>
    BY <1>10 DEF Handle
  <2>3. 0 \in Places(e) /\ m \in Carried(e, 0) /\ m \in Messages
    BY <1>1, <2>1, LenProperties DEF Places, Carried, TypeOK
  <2>4. ASSUME NEW d \in Ends, NEW k \in Places(d), NEW o \in Carried(d, k), IsToken(o)
        PROVE  /\ id'[o.of] = o.id /\ call'[o.of] \in {"waiting", "leaving", "gaveup"}
    BY <2>2, <2>4, TokensAbout DEF TokenTrue
  <2>5. CASE UNCHANGED wire
    <3>1. \A d \in Ends : \A k \in Places(d)' : k \in Places(d) /\ Carried(d, k)' \subseteq Carried(d, k)
      BY <1>1, <2>2, <2>5 DEF Places, Carried, TypeOK
    <3> QED
      BY <2>4, <3>1, TokensStay
  <2>6. CASE Replies(m) /\ Write(Peer(e), Response(m))
    <3>1. PICK n \in Messages, p \in Ends, last \in Nat :
            /\ n = Response(m) /\ p = Peer(e) /\ last = Len(wire[p]) + 1
            /\ n.of = m.of /\ n.id = m.id /\ n.kind = "response"
      <4>1. Response(m) \in Messages /\ \A p \in Ends : Len(wire[p]) + 1 \in Nat
        BY <1>1, <2>3, LenProperties DEF Messages, Response, Message, TypeOK
      <4> QED
        BY <4>1 DEF Response, Message
    <3>2. m.kind = "call" /\ IsToken(m)
      BY <2>6 DEF Replies, IsToken
    <3>3. TokenTrue(e, m)
      BY <2>3, <3>2, TokensAbout
    <3>4. /\ id'[n.of] = n.id /\ call'[n.of] \in {"waiting", "leaving", "gaveup"}
          /\ Home(n.of) = IF n.kind = "call" THEN Peer(p) ELSE p
      BY <2>2, <3>1, <3>2, <3>3 DEF TokenTrue
    <3>5. ASSUME NEW d \in Ends, NEW k \in Places(d)', NEW o \in Carried(d, k)'
          PROVE  \/ ~IsToken(o)
                 \/ /\ k \in Places(d) /\ o \in Carried(d, k) /\ o.of # n.of
                    /\ id'[o.of] = o.id /\ call'[o.of] \in {"waiting", "leaving", "gaveup"}
                 \/ d = p /\ k = last /\ o = n
      <4>1. \/ k \in Places(d) /\ o \in Carried(d, k) /\ (d # e \/ k # 0)
            \/ d = p /\ k = last /\ o = n
        <5>1. CASE k = 0
          <6>1. 0 \in Places(d)
            BY <1>1, LenProperties DEF TypeOK, Places
          <6> QED
            BY <1>1, <2>2, <3>5, <5>1, <6>1 DEF Carried, TypeOK
        <5>2. CASE k # 0
          BY <1>1, <2>6, <3>1, <3>5, <5>2, WriteAdds
        <5> QED
          BY <5>1, <5>2
      <4>2. CASE k \in Places(d) /\ o \in Carried(d, k) /\ (d # e \/ k # 0) /\ IsToken(o)
        <5>1. o.of # m.of
          BY <2>3, <3>2, <4>2 DEF Inv, TokensOnce
        <5> QED
          BY <2>4, <3>1, <4>2, <5>1
      <4> QED
        BY <4>1, <4>2
    <3> QED
      BY <3>4, <3>5, TokenAdded
  <2> QED
    BY <2>1, <2>5, <2>6
<1>11. CASE Hangup \/ (\E e \in Ends : ReadFails(e)) \/ UNCHANGED vars
  BY <1>2, <1>11 DEF Hangup, ReadFails, vars
<1> QED
  BY <1>4, <1>5, <1>6, <1>7, <1>8, <1>9, <1>10, <1>11 DEF Next, CallerStep, LoopStep

-----------------------------------------------------------------------------
(* A response in hand is for a goroutine at this end, which has an id.     *)
LEMMA InHandIsForUs ==
  ASSUME Inv, NEW e \in Ends, NEW m \in inHand[e], m.kind = "response"
  PROVE  /\ m.of \in HasId(e) /\ id[m.of] = m.id /\ m.id \in 1..seq[e] /\ seq[e] \in Nat
         /\ call[m.of] \in {"waiting", "leaving", "gaveup"}
<1>1. 0 \in Places(e) /\ m \in Carried(e, 0) /\ IsToken(m)
  BY LenProperties DEF Inv, TypeOK, Places, Carried, IsToken
<1>2. m.of \in Callers /\ TokenTrue(e, m)
  BY <1>1, TokensAbout
<1> QED
  <2>1. m.of \in HasId(e) /\ id[m.of] = m.id /\ call[m.of] \in {"waiting", "leaving", "gaveup"}
    BY <1>2 DEF HasId, TokenTrue
  <2>2. seq[e] \in Nat
    BY Homes DEF Inv, TypeOK, Ids
  <2> QED
    BY <2>1, <2>2 DEF Inv, IdsUnique

(* The reading goroutine keeps at most one message in hand, and a response *)
(* only as long as nothing else is pending under its id.                   *)
LEMMA StepLoop == Inv /\ [Next]_vars => LoopOK'
<1> SUFFICES ASSUME Inv, [Next]_vars PROVE LoopOK'
  OBVIOUS
<1> USE Homes DEF connVars, loopVars, callerVars, Goes
<1>1. TypeOK /\ LoopOK
  BY DEF Inv
<1>2. ASSUME UNCHANGED <<loop, inHand, rchan>>, \A e \in Ends : pending'[e] \subseteq pending[e]
      PROVE  LoopOK'
  BY <1>1, <1>2 DEF LoopOK
<1>3. ASSUME NEW g \in Callers, Register(g) PROVE LoopOK'
  <2>1. /\ UNCHANGED <<loop, inHand, rchan>>
        /\ \A e \in Ends : \A p \in pending'[e] : p \in pending[e] \/ (e = Home(g) /\ p[1] = seq[e] + 1)
    BY <1>1, <1>3 DEF Register, Without, NextId, TypeOK
  <2>2. \A e \in Ends : \A m \in inHand[e] : m.kind = "response" => m.id # seq[e] + 1
    BY InHandIsForUs
  <2> QED
    BY <1>1, <2>1, <2>2 DEF LoopOK
<1>4. ASSUME NEW g \in Callers, Notify(g) \/ Send(g) \/ Abandon(g) PROVE LoopOK'
  BY <1>2, <1>4 DEF Notify, Send, Abandon
<1>5. ASSUME NEW g \in Callers, SendFails(g) \/ Leave(g) PROVE LoopOK'
  <2>1. \A e \in Ends : pending'[e] \subseteq pending[e]
    BY <1>1, <1>5, ForgetTakesOut DEF SendFails, Leave
  <2> QED
    BY <1>2, <1>5, <2>1 DEF SendFails, Leave
<1>6. ASSUME NEW g \in Callers, Receive(g) PROVE LoopOK'
  <2>1. \A e \in Ends : pending'[e] \subseteq pending[e]
    BY <1>1, <1>6, ForgetTakesOut DEF Receive
  <2>2. \A e \in Ends : IF e = Home(g) THEN loop'[e] = "reading" /\ inHand'[e] = {} /\ rchan'[e] = {}
                        ELSE loop'[e] = loop[e] /\ inHand'[e] = inHand[e] /\ rchan'[e] = rchan[e]
    BY <1>1, <1>6 DEF Receive, TypeOK
  <2> QED
    BY <1>1, <2>1, <2>2 DEF LoopOK
<1>7. ASSUME NEW e \in Ends, Read(e) PROVE LoopOK'
  <2> DEFINE m == Head(wire[e])
  <2>1. m \in Messages /\ inHand' = [inHand EXCEPT ![e] = {m}] /\ loop[e] = "reading"
    BY <1>1, <1>7, ReadShifts DEF Read
  <2> HIDE DEF m
  <2>2. CASE m.kind = "response"
    <3>1. /\ loop' = [loop EXCEPT ![e] = "delivering"]
          /\ rchan' = [rchan EXCEPT ![e] = {g \in Callers : <<m.id, g>> \in pending[e]}]
          /\ pending' = [pending EXCEPT ![e] = {p \in pending[e] : p[1] # m.id}]
      BY <1>7, <2>2 DEF Read, m, Without
    <3>2. m.of \in HasId(e) /\ id[m.of] = m.id
      <4>1. Len(wire[e]) \in Nat /\ 1 \in Places(e) /\ m \in Carried(e, 1) /\ IsToken(m)
        <5>1. 0 \in Places(e)'
          BY <1>1, <1>7, ReadShifts, LenProperties DEF TypeOK, Places
        <5>2. Len(wire[e]) \in Nat /\ 1 \in Places(e) /\ Carried(e, 0)' = Carried(e, 1)
          BY <1>1, <1>7, <5>1, ReadShifts DEF Places
        <5>3. Carried(e, 0)' = {m}
          BY <1>1, <2>1 DEF Carried, TypeOK
        <5> QED
          BY <2>2, <5>2, <5>3 DEF IsToken
      <4> QED
        BY <2>2, <4>1, TokensAbout DEF TokenTrue, HasId
    <3>3. \A g \in Callers : <<m.id, g>> \in pending[e] => g = m.of
      <4>1. \A g \in Callers : <<m.id, g>> \in pending[e] => g \in HasId(e) /\ id[g] = m.id
        BY DEF Inv, NothingLeftPending, HasId
      <4> QED
        BY <3>2, <4>1 DEF Inv, IdsUnique
    <3>4. \A d \in Ends : IF d = e THEN /\ loop'[d] = "delivering" /\ inHand'[d] = {m}
                                        /\ rchan'[d] \subseteq {m.of}
                                        /\ \A p \in pending'[d] : p[1] # m.id
                           ELSE /\ loop'[d] = loop[d] /\ inHand'[d] = inHand[d]
                                /\ rchan'[d] = rchan[d] /\ pending'[d] = pending[d]
      BY <1>1, <2>1, <3>1, <3>3 DEF TypeOK
    <3> QED
      BY <1>1, <2>1, <2>2, <3>4 DEF LoopOK
  <2>3. CASE m.kind # "response"
    <3>1. loop' = [loop EXCEPT ![e] = "handling"] /\ UNCHANGED <<pending, rchan>>
      BY <1>7, <2>3 DEF Read, m
    <3>2. \A d \in Ends : IF d = e THEN loop'[d] = "handling" /\ inHand'[d] = {m} /\ rchan'[d] = {}
                          ELSE loop'[d] = loop[d] /\ inHand'[d] = inHand[d] /\ rchan'[d] = rchan[d]
      BY <1>1, <2>1, <3>1 DEF TypeOK, LoopOK
    <3> QED
      BY <1>1, <2>1, <2>3, <3>1, <3>2 DEF LoopOK
  <2> QED
    BY <2>2, <2>3
<1>8. ASSUME NEW e \in Ends, ReadFails(e) \/ Handle(e) PROVE LoopOK'
  <2>1. loop[e] \in {"reading", "handling"} /\ UNCHANGED <<rchan, pending>>
    BY <1>8 DEF ReadFails, Handle
  <2>2. \A d \in Ends : IF d = e THEN loop'[d] \in {"reading", "returned"} /\ inHand'[d] = {}
                        ELSE loop'[d] = loop[d] /\ inHand'[d] = inHand[d]
    BY <1>1, <1>8 DEF ReadFails, Handle, LoopOK, TypeOK
  <2> QED
    BY <1>1, <2>1, <2>2 DEF LoopOK
<1>9. CASE Hangup \/ UNCHANGED vars
  BY <1>2, <1>9 DEF Hangup, vars
<1> QED
  BY <1>3, <1>4, <1>5, <1>6, <1>7, <1>8, <1>9 DEF Next, CallerStep, LoopStep

(* The table of pending calls holds those under way and no other.          *)
LEMMA StepPending == Inv /\ [Next]_vars => NothingLeftPending' /\ WaitingIsPending'
<1> SUFFICES ASSUME Inv, [Next]_vars PROVE NothingLeftPending' /\ WaitingIsPending'
  OBVIOUS
<1> USE Homes DEF connVars, loopVars, callerVars, Goes
<1>1. TypeOK /\ NothingLeftPending /\ WaitingIsPending
  BY DEF Inv
<1>2. ASSUME UNCHANGED <<pending, rchan, id>>, NEW g \in Callers, NEW to, call' = [call EXCEPT ![g] = to],
             \/ call[g] = "idle" /\ to = "notified"
             \/ call[g] = "registered" /\ to = "waiting"
             \/ call[g] = "waiting" /\ to = "leaving"
      PROVE  NothingLeftPending' /\ WaitingIsPending'
  BY <1>1, <1>2 DEF NothingLeftPending, WaitingIsPending, TypeOK
<1>3. ASSUME NEW g \in Callers, Notify(g) \/ Send(g) \/ Abandon(g)
      PROVE  NothingLeftPending' /\ WaitingIsPending'
  BY <1>2, <1>3 DEF Notify, Send, Abandon
<1>4. ASSUME NEW g \in Callers, Register(g) PROVE NothingLeftPending' /\ WaitingIsPending'
  <2> DEFINE e == Home(g)
  <2>1. /\ call[g] = "idle" /\ id' = [id EXCEPT ![g] = seq[e] + 1]
        /\ call' = [call EXCEPT ![g] = "registered"] /\ UNCHANGED rchan
        /\ pending' = [pending EXCEPT ![e] = {p \in pending[e] : p[1] # seq[e] + 1} \union {<<seq[e] + 1, g>>}]
    BY <1>4 DEF Register, NextId, Without
  <2>2. ASSUME NEW d \in Ends, NEW p \in pending[d]
        PROVE  p[2] \in Callers /\ p[2] # g /\ (d = e => p[1] # seq[e] + 1)
    <3>1. p[2] \in HasId(d) /\ id[p[2]] = p[1] /\ seq[d] \in Nat
      <4>1. pending[d] \subseteq Ids \X Callers /\ seq[d] \in Ids
        BY <1>1 DEF TypeOK
      <4>2. p[2] \in Callers /\ seq[d] \in Nat
        BY <4>1 DEF Ids
      <4>3. Home(p[2]) = d /\ id[p[2]] = p[1] /\ call[p[2]] \in {"registered", "waiting", "leaving"}
        BY <1>1 DEF NothingLeftPending
      <4> QED
        BY <4>2, <4>3 DEF HasId
    <3>2. p[1] \in 1..seq[d]
      BY <3>1 DEF Inv, IdsUnique
    <3> QED
      BY <2>1, <3>1, <3>2 DEF HasId
  <2>3. \A d \in Ends : pending'[d] = IF d = e THEN pending[d] \union {<<seq[e] + 1, g>>} ELSE pending[d]
    BY <1>1, <2>1, <2>2 DEF TypeOK
  <2>4. \A h \in Callers : /\ id'[h] = IF h = g THEN seq[e] + 1 ELSE id[h]
                           /\ call'[h] = IF h = g THEN "registered" ELSE call[h]
    BY <1>1, <2>1 DEF TypeOK
  <2> HIDE DEF e
  <2>5. e = Home(g)
    BY DEF e
  <2>6. ASSUME NEW d \in Ends, NEW p \in pending'[d]
        PROVE  Home(p[2]) = d /\ id'[p[2]] = p[1] /\ call'[p[2]] \in {"registered", "waiting", "leaving"}
    <3>1. CASE p \in pending[d]
      BY <1>1, <2>2, <2>4, <3>1 DEF NothingLeftPending
    <3>2. CASE d = e /\ p = <<seq[e] + 1, g>>
      BY <2>4, <2>5, <3>2
    <3> QED
      BY <2>3, <2>6, <3>1, <3>2
  <2>7. ASSUME NEW h \in Callers, call'[h] \in {"registered", "waiting"}
        PROVE  <<id'[h], h>> \in pending'[Home(h)] \/ h \in rchan'[Home(h)]
    <3>1. CASE h = g
      BY <2>3, <2>4, <2>5, <3>1
    <3>2. CASE h # g
      <4>1. id'[h] = id[h] /\ call[h] \in {"registered", "waiting"} /\ Home(h) \in Ends
        BY <2>4, <2>7, <3>2
      <4>2. <<id[h], h>> \in pending[Home(h)] \/ h \in rchan[Home(h)]
        BY <1>1, <4>1 DEF WaitingIsPending
      <4>3. pending[Home(h)] \subseteq pending'[Home(h)]
        BY <2>3, <4>1
      <4> QED
        BY <2>1, <4>1, <4>2, <4>3
    <3> QED
      BY <3>1, <3>2
  <2> QED
    BY <2>6, <2>7 DEF NothingLeftPending, WaitingIsPending
<1>5. ASSUME NEW g \in Callers, Forget(g), UNCHANGED id, call[g] \in {"registered", "waiting", "leaving"},
             NEW to \in {"failed", "answered", "gaveup"}, call' = [call EXCEPT ![g] = to],
             \A e \in Ends : rchan'[e] \union {g} = rchan[e] \union {g}
      PROVE  NothingLeftPending' /\ WaitingIsPending'
  <2>1. \A e \in Ends : \A p : p \in pending'[e] <=> p \in pending[e] /\ (e = Home(g) => p[1] # id[g])
    BY <1>1, <1>5, ForgetTakesOut
  <2>2. \A e \in Ends : \A p \in pending'[e] : p[2] # g
    BY <1>1, <2>1 DEF NothingLeftPending
  <2>3. NothingLeftPending'
    BY <1>1, <1>5, <2>1, <2>2 DEF NothingLeftPending, TypeOK
  <2>4. ASSUME NEW h \in Callers, call'[h] \in {"registered", "waiting"}
        PROVE  <<id[h], h>> \in pending'[Home(h)] \/ h \in rchan'[Home(h)]
    <3>1. h # g /\ call[h] \in {"registered", "waiting"}
      BY <1>1, <1>5, <2>4 DEF TypeOK
    <3>2. CASE h \in rchan[Home(h)]
      BY <1>5, <3>1, <3>2
    <3>3. CASE <<id[h], h>> \in pending[Home(h)]
      <4>1. g \in HasId(Home(g)) /\ h \in HasId(Home(h))
        BY <1>5, <3>1 DEF HasId
      <4>2. Home(h) = Home(g) => id[h] # id[g]
        BY <3>1, <4>1 DEF Inv, IdsUnique
      <4> QED
        BY <2>1, <3>3, <4>2
    <3> QED
      BY <1>1, <3>1, <3>2, <3>3 DEF WaitingIsPending
  <2> QED
    BY <1>5, <2>3, <2>4 DEF WaitingIsPending

<1>6. ASSUME NEW g \in Callers, SendFails(g) \/ Leave(g) PROVE NothingLeftPending' /\ WaitingIsPending'
  BY <1>5, <1>6 DEF SendFails, Leave
<1>7. ASSUME NEW g \in Callers, Receive(g) PROVE NothingLeftPending' /\ WaitingIsPending'
  <2> DEFINE e == Home(g)
  <2>1. rchan[e] \subseteq {g}
    BY <1>7 DEF Inv, LoopOK, Receive
  <2>2. \A d \in Ends : rchan'[d] \union {g} = rchan[d] \union {g}
    BY <1>1, <1>7, <2>1 DEF Receive, TypeOK
  <2> QED
    BY <1>5, <1>7, <2>2 DEF Receive
<1>8. ASSUME NEW e \in Ends, Read(e) PROVE NothingLeftPending' /\ WaitingIsPending'
  <2> DEFINE m == Head(wire[e])
  <2>1. loop[e] = "reading" /\ UNCHANGED <<id, call>>
    BY <1>8 DEF Read
  <2>2. \A d \in Ends : pending'[d] \subseteq pending[d]
    <3>1. \/ pending' = pending
          \/ pending' = [pending EXCEPT ![e] = {p \in pending[e] : p[1] # m.id}]
      BY <1>8 DEF Read, Without
    <3> HIDE DEF m
    <3>2. \A d \in Ends : pending'[d] = pending[d] \/ pending'[d] = {p \in pending[d] : p[1] # m.id}
      BY <1>1, <3>1 DEF TypeOK
    <3> QED
      BY <3>2
  <2>3. NothingLeftPending'
    BY <1>1, <2>1, <2>2 DEF NothingLeftPending
  <2>4. ASSUME NEW d \in Ends, NEW g \in Callers, <<id[g], g>> \in pending[d] \/ g \in rchan[d]
        PROVE  <<id[g], g>> \in pending'[d] \/ g \in rchan'[d]
    <3>1. CASE m.kind = "response"
      <4>1. /\ rchan' = [rchan EXCEPT ![e] = {h \in Callers : <<m.id, h>> \in pending[e]}]
            /\ pending' = [pending EXCEPT ![e] = {p \in pending[e] : p[1] # m.id}]
        BY <1>8, <3>1 DEF Read, Without
      <4>2. rchan[e] = {}
        BY <2>1 DEF Inv, LoopOK
      <4> HIDE DEF m
      <4> QED
        BY <1>1, <2>4, <4>1, <4>2 DEF TypeOK
    <3>2. CASE m.kind # "response"
      BY <1>8, <2>4, <3>2 DEF Read
    <3> QED
      BY <3>1, <3>2
  <2> QED
    BY <1>1, <2>1, <2>3, <2>4 DEF WaitingIsPending
<1>9. CASE Hangup \/ (\E e \in Ends : ReadFails(e) \/ Handle(e)) \/ UNCHANGED vars
  BY <1>1, <1>9 DEF Hangup, ReadFails, Handle, vars, NothingLeftPending, WaitingIsPending
<1> QED
  BY <1>3, <1>4, <1>6, <1>7, <1>8, <1>9 DEF Next, CallerStep, LoopStep

(* An answer is the caller's own: nobody else has its id.                  *)
LEMMA StepAnswer == Inv /\ [Next]_vars => OwnAnswer'
<1> SUFFICES ASSUME Inv, [Next]_vars PROVE OwnAnswer'
  OBVIOUS
<1> USE DEF connVars, loopVars, callerVars, Goes, Inv
<1>1. ASSUME NEW g \in Callers, Receive(g) PROVE OwnAnswer'
  <2>1. PICK m \in Messages : inHand[Home(g)] = {m} /\ m.of = g
    BY <1>1, Homes DEF LoopOK, Receive
  <2>2. {n.of : n \in inHand[Home(g)]} = {g}
    BY <2>1
  <2>3. answer' = [answer EXCEPT ![g] = {g}] /\ call' = [call EXCEPT ![g] = "answered"]
    BY <1>1, <2>2 DEF Receive
  <2> QED
    BY <2>3 DEF OwnAnswer, TypeOK
<1>2. ASSUME UNCHANGED answer, \A g \in Callers : call'[g] = "answered" => call[g] = "answered"
      PROVE  OwnAnswer'
  BY <1>2 DEF OwnAnswer
<1>3. ASSUME NEW g \in Callers, Notify(g) \/ Register(g) \/ Send(g) \/ SendFails(g) \/ Leave(g) \/ Abandon(g)
      PROVE  OwnAnswer'
  BY <1>2, <1>3 DEF Notify, Register, Send, SendFails, Leave, Abandon, TypeOK
<1>4. CASE Hangup \/ (\E e \in Ends : LoopStep(e)) \/ UNCHANGED vars
  BY <1>2, <1>4 DEF Hangup, LoopStep, Read, ReadFails, Handle, vars
<1> QED
  BY <1>1, <1>3, <1>4 DEF Next, CallerStep

-----------------------------------------------------------------------------
(* All parts together are inductive.                                       *)
LEMMA Invariance == Spec => []Inv
<1>1. Inv /\ [Next]_vars => Inv'
  BY StepType, StepIds, StepTokens, StepLoop, StepPending, StepAnswer DEF Inv
<1> QED
  BY <1>1, InitInv, PTL DEF Spec

(* The variables keep their types: no more ids than goroutines are used.   *)
THEOREM TypeCorrect == Spec => []TypeOK
<1>1. Inv => TypeOK
  BY DEF Inv
<1> QED
  BY <1>1, Invariance, PTL

(* However many goroutines of both ends call each other, whoever gives up, *)
(* and whenever the streams break, a call returns its own response.        *)
THEOREM AnswersMatch == Spec => []OwnAnswer
<1>1. Inv => OwnAnswer
  BY DEF Inv
<1> QED
  BY <1>1, Invariance, PTL

(* Call leaves nothing behind in the table, whichever way it ends.         *)
THEOREM TableIsClean == Spec => []NothingLeftPending
<1>1. Inv => NothingLeftPending
  BY DEF Inv
<1> QED
  BY <1>1, Invariance, PTL

(* The reading goroutine delivers a response only to a caller that waits   *)
(* for it or was cancelled.  It needs that there is one response to a call *)
(* at most, and that whoever waits for it is pending.                      *)
THEOREM DeliversToWaiting == Spec => []DeliveryAwaited
<1>1. Inv => DeliveryAwaited
  <2> SUFFICES ASSUME Inv, NEW e \in Ends, loop[e] = "delivering", NEW m \in inHand[e], ~GaveUp(m.of)
               PROVE  m.of \in rchan[e] /\ call[m.of] = "waiting"
    BY DEF DeliveryAwaited
  <2>1. m.kind = "response" /\ \A p \in pending[e] : p[1] # m.id
    BY DEF Inv, LoopOK
  <2>2. m.of \in HasId(e) /\ id[m.of] = m.id /\ call[m.of] = "waiting"
    BY <2>1, InHandIsForUs DEF GaveUp
  <2>3. m.of \in Callers /\ Home(m.of) = e
    BY <2>2 DEF HasId
  <2>4. <<m.id, m.of>> \in pending[e] \/ m.of \in rchan[e]
    BY <2>2, <2>3 DEF Inv, WaitingIsPending
  <2> QED
    BY <2>1, <2>2, <2>4
<1> QED
  BY <1>1, Invariance, PTL
===============================================================================
