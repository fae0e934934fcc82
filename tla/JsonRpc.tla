------------------------------- MODULE JsonRpc -------------------------------
(***************************************************************************)
(* pkg/jsonrpc2: two Conns joined by a pair of streams, with the handlers  *)
(* pkg/lsp gives them (RunClient, RunServer).  Either end has goroutines   *)
(* that call or notify the other, and one goroutine that reads: it runs    *)
(* the handlers and hands responses to the goroutines that wait for them.  *)
(***************************************************************************)
EXTENDS Integers, Sequences, FiniteSets

CONSTANTS
  ClientCallers, ServerCallers,   (* goroutines of either end; each makes   *)
                                  (* one call or sends one notification     *)
  Cancellable                     (* those whose context may end            *)

ASSUME RpcAssumption ==
  /\ IsFiniteSet(ClientCallers) /\ IsFiniteSet(ServerCallers)
  /\ ClientCallers \intersect ServerCallers = {}
  /\ Cancellable \subseteq ClientCallers \union ServerCallers

Callers   == ClientCallers \union ServerCallers
Ends      == {"client", "server"}
Peer(e)   == IF e = "client" THEN "server" ELSE "client"
Home(g)   == IF g \in ClientCallers THEN "client" ELSE "server"
Ids       == 0..Cardinality(Callers)

(* "shutdown" stands for every call that the dispatcher leaves unanswered. *)
CallMethods == {"query", "shutdown"}

(* A message, with the caller whose parameters or result it carries.       *)
Messages == [kind : {"call", "notify", "response"}, id : Ids,
             method : CallMethods \union {"event", "cancel"}, of : Callers]

VARIABLES
  seq, pending, handling,  (* fields of Conn; pending holds <<id, caller>>  *)
  loop, inHand, rchan,     (* run(): where it is, its message, the channel  *)
  wire,                    (* messages on the way to an end                 *)
  open,                    (* whether the streams are open                  *)
  call, id, method,        (* the goroutines                                *)
  answer                   (* history: whose response a caller got          *)

connVars   == <<seq, pending, handling>>
loopVars   == <<loop, inHand, rchan>>
callerVars == <<call, id, method, answer>>
vars       == <<connVars, loopVars, wire, open, callerVars>>

Init ==
  /\ seq = [e \in Ends |-> 0]
  /\ pending = [e \in Ends |-> {}]
  /\ handling = [e \in Ends |-> {}]
  /\ loop = [e \in Ends |-> "reading"]
  /\ inHand = [e \in Ends |-> {}]
  /\ rchan = [e \in Ends |-> {}]
  /\ wire = [e \in Ends |-> <<>>]
  /\ open = TRUE
  /\ call = [g \in Callers |-> "idle"]
  /\ id = [g \in Callers |-> 0]
  /\ method = [g \in Callers |-> "query"]
  /\ answer = [g \in Callers |-> {}]

Message(kind, number, name, g) == [kind |-> kind, id |-> number, method |-> name, of |-> g]

(* stream.Write: nothing reaches the other end of a closed stream.         *)
Write(e, m) == wire' = [wire EXCEPT ![e] = IF open THEN Append(@, m) ELSE @]

Goes(g, to) == call' = [call EXCEPT ![g] = to]

(* delete(c.pending, id)                                                   *)
Without(e, number) == {p \in pending[e] : p[1] # number}
Forget(g) == pending' = [pending EXCEPT ![Home(g)] = Without(Home(g), id[g])]

(***************************************************************************)
(* Notify and Call.                                                        *)
(***************************************************************************)
Notify(g) ==
  /\ call[g] = "idle"
  /\ Write(Peer(Home(g)), Message("notify", 0, "event", g))
  /\ Goes(g, "notified")
  /\ UNCHANGED <<connVars, loopVars, open, id, method, answer>>

NextId_Same(e) == seq[e]
NextId(e) == seq[e] + 1

(* The call is pending before it is sent: the response must not overtake   *)
(* the entry it looks for.                                                 *)
Register(g) ==
  /\ call[g] = "idle"
  /\ LET e == Home(g) IN
     /\ seq' = [seq EXCEPT ![e] = NextId(e)]
     /\ id' = [id EXCEPT ![g] = NextId(e)]
     /\ pending' = [pending EXCEPT ![e] = Without(e, NextId(e)) \union {<<NextId(e), g>>}]
  /\ \E name \in CallMethods : method' = [method EXCEPT ![g] = name]
  /\ Goes(g, "registered")
  /\ UNCHANGED <<handling, loopVars, wire, open, answer>>

Send(g) ==
  /\ call[g] = "registered" /\ open
  /\ Write(Peer(Home(g)), Message("call", id[g], method[g], g))
  /\ Goes(g, "waiting")
  /\ UNCHANGED <<connVars, loopVars, open, id, method, answer>>

(* Write fails if the stream is closed or the context over.                *)
SendFails_NoCleanup(g) ==
  /\ call[g] = "registered" /\ (g \in Cancellable \/ ~open)
  /\ Goes(g, "failed")
  /\ UNCHANGED <<connVars, loopVars, wire, open, id, method, answer>>
SendFails(g) ==
  /\ call[g] = "registered" /\ (g \in Cancellable \/ ~open)
  /\ Forget(g)
  /\ Goes(g, "failed")
  /\ UNCHANGED <<seq, handling, loopVars, wire, open, id, method, answer>>

(* response := <-rchan, with the loop that sends it.                       *)
Receive(g) ==
  LET e == Home(g) IN
  /\ call[g] = "waiting"
  /\ loop[e] = "delivering" /\ g \in rchan[e]
  /\ answer' = [answer EXCEPT ![g] = {m.of : m \in inHand[e]}]
  /\ Forget(g)
  /\ Goes(g, "answered")
  /\ loop' = [loop EXCEPT ![e] = "reading"]
  /\ inHand' = [inHand EXCEPT ![e] = {}]
  /\ rchan' = [rchan EXCEPT ![e] = {}]
  /\ UNCHANGED <<seq, handling, wire, open, id, method>>

(* case <-ctx.Done(): the canceller notifies the other end, ...            *)
Abandon(g) ==
  /\ g \in Cancellable /\ call[g] = "waiting"
  /\ Write(Peer(Home(g)), Message("notify", id[g], "cancel", g))
  /\ Goes(g, "leaving")
  /\ UNCHANGED <<connVars, loopVars, open, id, method, answer>>

(* ... and the deferred function cleans up.                                *)
Leave(g) ==
  /\ call[g] = "leaving"
  /\ Forget(g)
  /\ Goes(g, "gaveup")
  /\ UNCHANGED <<seq, handling, loopVars, wire, open, id, method, answer>>

(***************************************************************************)
(* run(): one message at a time.                                           *)
(***************************************************************************)
Read(e) ==
  /\ loop[e] = "reading" /\ wire[e] # <<>>
  /\ wire' = [wire EXCEPT ![e] = Tail(@)]
  /\ LET m == Head(wire[e]) IN
     /\ inHand' = [inHand EXCEPT ![e] = {m}]
     /\ IF m.kind = "response"
        THEN /\ loop' = [loop EXCEPT ![e] = "delivering"]
             /\ rchan' = [rchan EXCEPT ![e] = {g \in Callers : <<m.id, g>> \in pending[e]}]
             /\ pending' = [pending EXCEPT ![e] = Without(e, m.id)]
             /\ UNCHANGED handling
        ELSE /\ loop' = [loop EXCEPT ![e] = "handling"]
             /\ handling' = [handling EXCEPT ![e] = IF m.kind = "call" THEN @ \union {m.id} ELSE @]
             /\ UNCHANGED <<pending, rchan>>
  /\ UNCHANGED <<seq, open, callerVars>>

ReadFails(e) ==
  /\ loop[e] = "reading" /\ ~open
  /\ loop' = [loop EXCEPT ![e] = "returned"]
  /\ UNCHANGED <<connVars, inHand, rchan, wire, open, callerVars>>

(* Which calls the dispatcher replies to.                                  *)
Replies_Never(m) == FALSE
Replies(m) == m.kind = "call" /\ m.method # "shutdown"

(* The handler, in the goroutine that reads.  Reply() answers a call that  *)
(* is in progress.  Since no other goroutine handles calls, Cancel() finds *)
(* none but those that are never replied to.                               *)
Response(m) == Message("response", m.id, m.method, m.of)
Handle_Unchecked(e) ==
  /\ loop[e] = "handling"
  /\ \E m \in inHand[e] :
       wire' = [wire EXCEPT ![Peer(e)] =
                  IF open /\ Replies(m) THEN @ \o <<Response(m), Response(m)>> ELSE @]
  /\ loop' = [loop EXCEPT ![e] = "reading"]
  /\ inHand' = [inHand EXCEPT ![e] = {}]
  /\ UNCHANGED <<connVars, rchan, open, callerVars>>
Handle(e) ==
  /\ loop[e] = "handling"
  /\ \E m \in inHand[e] :
       IF Replies(m) /\ m.id \in handling[e]
       THEN /\ handling' = [handling EXCEPT ![e] = @ \ {m.id}]
            /\ Write(Peer(e), Response(m))
       ELSE UNCHANGED <<handling, wire>>
  /\ loop' = [loop EXCEPT ![e] = "reading"]
  /\ inHand' = [inHand EXCEPT ![e] = {}]
  /\ UNCHANGED <<seq, pending, rchan, open, callerVars>>

(* The other process ends, or the pipe breaks.                             *)
Hangup ==
  /\ open
  /\ open' = FALSE
  /\ UNCHANGED <<connVars, loopVars, wire, callerVars>>

CallerStep(g) == Send(g) \/ SendFails(g) \/ Receive(g) \/ Leave(g)
LoopStep(e)   == Read(e) \/ ReadFails(e) \/ Handle(e)

Next ==
  \/ \E g \in Callers : Notify(g) \/ Register(g) \/ CallerStep(g) \/ Abandon(g)
  \/ \E e \in Ends : LoopStep(e)
  \/ Hangup

Spec == Init /\ [][Next]_vars

(* The goroutines are scheduled.  Nobody has to call, to cancel or to hang *)
(* up.                                                                     *)
FairSpec ==
  /\ Spec
  /\ \A g \in Callers : WF_vars(CallerStep(g))
  /\ \A e \in Ends : WF_vars(LoopStep(e))

(***************************************************************************)
(* Properties.                                                             *)
(***************************************************************************)
TypeOK ==
  /\ seq \in [Ends -> Ids]
  /\ pending \in [Ends -> SUBSET (Ids \X Callers)]
  /\ handling \in [Ends -> SUBSET Ids]
  /\ loop \in [Ends -> {"reading", "handling", "delivering", "returned"}]
  /\ inHand \in [Ends -> SUBSET Messages]
  /\ rchan \in [Ends -> SUBSET Callers]
  /\ wire \in [Ends -> Seq(Messages)]
  /\ open \in BOOLEAN
  /\ call \in [Callers -> {"idle", "notified", "registered", "waiting", "leaving",
                           "answered", "gaveup", "failed"}]
  /\ id \in [Callers -> Ids]
  /\ method \in [Callers -> CallMethods]
  /\ answer \in [Callers -> SUBSET Callers]

(* A call returns the result of its own request, however many are under    *)
(* way and in whatever order they are answered or given up.                *)
OwnAnswer ==
  \A g \in Callers : call[g] = "answered" => answer[g] = {g}

(* An entry of c.pending belongs to a call that has not returned: whichever*)
(* way Call ends, nothing is left behind.                                  *)
NothingLeftPending ==
  \A e \in Ends : \A p \in pending[e] :
    /\ Home(p[2]) = e /\ id[p[2]] = p[1]
    /\ call[p[2]] \in {"registered", "waiting", "leaving"}

(* The reading goroutine sends a response on a channel only if its caller  *)
(* waits for it, or has been cancelled: otherwise it would block for ever  *)
(* and with it everything else the connection does.                        *)
GaveUp(g) == call[g] \in {"leaving", "gaveup"}
DeliveryAwaited ==
  \A e \in Ends : loop[e] = "delivering" =>
    \A m \in inHand[e] : GaveUp(m.of) \/ (m.of \in rchan[e] /\ call[m.of] = "waiting")

(* A call of a method that is replied to returns, unless the streams are   *)
(* closed or a goroutine of either end was cancelled.                      *)
CallReturns ==
  \A g \in Callers :
    (call[g] = "waiting" /\ method[g] = "query")
      ~> (call[g] # "waiting" \/ ~open \/ \E h \in Callers : GaveUp(h))

(* Once the streams are closed both connections end, so that Wait returns. *)
WaitReturns == \A e \in Ends : ~open ~> loop[e] = "returned"
==============================================================================
