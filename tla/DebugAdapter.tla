---------------------------- MODULE DebugAdapter ----------------------------
(***************************************************************************)
(* pkg/debug/session.go and handler.go: a session of the debug adapter.    *)
(* Every request is handled in a goroutine of its own, all of them share   *)
(* one YODKHandler without a lock, and a panic in any ends the process.    *)
(* The messages of handlers and VMs go through one queue to the client.    *)
(*                                                                         *)
(* The client is an editor that keeps to the order of the protocol: launch *)
(* first, breakpoints after the initialized event, one setBreakpoints at   *)
(* a time for a source, configurationDone once they are answered, restart  *)
(* once that is, no step of a thread it does not believe stopped, nothing  *)
(* after disconnect.  It knows a message as soon as it is sent; if         *)
(* it learns of it later it can only send less.                            *)
(***************************************************************************)
EXTENDS DebugVMs

VARIABLES
  session,   (* "open", "eof" (reading has ended), "closed" (the queue)    *)
  exiting,   (* disconnect has started the timer that exits                *)
  stage,     (* client: "new", "launching", "initialized", "configured"    *)
  leaving,   (* client: "no", "asked" and "may" (close the stream)         *)
  view,      (* client: whether it believes a thread stopped               *)
  verified,  (* client: the breakpoints that were answered as verified     *)
  asked,     (* client: the breakpoints it wants in a script               *)
  unsent     (* client: scripts whose breakpoints it has to send again     *)

clientVars  == <<stage, leaving, view, verified, asked, unsent>>
sessionVars == <<session, exiting, clientVars>>
dapVars     == <<debugVars, sessionVars>>

InitAdapter ==
  /\ session = "open" /\ exiting = FALSE
  /\ stage = "new" /\ leaving = "no"
  /\ view = [t \in Threads |-> FALSE]
  /\ verified = [t \in Threads |-> {}]
  /\ \E ls \in IF setup.front = "dap" THEN {{}, Lines} ELSE {{}} :
       asked = [t \in Threads |-> IF t <= setup.scripts THEN ls ELSE {}]
  /\ unsent = {}

Handles(k) == \E c \in Goroutines : Busy(c) /\ job[c].kind = k
HandlesFor(k, t) == \E c \in Goroutines : Busy(c) /\ job[c].kind = k /\ job[c].thread = t

(***************************************************************************)
(* handleRequest: read a request and start a goroutine for it.  The other  *)
(* conjuncts are the client's; besides the requests of a start it sends    *)
(* those the setup names.                                                  *)
(***************************************************************************)
Start(c, k, t) ==
  /\ Alive /\ setup.front = "dap" /\ session = "open" /\ leaving = "no"
  /\ ~Busy(c) /\ c = CHOOSE d \in Goroutines : ~Busy(d)
  /\ job' = [job EXCEPT ![c] = [Idle EXCEPT !.kind = k, !.pc = "begin", !.thread = t]]
  /\ UNCHANGED <<vmVars, helperVars, died, session, exiting>>

Startup == {"launch", "setBreakpoints", "configurationDone"}
Wanted(k) == k \in setup.requests \/ (k \in Startup /\ stage # "configured")

SendLaunch(c) ==
  /\ stage = "new" /\ Start(c, "launch", 0)
  /\ stage' = "launching"
  /\ UNCHANGED <<leaving, view, verified, asked, unsent>>

SendSetBreakpoints(c) ==
  \E t \in 1..setup.scripts, ls \in {{}, Lines} :
    /\ Wanted("setBreakpoints") /\ ~HandlesFor("setBreakpoints", t)
    /\ \/ stage = "initialized" /\ t \in unsent /\ ls = asked[t]
       \/ stage = "configured" /\ ls # asked[t]
    /\ Start(c, "setBreakpoints", t)
    /\ asked' = [asked EXCEPT ![t] = ls]
    /\ unsent' = unsent \ {t}
    /\ UNCHANGED <<stage, leaving, view, verified>>

SendConfigurationDone(c) ==
  /\ stage = "initialized" /\ unsent = {} /\ ~Handles("setBreakpoints")
  /\ Start(c, "configurationDone", 0)
  /\ stage' = "configured"
  /\ UNCHANGED <<leaving, view, verified, asked, unsent>>

(* Continue, next (stepIn and stepOut are the same) of a stopped thread.   *)
SendResume(c) ==
  \E t \in Threads, k \in {"continue", "next"} :
    /\ stage = "configured" /\ Wanted(k) /\ view[t]
    /\ Start(c, k, t)
    /\ view' = [view EXCEPT ![t] = FALSE]
    /\ UNCHANGED <<stage, leaving, verified, asked, unsent>>

SendPause(c) ==
  \E t \in 1..setup.scripts :
    /\ stage = "configured" /\ Wanted("pause") /\ Start(c, "pause", t)
    /\ UNCHANGED clientVars

SendRestart(c) ==
  /\ stage = "configured" /\ made < Helpers
  /\ ~Handles("restart") /\ ~Handles("configurationDone")
  /\ Wanted("restart") /\ Start(c, "restart", 0)
  /\ stage' = "launching"
  /\ view' = [t \in Threads |-> FALSE]
  /\ UNCHANGED <<leaving, verified, asked, unsent>>

SendTerminate(c) ==
  /\ stage = "configured" /\ ~Handles("terminate")
  /\ Wanted("terminate") /\ Start(c, "terminate", 0)
  /\ UNCHANGED clientVars

SendDisconnect(c) ==
  /\ stage # "new"
  /\ Wanted("disconnect") /\ Start(c, "disconnect", 0)
  /\ leaving' = "asked"
  /\ UNCHANGED <<stage, view, verified, asked, unsent>>

(* The calls that only look (stackTrace, scopes, variables, source,        *)
(* threads, loadedSources), change a variable, or are not implemented, and *)
(* breakpoints for a file that is not one of the scripts.                  *)
SendOther(c) ==
  \E k \in {"inspect", "unsupported", "foreign"} :
    /\ stage \in {"initialized", "configured"} /\ Wanted(k) /\ Start(c, k, 1)
    /\ UNCHANGED clientVars

Client(c) ==
  \/ SendLaunch(c) \/ SendSetBreakpoints(c) \/ SendConfigurationDone(c) \/ SendResume(c)
  \/ SendPause(c) \/ SendRestart(c) \/ SendTerminate(c) \/ SendDisconnect(c) \/ SendOther(c)

Begins(c, k) == Alive /\ job[c].pc = "begin" /\ job[c].kind = k

(***************************************************************************)
(* The handlers up to the point where they wait for a VM or send.          *)
(***************************************************************************)
HelperFromArguments(c) ==
  \/ Make /\ helper' = made' /\ Goto(c, "event")
  \/ MakeFails /\ helper' = 0 /\ Goto(c, "error")

OnLaunch(c) ==
  /\ Begins(c, "launch") /\ HelperFromArguments(c)
  /\ UNCHANGED <<setup, starts, finished, died, sessionVars>>

(* go h.helper.Coordinator.Terminate() evaluates h.helper, then starts.    *)
OnRestart(c) ==
  /\ Begins(c, "restart") /\ helper # 0
  /\ job' = [job EXCEPT ![c].pc = "load",
                        ![helper] = [Idle EXCEPT !.kind = "abandoned", !.pc = "terminate",
                                                 !.helper = helper]]
  /\ UNCHANGED <<vmVars, helperVars, died, sessionVars>>

OnRestartLoads(c) ==
  /\ Alive /\ job[c].pc = "load" /\ HelperFromArguments(c)
  /\ UNCHANGED <<setup, starts, finished, died, sessionVars>>

(* All breakpoints of the VM are removed, then the valid ones are added;   *)
(* the VM may run in between.                                              *)
OnSetBreakpoints_KeepsOld(c) ==
  /\ Begins(c, "setBreakpoints") /\ helper # 0
  /\ job' = [job EXCEPT ![c].pc = "add", ![c].helper = helper]
  /\ UNCHANGED <<vmVars, helperVars, died, sessionVars>>
OnSetBreakpoints(c) ==
  /\ Begins(c, "setBreakpoints") /\ helper # 0
  /\ breakpoints' = [breakpoints EXCEPT ![<<helper, job[c].thread>>] = {}]
  /\ job' = [job EXCEPT ![c].pc = "add", ![c].helper = helper]
  /\ UNCHANGED <<mode, stepping, event, helperVars, died, sessionVars>>

(* Which are valid is looked up in the helper in use, for each of them.    *)
AddBreakpoints(c) ==
  /\ Alive /\ job[c].pc = "add" /\ (helper # 0 \/ asked[job[c].thread] = {})
  /\ breakpoints' = [breakpoints EXCEPT
       ![JobVM(c)] = @ \union (asked[job[c].thread] \intersect ValidBreakpoints)]
  /\ Goto(c, "sent")
  /\ UNCHANGED <<mode, stepping, event, helperVars, died, sessionVars>>

OnConfigurationDone(c) ==
  /\ Begins(c, "configurationDone") /\ helper # 0
  /\ RunCoordinator /\ Goto(c, "sent")
  /\ UNCHANGED <<vmVars, setup, helper, made, registered, finished, died, sessionVars>>

(* A finished VM: a thread event, and for continue neither body nor error. *)
OnResume(c) ==
  /\ Begins(c, "continue") \/ Begins(c, "next")
  /\ helper # 0
  /\ Goto(c, IF job[c].thread \in finished[helper] THEN "exited" ELSE "lookup")
  /\ UNCHANGED <<vmVars, helperVars, died, sessionVars>>

OnPause(c) ==
  /\ Begins(c, "pause") /\ helper # 0
  /\ job' = [job EXCEPT ![c].pc = "send", ![c].helper = helper]
  /\ UNCHANGED <<vmVars, helperVars, died, sessionVars>>

OnTerminate(c) ==
  /\ Begins(c, "terminate") /\ helper # 0
  /\ job' = [job EXCEPT ![c].pc = "terminate", ![c].helper = helper]
  /\ UNCHANGED <<vmVars, helperVars, died, sessionVars>>

OnDisconnect_OnlyWaits(c) ==
  /\ Begins(c, "disconnect")
  /\ job' = IF helper = 0 THEN [job EXCEPT ![c].pc = "sent"]
            ELSE [job EXCEPT ![c].pc = "wait", ![c].helper = helper, ![c].todo = registered[helper]]
  /\ UNCHANGED <<vmVars, helperVars, died, sessionVars>>
OnDisconnect_NoCleanup(c) ==
  /\ Begins(c, "disconnect")
  /\ Goto(c, "sent")
  /\ UNCHANGED <<vmVars, helperVars, died, sessionVars>>
OnDisconnect(c) ==
  /\ Begins(c, "disconnect")
  /\ Goto(c, IF helper = 0 THEN "sent" ELSE "lookup")
  /\ UNCHANGED <<vmVars, helperVars, died, sessionVars>>

(* h.helper is read again after FinishedVMs or nil was looked up in it: a  *)
(* restart can have exchanged it.                                          *)
LookUp(c) ==
  /\ Alive /\ job[c].pc = "lookup" /\ helper # 0
  /\ job' = [job EXCEPT ![c].pc = IF job[c].kind = "disconnect" THEN "terminate" ELSE "send",
                        ![c].helper = helper]
  /\ UNCHANGED <<vmVars, helperVars, died, sessionVars>>

(* So is it for WaitForTermination, after Terminate has returned.          *)
LookUpAgain(c) ==
  /\ Alive /\ job[c].pc = "await" /\ helper # 0
  /\ job' = [job EXCEPT ![c].pc = IF helper = job[c].helper THEN "wait" ELSE "stray",
                        ![c].helper = helper, ![c].todo = registered[helper]]
  /\ UNCHANGED <<vmVars, helperVars, died, sessionVars>>

OnInspect(c) ==
  /\ Begins(c, "inspect") /\ helper # 0
  /\ Goto(c, "sent")
  /\ UNCHANGED <<vmVars, helperVars, died, sessionVars>>

OnUnsupported(c) ==
  /\ Begins(c, "unsupported")
  /\ Goto(c, "error")
  /\ UNCHANGED <<vmVars, helperVars, died, sessionVars>>

(* "Source not found".                                                     *)
OnForeign(c) ==
  /\ Begins(c, "foreign") /\ helper # 0
  /\ Goto(c, "error")
  /\ UNCHANGED <<vmVars, helperVars, died, sessionVars>>

(* Every other handler dereferences h.helper, which is nil after a failed  *)
(* launch or restart; some do it again.                                    *)
NilHelper(c) ==
  /\ Alive /\ helper = 0
  /\ \/ job[c].pc = "begin" /\ job[c].kind \notin {"launch", "disconnect", "unsupported"}
     \/ job[c].pc \in {"lookup", "await"}
     \/ job[c].pc = "add" /\ asked[job[c].thread] # {}
  /\ Die("nil helper")
  /\ UNCHANGED <<vmVars, helperVars, job, sessionVars>>

(***************************************************************************)
(* Sending.  A handler that changed something sends its event first, then  *)
(* dispatchRequest the response.                                           *)
(***************************************************************************)
SendsEvent(c) ==
  /\ Alive
  /\ \/ job[c].pc = "event" /\ job[c].kind \in {"launch", "restart"}
     \/ job[c].pc = "terminated" /\ job[c].kind = "terminate"
     \/ job[c].pc = "sent" /\ job[c].kind = "pause"
     \/ job[c].pc = "exited"
  /\ Goto(c, IF job[c].pc = "exited" /\ job[c].kind = "continue" THEN "no body" ELSE "answer")
  /\ IF job[c].kind \in {"launch", "restart"}
       THEN stage' = "initialized" /\ unsent' = 1..setup.scripts
       ELSE UNCHANGED <<stage, unsent>>
  /\ view' = IF job[c].kind = "pause" THEN [view EXCEPT ![job[c].thread] = TRUE] ELSE view
  /\ UNCHANGED <<vmVars, helperVars, died, session, exiting, leaving, verified, asked>>

(* The response: the client learns which breakpoints are verified, and may *)
(* hang up once disconnect is answered.  Disconnect starts the exit timer. *)
Answerable(c) ==
  \/ job[c].pc \in {"answer", "error"}
  \/ job[c].pc = "sent" /\ job[c].kind # "pause"

Answer(c) ==
  /\ Alive /\ Answerable(c)
  /\ job' = [job EXCEPT ![c] = Idle]
  /\ verified' = IF job[c].kind = "setBreakpoints"
                   THEN [verified EXCEPT ![job[c].thread] =
                          asked[job[c].thread] \intersect ValidBreakpoints]
                   ELSE verified
  /\ leaving' = IF job[c].kind = "disconnect" THEN "may" ELSE leaving
  /\ exiting' = (exiting \/ job[c].kind = "disconnect")
  /\ UNCHANGED <<vmVars, helperVars, died, session, stage, view, asked, unsent>>

(* *response.GetResponse() of a nil response.                              *)
NoResponse(c) ==
  /\ Alive /\ job[c].pc = "no body"
  /\ Die("nil response")
  /\ UNCHANGED <<vmVars, helperVars, job, sessionVars>>

OtherHandler(c) == OnInspect(c) \/ OnUnsupported(c) \/ OnForeign(c)

Handler(c) ==
  /\ setup.front = "dap"
  /\ \/ OnLaunch(c) \/ OnRestart(c) \/ OnRestartLoads(c) \/ OnSetBreakpoints(c)
     \/ AddBreakpoints(c) \/ OnConfigurationDone(c) \/ OnResume(c) \/ OnPause(c)
     \/ OnTerminate(c) \/ OnDisconnect(c) \/ LookUp(c) \/ LookUpAgain(c) \/ OtherHandler(c)
     \/ NilHelper(c) \/ SendsEvent(c) \/ Answer(c) \/ NoResponse(c)

(***************************************************************************)
(* The handlers configureVM gives to a VM tell the client that the thread  *)
(* has stopped.  The queue may be closed by then.                          *)
(***************************************************************************)
StoppedEvent_NotForErrors(v) ==
  view' = IF event[v] = "exception" THEN view ELSE [view EXCEPT ![v[2]] = TRUE]
StoppedEvent(v) == view' = [view EXCEPT ![v[2]] = TRUE]

HandlerSends(v) ==
  /\ Alive /\ setup.front = "dap" /\ mode[v] = "handler"
  /\ \/ /\ session # "closed"
        /\ LeaveHandler(v) /\ StoppedEvent(v)
        /\ UNCHANGED died
     \/ /\ session = "closed"
        /\ Die("closed queue")
        /\ UNCHANGED <<mode, event, view>>
  /\ UNCHANGED <<stepping, breakpoints, helperVars, job, session, exiting, stage, leaving,
                 verified, asked, unsent>>

(***************************************************************************)
(* StartSession: after the end of the stream it waits for the goroutines   *)
(* that handle requests, and closes the queue.                             *)
(***************************************************************************)
HangUp ==
  /\ Alive /\ session = "open" /\ leaving = "may"
  /\ session' = "eof"
  /\ UNCHANGED <<debugVars, exiting, clientVars>>

CloseQueue ==
  /\ Alive /\ session = "eof" /\ \A c \in Goroutines : ~Busy(c)
  /\ session' = "closed"
  /\ UNCHANGED <<debugVars, exiting, clientVars>>

(* os.Exit, two seconds after a disconnect.                                *)
Exit ==
  /\ Alive /\ exiting /\ Die("exit")
  /\ UNCHANGED <<vmVars, helperVars, job, sessionVars>>

AdapterStep ==
  \/ \E c \in Goroutines : Client(c) \/ Handler(c)
  \/ \E v \in VMs : HandlerSends(v)
  \/ HangUp \/ CloseQueue \/ Exit

(***************************************************************************)
(* Properties.                                                             *)
(***************************************************************************)
AdapterTypeOK ==
  /\ session \in {"open", "eof", "closed"}
  /\ stage \in {"new", "launching", "initialized", "configured"}
  /\ leaving \in {"no", "asked", "may"}
  /\ view \in [Threads -> BOOLEAN]
  /\ verified \in [Threads -> SUBSET Lines] /\ asked \in [Threads -> SUBSET Lines]
  /\ unsent \subseteq Threads

Requested(t) ==
  \/ Handles("restart")
  \/ \E c \in Goroutines : Busy(c) /\ job[c].thread = t /\ job[c].kind \in {"continue", "next", "pause"}

(* Nothing stops silently: a script that is paused has been reported as    *)
(* stopped, unless a request about it is in progress, so the user never    *)
(* waits for a script that waits for the user.  Scripts that are marked as *)
(* finished are excepted, those that a restart let be marked wrongly (see  *)
(* FinishedIsTrue) with them: continue only reports that they have exited. *)
NoSilentStop ==
  (setup.front = "dap" /\ Alive /\ helper # 0) =>
    \A t \in Threads : mode[<<helper, t>>] = "paused" =>
      view[t] \/ Requested(t) \/ t \in finished[helper]

(* The breakpoints the client was told are verified are those of the VM    *)
(* that runs now, also after a restart and however the requests overlap.   *)
VerifiedIsSet ==
  (setup.front = "dap" /\ Alive /\ helper # 0 /\ stage = "configured") =>
    \A t \in Threads : breakpoints[<<helper, t>>] = verified[t] \/ HandlesFor("setBreakpoints", t)

(* When the queue is closed after a disconnect no script of the session is *)
(* running, so that none sends an event to the closed queue.  Scripts that *)
(* a restart abandoned may.                                                *)
ClosesQuietly ==
  /\ (session = "closed" /\ helper # 0 /\ starts[helper] > 0) =>
       \A t \in 1..setup.scripts : mode[<<helper, t>>] = "gone"
  /\ died = "closed queue" => \E g \in 1..Helpers : g # helper /\ Busy(g)
==============================================================================
