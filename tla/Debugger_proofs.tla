---------------------------- MODULE Debugger_proofs ----------------------------
(***************************************************************************)
(* Theorems about Debugger for all setups, numbers of scripts and restarts *)
(* and sets of goroutines.                                                 *)
(*                                                                         *)
(* None of the properties is inductive.  Each follows from a part of the   *)
(* inductive invariant DebuggerInv that says who will repair what is not   *)
(* right yet: Once (which requests may overlap), NoneForgotten (who        *)
(* reports a stop), Known (who sets breakpoints, and in which helper), and *)
(* Quiet (who ends the scripts of a helper).  Types says what is known of  *)
(* a job at every point.                                                   *)
(***************************************************************************)
EXTENDS Debugger, TLAPS

Scripts == 1..setup.scripts
Modes   == {"none", "runs", "handler", "paused", "gone"}

(***************************************************************************)
(* The points a job of each kind goes through, whichever way it ends.      *)
(***************************************************************************)
PointsOf(kind) ==
  CASE kind = "idle"              -> {"done"}
    [] kind = "launch"            -> {"begin", "event", "error", "answer"}
    [] kind = "restart"           -> {"begin", "load", "event", "error", "answer"}
    [] kind = "setBreakpoints"    -> {"begin", "add", "sent"}
    [] kind = "configurationDone" -> {"begin", "sent"}
    [] kind \in {"continue", "next"} ->
         {"begin", "lookup", "send", "sent", "exited", "no body", "answer"}
    [] kind = "pause"             -> {"begin", "send", "sent", "answer"}
    [] kind = "step"              -> {"send", "sent"}
    [] kind = "terminate"         -> {"begin", "terminate", "terminating", "terminated", "answer"}
    [] kind = "disconnect"        ->
         {"begin", "lookup", "terminate", "terminating", "await", "wait", "stray", "sent"}
    [] kind = "reset"             -> {"terminate", "terminating", "terminated"}
    [] kind = "abandoned"         -> {"terminate", "terminating"}
    [] kind = "inspect"           -> {"begin", "sent"}
    [] kind \in {"unsupported", "foreign"} -> {"begin", "error"}

Kinds ==
  {"idle", "launch", "restart", "setBreakpoints", "configurationDone", "continue", "next", "pause",
   "step", "terminate", "disconnect", "reset", "abandoned", "inspect", "unsupported", "foreign"}
Points ==
  {"done", "begin", "event", "error", "answer", "load", "add", "sent", "send", "exited", "no body",
   "terminate", "terminating", "terminated", "lookup", "await", "wait", "stray"}
Jobs == [kind : Kinds, pc : Points, thread : 0..MaxScripts, helper : 0..Helpers, todo : SUBSET Threads]

(* A job that is about a helper is about one that has been made; what a    *)
(* restart abandons is named by the helper.                                *)
JobOK(c) ==
  /\ job[c].pc \in PointsOf(job[c].kind)
  /\ job[c].helper <= made
  /\ job[c].pc \in {"add", "send", "terminate", "terminating", "await", "wait", "stray"} =>
       job[c].helper # 0
  /\ job[c].kind \in {"continue", "next", "pause", "step"} => job[c].thread # 0
  /\ job[c].kind = "setBreakpoints" =>
       job[c].thread \in Scripts /\ (job[c].pc = "sent" => job[c].helper # 0)
  /\ c \in 1..Helpers /\ Busy(c) => job[c].kind = "abandoned" /\ job[c].helper = c
  /\ c \in Goroutines => job[c].kind # "abandoned"

(* Nothing is known of a helper before it is made.                         *)
Fresh ==
  \A g \in 1..Helpers : g > made =>
    starts[g] = 0 /\ \A t \in Threads : mode[<<g, t>>] = "none" /\ breakpoints[<<g, t>>] = {}

DataTyped ==
  /\ setup \in Setups /\ helper \in 0..made /\ made \in 0..Helpers
  /\ mode \in [VMs -> Modes] /\ stepping \in [VMs -> BOOLEAN]
  /\ event \in [VMs -> {"none", "exception", "step", "breakpoint", "finish"}]
  /\ breakpoints \in [VMs -> SUBSET ValidBreakpoints]
  /\ registered \in [1..Helpers -> SUBSET Threads] /\ finished \in [1..Helpers -> SUBSET Threads]
  /\ starts \in [1..Helpers -> Nat]
JobsTyped == job \in [Callers -> Jobs] /\ \A c \in Callers : JobOK(c)
Types == DataTyped /\ Fresh /\ JobsTyped /\ AdapterTypeOK /\ ShellTypeOK

(***************************************************************************)
(* Only one job opens a helper at a time, and none while configurationDone *)
(* has yet to start its coordinator: that is what the client's order of    *)
(* requests gives, and what the shell has running for.                     *)
(***************************************************************************)
Opening(c)  == job[c].kind \in {"launch", "restart"} /\ job[c].pc \in {"begin", "load", "event"}
Starting(c) == job[c].kind = "configurationDone" /\ job[c].pc = "begin"
Started     == helper # 0 /\ starts[helper] > 0
InOrder ==
  /\ \A c, d \in Goroutines : Opening(c) /\ Opening(d) => c = d
  /\ \A c, d \in Goroutines : Starting(c) /\ Starting(d) => c = d
  /\ \A c \in Goroutines : Opening(c) => stage = "launching" /\ (job[c].pc = "event" => ~Started)
  /\ \A c \in Goroutines : Starting(c) => stage = "configured" /\ ~Started
  /\ \A c \in Goroutines : Opening(c) /\ job[c].kind = "launch" /\ job[c].pc = "begin" => helper = 0
  /\ stage = "new" => helper = 0
  /\ stage = "initialized" => ~Started
ShellOnce == (setup.front = "shell" /\ Alive /\ Started) => running
Once == RunsOnce /\ (setup.front = "dap" => InOrder) /\ ShellOnce

(* A script that is paused was reported, or will be when the request about *)
(* it is done, or is about to be abandoned.                                *)
SeenBy(c, t) ==
  \/ job[c].kind = "pause" /\ job[c].pc = "sent" /\ job[c].thread = t
  \/ job[c].kind \in {"continue", "next"} /\ job[c].pc \in {"begin", "lookup"} /\ job[c].thread = t
  \/ job[c].kind \in {"continue", "next"} /\ job[c].pc = "send" /\ JobVM(c) = <<helper, t>>
  \/ job[c].kind = "restart" /\ job[c].pc \in {"begin", "load"}
WillBeSeen(t) == \E c \in Goroutines : SeenBy(c, t)
NoneForgotten ==
  (setup.front = "dap" /\ Alive /\ helper # 0) =>
    \A t \in Threads : mode[<<helper, t>>] = "paused" =>
      view[t] \/ WillBeSeen(t) \/ t \in finished[helper]

(* The breakpoints of a script are those the client knows or those of a    *)
(* request in progress about the helper in use, unless the client has yet  *)
(* to send them.                                                           *)
Sets(c, t) == job[c].kind = "setBreakpoints" /\ job[c].thread = t
InForce(t) ==
  /\ breakpoints[<<helper, t>>] = verified[t] \/ \E c \in Goroutines : Sets(c, t)
  /\ \A c \in Goroutines : Sets(c, t) /\ job[c].pc \in {"add", "sent"} => job[c].helper = helper
KnownBreakpoints ==
  /\ \A c, d \in Goroutines : \A t \in Threads : Sets(c, t) /\ Sets(d, t) => c = d
  /\ \A c \in Goroutines : job[c].kind = "setBreakpoints" /\ job[c].pc = "sent" =>
       breakpoints[JobVM(c)] = asked[job[c].thread] \intersect ValidBreakpoints
  /\ \A c \in Goroutines : job[c].kind = "setBreakpoints" /\ job[c].pc = "add" =>
       breakpoints[JobVM(c)] = {}
  /\ unsent \subseteq Scripts /\ (stage = "configured" => unsent = {})
  /\ \A t \in Threads \ Scripts :
       verified[t] = {} /\ \A g \in 1..Helpers : breakpoints[<<g, t>>] = {}
  /\ helper # 0 /\ stage \in {"initialized", "configured"} =>
       \A t \in Threads : t \in unsent \/ InForce(t)
Known == setup.front = "dap" /\ Alive => KnownBreakpoints

(* What Terminate leaves of a helper, and who sees to it that a helper     *)
(* that is no longer in use, or that disconnect found, ends.               *)
Ended(g) == \A t \in Scripts : mode[<<g, t>>] = "gone"
Halted == helper = 0 \/ Ended(helper) \/ (~Started /\ \A c \in Goroutines : ~Starting(c))
Cleanup ==
  /\ \A g \in 1..made : \A t \in Scripts : mode[<<g, t>>] = "gone" \/ t \in registered[g]
  /\ \A g \in 1..Helpers : \A t \in Threads :
       mode[<<g, t>>] \notin {"none", "gone"} => g <= made /\ t \in Scripts
  /\ \A v \in VMs : mode[v] = "handler" => starts[v[1]] > 0
  /\ \A c \in Callers : job[c].pc = "terminating" =>
       \A t \in Scripts : mode[<<job[c].helper, t>>] = "gone" \/ t \in job[c].todo
  /\ \A c \in Callers : job[c].pc \in {"await", "wait"} => Ended(job[c].helper)
  /\ \A g \in 1..made : g = helper \/ Busy(g) \/ Ended(g)
  /\ \A c \in Goroutines : job[c].kind = "restart" /\ job[c].pc = "load" =>
       helper # 0 /\ (Busy(helper) \/ Ended(helper))
Leaves ==
  /\ leaving = "no" => \A c \in Goroutines : job[c].kind # "disconnect"
  /\ \A c \in Goroutines : job[c].kind = "disconnect" =>
       /\ job[c].pc \in {"terminate", "terminating", "await", "wait"} => job[c].helper = helper \/ Halted
       /\ job[c].pc \in {"stray", "sent"} => Halted
  /\ leaving = "may" => Halted
  /\ session # "open" => leaving = "may"
Quiet ==
  /\ setup.front = "dap" => Cleanup /\ Leaves
  /\ setup.front = "shell" => session = "open" /\ leaving = "no"
  /\ died = "closed queue" => \E g \in 1..Helpers : g # helper /\ Busy(g)
-----------------------------------------------------------------------------
(* Facts about the constants.                                              *)
LEMMA Facts ==
  /\ MaxScripts \in Nat \ {0} /\ Helpers \in Nat \ {0}
  /\ Goroutines # {} /\ Goroutines \intersect Nat = {} /\ (1..Helpers) \intersect Goroutines = {}
  /\ \A s \in Setups : s.scripts \in 1..MaxScripts /\ s.front \in {"dap", "shell"}
BY DebugAssumption

(***************************************************************************)
(* How a step changes what a caller does.                                  *)
(***************************************************************************)
Moves(c, k, p, t, h, S) ==
  /\ job' \in [Callers -> Jobs]
  /\ job'[c].kind = k /\ job'[c].pc = p /\ job'[c].thread = t /\ job'[c].helper = h /\ job'[c].todo = S
  /\ \A d \in Callers : d # c => job'[d] = job[d]
GoesTo(c, p) == Moves(c, job[c].kind, p, job[c].thread, job[c].helper, job[c].todo)

(* The ways in which the actions write it.                                 *)
LEMMA Moving ==
  ASSUME job \in [Callers -> Jobs], NEW c \in Callers, NEW p \in Points
  PROVE  /\ Goto(c, p) => GoesTo(c, p)
         /\ \A h \in 0..Helpers : job' = [job EXCEPT ![c].pc = p, ![c].helper = h] =>
              Moves(c, job[c].kind, p, job[c].thread, h, job[c].todo)
         /\ \A h \in 0..Helpers, S \in SUBSET Threads :
              job' = [job EXCEPT ![c].pc = p, ![c].helper = h, ![c].todo = S] =>
                Moves(c, job[c].kind, p, job[c].thread, h, S)
         /\ \A S \in SUBSET Threads : job' = [job EXCEPT ![c].pc = p, ![c].todo = S] =>
              Moves(c, job[c].kind, p, job[c].thread, job[c].helper, S)
         /\ \A S \in SUBSET Threads : job' = [job EXCEPT ![c].todo = S] =>
              Moves(c, job[c].kind, job[c].pc, job[c].thread, job[c].helper, S)
         /\ job' = [job EXCEPT ![c] = Idle] => Moves(c, "idle", "done", 0, 0, {})
         /\ \A j \in Jobs : job' = [job EXCEPT ![c] = j] =>
              Moves(c, j.kind, j.pc, j.thread, j.helper, j.todo)
<1>1. \A j \in Jobs : job' = [job EXCEPT ![c] = j] =>
        Moves(c, j.kind, j.pc, j.thread, j.helper, j.todo)
  BY DEF Moves
<1>2. /\ [job[c] EXCEPT !.pc = p] \in Jobs
      /\ \A h \in 0..Helpers : [job[c] EXCEPT !.pc = p, !.helper = h] \in Jobs
      /\ \A h \in 0..Helpers, S \in SUBSET Threads :
           [job[c] EXCEPT !.pc = p, !.helper = h, !.todo = S] \in Jobs
      /\ \A S \in SUBSET Threads : /\ [job[c] EXCEPT !.todo = S] \in Jobs
                                   /\ [job[c] EXCEPT !.pc = p, !.todo = S] \in Jobs
  BY DEF Jobs
<1>3. ASSUME Goto(c, p) PROVE GoesTo(c, p)
  <2>1. PICK j \in Jobs : j = [job[c] EXCEPT !.pc = p]
    BY <1>2
  <2>2. /\ j.kind = job[c].kind /\ j.pc = p /\ j.thread = job[c].thread
        /\ j.helper = job[c].helper /\ j.todo = job[c].todo
    BY <2>1 DEF Jobs
  <2> QED
    BY <2>1, <2>2, <1>3, <1>1 DEF Goto, GoesTo
<1>4. ASSUME NEW h \in 0..Helpers, job' = [job EXCEPT ![c].pc = p, ![c].helper = h]
      PROVE  Moves(c, job[c].kind, p, job[c].thread, h, job[c].todo)
  <2>1. PICK j \in Jobs : j = [job[c] EXCEPT !.pc = p, !.helper = h]
    BY <1>2
  <2>2. /\ j.kind = job[c].kind /\ j.pc = p /\ j.thread = job[c].thread
        /\ j.helper = h /\ j.todo = job[c].todo
    BY <2>1 DEF Jobs
  <2> QED
    BY <2>1, <2>2, <1>4, <1>1
<1>5. ASSUME NEW S \in SUBSET Threads, job' = [job EXCEPT ![c].pc = p, ![c].todo = S]
      PROVE  Moves(c, job[c].kind, p, job[c].thread, job[c].helper, S)
  <2>1. PICK j \in Jobs : j = [job[c] EXCEPT !.pc = p, !.todo = S]
    BY <1>2
  <2>2. /\ j.kind = job[c].kind /\ j.pc = p /\ j.thread = job[c].thread
        /\ j.helper = job[c].helper /\ j.todo = S
    BY <2>1 DEF Jobs
  <2> QED
    BY <2>1, <2>2, <1>5, <1>1
<1>6. ASSUME NEW S \in SUBSET Threads, job' = [job EXCEPT ![c].todo = S]
      PROVE  Moves(c, job[c].kind, job[c].pc, job[c].thread, job[c].helper, S)
  <2>1. PICK j \in Jobs : j = [job[c] EXCEPT !.todo = S]
    BY <1>2
  <2>2. /\ j.kind = job[c].kind /\ j.pc = job[c].pc /\ j.thread = job[c].thread
        /\ j.helper = job[c].helper /\ j.todo = S
    BY <2>1 DEF Jobs
  <2> QED
    BY <2>1, <2>2, <1>6, <1>1
<1>7. /\ Idle \in Jobs
      /\ Idle.kind = "idle" /\ Idle.pc = "done" /\ Idle.thread = 0 /\ Idle.helper = 0 /\ Idle.todo = {}
  <2>1. "idle" \in Kinds /\ "done" \in Points
    BY DEF Kinds, Points
  <2>2. 0 \in 0..MaxScripts /\ 0 \in 0..Helpers
    BY Facts
  <2> QED
    BY <2>1, <2>2 DEF Idle, Jobs
<1>8. ASSUME job' = [job EXCEPT ![c] = Idle] PROVE Moves(c, "idle", "done", 0, 0, {})
  <2>1. PICK j \in Jobs : j = Idle
    BY <1>7
  <2> QED
    BY <2>1, <1>7, <1>8, <1>1
<1>9. ASSUME NEW h \in 0..Helpers, NEW S \in SUBSET Threads,
             job' = [job EXCEPT ![c].pc = p, ![c].helper = h, ![c].todo = S]
      PROVE  Moves(c, job[c].kind, p, job[c].thread, h, S)
  <2>1. PICK j \in Jobs : j = [job[c] EXCEPT !.pc = p, !.helper = h, !.todo = S]
    BY <1>2
  <2>2. /\ j.kind = job[c].kind /\ j.pc = p /\ j.thread = job[c].thread
        /\ j.helper = h /\ j.todo = S
    BY <2>1 DEF Jobs
  <2> QED
    BY <2>1, <2>2, <1>9, <1>1
<1> QED
  BY <1>1, <1>3, <1>4, <1>5, <1>6, <1>8, <1>9

(* The helper in use is one that was made.                                 *)
LEMMA HelperInUse ==
  ASSUME Types, helper # 0
  PROVE  helper \in 1..Helpers /\ helper \in 1..made /\ (~Started => starts[helper] = 0)
<1>1. helper \in 1..Helpers /\ helper \in 1..made
  BY Facts DEF Types, DataTyped
<1>2. starts[helper] \in Nat
  BY <1>1 DEF Types, DataTyped
<1> QED
  BY <1>1, <1>2 DEF Started

(* So are its scripts.                                                     *)
LEMMA ScriptsInUse ==
  ASSUME Types, helper # 0, UNCHANGED setup
  PROVE  Scripts' = Scripts /\ \A t \in Scripts : <<helper, t>> \in VMs
<1>1. setup.scripts \in 1..MaxScripts
  BY Facts DEF Types, DataTyped
<1>2. Scripts \subseteq Threads
  BY <1>1, Facts DEF Scripts, Threads
<1>3. helper \in 1..Helpers
  BY HelperInUse
<1> QED
  BY <1>2, <1>3 DEF VMs, Scripts

(* A caller that has nothing to do.                                        *)
LEMMA IdleIsDone ==
  ASSUME Types, NEW c \in Callers
  PROVE  ~Busy(c) <=> job[c].kind = "idle"
<1>1. job[c].kind \in Kinds /\ job[c].pc \in PointsOf(job[c].kind)
  BY DEF Types, JobsTyped, JobOK, Jobs
<1> QED
  BY <1>1 DEF Busy, PointsOf, Kinds

(* A request that is sent.                                                 *)
LEMMA Sending ==
  ASSUME Types, NEW c \in Goroutines, NEW k \in Kinds, NEW t \in 0..MaxScripts, Start(c, k, t)
  PROVE  job[c].kind = "idle" /\ job[c].pc = "done" /\ Moves(c, k, "begin", t, 0, {})
<1>1. c \in Callers /\ "begin" \in Points /\ job \in [Callers -> Jobs]
  BY DEF Callers, Points, Types, JobsTyped
<1>2. 0 \in 0..Helpers
  BY Facts
<1>3. PICK j : j = [Idle EXCEPT !.kind = k, !.pc = "begin", !.thread = t]
  OBVIOUS
<1>4. /\ j \in Jobs
      /\ j.kind = k /\ j.pc = "begin" /\ j.thread = t /\ j.helper = 0 /\ j.todo = {}
  BY <1>1, <1>2, <1>3 DEF Jobs, Idle
<1>5. job' = [job EXCEPT ![c] = j] /\ ~Busy(c)
  BY <1>3 DEF Start
<1> QED
  BY <1>1, <1>4, <1>5, Moving, IdleIsDone DEF Busy

(* What a handler does to its job.                                         *)
LEMMA Handling ==
  ASSUME Types, NEW c \in Goroutines
  PROVE  /\ OnSetBreakpoints(c) => Moves(c, job[c].kind, "add", job[c].thread, helper, job[c].todo)
         /\ AddBreakpoints(c) => GoesTo(c, "sent")
         /\ OnConfigurationDone(c) => GoesTo(c, "sent")
         /\ OnResume(c) =>
              IF job[c].thread \in finished[helper] THEN GoesTo(c, "exited") ELSE GoesTo(c, "lookup")
         /\ OnPause(c) => Moves(c, job[c].kind, "send", job[c].thread, helper, job[c].todo)
         /\ OnTerminate(c) => Moves(c, job[c].kind, "terminate", job[c].thread, helper, job[c].todo)
         /\ OnDisconnect(c) => IF helper = 0 THEN GoesTo(c, "sent") ELSE GoesTo(c, "lookup")
         /\ LookUp(c) =>
              Moves(c, job[c].kind, IF job[c].kind = "disconnect" THEN "terminate" ELSE "send",
                    job[c].thread, helper, job[c].todo)
         /\ LookUpAgain(c) =>
              Moves(c, job[c].kind, IF helper = job[c].helper THEN "wait" ELSE "stray",
                    job[c].thread, helper, registered[helper])
         /\ OnInspect(c) => GoesTo(c, "sent")
         /\ OnUnsupported(c) \/ OnForeign(c) => GoesTo(c, "error")
         /\ SendsEvent(c) =>
              GoesTo(c, IF job[c].pc = "exited" /\ job[c].kind = "continue" THEN "no body" ELSE "answer")
         /\ Answer(c) => Moves(c, "idle", "done", 0, 0, {})
<1>0. helper \in 0..Helpers
  BY Facts DEF Types, DataTyped
<1>1. c \in Callers /\ job \in [Callers -> Jobs] /\ helper \in 0..Helpers
  BY <1>0 DEF Callers, Types, JobsTyped
<1>2. {"add", "sent", "send", "exited", "terminate", "error", "no body", "answer", "lookup", "wait",
        "stray"} \subseteq Points
  BY DEF Points
<1>3. PICK h \in 0..Helpers : h = helper
  BY <1>1
<1>4. OnSetBreakpoints(c) => Moves(c, job[c].kind, "add", job[c].thread, helper, job[c].todo)
  BY <1>1, <1>2, <1>3, Moving DEF OnSetBreakpoints
<1>5. AddBreakpoints(c) => GoesTo(c, "sent")
  BY <1>1, <1>2, Moving DEF AddBreakpoints
<1>6. OnConfigurationDone(c) => GoesTo(c, "sent")
  BY <1>1, <1>2, Moving DEF OnConfigurationDone
<1>7. OnResume(c) =>
        IF job[c].thread \in finished[helper] THEN GoesTo(c, "exited") ELSE GoesTo(c, "lookup")
  BY <1>1, <1>2, Moving DEF OnResume
<1>8. /\ OnPause(c) => Moves(c, job[c].kind, "send", job[c].thread, helper, job[c].todo)
      /\ OnTerminate(c) => Moves(c, job[c].kind, "terminate", job[c].thread, helper, job[c].todo)
  BY <1>1, <1>2, <1>3, Moving DEF OnPause, OnTerminate
<1>9. OnDisconnect(c) => IF helper = 0 THEN GoesTo(c, "sent") ELSE GoesTo(c, "lookup")
  BY <1>1, <1>2, Moving DEF OnDisconnect
<1>10. (OnInspect(c) => GoesTo(c, "sent")) /\ (OnUnsupported(c) \/ OnForeign(c) => GoesTo(c, "error"))
  BY <1>1, <1>2, Moving DEF OnInspect, OnUnsupported, OnForeign
<1>11. SendsEvent(c) =>
         GoesTo(c, IF job[c].pc = "exited" /\ job[c].kind = "continue" THEN "no body" ELSE "answer")
  BY <1>1, <1>2, Moving DEF SendsEvent
<1>12. Answer(c) => Moves(c, "idle", "done", 0, 0, {})
  BY <1>1, <1>2, Moving DEF Answer
<1>13. LookUp(c) =>
         Moves(c, job[c].kind, IF job[c].kind = "disconnect" THEN "terminate" ELSE "send",
               job[c].thread, helper, job[c].todo)
  <2>1. PICK p \in Points : p = IF job[c].kind = "disconnect" THEN "terminate" ELSE "send"
    BY <1>2
  <2> QED
    BY <1>1, <1>3, <2>1, Moving DEF LookUp
<1>14. ASSUME LookUpAgain(c)
       PROVE  Moves(c, job[c].kind, IF helper = job[c].helper THEN "wait" ELSE "stray",
                    job[c].thread, helper, registered[helper])
  <2>1. PICK p \in Points : p = IF helper = job[c].helper THEN "wait" ELSE "stray"
    BY <1>2
  <2>2. helper \in 1..Helpers
    BY <1>1, <1>14, Facts DEF LookUpAgain
  <2>3. PICK S \in SUBSET Threads : S = registered[helper]
    BY <2>2 DEF Types, DataTyped
  <2> QED
    BY <1>1, <1>3, <1>14, <2>1, <2>3, Moving DEF LookUpAgain
<1> QED
  BY <1>4, <1>5, <1>6, <1>7, <1>8, <1>9, <1>10, <1>11, <1>12, <1>13, <1>14

(* Opening a helper, when a session or a new one begins.                   *)
LEMMA OpeningHelper ==
  ASSUME Types, NEW c \in Goroutines, HelperFromArguments(c)
  PROVE  \/ Make /\ helper' = made' /\ GoesTo(c, "event")
         \/ MakeFails /\ helper' = 0 /\ GoesTo(c, "error")
<1>1. c \in Callers /\ job \in [Callers -> Jobs] /\ {"event", "error"} \subseteq Points
  BY DEF Callers, Points, Types, JobsTyped
<1> QED
  BY <1>1, Moving DEF HelperFromArguments

(* A restart leaves a goroutine behind that terminates the old helper.     *)
LEMMA Abandoning ==
  ASSUME Types, NEW c \in Goroutines, OnRestart(c)
  PROVE  /\ helper \in Callers /\ helper \in 1..Helpers /\ c # helper
         /\ job' \in [Callers -> Jobs]
         /\ job'[c].kind = job[c].kind /\ job'[c].pc = "load" /\ job'[c].thread = job[c].thread
         /\ job'[c].helper = job[c].helper /\ job'[c].todo = job[c].todo
         /\ job'[helper].kind = "abandoned" /\ job'[helper].pc = "terminate"
         /\ job'[helper].helper = helper
         /\ \A d \in Callers : d # c /\ d # helper => job'[d] = job[d]
<1>0. helper \in 1..Helpers
  BY Facts DEF Types, DataTyped, OnRestart
<1>1. c \in Callers /\ job \in [Callers -> Jobs] /\ helper \in Callers /\ c # helper
  BY <1>0, Facts DEF Callers, Types, JobsTyped
<1>2. "load" \in Points /\ "abandoned" \in Kinds /\ "terminate" \in Points
  BY DEF Points, Kinds
<1>3. 0 \in 0..MaxScripts /\ helper \in 0..Helpers
  BY <1>0, Facts
<1>4. PICK h \in 0..Helpers : h = helper
  BY <1>3
<1>5. PICK j : j = [job[c] EXCEPT !.pc = "load"]
  OBVIOUS
<1>6. /\ j \in Jobs
      /\ j.kind = job[c].kind /\ j.pc = "load" /\ j.thread = job[c].thread
      /\ j.helper = job[c].helper /\ j.todo = job[c].todo
  BY <1>1, <1>2, <1>5 DEF Jobs
<1>7. PICK k : k = [Idle EXCEPT !.kind = "abandoned", !.pc = "terminate", !.helper = h]
  OBVIOUS
<1>8. k \in Jobs /\ k.kind = "abandoned" /\ k.pc = "terminate" /\ k.helper = h
  BY <1>2, <1>3, <1>7 DEF Jobs, Idle
<1>9. job' = [job EXCEPT ![c] = j, ![h] = k]
  BY <1>4, <1>5, <1>7 DEF OnRestart
<1> QED
  BY <1>0, <1>1, <1>4, <1>6, <1>8, <1>9

(* What the shell does to its job.                                         *)
LEMMA Commanding ==
  ASSUME Types
  PROVE  /\ shell \in Goroutines /\ shell \in Callers
         /\ \A k \in Kinds, p \in Points : Calls(k, p) => Moves(shell, k, p, current, helper, {})
         /\ Load => Moves(shell, "idle", "done", 0, 0, {})
         /\ Return => Moves(shell, "idle", "done", 0, 0, {})
<1>1. shell \in Goroutines /\ shell \in Callers
  BY Facts DEF shell, Callers
<1>2. job \in [Callers -> Jobs] /\ "done" \in Points
  BY DEF Types, JobsTyped, Points
<1>3. (Load => Moves(shell, "idle", "done", 0, 0, {})) /\ (Return => Moves(shell, "idle", "done", 0, 0, {}))
  BY <1>1, <1>2, Moving DEF Load, Return
<1>4. ASSUME NEW k \in Kinds, NEW p \in Points, Calls(k, p)
      PROVE  Moves(shell, k, p, current, helper, {})
  <2>1. helper \in 0..Helpers
    BY Facts DEF Types, DataTyped
  <2>2. setup.scripts \in 1..MaxScripts
    BY Facts DEF Types, DataTyped
  <2>3. current \in 0..MaxScripts
    BY <2>2, Facts DEF Types, ShellTypeOK
  <2>4. PICK j : j = [Idle EXCEPT !.kind = k, !.pc = p, !.thread = current, !.helper = helper]
    OBVIOUS
  <2>5. j \in Jobs /\ j.kind = k /\ j.pc = p /\ j.thread = current /\ j.helper = helper /\ j.todo = {}
    BY <2>1, <2>3, <2>4 DEF Jobs, Idle
  <2>6. job' = [job EXCEPT ![shell] = j]
    BY <2>4, <1>4 DEF Calls
  <2> QED
    BY <1>1, <1>2, <2>5, <2>6, Moving
<1> QED
  BY <1>1, <1>3, <1>4

(* What becomes of a job while VMs take its requests.                      *)
LEMMA Requesting ==
  ASSUME Types, NEW c \in Callers
  PROVE  /\ Deliver(c) => UNCHANGED job \/ GoesTo(c, "sent")
         /\ BeginTerminate(c) => Moves(c, job[c].kind, "terminating", job[c].thread, job[c].helper,
                                       registered[job[c].helper])
         /\ TerminateOne(c) => UNCHANGED job \/ \E S \in SUBSET job[c].todo : 
              Moves(c, job[c].kind, job[c].pc, job[c].thread, job[c].helper, S)
         /\ TerminatedAll(c) =>
              IF job[c].kind = "disconnect" THEN GoesTo(c, "await")
              ELSE IF job[c].kind = "abandoned" THEN Moves(c, "idle", "done", 0, 0, {})
              ELSE GoesTo(c, "terminated")
         /\ WaitForTermination(c) =>
              Moves(c, job[c].kind, "sent", job[c].thread, job[c].helper, {})
<1>1. job \in [Callers -> Jobs] /\ {"sent", "terminating", "await", "terminated"} \subseteq Points
  BY DEF Types, JobsTyped, Points
<1>2. job[c].todo \in SUBSET Threads /\ job[c].helper \in 0..Helpers
  BY <1>1 DEF Jobs
<1>3. ASSUME job[c].helper # 0 PROVE registered[job[c].helper] \in SUBSET Threads
  <2>1. job[c].helper \in 1..Helpers
    BY <1>2, <1>3, Facts
  <2> QED
    BY <2>1 DEF Types, DataTyped
<1>4. ASSUME job[c].pc \in {"terminate", "terminating"} PROVE job[c].helper # 0
  BY <1>4 DEF Types, JobsTyped, JobOK
<1>5. Deliver(c) => UNCHANGED job \/ GoesTo(c, "sent")
  BY <1>1, Moving DEF Deliver
<1>6. ASSUME BeginTerminate(c)
      PROVE  Moves(c, job[c].kind, "terminating", job[c].thread, job[c].helper, registered[job[c].helper])
  <2>1. PICK S \in SUBSET Threads : S = registered[job[c].helper]
    BY <1>3, <1>4, <1>6 DEF BeginTerminate
  <2> QED
    BY <1>1, <1>6, <2>1, Moving DEF BeginTerminate
<1>7. ASSUME TerminateOne(c)
      PROVE  UNCHANGED job \/ \E S \in SUBSET job[c].todo : 
               Moves(c, job[c].kind, job[c].pc, job[c].thread, job[c].helper, S)
  <2>1. CASE UNCHANGED job
    BY <2>1
  <2>2. CASE ~UNCHANGED job
    <3>1. PICK t \in job[c].todo : job' = [job EXCEPT ![c].todo = @ \ {t}]
      BY <1>7, <2>2 DEF TerminateOne
    <3>2. PICK S : S = job[c].todo \ {t}
      OBVIOUS
    <3>3. S \in SUBSET Threads /\ S \in SUBSET job[c].todo
      BY <1>2, <3>2
    <3>4. job' = [job EXCEPT ![c].todo = S]
      BY <3>1, <3>2
    <3> QED
      BY <1>1, <3>3, <3>4, Moving
  <2> QED
    BY <2>1, <2>2
<1>8. ASSUME TerminatedAll(c)
      PROVE  IF job[c].kind = "disconnect" THEN GoesTo(c, "await")
             ELSE IF job[c].kind = "abandoned" THEN Moves(c, "idle", "done", 0, 0, {})
             ELSE GoesTo(c, "terminated")
  BY <1>1, <1>8, Moving DEF TerminatedAll, Goto
<1>9. ASSUME WaitForTermination(c)
      PROVE  Moves(c, job[c].kind, "sent", job[c].thread, job[c].helper, {})
  <2>1. PICK S \in SUBSET Threads : S = {}
    OBVIOUS
  <2> QED
    BY <1>1, <1>9, <2>1, Moving DEF WaitForTermination
<1> QED
  BY <1>5, <1>6, <1>7, <1>8, <1>9

-----------------------------------------------------------------------------
(* Types: what a step leaves alone keeps its type.                         *)
LEMMA SameData ==
  ASSUME Types, UNCHANGED <<vmVars, helperVars>>
  PROVE  DataTyped' /\ Fresh'
BY DEF Types, DataTyped, Fresh, vmVars, helperVars

(* Jobs that do not change, while helpers are made.                        *)
LEMMA SameJobs ==
  ASSUME Types, UNCHANGED <<job, setup>>, made' \in made..Helpers
  PROVE  JobsTyped'
<1>1. \A c \in Callers : job[c].helper <= made => job[c].helper <= made'
  BY DEF Types, JobsTyped, DataTyped, Jobs
<1> QED
  BY <1>1 DEF Types, JobsTyped, JobOK, Busy, Scripts

(* Jobs other than the one a step is about.                                *)
LEMMA OtherJobs ==
  ASSUME Types, NEW c \in Callers, UNCHANGED setup, made' \in made..Helpers,
         job' \in [Callers -> Jobs], \A d \in Callers : d # c => job'[d] = job[d], JobOK(c)'
  PROVE  JobsTyped'
<1>1. \A d \in Callers : job[d].helper <= made => job[d].helper <= made'
  BY DEF Types, JobsTyped, DataTyped, Jobs
<1> QED
  BY <1>1 DEF Types, JobsTyped, JobOK, Busy, Scripts

(* A job that changes alone.                                               *)
LEMMA JobAlone ==
  ASSUME Types, NEW c \in Callers, UNCHANGED <<vmVars, helperVars>>,
         job' \in [Callers -> Jobs], \A d \in Callers : d # c => job'[d] = job[d], JobOK(c)',
         AdapterTypeOK', ShellTypeOK'
  PROVE  Types'
<1>1. made' \in made..Helpers /\ UNCHANGED setup
  BY DEF Types, DataTyped, helperVars
<1>2. JobsTyped'
  BY <1>1, OtherJobs
<1>3. DataTyped' /\ Fresh'
  BY SameData
<1> QED
  BY <1>2, <1>3 DEF Types

(* Requests keep the types.                                                *)
LEMMA ClientTypes ==
  ASSUME Types, NEW c \in Goroutines, Client(c), UNCHANGED shellVars
  PROVE  Types'
<1>1. ASSUME NEW k \in Kinds \ {"idle", "step", "reset", "abandoned"}, NEW t \in 0..MaxScripts,
             Start(c, k, t), t = 0 => k \notin {"continue", "next", "pause"},
             k = "setBreakpoints" => t \in Scripts, AdapterTypeOK'
      PROVE  Types'
  <2>1. c \in Callers /\ c \notin 1..Helpers
    BY Facts DEF Callers
  <2>2. Moves(c, k, "begin", t, 0, {})
    BY <1>1, Sending
  <2>3. UNCHANGED <<vmVars, helperVars>> /\ UNCHANGED <<setup, made>> /\ made \in Nat
    BY <1>1 DEF Start, helperVars, Types, DataTyped
  <2>4. "begin" \in PointsOf(k)
    BY DEF PointsOf, Kinds
  <2>5. JobOK(c)'
    BY <1>1, <2>1, <2>2, <2>3, <2>4 DEF Moves, JobOK, Busy, Scripts
  <2>6. ShellTypeOK'
    BY <2>3 DEF Types, ShellTypeOK, shellVars
  <2> QED
    BY <1>1, <2>1, <2>2, <2>3, <2>5, <2>6, JobAlone DEF Moves
<1>2. 0 \in 0..MaxScripts /\ 1 \in 0..MaxScripts /\ Scripts \subseteq Threads /\ Threads \subseteq 0..MaxScripts
  BY Facts DEF Types, DataTyped, Scripts, Threads
<1>3. {"launch", "setBreakpoints", "configurationDone", "continue", "next", "pause", "restart", "terminate",
        "disconnect", "inspect", "unsupported", "foreign"} \subseteq Kinds
  BY DEF Kinds
<1>4. AdapterTypeOK
  BY DEF Types
<1>5. ASSUME SendLaunch(c) PROVE Types'
  <2>1. AdapterTypeOK'
    BY <1>4, <1>5 DEF SendLaunch, Start, AdapterTypeOK
  <2> QED
    BY <1>1, <1>2, <1>3, <1>5, <2>1 DEF SendLaunch
<1>6. ASSUME SendSetBreakpoints(c) PROVE Types'
  <2>1. PICK t \in Scripts, ls \in {{}, Lines} :
          /\ Start(c, "setBreakpoints", t)
          /\ asked' = [asked EXCEPT ![t] = ls] /\ unsent' = unsent \ {t}
          /\ UNCHANGED <<stage, leaving, view, verified>>
    BY <1>6 DEF SendSetBreakpoints, Scripts
  <2>2. AdapterTypeOK'
    <3>1. asked' \in [Threads -> SUBSET Lines] /\ unsent' \subseteq Threads
      BY <1>4, <2>1 DEF AdapterTypeOK
    <3> QED
      BY <1>4, <2>1, <3>1 DEF Start, AdapterTypeOK
  <2> QED
    BY <1>1, <1>2, <1>3, <2>1, <2>2
<1>7. ASSUME SendConfigurationDone(c) PROVE Types'
  <2>1. AdapterTypeOK'
    BY <1>4, <1>7 DEF SendConfigurationDone, Start, AdapterTypeOK
  <2> QED
    BY <1>1, <1>2, <1>3, <1>7, <2>1 DEF SendConfigurationDone
<1>8. ASSUME SendResume(c) PROVE Types'
  <2>1. PICK t \in Threads, k \in {"continue", "next"} : Start(c, k, t) /\ view' = [view EXCEPT ![t] = FALSE]
    BY <1>8 DEF SendResume
  <2>2. AdapterTypeOK'
    BY <1>4, <1>8, <2>1 DEF SendResume, Start, AdapterTypeOK
  <2>3. t # 0
    BY DEF Threads
  <2> QED
    BY <1>1, <1>2, <1>3, <2>1, <2>2, <2>3
<1>9. ASSUME SendPause(c) PROVE Types'
  <2>1. PICK t \in Scripts : Start(c, "pause", t)
    BY <1>9 DEF SendPause, Scripts
  <2>2. AdapterTypeOK'
    BY <1>4, <1>9 DEF SendPause, Start, clientVars, AdapterTypeOK
  <2>3. t # 0
    BY DEF Scripts
  <2> QED
    BY <1>1, <1>2, <1>3, <2>1, <2>2, <2>3
<1>10. ASSUME SendRestart(c) PROVE Types'
  <2>1. AdapterTypeOK'
    BY <1>4, <1>10 DEF SendRestart, Start, AdapterTypeOK
  <2> QED
    BY <1>1, <1>2, <1>3, <1>10, <2>1 DEF SendRestart
<1>11. ASSUME SendTerminate(c) PROVE Types'
  <2>1. AdapterTypeOK'
    BY <1>4, <1>11 DEF SendTerminate, Start, clientVars, AdapterTypeOK
  <2> QED
    BY <1>1, <1>2, <1>3, <1>11, <2>1 DEF SendTerminate
<1>12. ASSUME SendDisconnect(c) PROVE Types'
  <2>1. AdapterTypeOK'
    BY <1>4, <1>12 DEF SendDisconnect, Start, AdapterTypeOK
  <2> QED
    BY <1>1, <1>2, <1>3, <1>12, <2>1 DEF SendDisconnect
<1>13. ASSUME SendOther(c) PROVE Types'
  <2>1. PICK k \in {"inspect", "unsupported", "foreign"} : Start(c, k, 1)
    BY <1>13 DEF SendOther
  <2>2. AdapterTypeOK'
    BY <1>4, <1>13 DEF SendOther, Start, clientVars, AdapterTypeOK
  <2> QED
    BY <1>1, <1>2, <1>3, <2>1, <2>2
<1> QED
  BY <1>5, <1>6, <1>7, <1>8, <1>9, <1>10, <1>11, <1>12, <1>13 DEF Client

(* A new helper.                                                           *)
LEMMA MakeTypes ==
  ASSUME Types, Make \/ MakeFails, UNCHANGED <<setup, starts, finished>>, helper' \in {0, helper, made'}
  PROVE  DataTyped' /\ Fresh' /\ made' \in made..Helpers
<1>1. CASE MakeFails
  <2>1. made' = made /\ made \in made..Helpers
    BY <1>1, Facts DEF MakeFails, Types, DataTyped
  <2>2. helper' \in 0..made'
    BY <2>1 DEF Types, DataTyped
  <2> QED
    BY <1>1, <2>1, <2>2 DEF MakeFails, vmVars, Types, DataTyped, Fresh
<1>2. CASE Make
  <2>1. made' = made + 1 /\ made' \in made..Helpers /\ made' \in 1..Helpers
    BY <1>2, Facts DEF Make, Types, DataTyped
  <2>2. helper' \in 0..made' /\ made' \in 0..Helpers
    BY <2>1 DEF Types, DataTyped
  <2>3. Scripts \subseteq Threads
    BY Facts DEF Scripts, Threads, Types, DataTyped
  <2>4. registered' \in [1..Helpers -> SUBSET Threads]
    BY <1>2, <2>1, <2>3 DEF Make, Types, DataTyped, Scripts
  <2>5. mode' \in [VMs -> Modes]
    BY <1>2 DEF Make, Types, DataTyped, Modes
  <2>6. \A g \in 1..Helpers, t \in Threads : g # made + 1 => mode'[<<g, t>>] = mode[<<g, t>>]
    BY <1>2 DEF Make, VMs
  <2>7. Fresh'
    BY <1>2, <2>1, <2>6 DEF Make, Types, DataTyped, Fresh
  <2> QED
    BY <1>2, <2>1, <2>2, <2>4, <2>5, <2>7 DEF Make, Types, DataTyped
<1> QED
  BY <1>1, <1>2

(* Handlers keep the types.                                                *)
LEMMA HandlerTypes ==
  ASSUME Types, NEW c \in Goroutines, Handler(c), UNCHANGED shellVars
  PROVE  Types'
<1>1. c \in Callers /\ c \notin 1..Helpers
  BY Facts DEF Callers
<1>2. /\ job[c].kind \in Kinds /\ job[c].thread \in 0..MaxScripts /\ job[c].todo \subseteq Threads
      /\ JobOK(c)
  BY <1>1 DEF Types, JobsTyped, Jobs
<1>3. ASSUME DataTyped', Fresh', UNCHANGED setup, made' \in made..Helpers, AdapterTypeOK',
             NEW k, NEW p, NEW t, NEW h, NEW S, Moves(c, k, p, t, h, S),
             p \in PointsOf(k), h \in 0..made,
             p \in {"add", "send", "terminate", "terminating", "await", "wait", "stray"} => h # 0,
             k \in {"continue", "next", "pause", "step"} => t # 0,
             k = "setBreakpoints" => t \in Scripts /\ (p = "sent" => h # 0),
             k # "abandoned"
      PROVE  Types'
  <2>0. h <= made'
    BY <1>3 DEF Types, DataTyped
  <2>1. JobOK(c)'
    BY <1>1, <1>3, <2>0 DEF Moves, JobOK, Scripts
  <2>2. ShellTypeOK'
    BY <1>3 DEF Types, ShellTypeOK, shellVars
  <2>3. JobsTyped'
    BY <1>1, <1>3, <2>1, OtherJobs DEF Moves
  <2> QED
    BY <1>3, <2>2, <2>3 DEF Types
<1>4. AdapterTypeOK /\ (UNCHANGED sessionVars => AdapterTypeOK')
  BY DEF Types, AdapterTypeOK, sessionVars, clientVars
<1>5. job[c].helper \in 0..made /\ helper \in 0..made
  BY <1>1, <1>2 DEF JobOK, Types, JobsTyped, Jobs, DataTyped
<1>6. ASSUME UNCHANGED <<vmVars, helperVars>>
      PROVE  DataTyped' /\ Fresh' /\ UNCHANGED setup /\ made' \in made..Helpers
  BY <1>6, SameData DEF helperVars, Types, DataTyped
<1>7. ASSUME OnInspect(c) PROVE Types'
  <2>1. GoesTo(c, "sent") /\ UNCHANGED <<vmVars, helperVars>> /\ AdapterTypeOK' /\ job[c].kind = "inspect"
    BY <1>4, <1>7, Handling DEF OnInspect, Begins
  <2> QED
    BY <1>2, <1>3, <1>5, <1>6, <2>1 DEF GoesTo, JobOK, PointsOf
<1>8. ASSUME OnUnsupported(c) \/ OnForeign(c) PROVE Types'
  <2>1. /\ GoesTo(c, "error") /\ UNCHANGED <<vmVars, helperVars>> /\ AdapterTypeOK'
        /\ job[c].kind \in {"unsupported", "foreign"}
    BY <1>4, <1>8, Handling DEF OnUnsupported, OnForeign, Begins
  <2> QED
    BY <1>2, <1>3, <1>5, <1>6, <2>1 DEF GoesTo, JobOK, PointsOf
<1>9. ASSUME OnPause(c) PROVE Types'
  <2>1. /\ Moves(c, job[c].kind, "send", job[c].thread, helper, job[c].todo)
        /\ UNCHANGED <<vmVars, helperVars>> /\ AdapterTypeOK' /\ job[c].kind = "pause" /\ helper # 0
    BY <1>4, <1>9, Handling DEF OnPause, Begins
  <2> QED
    BY <1>2, <1>3, <1>5, <1>6, <2>1 DEF JobOK, PointsOf
<1>10. ASSUME OnTerminate(c) PROVE Types'
  <2>1. /\ Moves(c, job[c].kind, "terminate", job[c].thread, helper, job[c].todo)
        /\ UNCHANGED <<vmVars, helperVars>> /\ AdapterTypeOK' /\ job[c].kind = "terminate" /\ helper # 0
    BY <1>4, <1>10, Handling DEF OnTerminate, Begins
  <2> QED
    BY <1>2, <1>3, <1>5, <1>6, <2>1 DEF JobOK, PointsOf
<1>11. ASSUME OnDisconnect(c) PROVE Types'
  <2>1. UNCHANGED <<vmVars, helperVars>> /\ AdapterTypeOK' /\ job[c].kind = "disconnect"
    BY <1>4, <1>11 DEF OnDisconnect, Begins
  <2>2. CASE helper = 0
    BY <1>2, <1>3, <1>5, <1>6, <1>11, <2>1, <2>2, Handling DEF GoesTo, JobOK, PointsOf
  <2>3. CASE helper # 0
    BY <1>2, <1>3, <1>5, <1>6, <1>11, <2>1, <2>3, Handling DEF GoesTo, JobOK, PointsOf
  <2> QED
    BY <2>2, <2>3
<1>12. ASSUME OnResume(c) PROVE Types'
  <2>1. /\ UNCHANGED <<vmVars, helperVars>> /\ AdapterTypeOK' /\ job[c].kind \in {"continue", "next"}
        /\ helper # 0
    BY <1>4, <1>12 DEF OnResume, Begins
  <2>2. CASE job[c].thread \in finished[helper]
    BY <1>2, <1>3, <1>5, <1>6, <1>12, <2>1, <2>2, Handling DEF GoesTo, JobOK, PointsOf
  <2>3. CASE job[c].thread \notin finished[helper]
    BY <1>2, <1>3, <1>5, <1>6, <1>12, <2>1, <2>3, Handling DEF GoesTo, JobOK, PointsOf
  <2> QED
    BY <2>2, <2>3
<1>13. ASSUME OnSetBreakpoints(c) PROVE Types'
  <2>1. /\ Moves(c, job[c].kind, "add", job[c].thread, helper, job[c].todo)
        /\ UNCHANGED helperVars /\ AdapterTypeOK' /\ job[c].kind = "setBreakpoints" /\ helper # 0
        /\ breakpoints' = [breakpoints EXCEPT ![<<helper, job[c].thread>>] = {}]
        /\ UNCHANGED <<mode, stepping, event>>
    BY <1>4, <1>13, Handling DEF OnSetBreakpoints, Begins
  <2>2. breakpoints' \in [VMs -> SUBSET ValidBreakpoints]
    BY <2>1 DEF Types, DataTyped
  <2>3. Fresh'
    BY <2>1 DEF Types, DataTyped, Fresh, helperVars, VMs
  <2>4. DataTyped' /\ UNCHANGED setup /\ made' \in made..Helpers
    BY <2>1, <2>2 DEF Types, DataTyped, helperVars
  <2> QED
    BY <1>2, <1>3, <1>5, <2>1, <2>3, <2>4 DEF JobOK, PointsOf
<1>14. ASSUME AddBreakpoints(c) PROVE Types'
  <2>1. /\ GoesTo(c, "sent") /\ job[c].pc = "add"
        /\ UNCHANGED helperVars /\ AdapterTypeOK' /\ UNCHANGED <<mode, stepping, event>>
    BY <1>4, <1>14, Handling DEF AddBreakpoints
  <2>2. job[c].helper # 0 /\ job[c].kind = "setBreakpoints"
    BY <1>2, <2>1 DEF JobOK, PointsOf, Kinds
  <2>3. PICK v : v = JobVM(c)
    OBVIOUS
  <2>4. breakpoints' = [breakpoints EXCEPT ![v] = @ \union (asked[job[c].thread] \intersect ValidBreakpoints)]
    BY <1>14, <2>3 DEF AddBreakpoints
  <2>5. breakpoints' \in [VMs -> SUBSET ValidBreakpoints]
    BY <2>4 DEF Types, DataTyped
  <2>6. job[c].helper <= made
    BY <1>2 DEF JobOK
  <2>7. \A g \in 1..Helpers, t \in Threads : g > made => <<g, t>> # v
    BY <1>5, <2>3, <2>6 DEF JobVM, Types, DataTyped
  <2>8. Fresh'
    BY <2>1, <2>4, <2>7 DEF Types, DataTyped, Fresh, helperVars, VMs
  <2>9. DataTyped' /\ UNCHANGED setup /\ made' \in made..Helpers
    BY <2>1, <2>5 DEF Types, DataTyped, helperVars
  <2> QED
    BY <1>2, <1>3, <1>5, <2>1, <2>2, <2>8, <2>9 DEF GoesTo, JobOK, PointsOf
<1>15. ASSUME OnConfigurationDone(c) PROVE Types'
  <2>1. /\ GoesTo(c, "sent") /\ job[c].kind = "configurationDone" /\ helper # 0 /\ RunCoordinator
        /\ UNCHANGED <<vmVars, setup, helper, made, registered, finished>> /\ AdapterTypeOK'
    BY <1>4, <1>15, Handling DEF OnConfigurationDone, Begins
  <2>2. starts' \in [1..Helpers -> Nat]
    <3>1. \A g \in 1..Helpers : starts[g] \in Nat /\ starts[g] + 1 \in Nat
      BY DEF Types, DataTyped
    <3> QED
      BY <2>1, <3>1 DEF RunCoordinator, Types, DataTyped
  <2>3. DataTyped' /\ UNCHANGED setup /\ made' \in made..Helpers
    BY <2>1, <2>2 DEF Types, DataTyped, vmVars
  <2>4. Fresh'
    BY <2>1 DEF RunCoordinator, Types, DataTyped, Fresh, vmVars
  <2> QED
    BY <1>2, <1>3, <1>5, <2>1, <2>3, <2>4 DEF GoesTo, JobOK, PointsOf
<1>16. ASSUME OnLaunch(c) \/ OnRestartLoads(c) PROVE Types'
  <2>1. /\ HelperFromArguments(c) /\ UNCHANGED <<setup, starts, finished>> /\ AdapterTypeOK'
    BY <1>4, <1>16 DEF OnLaunch, OnRestartLoads
  <2>2. job[c].kind \in {"launch", "restart"}
    BY <1>2, <1>16 DEF OnLaunch, OnRestartLoads, Begins, JobOK, PointsOf, Kinds
  <2>3. DataTyped' /\ Fresh' /\ made' \in made..Helpers
    BY <2>1, OpeningHelper, MakeTypes
  <2>4. PICK p \in {"event", "error"} : GoesTo(c, p)
    BY <2>1, OpeningHelper
  <2> QED
    BY <1>2, <1>3, <1>5, <2>1, <2>2, <2>3, <2>4 DEF GoesTo, JobOK, PointsOf
<1>17. ASSUME OnRestart(c) PROVE Types'
  <2>0. PICK h \in 1..Helpers : h = helper
    BY <1>17, Abandoning
  <2>1. UNCHANGED <<vmVars, helperVars>> /\ AdapterTypeOK' /\ job[c].kind = "restart" /\ ShellTypeOK'
    BY <1>4, <1>17 DEF OnRestart, Begins, helperVars, Types, ShellTypeOK, shellVars
  <2>2. JobOK(c)'
    BY <1>1, <1>2, <1>17, <2>1, Abandoning DEF JobOK, PointsOf, helperVars
  <2>3. JobOK(h)'
    <3>1. h \notin Goroutines
      BY Facts
    <3>2. h <= made /\ h # 0
      BY <2>0 DEF Types, DataTyped
    <3>3. /\ job'[h].kind = "abandoned" /\ job'[h].pc = "terminate" /\ job'[h].helper = h
          /\ made' = made
      BY <1>17, <2>0, <2>1, Abandoning DEF helperVars
    <3> QED
      BY <3>1, <3>2, <3>3 DEF JobOK, PointsOf
  <2>4. \A d \in Callers : d # c /\ d # h => JobOK(d)'
    BY <1>17, <2>0, <2>1, Abandoning DEF Types, JobsTyped, JobOK, helperVars, Busy, Scripts
  <2>5. JobsTyped'
    BY <1>17, <2>0, <2>1, <2>2, <2>3, <2>4, Abandoning DEF JobsTyped, helperVars
  <2> QED
    BY <2>1, <2>5, SameData DEF Types
<1>18. ASSUME NilHelper(c) \/ NoResponse(c) PROVE Types'
  <2>1. UNCHANGED <<vmVars, helperVars, job>> /\ AdapterTypeOK' /\ ShellTypeOK'
    BY <1>4, <1>18 DEF NilHelper, NoResponse, helperVars, Types, ShellTypeOK, shellVars
  <2>2. JobsTyped'
    BY <1>6, <2>1, SameJobs
  <2> QED
    BY <1>6, <2>1, <2>2 DEF Types
<1>19. ASSUME SendsEvent(c) PROVE Types'
  <2>1. /\ UNCHANGED <<vmVars, helperVars, session, exiting, leaving, verified, asked>>
        /\ stage' \in {stage, "initialized"} /\ unsent' \in {unsent, Scripts}
        /\ view' = IF job[c].kind = "pause" THEN [view EXCEPT ![job[c].thread] = TRUE] ELSE view
    BY <1>19 DEF SendsEvent, Scripts
  <2>2. view' \in [Threads -> BOOLEAN]
    BY <1>4, <2>1 DEF AdapterTypeOK
  <2>3. Scripts \subseteq Threads
    BY Facts DEF Scripts, Threads, Types, DataTyped
  <2>4. AdapterTypeOK'
    BY <1>4, <2>1, <2>2, <2>3 DEF AdapterTypeOK
  <2>5. PICK p : p = IF job[c].pc = "exited" /\ job[c].kind = "continue" THEN "no body" ELSE "answer"
    OBVIOUS
  <2>6. p \in PointsOf(job[c].kind) /\ job[c].kind # "setBreakpoints"
    BY <1>2, <1>19, <2>5 DEF SendsEvent, JobOK, PointsOf, Kinds
  <2>7. p \in {"no body", "answer"}
    BY <2>5
  <2>8. GoesTo(c, p)
    BY <1>19, <2>5, Handling
  <2> QED
    BY <1>1, <1>2, <1>3, <1>5, <1>6, <2>1, <2>4, <2>6, <2>7, <2>8 DEF GoesTo, JobOK
<1>20. ASSUME Answer(c) PROVE Types'
  <2>1. /\ Moves(c, "idle", "done", 0, 0, {}) /\ UNCHANGED <<vmVars, helperVars>>
    BY <1>20, Handling DEF Answer
  <2>2. verified' \in [Threads -> SUBSET Lines]
    <3>1. asked[job[c].thread] \intersect ValidBreakpoints \subseteq Lines
      BY DebugAssumption DEF ValidBreakpoints
    <3> QED
      BY <1>4, <1>20, <3>1 DEF Answer, AdapterTypeOK
  <2>3. AdapterTypeOK'
    BY <1>4, <1>20, <2>2 DEF Answer, AdapterTypeOK
  <2>4. 0 \in 0..made
    BY DEF Types, DataTyped
  <2> QED
    BY <1>3, <1>6, <2>1, <2>3, <2>4 DEF PointsOf
<1>21. ASSUME LookUp(c) PROVE Types'
  <2>1. /\ UNCHANGED <<vmVars, helperVars>> /\ AdapterTypeOK' /\ helper # 0
        /\ job[c].kind \in {"continue", "next", "disconnect"}
    BY <1>2, <1>4, <1>21 DEF LookUp, JobOK, PointsOf, Kinds
  <2>2. PICK p : p = IF job[c].kind = "disconnect" THEN "terminate" ELSE "send"
    OBVIOUS
  <2>3. Moves(c, job[c].kind, p, job[c].thread, helper, job[c].todo)
    BY <1>21, <2>2, Handling
  <2>4. p \in PointsOf(job[c].kind)
    BY <2>1, <2>2 DEF PointsOf
  <2> QED
    BY <1>2, <1>3, <1>5, <1>6, <2>1, <2>3, <2>4 DEF JobOK
<1>22. ASSUME LookUpAgain(c) PROVE Types'
  <2>1. /\ UNCHANGED <<vmVars, helperVars>> /\ AdapterTypeOK' /\ helper # 0
        /\ job[c].kind = "disconnect"
    BY <1>2, <1>4, <1>22 DEF LookUpAgain, JobOK, PointsOf, Kinds
  <2>2. PICK p : p = IF helper = job[c].helper THEN "wait" ELSE "stray"
    OBVIOUS
  <2>3. Moves(c, job[c].kind, p, job[c].thread, helper, registered[helper])
    BY <1>22, <2>2, Handling
  <2>4. p \in PointsOf(job[c].kind)
    BY <2>1, <2>2 DEF PointsOf
  <2> QED
    BY <1>2, <1>3, <1>5, <1>6, <2>1, <2>3, <2>4 DEF JobOK
<1> QED
  BY <1>7, <1>8, <1>9, <1>10, <1>11, <1>12, <1>13, <1>14, <1>15, <1>16, <1>17, <1>18, <1>19, <1>20, <1>21, <1>22
     DEF Handler, OtherHandler
(* What the session does of its own accord keeps the types.                *)
LEMMA SessionTypes ==
  ASSUME Types, UNCHANGED shellVars,
         (\E v \in VMs : HandlerSends(v)) \/ HangUp \/ CloseQueue \/ Exit
  PROVE  Types'
<1>1. UNCHANGED helperVars /\ UNCHANGED job /\ UNCHANGED setup /\ UNCHANGED made
  BY DEF HandlerSends, HangUp, CloseQueue, Exit, debugVars, helperVars
<1>2. made' \in made..Helpers
  BY <1>1 DEF Types, DataTyped
<1>3. JobsTyped' /\ ShellTypeOK'
  BY <1>1, <1>2, SameJobs DEF Types, ShellTypeOK, shellVars
<1>4. ASSUME NEW v \in VMs, HandlerSends(v) PROVE Types'
  <2>1. UNCHANGED <<stepping, breakpoints, session, exiting, stage, leaving, verified, asked, unsent>>
    BY <1>4 DEF HandlerSends
  <2>2. PICK t \in Threads, g \in 1..Helpers : v = <<g, t>>
    BY DEF VMs
  <2>3. AdapterTypeOK'
    BY <1>4, <2>1, <2>2 DEF HandlerSends, StoppedEvent, Types, AdapterTypeOK
  <2>4. mode' \in [VMs -> Modes]
    BY <1>4 DEF HandlerSends, LeaveHandler, Types, DataTyped, Modes
  <2>5. event' \in [VMs -> {"none", "exception", "step", "breakpoint", "finish"}]
    BY <1>4 DEF HandlerSends, LeaveHandler, Types, DataTyped
  <2>6. DataTyped'
    BY <1>1, <2>1, <2>4, <2>5 DEF Types, DataTyped, helperVars
  <2>7. \A u \in VMs : mode[u] = "none" => mode'[u] = "none"
    BY <1>4 DEF HandlerSends, LeaveHandler, Types, DataTyped
  <2>8. Fresh'
    BY <1>1, <2>1, <2>7 DEF Types, Fresh, helperVars, VMs
  <2> QED
    BY <1>3, <2>3, <2>6, <2>8 DEF Types
<1>5. ASSUME HangUp \/ CloseQueue \/ Exit PROVE Types'
  <2>1. UNCHANGED <<vmVars, helperVars>>
    BY <1>5 DEF HangUp, CloseQueue, Exit, debugVars
  <2>2. AdapterTypeOK'
    BY <1>5 DEF HangUp, CloseQueue, Exit, sessionVars, clientVars, Types, AdapterTypeOK
  <2> QED
    BY <1>3, <2>1, <2>2, SameData DEF Types
<1> QED
  BY <1>4, <1>5

(* The shell keeps the types.                                              *)
LEMMA ShellTypes ==
  ASSUME Types, ShellStep, UNCHANGED sessionVars
  PROVE  Types'
<1>1. shell \in Callers /\ shell \in Goroutines /\ shell \notin 1..Helpers
  BY Commanding, Facts
<1>2. AdapterTypeOK'
  BY DEF Types, AdapterTypeOK, sessionVars, clientVars
<1>3. setup.scripts \in 1..MaxScripts /\ current \in 1..setup.scripts
  BY Facts DEF Types, DataTyped, ShellTypeOK
<1>5. ASSUME DataTyped', Fresh', UNCHANGED setup, made' \in made..Helpers, ShellTypeOK',
             NEW k \in {"pause", "continue", "step", "reset"}, NEW p \in {"send", "terminate"},
             p \in PointsOf(k), Calls(k, p), helper # 0
      PROVE  Types'
  <2>1. k \in Kinds /\ p \in Points
    BY DEF Kinds, Points
  <2>2. Moves(shell, k, p, current, helper, {})
    BY <1>5, <2>1, Commanding
  <2>3. helper <= made' /\ current # 0
    BY <1>3, <1>5 DEF Types, DataTyped
  <2>4. JobOK(shell)'
    BY <1>1, <1>5, <2>2, <2>3 DEF Moves, JobOK, shell
  <2>5. JobsTyped'
    BY <1>1, <1>5, <2>2, <2>4, OtherJobs DEF Moves
  <2> QED
    BY <1>2, <1>5, <2>5 DEF Types
<1>6. ASSUME DataTyped', Fresh', UNCHANGED setup, made' \in made..Helpers, ShellTypeOK',
             Moves(shell, "idle", "done", 0, 0, {})
      PROVE  Types'
  <2>1. 0 <= made'
    BY <1>6 DEF Types, DataTyped
  <2>2. JobOK(shell)'
    BY <1>1, <1>6, <2>1 DEF Moves, JobOK, Busy, PointsOf, shell
  <2>3. JobsTyped'
    BY <1>1, <1>6, <2>2, OtherJobs DEF Moves
  <2> QED
    BY <1>2, <1>6, <2>3 DEF Types
<1>7. ASSUME UNCHANGED <<vmVars, helperVars>>
      PROVE  DataTyped' /\ Fresh' /\ UNCHANGED setup /\ made' \in made..Helpers
  BY <1>7, SameData DEF helperVars, Types, DataTyped
<1>8. {"send", "terminate"} \subseteq Points
  BY DEF Points
<1>9. ASSUME Load PROVE Types'
  <2>1. DataTyped' /\ Fresh' /\ made' \in made..Helpers /\ UNCHANGED setup
    BY <1>9, MakeTypes DEF Load
  <2>2. ShellTypeOK'
    <3>1. 1 \in 1..setup.scripts /\ UNCHANGED setup
      BY <1>3, <2>1
    <3>2. running' = FALSE /\ current' = 1
      BY <1>9 DEF Load
    <3> QED
      BY <3>1, <3>2 DEF ShellTypeOK
  <2> QED
    BY <1>6, <1>9, <2>1, <2>2, Commanding
<1>10. ASSUME Reset \/ Pause \/ Continue PROVE Types'
  <2>1. UNCHANGED <<vmVars, helperVars, shellVars>> /\ helper # 0
    BY <1>10 DEF Reset, Pause, Continue
  <2>2. ShellTypeOK'
    BY <2>1 DEF Types, ShellTypeOK, shellVars, helperVars
  <2>3. Calls("reset", "terminate") \/ Calls("pause", "send") \/ Calls("continue", "send")
    BY <1>10 DEF Reset, Pause, Continue
  <2> QED
    BY <1>5, <1>7, <2>1, <2>2, <2>3 DEF PointsOf
<1>11. ASSUME Choose PROVE Types'
  <2>1. UNCHANGED <<vmVars, helperVars, job, running>> /\ current' \in 1..setup.scripts
    BY <1>11 DEF Choose, debugVars
  <2>2. ShellTypeOK'
    BY <2>1 DEF Types, ShellTypeOK, helperVars
  <2> QED
    BY <1>2, <1>7, <2>1, <2>2, SameJobs DEF Types
<1>12. ASSUME StartRunning, helper # 0, UNCHANGED <<vmVars, setup, helper, made, registered, finished, current>>
       PROVE  DataTyped' /\ Fresh' /\ made' \in made..Helpers /\ ShellTypeOK'
  <2>1. starts' \in [1..Helpers -> Nat]
    <3>1. \A g \in 1..Helpers : starts[g] \in Nat /\ starts[g] + 1 \in Nat
      BY DEF Types, DataTyped
    <3> QED
      BY <1>12, <3>1 DEF StartRunning, RunCoordinator, Types, DataTyped
  <2>2. \A g \in 1..Helpers : g > made => starts'[g] = starts[g]
    <3>1. \A g \in 1..Helpers : g > made => g # helper
      BY DEF Types, DataTyped
    <3> QED
      BY <1>12, <3>1 DEF StartRunning, RunCoordinator, Types, DataTyped
  <2>3. Fresh'
    BY <1>12, <2>2 DEF Types, Fresh, vmVars
  <2>4. DataTyped' /\ made' \in made..Helpers
    BY <1>12, <2>1 DEF Types, DataTyped, vmVars
  <2> QED
    BY <1>12, <2>3, <2>4 DEF Types, ShellTypeOK, StartRunning
<1>13. ASSUME ContinueFirst PROVE Types'
  BY <1>2, <1>12, <1>13, SameJobs DEF ContinueFirst, Types
<1>14. ASSUME Step PROVE Types'
  BY <1>5, <1>12, <1>14 DEF Step, PointsOf
<1>15. ASSUME Break PROVE Types'
  <2>1. PICK l \in Lines :
          breakpoints' = [breakpoints EXCEPT ![VM] = IF l \in @ THEN @ \ {l}
                                                     ELSE IF l \in ValidBreakpoints THEN @ \union {l}
                                                     ELSE @]
    BY <1>15 DEF Break
  <2>2. UNCHANGED <<mode, stepping, event, helperVars, job, shellVars>> /\ helper # 0
    BY <1>15 DEF Break
  <2>3. breakpoints' \in [VMs -> SUBSET ValidBreakpoints]
    BY <2>1 DEF Types, DataTyped
  <2>4. DataTyped' /\ UNCHANGED setup /\ made' \in made..Helpers /\ ShellTypeOK'
    BY <2>2, <2>3 DEF Types, DataTyped, ShellTypeOK, helperVars, shellVars
  <2>5. \A g \in 1..Helpers, t \in Threads : g > made => breakpoints'[<<g, t>>] = breakpoints[<<g, t>>]
    BY <2>1 DEF VM, VMs, Types, DataTyped
  <2>6. Fresh'
    BY <2>2, <2>5 DEF Types, Fresh, helperVars
  <2> QED
    BY <1>2, <2>2, <2>4, <2>6, SameJobs DEF Types
<1>16. ASSUME Return PROVE Types'
  <2>1. UNCHANGED <<vmVars, helperVars, shellVars>>
    BY <1>16 DEF Return
  <2>2. ShellTypeOK'
    BY <2>1 DEF Types, ShellTypeOK, shellVars, helperVars
  <2> QED
    BY <1>6, <1>7, <1>16, <2>1, <2>2, Commanding
<1>17. ASSUME NEW v \in VMs, HandlerPrints(v) PROVE Types'
  <2>1. UNCHANGED <<stepping, breakpoints, helperVars, job, shellVars>>
    BY <1>17 DEF HandlerPrints
  <2>2. mode' \in [VMs -> Modes]
    BY <1>17 DEF HandlerPrints, LeaveHandler, Types, DataTyped, Modes
  <2>3. event' \in [VMs -> {"none", "exception", "step", "breakpoint", "finish"}]
    BY <1>17 DEF HandlerPrints, LeaveHandler, Types, DataTyped
  <2>4. DataTyped' /\ UNCHANGED setup /\ made' \in made..Helpers /\ ShellTypeOK'
    BY <2>1, <2>2, <2>3 DEF Types, DataTyped, ShellTypeOK, helperVars, shellVars
  <2>5. \A u \in VMs : mode[u] = "none" => mode'[u] = "none"
    BY <1>17 DEF HandlerPrints, LeaveHandler, Types, DataTyped
  <2>6. Fresh'
    BY <2>1, <2>5 DEF Types, Fresh, helperVars, VMs
  <2> QED
    BY <1>2, <2>1, <2>4, <2>6, SameJobs DEF Types
<1> QED
  BY <1>9, <1>10, <1>11, <1>13, <1>14, <1>15, <1>16, <1>17 DEF ShellStep

(* The scripts and those who wait for them keep the types.                 *)
LEMMA ScriptTypes ==
  ASSUME Types, NEW v \in VMs, EnterHandler(v) \/ Unregister(v), UNCHANGED <<sessionVars, shellVars>>
  PROVE  Types'
<1>1. UNCHANGED <<setup, helper, made, starts, job, stepping, breakpoints>>
  BY DEF EnterHandler, Unregister, vmVars
<1>2. made' \in made..Helpers
  BY <1>1 DEF Types, DataTyped
<1>3. JobsTyped' /\ ShellTypeOK' /\ AdapterTypeOK'
  BY <1>1, <1>2, SameJobs DEF Types, ShellTypeOK, AdapterTypeOK, shellVars, sessionVars, clientVars
<1>4. CASE EnterHandler(v)
  <2>1. PICK r \in Reasons(v) :
          /\ mode[v] = "runs" /\ mode' = [mode EXCEPT ![v] = "handler"]
          /\ event' = [event EXCEPT ![v] = r]
          /\ IF setup.front = "dap" /\ r = "finish" /\ helper # 0
               THEN finished' = [finished EXCEPT ![helper] = @ \union {v[2]}]
               ELSE UNCHANGED finished
          /\ UNCHANGED registered
    BY <1>4 DEF EnterHandler
  <2>2. r \in {"exception", "step", "breakpoint", "finish"}
    BY DEF Reasons
  <2>3. mode' \in [VMs -> Modes]
    BY <2>1 DEF Types, DataTyped, Modes
  <2>4. event' \in [VMs -> {"none", "exception", "step", "breakpoint", "finish"}]
    BY <2>1, <2>2 DEF Types, DataTyped
  <2>5. finished' \in [1..Helpers -> SUBSET Threads]
    <3>1. v[2] \in Threads
      BY DEF VMs
    <3> QED
      BY <2>1, <3>1 DEF Types, DataTyped
  <2>6. \A u \in VMs : mode[u] = "none" => mode'[u] = "none"
    BY <2>1 DEF Types, DataTyped
  <2>7. Fresh'
    BY <1>1, <2>6 DEF Types, Fresh, VMs
  <2> QED
    BY <1>1, <1>3, <2>1, <2>3, <2>4, <2>5, <2>7 DEF Types, DataTyped
<1>5. CASE Unregister(v)
  <2>1. registered' \in [1..Helpers -> SUBSET Threads]
    BY <1>5 DEF Unregister, Types, DataTyped
  <2> QED
    BY <1>1, <1>3, <1>5, <2>1 DEF Unregister, vmVars, Types, DataTyped, Fresh
<1> QED
  BY <1>4, <1>5

(* A script that takes a request runs, is paused or is gone after it.      *)
LEMMA Obeying ==
  ASSUME Types, NEW v \in VMs, NEW k, Takes(v), Obey(v, k)
  PROVE  /\ mode' \in [VMs -> Modes] /\ stepping' \in [VMs -> BOOLEAN]
         /\ UNCHANGED <<event, breakpoints>>
         /\ mode'[v] = CASE k = "terminate" -> "gone" [] k = "pause" -> "paused" [] OTHER -> "runs"
         /\ \A u \in VMs : u # v => mode'[u] = mode[u]
         /\ mode[v] \in {"runs", "paused"}
BY DEF Types, DataTyped, Takes, Obey, Modes

(* A VM that takes a request.                                              *)
LEMMA ObeyTypes ==
  ASSUME Types, NEW v \in VMs, NEW k, Takes(v), Obey(v, k), UNCHANGED helperVars
  PROVE  DataTyped' /\ Fresh'
<1>1. DataTyped'
  BY Obeying DEF Types, DataTyped, helperVars
<1>2. \A g \in 1..Helpers, t \in Threads : mode[<<g, t>>] = "none" => mode'[<<g, t>>] = "none"
  BY Obeying DEF VMs
<1>3. Fresh'
  BY <1>2, Obeying DEF Types, Fresh, helperVars
<1> QED
  BY <1>1, <1>3

(* The callers keep the types.                                             *)
LEMMA CallerTypes ==
  ASSUME Types, NEW c \in Callers, CallerStep(c), UNCHANGED <<sessionVars, shellVars>>
  PROVE  Types'
<1>1. UNCHANGED helperVars /\ UNCHANGED <<setup, made>>
  BY DEF CallerStep, Deliver, BeginTerminate, TerminateOne, TerminatedAll, WaitForTermination, helperVars
<1>2. made' \in made..Helpers
  BY <1>1 DEF Types, DataTyped
<1>3. ShellTypeOK' /\ AdapterTypeOK'
  BY <1>1 DEF Types, ShellTypeOK, AdapterTypeOK, shellVars, sessionVars, clientVars
<1>4. JobOK(c) /\ job[c].helper \in 0..Helpers /\ job[c].kind \in Kinds /\ job[c].thread \in 0..MaxScripts
      /\ job[c].todo \subseteq Threads
  BY DEF Types, JobsTyped, Jobs
<1>5. ASSUME job[c].pc \in {"send", "terminate", "terminating", "wait", "stray"}
      PROVE  job[c].helper \in 1..Helpers
  BY <1>4, <1>5 DEF JobOK
<1>6. ASSUME UNCHANGED job PROVE JobsTyped'
  BY <1>1, <1>2, <1>6, SameJobs
<1>7. ASSUME NEW k, NEW p, NEW S, Moves(c, k, p, job[c].thread, job[c].helper, S), k = job[c].kind,
             p \in PointsOf(k) \ {"done"},
             p \in {"add", "send", "terminate", "terminating", "await", "wait", "stray"} => job[c].helper # 0,
             k # "setBreakpoints"
      PROVE  JobsTyped'
  <2>1. Busy(c)
    BY <1>4, <1>7, IdleIsDone DEF PointsOf
  <2>2. JobOK(c)'
    BY <1>1, <1>4, <1>7, <2>1 DEF Moves, JobOK
  <2> QED
    BY <1>1, <1>2, <1>7, <2>2, OtherJobs DEF Moves
<1>8. ASSUME Deliver(c) PROVE Types'
  <2>1. job[c].pc = "send" /\ job[c].kind \in {"continue", "next", "pause", "step"}
    BY <1>4, <1>8 DEF Deliver, JobOK, PointsOf, Kinds
  <2>2. JobVM(c) \in VMs
    BY <1>4, <1>5, <2>1 DEF JobVM, VMs, JobOK, Threads
  <2>3. JobsTyped'
    <3>1. CASE UNCHANGED job
      BY <1>6, <3>1
    <3>2. CASE GoesTo(c, "sent")
      <4>1. "sent" \in PointsOf(job[c].kind)
        BY <2>1 DEF PointsOf
      <4>2. PICK S : Moves(c, job[c].kind, "sent", job[c].thread, job[c].helper, S)
        BY <3>2 DEF GoesTo
      <4> QED
        BY <1>7, <2>1, <4>1, <4>2
    <3> QED
      BY <1>8, <3>1, <3>2, Requesting
  <2>4. CASE UNCHANGED vmVars
    BY <1>1, <1>3, <2>3, <2>4, SameData DEF Types
  <2>5. CASE ~UNCHANGED vmVars
    <3>1. PICK k : \E v \in VMs : Takes(v) /\ Obey(v, k)
      BY <1>8, <2>2, <2>5 DEF Deliver
    <3>2. DataTyped' /\ Fresh'
      BY <1>1, <3>1, ObeyTypes
    <3> QED
      BY <1>3, <2>3, <3>2 DEF Types
  <2> QED
    BY <2>4, <2>5
<1>9. ASSUME TerminateOne(c) PROVE Types'
  <2>1. job[c].pc = "terminating" /\ job[c].kind \in {"terminate", "disconnect", "reset", "abandoned"}
    BY <1>4, <1>9 DEF TerminateOne, JobOK, PointsOf, Kinds
  <2>2. JobsTyped'
    <3>1. CASE UNCHANGED job
      BY <1>6, <3>1
    <3>2. CASE \E S \in SUBSET job[c].todo :
                 Moves(c, job[c].kind, job[c].pc, job[c].thread, job[c].helper, S)
      <4>1. PICK S : Moves(c, job[c].kind, job[c].pc, job[c].thread, job[c].helper, S)
        BY <3>2
      <4> QED
        BY <1>4, <1>7, <2>1, <4>1 DEF JobOK
    <3> QED
      BY <1>9, <3>1, <3>2, Requesting
  <2>3. CASE UNCHANGED vmVars
    BY <1>1, <1>3, <2>2, <2>3, SameData DEF Types
  <2>4. CASE ~UNCHANGED vmVars
    <3>1. PICK t \in job[c].todo : LET v == <<job[c].helper, t>> IN Takes(v) /\ Obey(v, "terminate")
      BY <1>9, <2>4 DEF TerminateOne
    <3>2. <<job[c].helper, t>> \in VMs
      BY <1>4, <1>5, <2>1 DEF VMs
    <3>3. PICK v \in VMs : Takes(v) /\ Obey(v, "terminate")
      BY <3>1, <3>2
    <3>4. DataTyped' /\ Fresh'
      BY <1>1, <3>3, ObeyTypes
    <3> QED
      BY <1>3, <2>2, <3>4 DEF Types
  <2> QED
    BY <2>3, <2>4
<1>10. ASSUME BeginTerminate(c) \/ TerminatedAll(c) \/ WaitForTermination(c) PROVE Types'
  <2>1. UNCHANGED vmVars /\ job[c].pc \in {"terminate", "terminating", "wait", "stray"}
    BY <1>10 DEF BeginTerminate, TerminatedAll, WaitForTermination
  <2>2. job[c].kind \in {"terminate", "disconnect", "reset", "abandoned"}
    BY <1>4, <2>1 DEF JobOK, PointsOf, Kinds
  <2>3. CASE BeginTerminate(c)
    <3>1. job[c].helper # 0 /\ "terminating" \in PointsOf(job[c].kind)
      BY <1>5, <2>1, <2>2 DEF PointsOf
    <3>2. PICK S : Moves(c, job[c].kind, "terminating", job[c].thread, job[c].helper, S)
      BY <2>3, Requesting
    <3>3. JobsTyped'
      BY <1>7, <2>2, <3>1, <3>2
    <3> QED
      BY <1>1, <1>3, <2>1, <3>3, SameData DEF Types
  <2>4. CASE TerminatedAll(c)
    <3>1. job[c].helper # 0 /\ job[c].pc = "terminating"
      BY <1>5, <2>1, <2>4 DEF TerminatedAll
    <3>2. JobsTyped'
      <4>1. CASE job[c].kind = "disconnect"
        <5>1. PICK S : Moves(c, job[c].kind, "await", job[c].thread, job[c].helper, S)
          BY <2>4, <4>1, Requesting DEF GoesTo
        <5> QED
          BY <1>7, <3>1, <4>1, <5>1 DEF PointsOf
      <4>2. CASE job[c].kind = "abandoned"
        <5>1. Moves(c, "idle", "done", 0, 0, {})
          BY <2>4, <4>2, Requesting
        <5>2. 0 <= made' /\ c \notin Goroutines
          BY <1>1, <1>4, <4>2 DEF Types, DataTyped, JobOK
        <5>3. JobOK(c)'
          BY <5>1, <5>2 DEF Moves, JobOK, Busy, PointsOf
        <5> QED
          BY <1>1, <1>2, <5>1, <5>3, OtherJobs DEF Moves
      <4>3. CASE job[c].kind \in {"terminate", "reset"}
        <5>1. PICK S : Moves(c, job[c].kind, "terminated", job[c].thread, job[c].helper, S)
          BY <2>4, <4>3, Requesting DEF GoesTo
        <5>2. "terminated" \in PointsOf(job[c].kind)
          BY <4>3 DEF PointsOf
        <5> QED
          BY <1>7, <4>3, <5>1, <5>2
      <4> QED
        BY <2>2, <4>1, <4>2, <4>3
    <3> QED
      BY <1>1, <1>3, <2>1, <3>2, SameData DEF Types
  <2>5. CASE WaitForTermination(c)
    <3>1. job[c].kind = "disconnect"
      BY <1>4, <2>5 DEF WaitForTermination, JobOK, PointsOf, Kinds
    <3>2. JobsTyped'
      BY <1>7, <2>5, <3>1, Requesting DEF PointsOf
    <3> QED
      BY <1>1, <1>3, <2>1, <3>2, SameData DEF Types
  <2> QED
    BY <1>10, <2>3, <2>4, <2>5
<1> QED
  BY <1>8, <1>9, <1>10 DEF CallerStep

(* Every step keeps the types.                                             *)
LEMMA StepTypes == Types /\ [Next]_vars => Types'
<1> SUFFICES ASSUME Types, [Next]_vars PROVE Types'
  OBVIOUS
<1>1. CASE UNCHANGED vars
  <2>1. UNCHANGED <<vmVars, helperVars, job, sessionVars, shellVars>>
    BY <1>1 DEF vars, debugVars
  <2>2. UNCHANGED setup /\ made' \in made..Helpers
    BY <2>1 DEF helperVars, Types, DataTyped
  <2> QED
    BY <2>1, <2>2, SameData, SameJobs DEF Types, AdapterTypeOK, ShellTypeOK, sessionVars, clientVars, shellVars
<1>2. CASE Next
  BY <1>2, ClientTypes, HandlerTypes, SessionTypes, ShellTypes, ScriptTypes, CallerTypes
     DEF Next, AdapterStep
<1> QED
  BY <1>1, <1>2

(* The first state has the types.                                          *)
LEMMA InitTypes == Init => Types
<1> SUFFICES ASSUME Init PROVE Types
  OBVIOUS
<1>1. Idle \in Jobs /\ Idle.kind = "idle" /\ Idle.pc = "done" /\ Idle.helper = 0
  <2>1. "idle" \in Kinds /\ "done" \in Points
    BY DEF Kinds, Points
  <2>2. 0 \in 0..MaxScripts /\ 0 \in 0..Helpers
    BY Facts
  <2> QED
    BY <2>1, <2>2 DEF Idle, Jobs
<1>2. JobsTyped
  <2>1. job = [c \in Callers |-> Idle] /\ made = 0
    BY DEF Init, InitDebug
  <2>2. job \in [Callers -> Jobs]
    BY <1>1, <2>1
  <2>3. ASSUME NEW c \in Callers PROVE JobOK(c)
    <3>1. job[c].kind = "idle" /\ job[c].pc = "done" /\ job[c].helper = 0
      BY <1>1, <2>1
    <3>2. "done" \in PointsOf("idle")
      BY DEF PointsOf
    <3>3. job[c].helper <= made
      BY <2>1, <3>1
    <3> QED
      BY <3>1, <3>2, <3>3 DEF JobOK, Busy
  <2> QED
    BY <2>2, <2>3 DEF JobsTyped
<1>3. DataTyped /\ Fresh
  BY Facts DEF Init, InitDebug, DataTyped, Fresh, Modes, VMs
<1>4. setup.scripts \in 1..MaxScripts
  BY Facts DEF Init, InitDebug
<1>5. AdapterTypeOK
  <2>1. PICK ls \in {{}, Lines} : asked = [t \in Threads |-> IF t <= setup.scripts THEN ls ELSE {}]
    BY DEF Init, InitAdapter
  <2>2. asked \in [Threads -> SUBSET Lines]
    BY <2>1
  <2> QED
    BY <2>2 DEF Init, InitAdapter, AdapterTypeOK
<1>6. ShellTypeOK
  <2>1. 1 \in 1..setup.scripts
    BY <1>4
  <2> QED
    BY <2>1 DEF Init, InitShell, ShellTypeOK
<1> QED
  BY <1>2, <1>3, <1>5, <1>6 DEF Types
-----------------------------------------------------------------------------
(* Coordinator.Run: what no step disturbs that begins neither a helper nor *)
(* its coordinator.                                                        *)
LEMMA OnceSame ==
  ASSUME Types, Once, Alive \/ UNCHANGED died, UNCHANGED <<setup, stage, helper, starts, running>>,
         \A d \in Goroutines : \/ job'[d].kind = job[d].kind /\ job'[d].pc = job[d].pc
                               \/ job'[d].kind \notin {"launch", "restart", "configurationDone"}
                               \/ job'[d].pc \notin {"begin", "load", "event"}
  PROVE  Once'
<1>1. \A d \in Goroutines :
        /\ Opening(d)' => Opening(d) /\ job'[d].kind = job[d].kind /\ job'[d].pc = job[d].pc
        /\ Starting(d)' => Starting(d)
  BY DEF Opening, Starting
<1>2. RunsOnce' /\ (Started' <=> Started)
  BY DEF Once, RunsOnce, Started
<1>3. InOrder => InOrder'
  BY <1>1, <1>2 DEF InOrder
<1>4. ShellOnce'
  BY <1>2 DEF Once, ShellOnce, Alive
<1> QED
  BY <1>2, <1>3, <1>4 DEF Once

(* A step that moves one job and starts no coordinator.                    *)
LEMMA OnceMoves ==
  ASSUME Types, Once, Alive \/ UNCHANGED died, UNCHANGED <<setup, stage, helper, starts, running>>,
         NEW c \in Callers, NEW k, NEW p, NEW t, NEW h, NEW S, Moves(c, k, p, t, h, S),
         k \notin {"launch", "restart", "configurationDone"} \/ p \notin {"begin", "load", "event"}
  PROVE  Once'
<1>1. \A d \in Goroutines : \/ job'[d].kind = job[d].kind /\ job'[d].pc = job[d].pc
                            \/ job'[d].kind \notin {"launch", "restart", "configurationDone"}
                            \/ job'[d].pc \notin {"begin", "load", "event"}
  BY DEF Moves, Callers
<1> QED
  BY <1>1, OnceSame

(* A new helper has no coordinator yet.                                    *)
LEMMA NewHelper ==
  ASSUME Types, Make, UNCHANGED starts, helper' = made'
  PROVE  ~Started'
<1>1. made + 1 \in 1..Helpers /\ made + 1 > made /\ helper' = made + 1
  BY Facts DEF Make, Types, DataTyped
<1>2. starts[made + 1] = 0
  BY <1>1 DEF Types, Fresh
<1> QED
  BY <1>1, <1>2 DEF Started

(* Requests are sent in order.                                             *)
LEMMA ClientOnce ==
  ASSUME Types, Once, NEW c \in Goroutines, Client(c), UNCHANGED shellVars
  PROVE  Once'
<1>1. c \in Callers /\ Scripts \subseteq 0..MaxScripts /\ Threads \subseteq 0..MaxScripts
  BY Facts DEF Callers, Scripts, Threads, Types, DataTyped
<1>2. 0 \in 0..MaxScripts /\ 1 \in 0..MaxScripts
  BY Facts
<1>3. ASSUME NEW k \in Kinds, NEW t \in 0..MaxScripts, Start(c, k, t)
      PROVE  /\ Alive /\ setup.front = "dap" /\ InOrder /\ Moves(c, k, "begin", t, 0, {})
             /\ UNCHANGED <<setup, helper, starts, running, died>>
             /\ RunsOnce' /\ (Started' <=> Started)
  BY <1>3, Sending DEF Start, Once, RunsOnce, Started, helperVars, shellVars
<1>4. ASSUME NEW k \in Kinds \ {"launch", "restart", "configurationDone"}, NEW t \in 0..MaxScripts,
             Start(c, k, t), UNCHANGED stage
      PROVE  Once'
  BY <1>1, <1>3, <1>4, OnceMoves
<1>5. {"launch", "setBreakpoints", "configurationDone", "continue", "next", "pause", "restart", "terminate",
        "disconnect", "inspect", "unsupported", "foreign"} \subseteq Kinds
  BY DEF Kinds
<1>6. ASSUME SendLaunch(c) PROVE Once'
  <2>1. Moves(c, "launch", "begin", 0, 0, {}) /\ stage = "new" /\ stage' = "launching"
    BY <1>2, <1>3, <1>5, <1>6 DEF SendLaunch
  <2>2. /\ setup.front = "dap" /\ InOrder /\ UNCHANGED <<setup, helper, starts>>
        /\ RunsOnce' /\ (Started' <=> Started)
    BY <1>2, <1>3, <1>5, <1>6 DEF SendLaunch
  <2>3. \A d \in Goroutines : ~Opening(d) /\ ~Starting(d)
    BY <2>1, <2>2 DEF InOrder
  <2>4. \A d \in Goroutines : ~Starting(d)' /\ (Opening(d)' => d = c)
    BY <2>1, <2>3 DEF Moves, Callers, Opening, Starting
  <2>5. job'[c].pc = "begin" /\ helper' = 0
    BY <2>1, <2>2 DEF Moves, InOrder
  <2>6. InOrder'
    BY <2>1, <2>4, <2>5 DEF InOrder
  <2> QED
    BY <2>2, <2>6 DEF Once, ShellOnce
<1>7. ASSUME SendConfigurationDone(c) PROVE Once'
  <2>1. Moves(c, "configurationDone", "begin", 0, 0, {}) /\ stage = "initialized" /\ stage' = "configured"
    BY <1>2, <1>3, <1>5, <1>7 DEF SendConfigurationDone
  <2>2. /\ setup.front = "dap" /\ InOrder /\ UNCHANGED <<setup, helper, starts>>
        /\ RunsOnce' /\ (Started' <=> Started)
    BY <1>2, <1>3, <1>5, <1>7 DEF SendConfigurationDone
  <2>3. \A d \in Goroutines : ~Opening(d) /\ ~Starting(d)
    BY <2>1, <2>2 DEF InOrder
  <2>4. \A d \in Goroutines : ~Opening(d)' /\ (Starting(d)' => d = c)
    BY <2>1, <2>3 DEF Moves, Callers, Opening, Starting
  <2>5. ~Started'
    BY <2>1, <2>2 DEF InOrder
  <2>6. InOrder'
    BY <2>1, <2>4, <2>5 DEF InOrder
  <2> QED
    BY <2>2, <2>6 DEF Once, ShellOnce
<1>8. ASSUME SendRestart(c) PROVE Once'
  <2>1. Moves(c, "restart", "begin", 0, 0, {}) /\ stage = "configured" /\ stage' = "launching"
    BY <1>2, <1>3, <1>5, <1>8 DEF SendRestart
  <2>2. /\ setup.front = "dap" /\ InOrder /\ UNCHANGED <<setup, helper, starts>>
        /\ RunsOnce' /\ (Started' <=> Started)
    BY <1>2, <1>3, <1>5, <1>8 DEF SendRestart
  <2>3. \A d \in Goroutines : ~Opening(d)
    BY <2>1, <2>2 DEF InOrder
  <2>4. \A d \in Goroutines : ~Starting(d)
    BY <1>8 DEF SendRestart, Handles, Busy, Starting
  <2>5. \A d \in Goroutines : ~Starting(d)' /\ (Opening(d)' => d = c)
    BY <2>1, <2>3, <2>4 DEF Moves, Callers, Opening, Starting
  <2>6. job'[c].pc = "begin" /\ job'[c].kind = "restart"
    BY <2>1 DEF Moves
  <2>7. InOrder'
    BY <2>1, <2>5, <2>6 DEF InOrder
  <2> QED
    BY <2>2, <2>7 DEF Once, ShellOnce
<1>9. ASSUME SendSetBreakpoints(c) PROVE Once'
  BY <1>1, <1>4, <1>5, <1>9 DEF SendSetBreakpoints, Scripts
<1>10. ASSUME SendResume(c) PROVE Once'
  BY <1>1, <1>4, <1>5, <1>10 DEF SendResume
<1>11. ASSUME SendPause(c) PROVE Once'
  BY <1>1, <1>4, <1>5, <1>11 DEF SendPause, Scripts, clientVars
<1>12. ASSUME SendTerminate(c) \/ SendDisconnect(c) \/ SendOther(c) PROVE Once'
  BY <1>2, <1>4, <1>5, <1>12 DEF SendTerminate, SendDisconnect, SendOther, clientVars
<1> QED
  BY <1>6, <1>7, <1>8, <1>9, <1>10, <1>11, <1>12 DEF Client

(* Handlers start a coordinator once, and open one helper at a time.       *)
LEMMA HandlerOnce ==
  ASSUME Types, Once, NEW c \in Goroutines, Handler(c), UNCHANGED shellVars
  PROVE  Once'
<1>1. c \in Callers /\ setup.front = "dap" /\ InOrder /\ UNCHANGED running
  BY DEF Callers, Handler, Once, shellVars
<1>2. JobOK(c) /\ job[c].kind \in Kinds
  BY <1>1 DEF Types, JobsTyped, Jobs
<1>3. ASSUME OnSetBreakpoints(c) \/ AddBreakpoints(c) \/ OnInspect(c) \/ OnUnsupported(c) \/ OnForeign(c)
      PROVE  Once'
  <2>1. Alive /\ UNCHANGED <<setup, stage, helper, starts>>
    BY <1>3 DEF OnSetBreakpoints, AddBreakpoints, OnInspect, OnUnsupported, OnForeign, Begins, helperVars,
                sessionVars, clientVars
  <2>2. PICK h : \E p \in {"add", "sent", "error"} :
          Moves(c, job[c].kind, p, job[c].thread, h, job[c].todo)
    BY <1>3, Handling DEF GoesTo
  <2> QED
    BY <1>1, <2>1, <2>2, OnceMoves
<1>4. ASSUME OnPause(c) \/ OnTerminate(c) \/ OnDisconnect(c) \/ OnResume(c) PROVE Once'
  <2>1. Alive /\ UNCHANGED <<setup, stage, helper, starts>>
    BY <1>4 DEF OnPause, OnTerminate, OnDisconnect, OnResume, Begins, helperVars, sessionVars, clientVars
  <2>2. PICK h : \E p \in {"send", "terminate", "sent", "lookup", "exited"} :
          Moves(c, job[c].kind, p, job[c].thread, h, job[c].todo)
    BY <1>4, Handling DEF GoesTo
  <2> QED
    BY <1>1, <2>1, <2>2, OnceMoves
<1>5. ASSUME Answer(c) PROVE Once'
  <2>1. Alive /\ UNCHANGED <<setup, stage, helper, starts>>
    BY <1>5 DEF Answer, helperVars
  <2> QED
    BY <1>1, <1>5, <2>1, Handling, OnceMoves
<1>6. ASSUME NilHelper(c) \/ NoResponse(c) PROVE Once'
  <2>1. Alive /\ UNCHANGED <<setup, stage, helper, starts, job>>
    BY <1>6 DEF NilHelper, NoResponse, helperVars, sessionVars, clientVars
  <2> QED
    BY <1>1, <2>1, OnceSame
<1>7. ASSUME OnConfigurationDone(c) PROVE Once'
  <2>1. Starting(c) /\ helper # 0 /\ UNCHANGED <<setup, stage, helper>>
    BY <1>7 DEF OnConfigurationDone, Begins, Starting, sessionVars, clientVars
  <2>2. starts' = [starts EXCEPT ![helper] = @ + 1] /\ helper \in 1..Helpers /\ starts[helper] = 0
    BY <1>1, <1>7, <2>1, HelperInUse DEF OnConfigurationDone, RunCoordinator, InOrder
  <2>3. RunsOnce'
    BY <2>2 DEF Once, RunsOnce, Types, DataTyped
  <2>4. GoesTo(c, "sent")
    BY <1>7, Handling
  <2>5. \A d \in Goroutines : ~Opening(d)
    BY <1>1, <2>1 DEF InOrder
  <2>6. \A d \in Goroutines : ~Opening(d)' /\ ~Starting(d)'
    BY <1>1, <2>1, <2>4, <2>5 DEF GoesTo, Moves, Callers, Opening, Starting, InOrder
  <2>7. stage = "configured"
    BY <1>1, <2>1 DEF InOrder
  <2>8. InOrder'
    BY <2>1, <2>6, <2>7 DEF InOrder
  <2> QED
    BY <1>1, <2>1, <2>3, <2>8 DEF Once, ShellOnce
<1>8. ASSUME OnLaunch(c) \/ OnRestartLoads(c) PROVE Once'
  <2>1. HelperFromArguments(c) /\ UNCHANGED <<setup, starts, stage>> /\ Opening(c)
    BY <1>2, <1>8 DEF OnLaunch, OnRestartLoads, Begins, Opening, JobOK, PointsOf, Kinds, sessionVars, clientVars
  <2>2. stage = "launching"
    BY <1>1, <2>1 DEF InOrder
  <2>3. \A d \in Goroutines : ~Starting(d) /\ (Opening(d) => d = c)
    BY <1>1, <2>1, <2>2 DEF InOrder
  <2>4. PICK p \in {"event", "error"} :
          GoesTo(c, p) /\ (p = "event" => Make /\ helper' = made')
    BY <2>1, OpeningHelper
  <2>5. \A d \in Goroutines : ~Starting(d)' /\ (Opening(d)' => d = c)
    BY <2>3, <2>4 DEF GoesTo, Moves, Callers, Opening, Starting
  <2>6. Opening(c)' => job'[c].pc = "event" /\ ~Started'
    BY <1>1, <2>1, <2>4, NewHelper DEF GoesTo, Moves, Opening
  <2>7. InOrder'
    BY <2>1, <2>2, <2>5, <2>6 DEF InOrder
  <2>8. RunsOnce'
    BY <2>1 DEF Once, RunsOnce
  <2> QED
    BY <1>1, <2>1, <2>7, <2>8 DEF Once, ShellOnce
<1>9. ASSUME OnRestart(c) PROVE Once'
  <2>1. /\ UNCHANGED <<setup, starts, stage, helper>> /\ Opening(c) /\ job[c].kind = "restart"
        /\ RunsOnce'
    BY <1>9 DEF OnRestart, Begins, Opening, sessionVars, clientVars, helperVars, Once, RunsOnce
  <2>2. job'[c].kind = "restart" /\ job'[c].pc = "load"
    BY <1>9, <2>1, Abandoning
  <2>3. helper \notin Goroutines
    BY <1>9, Abandoning, Facts
  <2>4. \A d \in Goroutines : d # c => job'[d] = job[d]
    BY <1>9, <2>3, Abandoning DEF Callers
  <2>5. \A d \in Goroutines : d # c => (Opening(d)' <=> Opening(d)) /\ (Starting(d)' <=> Starting(d))
    BY <2>4 DEF Opening, Starting
  <2>6. \A d \in Goroutines : ~Starting(d) /\ (Opening(d) => d = c)
    BY <1>1, <2>1 DEF InOrder
  <2>7. \A d \in Goroutines : ~Starting(d)' /\ (Opening(d)' => d = c)
    BY <2>2, <2>5, <2>6 DEF Starting
  <2>8. stage = "launching"
    BY <1>1, <2>1 DEF InOrder
  <2>9. InOrder'
    BY <2>1, <2>2, <2>7, <2>8 DEF InOrder
  <2> QED
    BY <1>1, <2>1, <2>9 DEF Once, ShellOnce
<1>10. ASSUME SendsEvent(c) PROVE Once'
  <2>1. Alive /\ UNCHANGED <<setup, starts, helper>> /\ RunsOnce'
    BY <1>10 DEF SendsEvent, helperVars, Once, RunsOnce
  <2>2. PICK p \in {"no body", "answer"} : GoesTo(c, p)
    BY <1>10, Handling
  <2>3. CASE job[c].kind \notin {"launch", "restart"}
    <3>1. UNCHANGED stage
      BY <1>10, <2>3 DEF SendsEvent
    <3> QED
      BY <1>1, <2>1, <2>2, <3>1, OnceMoves DEF GoesTo
  <2>4. CASE job[c].kind \in {"launch", "restart"}
    <3>1. job[c].pc = "event" /\ Opening(c) /\ stage' = "initialized"
      BY <1>2, <1>10, <2>4 DEF SendsEvent, Opening, JobOK, PointsOf
    <3>2. ~Started /\ stage = "launching" /\ \A d \in Goroutines : ~Starting(d) /\ (Opening(d) => d = c)
      BY <1>1, <3>1 DEF InOrder
    <3>3. \A d \in Goroutines : ~Starting(d)' /\ ~Opening(d)'
      BY <2>2, <3>2 DEF GoesTo, Moves, Callers, Opening, Starting
    <3>4. ~Started'
      BY <2>1, <3>2 DEF Started
    <3>5. InOrder'
      BY <3>1, <3>3, <3>4 DEF InOrder
    <3> QED
      BY <1>1, <2>1, <3>5 DEF Once, ShellOnce
  <2> QED
    BY <2>3, <2>4
<1>11. ASSUME LookUp(c) \/ LookUpAgain(c) PROVE Once'
  <2>1. Alive /\ UNCHANGED <<setup, stage, helper, starts>>
    BY <1>11 DEF LookUp, LookUpAgain, helperVars, sessionVars, clientVars
  <2>2. PICK h, S : \E p \in {"send", "terminate", "wait", "stray"} :
          Moves(c, job[c].kind, p, job[c].thread, h, S)
    BY <1>11, Handling
  <2> QED
    BY <1>1, <2>1, <2>2, OnceMoves
<1> QED
  BY <1>3, <1>4, <1>5, <1>6, <1>7, <1>8, <1>9, <1>10, <1>11 DEF Handler, OtherHandler

(* So does the shell.                                                      *)
LEMMA ShellOnceStep ==
  ASSUME Types, Once, ShellStep, UNCHANGED sessionVars
  PROVE  Once'
<1>1. shell \in Callers /\ UNCHANGED stage
  BY Commanding DEF sessionVars, clientVars
<1>2. setup.front = "shell" /\ Alive /\ UNCHANGED setup
  BY DEF ShellStep, Load, Reset, Choose, Pause, ContinueFirst, Continue, Step, Break, Return, HandlerPrints,
         Prompt, debugVars, helperVars
<1>3. ASSUME Load PROVE Once'
  <2>1. UNCHANGED starts /\ (UNCHANGED helper => ~Alive')
    BY <1>3, Facts DEF Load, Die, Alive, Make, Types, DataTyped
  <2>2. RunsOnce'
    BY <2>1 DEF Once, RunsOnce
  <2>3. Alive' => ~Started'
    BY <1>3, <2>1, NewHelper DEF Load, Die, Alive
  <2> QED
    BY <1>2, <2>2, <2>3 DEF Once, ShellOnce
<1>4. ASSUME Reset \/ Pause \/ Continue PROVE Once'
  <2>1. UNCHANGED <<helper, starts, running>>
    BY <1>4 DEF Reset, Pause, Continue, helperVars, shellVars
  <2>2. {"reset", "pause", "continue"} \subseteq Kinds /\ {"terminate", "send"} \subseteq Points
    BY DEF Kinds, Points
  <2>3. PICK k \in {"reset", "pause", "continue"}, p \in Points : Moves(shell, k, p, current, helper, {})
    BY <1>4, <2>2, Commanding DEF Reset, Pause, Continue
  <2> QED
    BY <1>1, <1>2, <2>1, <2>3, OnceMoves
<1>5. ASSUME StartRunning, UNCHANGED helper, helper # 0 PROVE Once'
  <2>1. running' = TRUE /\ (starts' = starts \/ (~running /\ starts' = [starts EXCEPT ![helper] = @ + 1]))
    BY <1>5 DEF StartRunning, RunCoordinator
  <2>2. helper \in 1..Helpers /\ (~running => starts[helper] = 0)
    BY <1>2, <1>5, HelperInUse DEF Once, ShellOnce
  <2>3. RunsOnce'
    <3>1. \A g \in 1..Helpers : starts[g] \in Nat /\ starts[g] <= 1
      BY DEF Once, RunsOnce, Types, DataTyped
    <3>2. CASE starts' = starts
      BY <3>1, <3>2 DEF RunsOnce
    <3>3. CASE ~running /\ starts' = [starts EXCEPT ![helper] = @ + 1]
      BY <2>2, <3>1, <3>3 DEF RunsOnce, Types, DataTyped
    <3> QED
      BY <2>1, <3>2, <3>3
  <2> QED
    BY <1>2, <2>1, <2>3 DEF Once, ShellOnce
<1>6. ASSUME ContinueFirst \/ Step PROVE Once'
  BY <1>5, <1>6 DEF ContinueFirst, Step
<1>7. ASSUME Choose \/ Break \/ \E v \in VMs : HandlerPrints(v) PROVE Once'
  <2>1. UNCHANGED <<helper, starts, running, job>>
    BY <1>7 DEF Choose, Break, HandlerPrints, debugVars, helperVars, shellVars
  <2> QED
    BY <1>1, <1>2, <2>1, OnceSame
<1>8. ASSUME Return PROVE Once'
  <2>1. UNCHANGED <<helper, starts, running>>
    BY <1>8 DEF Return, helperVars, shellVars
  <2> QED
    BY <1>1, <1>2, <1>8, <2>1, OnceMoves, Commanding
<1> QED
  BY <1>3, <1>4, <1>6, <1>7, <1>8 DEF ShellStep

(* Callers open and start nothing.                                         *)
LEMMA CallerOnce ==
  ASSUME Types, Once, NEW c \in Callers, CallerStep(c), UNCHANGED <<sessionVars, shellVars>>
  PROVE  Once'
<1>1. Alive /\ UNCHANGED <<setup, stage, helper, starts, running>>
  BY DEF CallerStep, Deliver, BeginTerminate, TerminateOne, TerminatedAll, WaitForTermination, helperVars,
         sessionVars, clientVars, shellVars
<1>2. CASE UNCHANGED job
  BY <1>1, <1>2, OnceSame
<1>3. CASE \E k, p, t, h, S : Moves(c, k, p, t, h, S) /\ p \notin {"begin", "load", "event"}
  BY <1>1, <1>3, OnceMoves
<1>4. job[c].pc = "terminating" => job[c].pc \notin {"begin", "load", "event"}
  OBVIOUS
<1>5. Deliver(c) => UNCHANGED job \/ \E t, S, h, k : Moves(c, k, "sent", t, h, S)
  BY Requesting DEF GoesTo
<1>6. BeginTerminate(c) => \E t, S, h, k : Moves(c, k, "terminating", t, h, S)
  BY Requesting
<1>7. TerminateOne(c) => UNCHANGED job \/ \E t, S, h, k : Moves(c, k, "terminating", t, h, S)
  <2>1. TerminateOne(c) => job[c].pc = "terminating"
    BY DEF TerminateOne
  <2> QED
    BY <2>1, Requesting
<1>8. TerminatedAll(c) => \E t, S, h, k, p : Moves(c, k, p, t, h, S) /\ p \in {"await", "done", "terminated"}
  BY Requesting DEF GoesTo
<1>9. WaitForTermination(c) => \E t, S, h, k : Moves(c, k, "sent", t, h, S)
  BY Requesting
<1> QED
  BY <1>2, <1>3, <1>5, <1>6, <1>7, <1>8, <1>9 DEF CallerStep

(* Every step.                                                             *)
LEMMA StepOnce == Types /\ Once /\ [Next]_vars => Once'
<1> SUFFICES ASSUME Types, Once, [Next]_vars PROVE Once'
  OBVIOUS
<1>1. CASE UNCHANGED vars
  <2>1. UNCHANGED <<died, setup, stage, helper, starts, running, job>>
    BY <1>1 DEF vars, debugVars, helperVars, sessionVars, clientVars, shellVars
  <2> QED
    BY <2>1, OnceSame
<1>2. ASSUME AdapterStep, UNCHANGED shellVars,
             (\E v \in VMs : HandlerSends(v)) \/ HangUp \/ CloseQueue \/ Exit
      PROVE  Once'
  <2>1. Alive /\ UNCHANGED <<setup, stage, helper, starts, running, job>>
    BY <1>2 DEF HandlerSends, HangUp, CloseQueue, Exit, debugVars, helperVars, sessionVars, clientVars,
                shellVars
  <2> QED
    BY <2>1, OnceSame
<1>3. ASSUME NEW v \in VMs, EnterHandler(v) \/ Unregister(v), UNCHANGED <<sessionVars, shellVars>>
      PROVE  Once'
  <2>1. Alive /\ UNCHANGED <<setup, stage, helper, starts, running, job>>
    BY <1>3 DEF EnterHandler, Unregister, sessionVars, clientVars, shellVars
  <2> QED
    BY <2>1, OnceSame
<1>4. CASE Next
  BY <1>2, <1>3, <1>4, ClientOnce, HandlerOnce, ShellOnceStep, CallerOnce DEF Next, AdapterStep
<1> QED
  BY <1>1, <1>4

(* Initially there is no helper.                                           *)
LEMMA InitOnce == Init => Once
<1> SUFFICES ASSUME Init PROVE Once
  OBVIOUS
<1>1. helper = 0 /\ stage = "new" /\ \A g \in 1..Helpers : starts[g] = 0
  BY DEF Init, InitDebug, InitAdapter
<1>2. \A c \in Goroutines : job[c].kind = "idle"
  BY DEF Init, InitDebug, Callers, Idle
<1> QED
  BY <1>1, <1>2 DEF Once, RunsOnce, InOrder, ShellOnce, Opening, Starting, Started
-----------------------------------------------------------------------------
(* What is paused is reported: a job that will report a script.            *)
Reports(c) ==
  \/ job[c].kind = "pause" /\ job[c].pc = "sent"
  \/ job[c].kind \in {"continue", "next"} /\ job[c].pc \in {"begin", "lookup", "send"}
  \/ job[c].kind = "restart" /\ job[c].pc \in {"begin", "load"}

(* What no step disturbs that pauses nothing and leaves those jobs alone.  *)
LEMMA SeenSame ==
  ASSUME Types, NoneForgotten, Alive \/ UNCHANGED died, UNCHANGED <<setup, helper>>,
         helper # 0 => finished[helper] \subseteq finished'[helper],
         \A t \in Threads : /\ mode'[<<helper, t>>] = "paused" => mode[<<helper, t>>] = "paused"
                            /\ view[t] => view'[t],
         \A d \in Goroutines : Reports(d) => job'[d] = job[d]
  PROVE  NoneForgotten'
<1>1. ASSUME NEW t \in Threads, WillBeSeen(t) PROVE WillBeSeen(t)'
  <2>1. PICK d \in Goroutines : SeenBy(d, t)
    BY <1>1 DEF WillBeSeen
  <2>2. job'[d] = job[d]
    BY <2>1 DEF Reports, SeenBy
  <2> QED
    BY <2>1, <2>2 DEF WillBeSeen, SeenBy, JobVM
<1> QED
  BY <1>1 DEF NoneForgotten, Alive

(* A step that moves one job and pauses nothing.                           *)
LEMMA SeenMoves ==
  ASSUME Types, NoneForgotten, Alive \/ UNCHANGED died, UNCHANGED <<setup, helper, mode, finished, view>>,
         NEW c \in Callers, c \in Goroutines => ~Reports(c),
         \A d \in Callers : d # c => job'[d] = job[d]
  PROVE  NoneForgotten'
BY SeenSame DEF Callers

(* A request that makes the client forget a stop is about that script.     *)
LEMMA ClientSeen ==
  ASSUME Types, NoneForgotten, NEW c \in Goroutines, Client(c)
  PROVE  NoneForgotten'
<1>1. c \in Callers /\ Scripts \subseteq 0..MaxScripts /\ Threads \subseteq 0..MaxScripts
  BY Facts DEF Callers, Scripts, Threads, Types, DataTyped
<1>2. 0 \in 0..MaxScripts /\ 1 \in 0..MaxScripts
  BY Facts
<1>3. ASSUME NEW k \in Kinds, NEW t \in 0..MaxScripts, Start(c, k, t)
      PROVE  /\ Alive /\ Moves(c, k, "begin", t, 0, {}) /\ ~Reports(c)
             /\ UNCHANGED <<setup, helper, mode, finished, died>>
  BY <1>3, Sending DEF Start, helperVars, vmVars, Reports
<1>4. ASSUME NEW k \in Kinds, NEW t \in 0..MaxScripts, Start(c, k, t), UNCHANGED view
      PROVE  NoneForgotten'
  BY <1>1, <1>3, <1>4, SeenMoves DEF Moves
<1>5. {"launch", "setBreakpoints", "configurationDone", "continue", "next", "pause", "restart", "terminate",
        "disconnect", "inspect", "unsupported", "foreign"} \subseteq Kinds
  BY DEF Kinds
<1>6. ASSUME SendResume(c) PROVE NoneForgotten'
  <2>1. PICK t \in Threads, k \in {"continue", "next"} : Start(c, k, t) /\ view' = [view EXCEPT ![t] = FALSE]
    BY <1>6 DEF SendResume
  <2>2. /\ Alive /\ Moves(c, k, "begin", t, 0, {}) /\ ~Reports(c)
        /\ UNCHANGED <<setup, helper, mode, finished, died>>
    BY <1>1, <1>3, <1>5, <2>1
  <2>3. WillBeSeen(t)'
    BY <2>2 DEF WillBeSeen, SeenBy, Moves
  <2>4. \A u \in Threads : u # t => view'[u] = view[u]
    BY <2>1 DEF Types, AdapterTypeOK
  <2>5. ASSUME NEW u \in Threads, WillBeSeen(u) PROVE WillBeSeen(u)'
    <3>1. \A d \in Goroutines : Reports(d) => job'[d] = job[d]
      BY <2>2 DEF Moves, Callers
    <3>2. \A d \in Goroutines : SeenBy(d, u) => job'[d] = job[d]
      BY <3>1 DEF Reports, SeenBy
    <3> QED
      BY <2>2, <2>5, <3>2 DEF WillBeSeen, SeenBy, JobVM
  <2> QED
    BY <2>2, <2>3, <2>4, <2>5 DEF NoneForgotten, Alive
<1>7. ASSUME SendRestart(c) PROVE NoneForgotten'
  <2>1. Moves(c, "restart", "begin", 0, 0, {})
    BY <1>2, <1>3, <1>5, <1>7 DEF SendRestart
  <2>2. \A t \in Threads : WillBeSeen(t)'
    BY <2>1 DEF WillBeSeen, SeenBy, Moves
  <2> QED
    BY <2>2 DEF NoneForgotten
<1>8. ASSUME SendSetBreakpoints(c) \/ SendPause(c) PROVE NoneForgotten'
  BY <1>1, <1>4, <1>5, <1>8 DEF SendSetBreakpoints, SendPause, Scripts, clientVars
<1>9. ASSUME SendLaunch(c) \/ SendConfigurationDone(c) PROVE NoneForgotten'
  BY <1>2, <1>4, <1>5, <1>9 DEF SendLaunch, SendConfigurationDone
<1>10. ASSUME SendTerminate(c) \/ SendDisconnect(c) \/ SendOther(c) PROVE NoneForgotten'
  BY <1>2, <1>4, <1>5, <1>10 DEF SendTerminate, SendDisconnect, SendOther, clientVars
<1> QED
  BY <1>6, <1>7, <1>8, <1>9, <1>10 DEF Client

(* A handler reports the stop before it ends.                              *)
LEMMA HandlerSeen ==
  ASSUME Types, NoneForgotten, NEW c \in Goroutines, Handler(c)
  PROVE  NoneForgotten'
<1>1. c \in Callers /\ setup.front = "dap"
  BY DEF Callers, Handler
<1>2. JobOK(c) /\ job[c].kind \in Kinds
  BY <1>1 DEF Types, JobsTyped, Jobs
<1>3. ASSUME OnSetBreakpoints(c) \/ AddBreakpoints(c) \/ OnInspect(c) \/ OnUnsupported(c) \/ OnForeign(c)
      PROVE  NoneForgotten'
  <2>1. Alive /\ UNCHANGED <<setup, helper, mode, finished, view>>
    BY <1>3 DEF OnSetBreakpoints, AddBreakpoints, OnInspect, OnUnsupported, OnForeign, Begins, helperVars,
                sessionVars, clientVars, vmVars
  <2>2. \A d \in Callers : d # c => job'[d] = job[d]
    BY <1>3, Handling DEF GoesTo, Moves
  <2>3. ~Reports(c)
    BY <1>2, <1>3 DEF OnSetBreakpoints, AddBreakpoints, OnInspect, OnUnsupported, OnForeign, Begins, Reports
  <2> QED
    BY <1>1, <2>1, <2>2, <2>3, SeenMoves
<1>4. ASSUME OnPause(c) \/ OnTerminate(c) \/ OnDisconnect(c) \/ OnConfigurationDone(c) PROVE NoneForgotten'
  <2>1. Alive /\ UNCHANGED <<setup, helper, mode, finished, view>>
    BY <1>4 DEF OnPause, OnTerminate, OnDisconnect, OnConfigurationDone, Begins, helperVars, sessionVars,
                clientVars, vmVars
  <2>2. \A d \in Callers : d # c => job'[d] = job[d]
    BY <1>4, Handling DEF GoesTo, Moves
  <2>3. ~Reports(c)
    BY <1>2, <1>4 DEF OnPause, OnTerminate, OnDisconnect, OnConfigurationDone, Begins, Reports
  <2> QED
    BY <1>1, <2>1, <2>2, <2>3, SeenMoves
<1>5. ASSUME Answer(c) PROVE NoneForgotten'
  <2>1. Alive /\ UNCHANGED <<setup, helper, mode, finished, view>>
    BY <1>5 DEF Answer, helperVars, vmVars
  <2>2. \A d \in Callers : d # c => job'[d] = job[d]
    BY <1>5, Handling DEF Moves
  <2>3. ~Reports(c)
    BY <1>5 DEF Answer, Answerable, Reports, JobOK, PointsOf
  <2> QED
    BY <1>1, <2>1, <2>2, <2>3, SeenMoves
<1>6. ASSUME NilHelper(c) \/ NoResponse(c) PROVE NoneForgotten'
  BY <1>6 DEF NilHelper, NoResponse, Die, NoneForgotten, Alive
<1>7. ASSUME OnResume(c) \/ (LookUp(c) /\ job[c].kind # "disconnect") PROVE NoneForgotten'
  <2>1. /\ Alive /\ UNCHANGED <<setup, helper, mode, finished, view, died>> /\ helper # 0
        /\ job[c].kind \in {"continue", "next"} /\ job[c].pc \in {"begin", "lookup"}
    BY <1>2, <1>7 DEF OnResume, LookUp, Begins, helperVars, sessionVars, clientVars, vmVars, JobOK, PointsOf, Kinds
  <2>2. /\ job'[c].kind = job[c].kind /\ job'[c].thread = job[c].thread
        /\ job[c].thread \notin finished[helper] =>
             job'[c].pc = "lookup" \/ (job'[c].pc = "send" /\ job'[c].helper = helper)
        /\ \A d \in Callers : d # c => job'[d] = job[d]
    BY <1>7, Handling DEF GoesTo, Moves
  <2>3. ASSUME NEW t \in Threads, WillBeSeen(t) PROVE WillBeSeen(t)' \/ t \in finished[helper]
    <3>1. CASE job[c].thread = t
      BY <2>1, <2>2, <3>1 DEF WillBeSeen, SeenBy, JobVM
    <3>2. CASE job[c].thread # t
      <4>1. PICK d \in Goroutines : SeenBy(d, t)
        BY <2>3 DEF WillBeSeen
      <4>2. d # c
        BY <2>1, <3>2, <4>1 DEF SeenBy
      <4>3. job'[d] = job[d]
        BY <2>2, <4>2 DEF Callers
      <4> QED
        BY <2>1, <4>1, <4>3 DEF WillBeSeen, SeenBy, JobVM
    <3> QED
      BY <3>1, <3>2
  <2> QED
    BY <2>1, <2>3 DEF NoneForgotten, Alive
<1>8. ASSUME OnLaunch(c) \/ OnRestartLoads(c) PROVE NoneForgotten'
  <2>1. HelperFromArguments(c) /\ UNCHANGED setup
    BY <1>8 DEF OnLaunch, OnRestartLoads
  <2>2. CASE Make /\ helper' = made'
    <3>1. made + 1 \in 1..Helpers /\ made + 1 > made /\ helper' = made + 1
      BY <2>2, Facts DEF Make, Types, DataTyped
    <3>2. \A t \in Threads : <<made + 1, t>> \in VMs /\ mode[<<made + 1, t>>] = "none"
      BY <3>1 DEF VMs, Types, Fresh
    <3>3. \A t \in Threads : mode'[<<made + 1, t>>] \in {"runs", "none"}
      BY <2>2, <3>2 DEF Make
    <3> QED
      BY <3>1, <3>3 DEF NoneForgotten
  <2>3. CASE helper' = 0
    BY <2>3 DEF NoneForgotten
  <2> QED
    BY <2>1, <2>2, <2>3, OpeningHelper
<1>9. ASSUME OnRestart(c) PROVE NoneForgotten'
  <2>1. job[c].kind = "restart"
    BY <1>9 DEF OnRestart, Begins
  <2>2. \A t \in Threads : WillBeSeen(t)'
    BY <1>9, <2>1, Abandoning DEF WillBeSeen, SeenBy
  <2> QED
    BY <2>2 DEF NoneForgotten
<1>10. ASSUME SendsEvent(c) PROVE NoneForgotten'
  <2>1. /\ Alive /\ UNCHANGED <<setup, helper, mode, finished, died>>
        /\ view' = IF job[c].kind = "pause" THEN [view EXCEPT ![job[c].thread] = TRUE] ELSE view
    BY <1>10 DEF SendsEvent, helperVars, vmVars
  <2>2. PICK p : GoesTo(c, p)
    BY <1>10, Handling
  <2>3. CASE job[c].kind # "pause"
    <3>1. ~Reports(c)
      BY <1>2, <1>10, <2>3 DEF SendsEvent, Reports
    <3> QED
      BY <1>1, <2>1, <2>2, <2>3, <3>1, SeenMoves DEF GoesTo, Moves
  <2>4. CASE job[c].kind = "pause"
    <3>1. \A t \in Threads : view'[t] = IF t = job[c].thread THEN TRUE ELSE view[t]
      BY <2>1, <2>4 DEF Types, AdapterTypeOK
    <3>2. ASSUME NEW t \in Threads, WillBeSeen(t), t # job[c].thread PROVE WillBeSeen(t)'
      <4>1. PICK d \in Goroutines : SeenBy(d, t)
        BY <3>2 DEF WillBeSeen
      <4>2. d # c
        BY <2>4, <3>2, <4>1 DEF SeenBy
      <4>3. job'[d] = job[d]
        BY <2>2, <4>2 DEF Callers, GoesTo, Moves
      <4> QED
        BY <2>1, <4>1, <4>3 DEF WillBeSeen, SeenBy, JobVM
    <3> QED
      BY <2>1, <3>1, <3>2 DEF NoneForgotten, Alive
  <2> QED
    BY <2>3, <2>4
<1>11. ASSUME LookUpAgain(c) \/ (LookUp(c) /\ job[c].kind = "disconnect") PROVE NoneForgotten'
  <2>1. Alive /\ UNCHANGED <<setup, helper, mode, finished, view>>
    BY <1>11 DEF LookUp, LookUpAgain, helperVars, sessionVars, clientVars, vmVars
  <2>2. \A d \in Callers : d # c => job'[d] = job[d]
    BY <1>11, Handling DEF Moves
  <2>3. ~Reports(c)
    BY <1>2, <1>11 DEF LookUpAgain, Reports, JobOK, PointsOf, Kinds
  <2> QED
    BY <1>1, <2>1, <2>2, <2>3, SeenMoves
<1> QED
  BY <1>3, <1>4, <1>5, <1>6, <1>7, <1>8, <1>9, <1>10, <1>11 DEF Handler, OtherHandler

(* A VM that takes a request pauses only for a pause request, which has    *)
(* yet to be reported then.                                                *)
LEMMA CallerSeen ==
  ASSUME Types, NoneForgotten, NEW c \in Callers, CallerStep(c), UNCHANGED sessionVars
  PROVE  NoneForgotten'
<1>1. /\ Alive /\ UNCHANGED <<setup, helper, finished, view>>
  BY DEF CallerStep, Deliver, BeginTerminate, TerminateOne, TerminatedAll, WaitForTermination, helperVars,
         sessionVars, clientVars
<1>2. JobOK(c) /\ job[c].kind \in Kinds
  BY DEF Types, JobsTyped, Jobs
<1>3. ASSUME BeginTerminate(c) \/ TerminatedAll(c) \/ WaitForTermination(c) PROVE NoneForgotten'
  <2>1. UNCHANGED mode
    BY <1>3 DEF BeginTerminate, TerminatedAll, WaitForTermination, vmVars
  <2>2. \A d \in Callers : d # c => job'[d] = job[d]
    BY <1>3, Requesting DEF GoesTo, Moves
  <2>3. ~Reports(c)
    BY <1>2, <1>3 DEF BeginTerminate, TerminatedAll, WaitForTermination, Reports, JobOK, PointsOf
  <2> QED
    BY <1>1, <2>1, <2>2, <2>3, SeenMoves
<1>4. ASSUME TerminateOne(c) PROVE NoneForgotten'
  <2>1. job[c].pc = "terminating" /\ job[c].kind \in {"terminate", "disconnect", "reset", "abandoned"}
    BY <1>2, <1>4 DEF TerminateOne, JobOK, PointsOf, Kinds
  <2>2. ~Reports(c)
    BY <2>1 DEF Reports, SeenBy
  <2>3. \A d \in Callers : d # c => job'[d] = job[d]
    BY <1>4, Requesting DEF Moves
  <2>4. CASE UNCHANGED mode
    BY <1>1, <2>2, <2>3, <2>4, SeenMoves
  <2>5. CASE ~UNCHANGED mode
    <3>1. PICK t : LET v == <<job[c].helper, t>> IN Takes(v) /\ Obey(v, "terminate")
      BY <1>4, <2>5 DEF TerminateOne, vmVars
    <3>2. \A u \in Threads : mode'[<<helper, u>>] = "paused" /\ <<helper, u>> \in VMs =>
            mode[<<helper, u>>] = "paused"
      BY <3>1 DEF Obey, Types, DataTyped
    <3>3. CASE helper = 0
      BY <1>1, <3>3 DEF NoneForgotten
    <3>4. CASE helper # 0
      <4>1. \A u \in Threads : <<helper, u>> \in VMs
        BY <3>4, HelperInUse DEF VMs
      <4>2. \A d \in Goroutines : Reports(d) => job'[d] = job[d]
        BY <2>2, <2>3 DEF Callers
      <4> QED
        BY <1>1, <3>2, <4>1, <4>2, SeenSame
    <3> QED
      BY <3>3, <3>4
  <2> QED
    BY <2>4, <2>5
<1>5. ASSUME Deliver(c) PROVE NoneForgotten'
  <2>1. job[c].pc = "send" /\ job[c].kind \in {"continue", "next", "pause", "step"}
    BY <1>2, <1>5 DEF Deliver, JobOK, PointsOf, Kinds
  <2>2. CASE died' # "no"
    BY <2>2 DEF NoneForgotten, Alive
  <2>3. CASE Takes(JobVM(c)) /\ Obey(JobVM(c), job[c].kind) /\ GoesTo(c, "sent")
    <3>1. SUFFICES ASSUME setup.front = "dap", Alive, helper # 0, NEW t \in Threads,
                          mode'[<<helper, t>>] = "paused"
                   PROVE  view[t] \/ WillBeSeen(t)' \/ t \in finished[helper]
      BY <1>1 DEF NoneForgotten, Alive
    <3>2. <<helper, t>> \in VMs
      BY <3>1, HelperInUse DEF VMs
    <3>3. CASE JobVM(c) = <<helper, t>>
      <4>1. mode'[<<helper, t>>] = CASE job[c].kind = "terminate" -> "gone"
                                     [] job[c].kind = "pause" -> "paused" [] OTHER -> "runs"
        BY <2>3, <3>2, <3>3 DEF Obey, Types, DataTyped
      <4>2. job[c].kind = "pause" /\ job[c].thread = t
        BY <2>1, <3>1, <3>3, <4>1 DEF JobVM
      <4>3. c \in Goroutines
        BY <1>2, <2>1 DEF Callers, JobOK, Busy
      <4> QED
        BY <2>3, <4>2, <4>3 DEF WillBeSeen, SeenBy, GoesTo, Moves
    <3>4. CASE JobVM(c) # <<helper, t>>
      <4>1. mode[<<helper, t>>] = "paused"
        BY <2>3, <3>1, <3>2, <3>4 DEF Obey, Types, DataTyped
      <4>2. view[t] \/ WillBeSeen(t) \/ t \in finished[helper]
        BY <3>1, <4>1 DEF NoneForgotten
      <4>3. ASSUME WillBeSeen(t) PROVE WillBeSeen(t)'
        <5>1. PICK d \in Goroutines : SeenBy(d, t)
          BY <4>3 DEF WillBeSeen
        <5>2. d # c
          BY <2>1, <3>4, <5>1 DEF SeenBy
        <5>3. job'[d] = job[d]
          BY <2>3, <5>2 DEF Callers, GoesTo, Moves
        <5> QED
          BY <1>1, <5>1, <5>3 DEF WillBeSeen, SeenBy, JobVM
      <4> QED
        BY <4>2, <4>3
    <3> QED
      BY <3>3, <3>4
  <2>4. "sent" \in Points /\ job \in [Callers -> Jobs]
    BY DEF Points, Types, JobsTyped
  <2> QED
    BY <1>5, <2>2, <2>3, <2>4, Moving DEF Deliver, Die
<1> QED
  BY <1>3, <1>4, <1>5 DEF CallerStep

(* Every step.                                                             *)
LEMMA StepSeen == Types /\ NoneForgotten /\ [Next]_vars => NoneForgotten'
<1> SUFFICES ASSUME Types, NoneForgotten, [Next]_vars PROVE NoneForgotten'
  OBVIOUS
<1>1. CASE UNCHANGED vars
  BY <1>1 DEF vars, debugVars, helperVars, sessionVars, clientVars, vmVars, NoneForgotten, Alive, WillBeSeen, SeenBy, JobVM
<1>2. ASSUME NEW v \in VMs, HandlerSends(v) PROVE NoneForgotten'
  <2>1. UNCHANGED <<setup, helper, finished, job>> /\ Alive
    BY <1>2 DEF HandlerSends, helperVars
  <2>2. CASE died' # "no"
    BY <2>2 DEF NoneForgotten, Alive
  <2>3. CASE LeaveHandler(v) /\ StoppedEvent(v)
    <3>1. PICK g \in 1..Helpers, u \in Threads : v = <<g, u>>
      BY DEF VMs
    <3>2. \A t \in Threads : view'[t] = IF t = u THEN TRUE ELSE view[t]
      BY <2>3, <3>1 DEF StoppedEvent, Types, AdapterTypeOK
    <3>3. \A t \in Threads : t # u /\ <<helper, t>> \in VMs => mode'[<<helper, t>>] = mode[<<helper, t>>]
      BY <2>3, <3>1 DEF LeaveHandler, Types, DataTyped
    <3>4. \A t \in Threads : helper # 0 => <<helper, t>> \in VMs
      BY HelperInUse DEF VMs
    <3>5. \A t \in Threads : WillBeSeen(t) => WillBeSeen(t)'
      BY <2>1 DEF WillBeSeen, SeenBy, JobVM
    <3> QED
      BY <2>1, <3>2, <3>3, <3>4, <3>5 DEF NoneForgotten, Alive
  <2> QED
    BY <1>2, <2>2, <2>3 DEF HandlerSends, Die
<1>3. ASSUME HangUp \/ CloseQueue \/ Exit PROVE NoneForgotten'
  <2>1. Alive /\ UNCHANGED <<setup, helper, finished, mode, view, job>>
    BY <1>3 DEF HangUp, CloseQueue, Exit, debugVars, helperVars, sessionVars, clientVars, vmVars
  <2> QED
    BY <2>1, SeenSame
<1>4. ASSUME NEW v \in VMs, EnterHandler(v) \/ Unregister(v), UNCHANGED sessionVars PROVE NoneForgotten'
  <2>1. Alive /\ UNCHANGED <<setup, helper, view, job>>
    BY <1>4 DEF EnterHandler, Unregister, sessionVars, clientVars
  <2>2. helper # 0 => finished[helper] \subseteq finished'[helper]
    <3>1. finished \in [1..Helpers -> SUBSET Threads]
      BY DEF Types, DataTyped
    <3>2. ASSUME EnterHandler(v) PROVE helper # 0 => finished[helper] \subseteq finished'[helper]
      BY <3>1, <3>2, HelperInUse DEF EnterHandler
    <3>3. ASSUME Unregister(v) PROVE helper # 0 => finished[helper] \subseteq finished'[helper]
      BY <3>3 DEF Unregister
    <3> QED
      BY <1>4, <3>2, <3>3
  <2>3. \A t \in Threads : helper # 0 => <<helper, t>> \in VMs
    BY HelperInUse DEF VMs
  <2>4. CASE helper = 0
    BY <2>1, <2>4 DEF NoneForgotten
  <2>5. CASE helper # 0
    <3>1. \A t \in Threads : mode'[<<helper, t>>] = "paused" => mode[<<helper, t>>] = "paused"
      BY <1>4, <2>3, <2>5 DEF EnterHandler, Unregister, vmVars, Types, DataTyped
    <3> QED
      BY <2>1, <2>2, <3>1, SeenSame
  <2> QED
    BY <2>4, <2>5
<1>5. ASSUME ShellStep PROVE NoneForgotten'
  <2>1. setup.front = "shell" /\ UNCHANGED setup
    BY <1>5 DEF ShellStep, Load, Reset, Choose, Pause, ContinueFirst, Continue, Step, Break, Return,
                HandlerPrints, Prompt, debugVars, helperVars
  <2> QED
    BY <2>1 DEF NoneForgotten
<1>6. CASE Next
  BY <1>2, <1>3, <1>4, <1>5, <1>6, ClientSeen, HandlerSeen, CallerSeen DEF Next, AdapterStep
<1> QED
  BY <1>1, <1>6
-----------------------------------------------------------------------------
(* Breakpoints: what no step disturbs that changes neither them nor the    *)
(* requests that set them.                                                 *)
LEMMA KnownSame ==
  ASSUME Types, Known, Alive \/ UNCHANGED died,
         UNCHANGED <<setup, helper, breakpoints, asked, verified, unsent>>,
         stage' \in {stage, "launching"} \/ (stage = "initialized" /\ stage' = "configured" /\ unsent = {}),
         \A d \in Goroutines : \/ job'[d] = job[d]
                               \/ job[d].kind # "setBreakpoints" /\ job'[d].kind # "setBreakpoints"
  PROVE  Known'
<1> SUFFICES ASSUME setup.front = "dap", Alive, KnownBreakpoints PROVE KnownBreakpoints'
  BY DEF Known, Alive
<1>1. \A d \in Goroutines, t \in Threads : Sets(d, t)' <=> Sets(d, t)
  BY DEF Sets
<1>2. \A d \in Goroutines : job'[d].kind = "setBreakpoints" => job'[d] = job[d]
  OBVIOUS
<1>3. /\ \A c, d \in Goroutines : \A t \in Threads : Sets(c, t)' /\ Sets(d, t)' => c = d
      /\ (unsent \subseteq Scripts)' /\ (stage' = "configured" => unsent' = {})
  BY <1>1 DEF KnownBreakpoints, Scripts
<1>4. \A c \in Goroutines : job'[c].kind = "setBreakpoints" =>
        /\ job'[c].pc = "sent" => breakpoints'[JobVM(c)'] = asked'[job'[c].thread] \intersect ValidBreakpoints
        /\ job'[c].pc = "add" => breakpoints'[JobVM(c)'] = {}
  BY <1>2 DEF KnownBreakpoints, JobVM
<1>5. \A t \in (Threads \ Scripts)' :
        verified'[t] = {} /\ \A g \in 1..Helpers : breakpoints'[<<g, t>>] = {}
  BY DEF KnownBreakpoints, Scripts
<1>6. \A t \in Threads : InForce(t) => InForce(t)'
  BY <1>1, <1>2 DEF InForce, Sets
<1> QED
  BY <1>3, <1>4, <1>5, <1>6 DEF KnownBreakpoints

(* A step that moves one job, none about breakpoints.                      *)
LEMMA KnownMoves ==
  ASSUME Types, Known, Alive \/ UNCHANGED died,
         UNCHANGED <<setup, helper, breakpoints, asked, verified, unsent>>,
         stage' \in {stage, "launching"} \/ (stage = "initialized" /\ stage' = "configured" /\ unsent = {}),
         NEW c \in Callers, NEW k, NEW p, NEW t, NEW h, NEW S, Moves(c, k, p, t, h, S),
         c \in Goroutines => job[c].kind # "setBreakpoints" /\ k # "setBreakpoints"
  PROVE  Known'
BY KnownSame DEF Moves, Callers

(* Breakpoints are sent again after every initialized event.               *)
LEMMA ClientKnown ==
  ASSUME Types, Known, NEW c \in Goroutines, Client(c)
  PROVE  Known'
<1>1. c \in Callers /\ Scripts \subseteq 0..MaxScripts /\ Threads \subseteq 0..MaxScripts
  BY Facts DEF Callers, Scripts, Threads, Types, DataTyped
<1>2. 0 \in 0..MaxScripts /\ 1 \in 0..MaxScripts
  BY Facts
<1>3. ASSUME NEW k \in Kinds, NEW t \in 0..MaxScripts, Start(c, k, t)
      PROVE  /\ Alive /\ Moves(c, k, "begin", t, 0, {}) /\ job[c].kind = "idle" /\ setup.front = "dap"
             /\ UNCHANGED <<setup, helper, breakpoints>>
  BY <1>3, Sending DEF Start, helperVars, vmVars
<1>4. ASSUME NEW k \in Kinds \ {"setBreakpoints"}, NEW t \in 0..MaxScripts, Start(c, k, t),
             UNCHANGED <<asked, verified, unsent>>,
             stage' \in {stage, "launching"} \/ (stage = "initialized" /\ stage' = "configured" /\ unsent = {})
      PROVE  Known'
  BY <1>1, <1>3, <1>4, KnownMoves
<1>5. {"launch", "setBreakpoints", "configurationDone", "continue", "next", "pause", "restart", "terminate",
        "disconnect", "inspect", "unsupported", "foreign"} \subseteq Kinds
  BY DEF Kinds
<1>6. ASSUME SendSetBreakpoints(c) PROVE Known'
  <2>1. PICK t \in Scripts, ls \in {{}, Lines} :
          /\ Start(c, "setBreakpoints", t) /\ ~HandlesFor("setBreakpoints", t)
          /\ stage \in {"initialized", "configured"}
          /\ asked' = [asked EXCEPT ![t] = ls] /\ unsent' = unsent \ {t}
          /\ UNCHANGED <<stage, leaving, view, verified>>
    BY <1>6 DEF SendSetBreakpoints, Scripts
  <2>2. /\ Alive /\ Moves(c, "setBreakpoints", "begin", t, 0, {}) /\ job[c].kind = "idle"
        /\ setup.front = "dap" /\ UNCHANGED <<setup, helper, breakpoints>>
    BY <1>1, <1>3, <1>5, <2>1
  <2>3. KnownBreakpoints
    BY <2>2 DEF Known
  <2>4. \A d \in Goroutines : d # c => job'[d] = job[d]
    BY <2>2 DEF Moves, Callers
  <2>5. job'[c].kind = "setBreakpoints" /\ job'[c].pc = "begin" /\ job'[c].thread = t
    BY <2>2 DEF Moves
  <2>6. \A d \in Goroutines : ~Sets(d, t)
    BY <2>1, IdleIsDone DEF HandlesFor, Sets, Callers
  <2>7. \A d \in Goroutines, u \in Threads : Sets(d, u)' <=> Sets(d, u) \/ (d = c /\ u = t)
    BY <2>2, <2>4, <2>5 DEF Sets
  <2>8. \A d, e \in Goroutines : \A u \in Threads : Sets(d, u)' /\ Sets(e, u)' => d = e
    BY <2>3, <2>6, <2>7 DEF KnownBreakpoints
  <2>9. ASSUME NEW d \in Goroutines, job'[d].kind = "setBreakpoints"
        PROVE  /\ job'[d].pc = "sent" =>
                    breakpoints'[JobVM(d)'] = asked'[job'[d].thread] \intersect ValidBreakpoints
               /\ job'[d].pc = "add" => breakpoints'[JobVM(d)'] = {}
    <3>1. CASE d = c
      BY <2>5, <3>1
    <3>2. CASE d # c
      <4>1. job'[d] = job[d] /\ job[d].thread # t
        BY <2>4, <2>6, <2>9, <3>2 DEF Sets
      <4>2. job[d].thread \in Threads
        <5>1. job[d].thread \in Scripts
          BY <2>9, <4>1 DEF Types, JobsTyped, JobOK, Callers
        <5> QED
          BY <5>1, Facts DEF Scripts, Threads, Types, DataTyped
      <4>3. asked'[job[d].thread] = asked[job[d].thread]
        BY <2>1, <4>1, <4>2 DEF Types, AdapterTypeOK
      <4> QED
        BY <2>2, <2>3, <2>9, <4>1, <4>3 DEF KnownBreakpoints, JobVM
    <3> QED
      BY <3>1, <3>2
  <2>10. (unsent \subseteq Scripts)' /\ (stage' = "configured" => unsent' = {})
    BY <2>1, <2>2, <2>3 DEF KnownBreakpoints, Scripts
  <2>11. \A u \in (Threads \ Scripts)' :
           verified'[u] = {} /\ \A g \in 1..Helpers : breakpoints'[<<g, u>>] = {}
    BY <2>1, <2>2, <2>3 DEF KnownBreakpoints, Scripts
  <2>12. ASSUME helper' # 0, NEW u \in Threads PROVE u \in unsent' \/ InForce(u)'
    <3>1. CASE u = t
      <4>1. Sets(c, t)'
        BY <2>5 DEF Sets
      <4>2. \A d \in Goroutines : Sets(d, t)' => d = c
        BY <2>6, <2>7, <3>1
      <4> QED
        BY <2>5, <3>1, <4>1, <4>2 DEF InForce
    <3>2. CASE u # t
      <4>1. u \in unsent \/ InForce(u)
        BY <2>1, <2>2, <2>3, <2>12 DEF KnownBreakpoints
      <4>2. InForce(u) => InForce(u)'
        <5>1. \A d \in Goroutines : Sets(d, u)' <=> Sets(d, u)
          BY <2>7, <3>2
        <5>2. \A d \in Goroutines : Sets(d, u) => job'[d] = job[d]
          BY <2>2, <2>4 DEF Sets
        <5> QED
          BY <2>1, <2>2, <5>1, <5>2 DEF InForce
      <4> QED
        BY <2>1, <3>2, <4>1, <4>2
    <3> QED
      BY <3>1, <3>2
  <2>13. KnownBreakpoints'
    BY <2>8, <2>9, <2>10, <2>11, <2>12 DEF KnownBreakpoints
  <2> QED
    BY <2>13 DEF Known
<1>7. ASSUME SendLaunch(c) \/ SendConfigurationDone(c) \/ SendRestart(c) PROVE Known'
  BY <1>2, <1>4, <1>5, <1>7 DEF SendLaunch, SendConfigurationDone, SendRestart
<1>8. ASSUME SendResume(c) PROVE Known'
  BY <1>1, <1>4, <1>5, <1>8 DEF SendResume
<1>9. ASSUME SendPause(c) PROVE Known'
  BY <1>1, <1>4, <1>5, <1>9 DEF SendPause, Scripts, clientVars
<1>10. ASSUME SendTerminate(c) \/ SendDisconnect(c) \/ SendOther(c) PROVE Known'
  BY <1>2, <1>4, <1>5, <1>10 DEF SendTerminate, SendDisconnect, SendOther, clientVars
<1> QED
  BY <1>6, <1>7, <1>8, <1>9, <1>10 DEF Client

(* A handler that sets breakpoints sets those it answers.                  *)
LEMMA HandlerKnown ==
  ASSUME Types, Once, Known, NEW c \in Goroutines, Handler(c)
  PROVE  Known'
<1>1. c \in Callers /\ setup.front = "dap" /\ InOrder
  BY DEF Callers, Handler, Once
<1>2. JobOK(c) /\ job[c].kind \in Kinds
  BY <1>1 DEF Types, JobsTyped, Jobs
<1>3. Scripts \subseteq Threads
  BY Facts DEF Scripts, Threads, Types, DataTyped
<1>4. ASSUME NEW d \in Goroutines, job[d].kind = "setBreakpoints" PROVE job[d].thread \in Scripts
  BY <1>4 DEF Types, JobsTyped, JobOK, Callers
<1>5. ASSUME OnInspect(c) \/ OnUnsupported(c) \/ OnForeign(c) \/ OnConfigurationDone(c) PROVE Known'
  <2>1. Alive /\ UNCHANGED <<setup, helper, breakpoints, asked, verified, unsent, stage>>
    BY <1>5 DEF OnInspect, OnUnsupported, OnForeign, OnConfigurationDone, Begins, helperVars, vmVars,
                sessionVars, clientVars
  <2>2. PICK p, h : Moves(c, job[c].kind, p, job[c].thread, h, job[c].todo)
    BY <1>5, Handling DEF GoesTo
  <2>3. job[c].kind # "setBreakpoints"
    BY <1>5 DEF OnInspect, OnUnsupported, OnForeign, OnConfigurationDone, Begins
  <2> QED
    BY <1>1, <2>1, <2>2, <2>3, KnownMoves
<1>6. ASSUME OnPause(c) \/ OnTerminate(c) \/ OnDisconnect(c) \/ OnResume(c) PROVE Known'
  <2>1. Alive /\ UNCHANGED <<setup, helper, breakpoints, asked, verified, unsent, stage>>
    BY <1>6 DEF OnPause, OnTerminate, OnDisconnect, OnResume, Begins, helperVars, vmVars, sessionVars, clientVars
  <2>2. PICK p, h : Moves(c, job[c].kind, p, job[c].thread, h, job[c].todo)
    BY <1>6, Handling DEF GoesTo
  <2>3. job[c].kind # "setBreakpoints"
    BY <1>6 DEF OnPause, OnTerminate, OnDisconnect, OnResume, Begins
  <2> QED
    BY <1>1, <2>1, <2>2, <2>3, KnownMoves
<1>7. ASSUME NilHelper(c) \/ NoResponse(c) PROVE Known'
  BY <1>7 DEF NilHelper, NoResponse, Die, Known, Alive
<1>8. ASSUME OnRestart(c) PROVE Known'
  <2>1. /\ Alive /\ UNCHANGED <<setup, helper, breakpoints, asked, verified, unsent, stage>>
        /\ job[c].kind = "restart"
    BY <1>8 DEF OnRestart, Begins, helperVars, vmVars, sessionVars, clientVars
  <2>2. job'[c].kind = "restart" /\ helper \notin Goroutines
    BY <1>8, <2>1, Abandoning, Facts
  <2>3. \A d \in Goroutines : d # c => job'[d] = job[d]
    BY <1>8, <2>2, Abandoning DEF Callers
  <2> QED
    BY <2>1, <2>2, <2>3, KnownSame
<1>9. ASSUME OnLaunch(c) \/ OnRestartLoads(c) PROVE Known'
  <2>1. /\ HelperFromArguments(c) /\ UNCHANGED <<setup, asked, verified, unsent, stage>> /\ Opening(c)
        /\ Alive /\ job[c].kind \in {"launch", "restart"}
    BY <1>2, <1>9 DEF OnLaunch, OnRestartLoads, Begins, Opening, JobOK, PointsOf, Kinds, sessionVars, clientVars
  <2>2. stage = "launching" /\ KnownBreakpoints
    BY <1>1, <2>1 DEF InOrder, Known
  <2>3. PICK p : GoesTo(c, p)
    BY <2>1, OpeningHelper
  <2>4. UNCHANGED breakpoints
    BY <2>1 DEF HelperFromArguments, Make, MakeFails, vmVars
  <2>5. \A d \in Goroutines : job'[d].kind = "setBreakpoints" => job'[d] = job[d]
    BY <2>1, <2>3 DEF GoesTo, Moves, Callers
  <2>6. \A d \in Goroutines, u \in Threads : Sets(d, u)' => Sets(d, u)
    BY <2>5 DEF Sets
  <2>7. \A d \in Goroutines : job'[d].kind = "setBreakpoints" =>
          /\ job'[d].pc = "sent" => breakpoints'[JobVM(d)'] = asked'[job'[d].thread] \intersect ValidBreakpoints
          /\ job'[d].pc = "add" => breakpoints'[JobVM(d)'] = {}
    BY <2>1, <2>2, <2>4, <2>5 DEF KnownBreakpoints, JobVM
  <2>8. \A u \in (Threads \ Scripts)' :
          verified'[u] = {} /\ \A g \in 1..Helpers : breakpoints'[<<g, u>>] = {}
    BY <2>1, <2>2, <2>4 DEF KnownBreakpoints, Scripts
  <2>9. KnownBreakpoints'
    BY <2>1, <2>2, <2>6, <2>7, <2>8 DEF KnownBreakpoints, Scripts
  <2> QED
    BY <2>9 DEF Known
<1>10. ASSUME OnSetBreakpoints(c) PROVE Known'
  <2>1. /\ Alive /\ UNCHANGED <<setup, helper, asked, verified, unsent, stage>>
        /\ job[c].kind = "setBreakpoints" /\ helper # 0
        /\ Moves(c, job[c].kind, "add", job[c].thread, helper, job[c].todo)
        /\ breakpoints' = [breakpoints EXCEPT ![<<helper, job[c].thread>>] = {}]
    BY <1>10, Handling DEF OnSetBreakpoints, Begins, helperVars, sessionVars, clientVars
  <2>2. PICK t \in Scripts, h \in 1..Helpers : t = job[c].thread /\ h = helper
    BY <1>4, <2>1, HelperInUse
  <2>3. KnownBreakpoints /\ Sets(c, t) /\ t \in Threads
    BY <1>1, <1>3, <2>1, <2>2 DEF Known, Sets
  <2>4. /\ job'[c].kind = "setBreakpoints" /\ job'[c].pc = "add" /\ job'[c].thread = t /\ job'[c].helper = h
        /\ \A d \in Goroutines : d # c => job'[d] = job[d]
    BY <2>1, <2>2 DEF Moves, Callers
  <2>5. \A g \in 1..Helpers, u \in Threads :
          breakpoints'[<<g, u>>] = IF g = h /\ u = t THEN {} ELSE breakpoints[<<g, u>>]
    BY <2>1, <2>2 DEF Types, DataTyped, VMs
  <2>6. \A d \in Goroutines, u \in Threads : Sets(d, u)' <=> Sets(d, u)
    BY <2>2, <2>3, <2>4 DEF Sets
  <2>7. ASSUME NEW d \in Goroutines, job'[d].kind = "setBreakpoints"
        PROVE  /\ job'[d].pc = "sent" =>
                    breakpoints'[JobVM(d)'] = asked'[job'[d].thread] \intersect ValidBreakpoints
               /\ job'[d].pc = "add" => breakpoints'[JobVM(d)'] = {}
    <3>1. CASE d = c
      BY <2>3, <2>4, <2>5, <3>1 DEF JobVM
    <3>2. CASE d # c
      <4>1. job'[d] = job[d] /\ job[d].thread \in Scripts /\ job[d].thread # t
        BY <1>3, <1>4, <2>3, <2>4, <2>7, <3>2 DEF KnownBreakpoints, Sets
      <4>2. job[d].pc \in {"sent", "add"} => job[d].helper \in 1..Helpers
        BY <2>7, <4>1 DEF Types, JobsTyped, JobOK, Callers, Jobs
      <4>3. job[d].pc \in {"sent", "add"} => breakpoints'[JobVM(d)] = breakpoints[JobVM(d)]
        BY <1>3, <2>5, <4>1, <4>2 DEF JobVM
      <4> QED
        BY <2>1, <2>3, <2>7, <4>1, <4>3 DEF KnownBreakpoints, JobVM
    <3> QED
      BY <3>1, <3>2
  <2>8. \A u \in (Threads \ Scripts)' :
          verified'[u] = {} /\ \A g \in 1..Helpers : breakpoints'[<<g, u>>] = {}
    BY <2>1, <2>3, <2>5 DEF KnownBreakpoints, Scripts
  <2>9. ASSUME NEW u \in Threads, InForce(u) PROVE InForce(u)'
    <3>1. CASE u = t
      <4>1. \A d \in Goroutines : Sets(d, t)' => d = c
        BY <2>3, <2>6 DEF KnownBreakpoints
      <4> QED
        BY <2>1, <2>2, <2>3, <2>4, <2>6, <3>1, <4>1 DEF InForce
    <3>2. CASE u # t
      <4>1. \A d \in Goroutines : Sets(d, u)' => Sets(d, u) /\ job'[d] = job[d]
        BY <2>2, <2>4, <2>6, <3>2 DEF Sets
      <4> QED
        BY <2>1, <2>2, <2>5, <2>6, <2>9, <3>2, <4>1 DEF InForce
    <3> QED
      BY <3>1, <3>2
  <2>10. /\ \A d, e \in Goroutines : \A u \in Threads : Sets(d, u)' /\ Sets(e, u)' => d = e
         /\ (unsent \subseteq Scripts)' /\ (stage' = "configured" => unsent' = {})
         /\ helper' # 0 /\ stage' \in {"initialized", "configured"} =>
              \A u \in Threads : u \in unsent' \/ InForce(u)'
    BY <2>1, <2>3, <2>6, <2>9 DEF KnownBreakpoints, Scripts
  <2>11. KnownBreakpoints'
    BY <2>7, <2>8, <2>10 DEF KnownBreakpoints
  <2> QED
    BY <2>11 DEF Known
<1>11. ASSUME AddBreakpoints(c) PROVE Known'
  <2>1. /\ Alive /\ UNCHANGED <<setup, helper, asked, verified, unsent, stage>>
        /\ job[c].pc = "add" /\ GoesTo(c, "sent")
        /\ breakpoints' = [breakpoints EXCEPT
             ![JobVM(c)] = @ \union (asked[job[c].thread] \intersect ValidBreakpoints)]
    BY <1>11, Handling DEF AddBreakpoints, helperVars, sessionVars, clientVars
  <2>2. job[c].kind = "setBreakpoints"
    BY <1>2, <2>1 DEF JobOK, PointsOf, Kinds
  <2>3. job[c].helper \in 1..Helpers
    BY <1>1, <1>2, <2>1 DEF Types, JobsTyped, JobOK, Jobs
  <2>4. PICK t \in Scripts, h \in 1..Helpers : t = job[c].thread /\ h = job[c].helper
    BY <1>4, <2>2, <2>3
  <2>5. KnownBreakpoints /\ Sets(c, t) /\ t \in Threads /\ breakpoints[<<h, t>>] = {}
    BY <1>1, <1>3, <2>1, <2>2, <2>4 DEF Known, Sets, KnownBreakpoints, JobVM
  <2>6. /\ job'[c].kind = "setBreakpoints" /\ job'[c].pc = "sent" /\ job'[c].thread = t /\ job'[c].helper = h
        /\ \A d \in Goroutines : d # c => job'[d] = job[d]
    BY <2>1, <2>2, <2>4 DEF GoesTo, Moves, Callers
  <2>7. \A g \in 1..Helpers, u \in Threads :
          breakpoints'[<<g, u>>] = IF g = h /\ u = t THEN asked[t] \intersect ValidBreakpoints
                                   ELSE breakpoints[<<g, u>>]
    BY <2>1, <2>4, <2>5 DEF Types, DataTyped, VMs, JobVM
  <2>8. \A d \in Goroutines, u \in Threads : Sets(d, u)' <=> Sets(d, u)
    BY <2>4, <2>5, <2>6 DEF Sets
  <2>9. ASSUME NEW d \in Goroutines, job'[d].kind = "setBreakpoints"
        PROVE  /\ job'[d].pc = "sent" =>
                    breakpoints'[JobVM(d)'] = asked'[job'[d].thread] \intersect ValidBreakpoints
               /\ job'[d].pc = "add" => breakpoints'[JobVM(d)'] = {}
    <3>1. CASE d = c
      BY <2>1, <2>5, <2>6, <2>7, <3>1 DEF JobVM
    <3>2. CASE d # c
      <4>1. job'[d] = job[d] /\ job[d].thread \in Scripts /\ job[d].thread # t
        BY <1>3, <1>4, <2>5, <2>6, <2>9, <3>2 DEF KnownBreakpoints, Sets
      <4>2. job[d].pc \in {"sent", "add"} => job[d].helper \in 1..Helpers
        BY <2>9, <4>1 DEF Types, JobsTyped, JobOK, Callers, Jobs
      <4>3. job[d].pc \in {"sent", "add"} => breakpoints'[JobVM(d)] = breakpoints[JobVM(d)]
        BY <1>3, <2>7, <4>1, <4>2 DEF JobVM
      <4> QED
        BY <2>1, <2>5, <2>9, <4>1, <4>3 DEF KnownBreakpoints, JobVM
    <3> QED
      BY <3>1, <3>2
  <2>10. \A u \in (Threads \ Scripts)' :
           verified'[u] = {} /\ \A g \in 1..Helpers : breakpoints'[<<g, u>>] = {}
    BY <2>1, <2>5, <2>7 DEF KnownBreakpoints, Scripts
  <2>11. ASSUME NEW u \in Threads, InForce(u), helper # 0 PROVE InForce(u)'
    <3>1. CASE u = t
      <4>1. \A d \in Goroutines : Sets(d, t)' => d = c
        BY <2>5, <2>8 DEF KnownBreakpoints
      <4>2. h = helper
        BY <2>1, <2>4, <2>5, <2>11, <3>1 DEF InForce
      <4> QED
        BY <2>1, <2>5, <2>6, <2>8, <3>1, <4>1, <4>2 DEF InForce
    <3>2. CASE u # t
      <4>1. \A d \in Goroutines : Sets(d, u)' => Sets(d, u) /\ job'[d] = job[d]
        BY <2>4, <2>6, <2>8, <3>2 DEF Sets
      <4>2. breakpoints'[<<helper, u>>] = breakpoints[<<helper, u>>]
        BY <2>7, <2>11, <3>2, HelperInUse
      <4> QED
        BY <2>1, <2>8, <2>11, <4>1, <4>2 DEF InForce
    <3> QED
      BY <3>1, <3>2
  <2>12. /\ \A d, e \in Goroutines : \A u \in Threads : Sets(d, u)' /\ Sets(e, u)' => d = e
         /\ (unsent \subseteq Scripts)' /\ (stage' = "configured" => unsent' = {})
         /\ helper' # 0 /\ stage' \in {"initialized", "configured"} =>
              \A u \in Threads : u \in unsent' \/ InForce(u)'
    BY <2>1, <2>5, <2>8, <2>11 DEF KnownBreakpoints, Scripts
  <2>13. KnownBreakpoints'
    BY <2>9, <2>10, <2>12 DEF KnownBreakpoints
  <2> QED
    BY <2>13 DEF Known
<1>12. ASSUME SendsEvent(c) PROVE Known'
  <2>1. Alive /\ UNCHANGED <<setup, helper, breakpoints, verified, asked>>
    BY <1>12 DEF SendsEvent, helperVars, vmVars
  <2>2. PICK p : GoesTo(c, p)
    BY <1>12, Handling
  <2>3. job[c].kind # "setBreakpoints"
    BY <1>2, <1>12 DEF SendsEvent, JobOK, PointsOf
  <2>4. CASE job[c].kind \notin {"launch", "restart"}
    <3>1. UNCHANGED <<stage, unsent>>
      BY <1>12, <2>4 DEF SendsEvent
    <3> QED
      BY <1>1, <2>1, <2>2, <2>3, <3>1, KnownMoves DEF GoesTo
  <2>5. CASE job[c].kind \in {"launch", "restart"}
    <3>1. stage' = "initialized" /\ unsent' = Scripts
      BY <1>12, <2>5 DEF SendsEvent, Scripts
    <3>2. KnownBreakpoints
      BY <1>1, <2>1 DEF Known
    <3>3. \A d \in Goroutines : job'[d].kind = "setBreakpoints" => job'[d] = job[d]
      BY <2>2, <2>5 DEF GoesTo, Moves, Callers
    <3>4. \A d \in Goroutines, u \in Threads : Sets(d, u)' => Sets(d, u)
      BY <3>3 DEF Sets
    <3>5. \A d \in Goroutines : job'[d].kind = "setBreakpoints" =>
            /\ job'[d].pc = "sent" => breakpoints'[JobVM(d)'] = asked'[job'[d].thread] \intersect ValidBreakpoints
            /\ job'[d].pc = "add" => breakpoints'[JobVM(d)'] = {}
      BY <2>1, <3>2, <3>3 DEF KnownBreakpoints, JobVM
    <3>6. \A u \in (Threads \ Scripts)' :
            verified'[u] = {} /\ \A g \in 1..Helpers : breakpoints'[<<g, u>>] = {}
      BY <2>1, <3>2 DEF KnownBreakpoints, Scripts
    <3>7. ASSUME helper' # 0, NEW u \in Threads PROVE u \in unsent' \/ InForce(u)'
      <4>1. CASE u \in Scripts
        BY <3>1, <4>1
      <4>2. CASE u \notin Scripts
        <5>1. \A d \in Goroutines : ~Sets(d, u)
          BY <1>4, <4>2 DEF Sets
        <5>2. verified'[u] = {} /\ breakpoints'[<<helper, u>>] = {}
          BY <2>1, <3>2, <3>7, <4>2, HelperInUse DEF KnownBreakpoints
        <5> QED
          BY <2>1, <3>4, <5>1, <5>2 DEF InForce
      <4> QED
        BY <4>1, <4>2
    <3>8. KnownBreakpoints'
      BY <2>1, <3>1, <3>2, <3>4, <3>5, <3>6, <3>7 DEF KnownBreakpoints, Scripts
    <3> QED
      BY <3>8 DEF Known
  <2> QED
    BY <2>4, <2>5
<1>13. ASSUME Answer(c) PROVE Known'
  <2>1. /\ Alive /\ UNCHANGED <<setup, helper, breakpoints, asked, unsent, stage>>
        /\ Moves(c, "idle", "done", 0, 0, {}) /\ Answerable(c)
        /\ verified' = IF job[c].kind = "setBreakpoints"
                         THEN [verified EXCEPT ![job[c].thread] = asked[job[c].thread] \intersect ValidBreakpoints]
                         ELSE verified
    BY <1>13, Handling DEF Answer, helperVars, vmVars
  <2>2. CASE job[c].kind # "setBreakpoints"
    BY <1>1, <2>1, <2>2, KnownMoves
  <2>3. CASE job[c].kind = "setBreakpoints"
    <3>1. job[c].pc = "sent"
      BY <1>2, <2>1, <2>3 DEF Answerable, JobOK, PointsOf
    <3>2. PICK t \in Scripts : t = job[c].thread
      BY <1>4, <2>3
    <3>3. KnownBreakpoints /\ Sets(c, t) /\ t \in Threads
      BY <1>1, <1>3, <2>1, <2>3, <3>2 DEF Known, Sets
    <3>4. /\ job'[c].kind = "idle"
          /\ \A d \in Goroutines : d # c => job'[d] = job[d]
      BY <2>1 DEF Moves, Callers
    <3>5. \A d \in Goroutines, u \in Threads : Sets(d, u)' <=> Sets(d, u) /\ d # c
      BY <3>4 DEF Sets
    <3>6. \A u \in Threads : verified'[u] = IF u = t THEN asked[t] \intersect ValidBreakpoints ELSE verified[u]
      BY <2>1, <2>3, <3>2 DEF Types, AdapterTypeOK
    <3>7. \A d \in Goroutines : job'[d].kind = "setBreakpoints" =>
            /\ job'[d].pc = "sent" => breakpoints'[JobVM(d)'] = asked'[job'[d].thread] \intersect ValidBreakpoints
            /\ job'[d].pc = "add" => breakpoints'[JobVM(d)'] = {}
      BY <2>1, <3>3, <3>4 DEF KnownBreakpoints, JobVM
    <3>8. \A u \in (Threads \ Scripts)' :
            verified'[u] = {} /\ \A g \in 1..Helpers : breakpoints'[<<g, u>>] = {}
      BY <2>1, <3>2, <3>3, <3>6 DEF KnownBreakpoints, Scripts
    <3>9. ASSUME NEW u \in Threads, InForce(u) PROVE InForce(u)'
      <4>1. CASE u = t
        <5>1. job[c].helper = helper
          BY <3>1, <3>3, <3>9, <4>1 DEF InForce
        <5>2. breakpoints[<<helper, t>>] = asked[t] \intersect ValidBreakpoints
          BY <2>3, <3>1, <3>2, <3>3, <5>1 DEF KnownBreakpoints, JobVM
        <5>3. \A d \in Goroutines : ~Sets(d, t)'
          BY <3>3, <3>5 DEF KnownBreakpoints
        <5> QED
          BY <2>1, <3>6, <4>1, <5>2, <5>3 DEF InForce
      <4>2. CASE u # t
        <5>1. ~Sets(c, u)
          BY <3>2, <4>2 DEF Sets
        <5>2. \A d \in Goroutines : (Sets(d, u)' <=> Sets(d, u)) /\ (Sets(d, u) => job'[d] = job[d])
          BY <3>4, <3>5, <5>1
        <5> QED
          BY <2>1, <3>6, <3>9, <4>2, <5>2 DEF InForce
      <4> QED
        BY <4>1, <4>2
    <3>10. /\ \A d, e \in Goroutines : \A u \in Threads : Sets(d, u)' /\ Sets(e, u)' => d = e
           /\ (unsent \subseteq Scripts)' /\ (stage' = "configured" => unsent' = {})
           /\ helper' # 0 /\ stage' \in {"initialized", "configured"} =>
                \A u \in Threads : u \in unsent' \/ InForce(u)'
      BY <2>1, <3>3, <3>5, <3>9 DEF KnownBreakpoints, Scripts
    <3>11. KnownBreakpoints'
      BY <3>7, <3>8, <3>10 DEF KnownBreakpoints
    <3> QED
      BY <3>11 DEF Known
  <2> QED
    BY <2>2, <2>3
<1>14. ASSUME LookUp(c) \/ LookUpAgain(c) PROVE Known'
  <2>1. Alive /\ UNCHANGED <<setup, helper, breakpoints, asked, verified, unsent, stage>>
    BY <1>14 DEF LookUp, LookUpAgain, helperVars, vmVars, sessionVars, clientVars
  <2>2. PICK p, h, S : Moves(c, job[c].kind, p, job[c].thread, h, S)
    BY <1>14, Handling
  <2>3. job[c].kind # "setBreakpoints"
    BY <1>2, <1>14 DEF LookUp, LookUpAgain, JobOK, PointsOf
  <2> QED
    BY <1>1, <2>1, <2>2, <2>3, KnownMoves
<1> QED
  BY <1>5, <1>6, <1>7, <1>8, <1>9, <1>10, <1>11, <1>12, <1>13, <1>14 DEF Handler, OtherHandler

(* Every step.                                                             *)
LEMMA StepKnown == Types /\ Once /\ Known /\ [Next]_vars => Known'
<1> SUFFICES ASSUME Types, Once, Known, [Next]_vars PROVE Known'
  OBVIOUS
<1>1. CASE UNCHANGED vars
  <2>1. UNCHANGED <<died, setup, helper, breakpoints, asked, verified, unsent, stage, job>>
    BY <1>1 DEF vars, debugVars, helperVars, vmVars, sessionVars, clientVars
  <2> QED
    BY <2>1, KnownSame
<1>2. ASSUME (\E v \in VMs : HandlerSends(v)) \/ HangUp \/ CloseQueue \/ Exit PROVE Known'
  <2>1. Alive /\ UNCHANGED <<setup, helper, breakpoints, asked, verified, unsent, stage, job>>
    BY <1>2 DEF HandlerSends, HangUp, CloseQueue, Exit, debugVars, helperVars, vmVars, sessionVars, clientVars
  <2> QED
    BY <2>1, KnownSame
<1>3. ASSUME NEW v \in VMs, EnterHandler(v) \/ Unregister(v), UNCHANGED sessionVars PROVE Known'
  <2>1. Alive /\ UNCHANGED <<setup, helper, breakpoints, asked, verified, unsent, stage, job>>
    BY <1>3 DEF EnterHandler, Unregister, vmVars, sessionVars, clientVars
  <2> QED
    BY <2>1, KnownSame
<1>4. ASSUME NEW c \in Callers, CallerStep(c), UNCHANGED sessionVars PROVE Known'
  <2>1. Alive /\ UNCHANGED <<setup, helper, breakpoints, asked, verified, unsent, stage>>
    BY <1>4 DEF CallerStep, Deliver, BeginTerminate, TerminateOne, TerminatedAll, WaitForTermination, Obey,
                helperVars, vmVars, sessionVars, clientVars
  <2>2. JobOK(c) /\ job[c].kind \in Kinds
    BY DEF Types, JobsTyped, Jobs
  <2>3. job[c].kind # "setBreakpoints"
    BY <1>4, <2>2 DEF CallerStep, Deliver, BeginTerminate, TerminateOne, TerminatedAll, WaitForTermination,
                      JobOK, PointsOf
  <2>4. CASE UNCHANGED job
    BY <2>1, <2>4, KnownSame
  <2>5. CASE \E k, p, t, h, S : Moves(c, k, p, t, h, S) /\ k # "setBreakpoints"
    BY <2>1, <2>3, <2>5, KnownMoves
  <2>6. Deliver(c) \/ BeginTerminate(c) \/ TerminateOne(c) \/ WaitForTermination(c) =>
          UNCHANGED job \/ \E p, t, h, S : Moves(c, job[c].kind, p, t, h, S)
    BY Requesting DEF GoesTo
  <2>7. TerminatedAll(c) => \E k, p, t, h, S : Moves(c, k, p, t, h, S) /\ k \in {job[c].kind, "idle"}
    BY Requesting DEF GoesTo
  <2> QED
    BY <1>4, <2>3, <2>4, <2>5, <2>6, <2>7 DEF CallerStep
<1>5. ASSUME ShellStep PROVE Known'
  <2>1. setup.front = "shell" /\ UNCHANGED setup
    BY <1>5 DEF ShellStep, Load, Reset, Choose, Pause, ContinueFirst, Continue, Step, Break, Return,
                HandlerPrints, Prompt, debugVars, helperVars
  <2> QED
    BY <2>1 DEF Known
<1>6. CASE Next
  BY <1>2, <1>3, <1>4, <1>5, <1>6, ClientKnown, HandlerKnown DEF Next, AdapterStep
<1> QED
  BY <1>1, <1>6
-----------------------------------------------------------------------------
(* The end of a session: a script that has ended does not come back, and   *)
(* one that has not begun comes with a new helper only.                    *)
LEMMA GoneStays ==
  ASSUME Types, Next, NEW v \in VMs
  PROVE  /\ mode[v] = "gone" => mode'[v] = "gone"
         /\ mode'[v] = "handler" => mode[v] = "handler" \/ starts[v[1]] > 0
         /\ mode[v] \in {"none", "gone"} =>
              mode'[v] = mode[v] \/ (Make /\ v[1] = made + 1 /\ v[2] \in Scripts)
<1>1. CASE UNCHANGED mode
  BY <1>1
<1>2. mode[v] = "gone" => v[1] # made + 1
  <2>1. PICK g \in 1..Helpers, t \in Threads : v = <<g, t>>
    BY DEF VMs
  <2>2. g = made + 1 => g > made
    BY DEF Types, DataTyped
  <2> QED
    BY <2>1, <2>2 DEF Types, Fresh
<1>3. CASE Make
  BY <1>2, <1>3 DEF Make, VMs, Scripts
<1>4. ASSUME NEW u \in VMs, LeaveHandler(u), mode[u] = "handler"
      PROVE  /\ mode[v] = "gone" => mode'[v] = "gone"
             /\ mode'[v] = "handler" => mode[v] = "handler"
             /\ mode[v] \in {"none", "gone"} => mode'[v] = mode[v]
  BY <1>4 DEF LeaveHandler, Types, DataTyped
<1>5. ASSUME NEW u, NEW k, Takes(u), Obey(u, k)
      PROVE  /\ mode[v] = "gone" => mode'[v] = "gone"
             /\ mode'[v] = "handler" => mode[v] = "handler"
             /\ mode[v] \in {"none", "gone"} => mode'[v] = mode[v]
  BY <1>5 DEF Takes, Obey, Types, DataTyped
<1>6. ASSUME NEW u \in VMs, EnterHandler(u)
      PROVE  /\ mode[v] = "gone" => mode'[v] = "gone"
             /\ mode'[v] = "handler" => mode[v] = "handler" \/ starts[v[1]] > 0
             /\ mode[v] \in {"none", "gone"} => mode'[v] = mode[v]
  BY <1>6 DEF EnterHandler, Types, DataTyped
<1>7. ASSUME NEW c \in Goroutines, Client(c) PROVE UNCHANGED mode
  BY <1>7 DEF Client, SendLaunch, SendSetBreakpoints, SendConfigurationDone, SendResume, SendPause, SendRestart,
              SendTerminate, SendDisconnect, SendOther, Start, vmVars
<1>8. ASSUME NEW c \in Goroutines, Handler(c) PROVE UNCHANGED mode \/ Make
  BY <1>8 DEF Handler, OtherHandler, OnLaunch, OnRestart, OnRestartLoads, HelperFromArguments, MakeFails,
              OnSetBreakpoints, AddBreakpoints, OnConfigurationDone, OnResume, OnPause, OnTerminate,
              OnDisconnect, LookUp, LookUpAgain, OnInspect, OnUnsupported, OnForeign, NilHelper, SendsEvent,
              Answer, NoResponse, vmVars
<1>9. ASSUME ShellStep PROVE UNCHANGED mode \/ Make \/ \E u \in VMs : LeaveHandler(u) /\ mode[u] = "handler"
  BY <1>9 DEF ShellStep, Load, MakeFails, Reset, Choose, Pause, ContinueFirst, Continue, Step, Break, Return,
              HandlerPrints, debugVars, vmVars
<1>10. ASSUME NEW c \in Callers, CallerStep(c) PROVE UNCHANGED mode \/ \E u, k : Takes(u) /\ Obey(u, k)
  BY <1>10 DEF CallerStep, Deliver, BeginTerminate, TerminateOne, TerminatedAll, WaitForTermination, vmVars
<1>11. ASSUME NEW u \in VMs, HandlerSends(u) PROVE UNCHANGED mode \/ (LeaveHandler(u) /\ mode[u] = "handler")
  BY <1>11 DEF HandlerSends
<1>12. ASSUME HangUp \/ CloseQueue \/ Exit \/ \E u \in VMs : Unregister(u) PROVE UNCHANGED mode
  BY <1>12 DEF HangUp, CloseQueue, Exit, Unregister, debugVars, vmVars
<1> QED
  BY <1>1, <1>3, <1>4, <1>5, <1>6, <1>7, <1>8, <1>9, <1>10, <1>11, <1>12 DEF Next, AdapterStep

(* What the steps that neither change the helper nor terminate leave.      *)
LEMMA CleanupSame ==
  ASSUME Types, Cleanup, Next, UNCHANGED <<setup, helper, made>>,
         \A g \in 1..Helpers : /\ \A t \in registered[g] : t \in registered'[g] \/ mode'[<<g, t>>] = "gone"
                               /\ starts[g] > 0 => starts'[g] > 0,
         \A d \in Callers : \/ job'[d] = job[d]
                            \/ /\ job'[d].pc \notin {"terminating", "load"}
                               /\ job'[d].pc \in {"await", "wait"} =>
                                    job'[d].helper \in 1..Helpers /\ Ended(job'[d].helper)
                               /\ d \in Goroutines \/ Busy(d)'
  PROVE  Cleanup'
<1>1. Scripts \subseteq Threads /\ Scripts' = Scripts /\ 1..made \subseteq 1..Helpers
  BY Facts DEF Scripts, Threads, Types, DataTyped
<1>2. \A g \in 1..Helpers, t \in Threads : <<g, t>> \in VMs
  BY DEF VMs
<1>3. ~Make
  BY DEF Make, Types, DataTyped
<1>4. \A g \in 1..Helpers, t \in Threads :
        /\ mode[<<g, t>>] = "gone" => mode'[<<g, t>>] = "gone"
        /\ mode'[<<g, t>>] \notin {"none", "gone"} => mode[<<g, t>>] \notin {"none", "gone"}
  BY <1>2, <1>3, GoneStays
<1>5. \A g \in 1..Helpers : Ended(g) => Ended(g)'
  BY <1>1, <1>4 DEF Ended
<1>6. \A g \in (1..made)' : \A t \in Scripts' : mode'[<<g, t>>] = "gone" \/ t \in registered'[g]
  BY <1>1, <1>4 DEF Cleanup
<1>7. \A g \in 1..Helpers : \A t \in Threads :
        mode'[<<g, t>>] \notin {"none", "gone"} => g <= made' /\ t \in Scripts'
  BY SMTT(30), <1>1, <1>4 DEF Cleanup
<1>8. \A v \in VMs : mode'[v] = "handler" => starts'[v[1]] > 0
  BY GoneStays DEF Cleanup, VMs
<1>9. \A c \in Callers : job[c].pc \in {"terminating", "await", "wait"} => job[c].helper \in 1..Helpers
  BY DEF Types, JobsTyped, JobOK, Jobs
<1>10. \A c \in Callers : job'[c].pc = "terminating" =>
         \A t \in Scripts' : mode'[<<job'[c].helper, t>>] = "gone" \/ t \in job'[c].todo
  BY <1>1, <1>4, <1>9 DEF Cleanup
<1>11. \A c \in Callers : job'[c].pc \in {"await", "wait"} =>
         job'[c].helper \in 1..Helpers /\ Ended(job'[c].helper)
  BY <1>9 DEF Cleanup
<1>12. ASSUME NEW c \in Callers, job'[c].pc \in {"await", "wait"}
       PROVE  \A t \in Scripts' : mode'[<<job'[c].helper, t>>] = "gone"
  BY <1>1, <1>4, <1>11, <1>12 DEF Ended
<1>13. \A g \in 1..Helpers : Busy(g) => Busy(g)'
  BY Facts DEF Busy, Callers
<1>14. \A g \in (1..made)' : g = helper' \/ Busy(g)' \/ Ended(g)'
  BY <1>1, <1>5, <1>13 DEF Cleanup
<1>15. \A c \in Goroutines : job'[c].kind = "restart" /\ job'[c].pc = "load" => job'[c] = job[c]
  BY DEF Callers
<1>16. ASSUME NEW c \in Goroutines, job'[c].kind = "restart", job'[c].pc = "load"
       PROVE  helper' # 0 /\ (Busy(helper)' \/ Ended(helper)')
  <2>1. helper # 0 /\ (Busy(helper) \/ Ended(helper))
    BY <1>15, <1>16 DEF Cleanup
  <2>2. PICK h \in 1..Helpers : h = helper
    BY <2>1, HelperInUse
  <2> QED
    BY <2>1, <2>2, <1>5, <1>13 DEF Busy, Ended
<1> QED
  BY <1>6, <1>7, <1>8, <1>10, <1>12, <1>14, <1>16 DEF Cleanup, Ended

(* One job moves on, and not to the end of a helper.                       *)
LEMMA CleanupMoves ==
  ASSUME Types, Cleanup, Next, UNCHANGED <<setup, helper, made, registered, starts>>,
         NEW c \in Callers, \A d \in Callers : d # c => job'[d] = job[d],
         job'[c].pc \notin {"terminating", "load"},
         job'[c].pc \in {"await", "wait"} => job'[c].helper \in 1..Helpers /\ Ended(job'[c].helper),
         c \in Goroutines \/ Busy(c)'
  PROVE  Cleanup'
BY CleanupSame

(* What keeps the helper in use halted.                                    *)
LEMMA HaltedSame ==
  ASSUME Types, Next, Halted, UNCHANGED <<setup, helper, starts>>,
         \A d \in Goroutines : Starting(d)' => Starting(d)
  PROVE  Halted'
<1>1. CASE helper = 0
  BY <1>1 DEF Halted
<1>2. CASE helper # 0 /\ Ended(helper)
  <2>1. Scripts' = Scripts /\ \A t \in Scripts : <<helper, t>> \in VMs
    BY <1>2, ScriptsInUse
  <2> QED
    BY <1>2, <2>1, GoneStays DEF Halted, Ended, Scripts
<1>3. CASE ~Started /\ \A d \in Goroutines : ~Starting(d)
  BY <1>3 DEF Halted, Started
<1> QED
  BY <1>1, <1>2, <1>3 DEF Halted

(* One job moves on.                                                       *)
LEMMA LeavesMoves ==
  ASSUME Types, Leaves, Halted => Halted', UNCHANGED <<helper, leaving, session>>,
         NEW c \in Callers, NEW k, NEW p, NEW t, NEW h, NEW S, Moves(c, k, p, t, h, S),
         c \in Goroutines /\ k = "disconnect" =>
           /\ job[c].kind = "disconnect"
           /\ p \in {"terminate", "terminating", "await", "wait"} => h = helper \/ Halted
           /\ p \in {"stray", "sent"} => Halted
  PROVE  Leaves'
<1>1. \A d \in Goroutines : d # c => job'[d] = job[d]
  BY DEF Moves, Callers
<1>2. ASSUME NEW d \in Goroutines, job'[d].kind = "disconnect"
      PROVE  /\ job[d].kind = "disconnect"
             /\ job'[d].pc \in {"terminate", "terminating", "await", "wait"} =>
                  job'[d].helper = helper \/ Halted
             /\ job'[d].pc \in {"stray", "sent"} => Halted
  <2>1. CASE d = c
    BY <1>2, <2>1 DEF Moves
  <2>2. CASE d # c
    BY <1>1, <1>2, <2>2 DEF Leaves
  <2> QED
    BY <2>1, <2>2
<1> QED
  BY <1>2 DEF Leaves

(* No job does.                                                            *)
LEMMA LeavesSame ==
  ASSUME Types, Leaves, Halted => Halted', UNCHANGED <<helper, leaving, job>>,
         session' = session \/ leaving = "may"
  PROVE  Leaves'
BY DEF Leaves

(* Requests do not disturb what is left; a disconnect is the last one.     *)
LEMMA ClientQuiet ==
  ASSUME Types, Cleanup, Leaves, Next, NEW c \in Goroutines, Client(c)
  PROVE  Cleanup' /\ Leaves'
<1>1. c \in Callers /\ Scripts \subseteq 0..MaxScripts /\ Threads \subseteq 0..MaxScripts
  BY Facts DEF Callers, Scripts, Threads, Types, DataTyped
<1>2. 0 \in 0..MaxScripts /\ 1 \in 0..MaxScripts
  BY Facts
<1>3. ASSUME NEW k \in Kinds, NEW t \in 0..MaxScripts, Start(c, k, t),
             (leaving' = leaving /\ k # "disconnect") \/ leaving' = "asked"
      PROVE  Cleanup' /\ Leaves'
  <2>1. /\ Moves(c, k, "begin", t, 0, {}) /\ leaving = "no" /\ session = "open" /\ session' = "open"
        /\ UNCHANGED <<setup, helper, made, registered, starts>>
    BY <1>3, Sending DEF Start, helperVars
  <2>2. Cleanup'
    BY <1>1, <2>1, CleanupMoves DEF Moves
  <2>3. \A d \in Goroutines : d # c => job'[d] = job[d] /\ job[d].kind # "disconnect"
    BY <2>1 DEF Moves, Callers, Leaves
  <2>4. job'[c].kind = k /\ job'[c].pc = "begin"
    BY <2>1 DEF Moves
  <2>5. Leaves'
    BY <1>3, <2>1, <2>3, <2>4 DEF Leaves
  <2> QED
    BY <2>2, <2>5
<1>4. {"launch", "setBreakpoints", "configurationDone", "continue", "next", "pause", "restart", "terminate",
        "disconnect", "inspect", "unsupported", "foreign"} \subseteq Kinds
  BY DEF Kinds
<1>5. ASSUME SendLaunch(c) \/ SendConfigurationDone(c) \/ SendRestart(c) PROVE Cleanup' /\ Leaves'
  BY <1>2, <1>3, <1>4, <1>5 DEF SendLaunch, SendConfigurationDone, SendRestart
<1>6. ASSUME SendTerminate(c) \/ SendDisconnect(c) \/ SendOther(c) PROVE Cleanup' /\ Leaves'
  BY <1>2, <1>3, <1>4, <1>6 DEF SendTerminate, SendDisconnect, SendOther, clientVars
<1>7. ASSUME SendResume(c) \/ SendPause(c) \/ SendSetBreakpoints(c) PROVE Cleanup' /\ Leaves'
  BY <1>1, <1>3, <1>4, <1>7 DEF SendResume, SendPause, SendSetBreakpoints, Scripts, clientVars
<1> QED
  BY <1>5, <1>6, <1>7 DEF Client

(* Handlers.  A restart abandons a helper only with a goroutine to end it. *)
LEMMA HandlerQuiet ==
  ASSUME Types, Once, Cleanup, Leaves, Next, NEW c \in Goroutines, Handler(c)
  PROVE  Cleanup' /\ Leaves'
<1>1. c \in Callers /\ setup.front = "dap" /\ InOrder
  BY DEF Callers, Handler, Once
<1>2. JobOK(c) /\ job[c].kind \in Kinds
  BY <1>1 DEF Types, JobsTyped, Jobs
<1>3. ASSUME UNCHANGED <<setup, helper, made, registered, starts, leaving, session>>,
             NEW k, NEW p, NEW t, NEW h, NEW S, Moves(c, k, p, t, h, S),
             k \in {job[c].kind, "idle"}, p \notin {"terminating", "await", "load"},
             p = "wait" => h \in 1..Helpers /\ Ended(h),
             k = "disconnect" => /\ p \in {"terminate", "wait"} => h = helper
                                 /\ p \in {"stray", "sent"} => Halted,
             p = "begin" => k # "configurationDone"
      PROVE  Cleanup' /\ Leaves'
  <2>1. Cleanup'
    BY <1>1, <1>3, CleanupMoves DEF Moves
  <2>2. \A d \in Goroutines : Starting(d)' => Starting(d)
    BY <1>3 DEF Starting, Moves, Callers
  <2>3. Halted => Halted'
    BY <1>3, <2>2, HaltedSame
  <2>4. Leaves'
    BY <1>1, <1>3, <2>3, LeavesMoves
  <2> QED
    BY <2>1, <2>4
<1>4. ASSUME OnSetBreakpoints(c) \/ AddBreakpoints(c) \/ OnInspect(c) \/ OnUnsupported(c) \/ OnForeign(c)
      PROVE  Cleanup' /\ Leaves'
  <2>1. UNCHANGED <<setup, helper, made, registered, starts, leaving, session>>
    BY <1>4 DEF OnSetBreakpoints, AddBreakpoints, OnInspect, OnUnsupported, OnForeign, helperVars,
                sessionVars, clientVars
  <2>2. job[c].kind \in {"setBreakpoints", "inspect", "unsupported", "foreign"}
    BY <1>2, <1>4 DEF OnSetBreakpoints, AddBreakpoints, OnInspect, OnUnsupported, OnForeign, Begins, JobOK,
                      PointsOf, Kinds
  <2>3. PICK h : \E p \in {"add", "sent", "error"} : Moves(c, job[c].kind, p, job[c].thread, h, job[c].todo)
    BY <1>4, Handling DEF GoesTo
  <2> QED
    BY <1>3, <2>1, <2>2, <2>3
<1>5. ASSUME OnPause(c) \/ OnTerminate(c) \/ OnResume(c) PROVE Cleanup' /\ Leaves'
  <2>1. UNCHANGED <<setup, helper, made, registered, starts, leaving, session>>
    BY <1>5 DEF OnPause, OnTerminate, OnResume, helperVars, sessionVars, clientVars
  <2>2. job[c].kind \in {"pause", "terminate", "continue", "next"}
    BY <1>5 DEF OnPause, OnTerminate, OnResume, Begins
  <2>3. PICK h : \E p \in {"send", "terminate", "lookup", "exited"} :
          Moves(c, job[c].kind, p, job[c].thread, h, job[c].todo)
    BY <1>5, Handling DEF GoesTo
  <2> QED
    BY <1>3, <2>1, <2>2, <2>3
<1>6. ASSUME OnDisconnect(c) PROVE Cleanup' /\ Leaves'
  <2>1. /\ UNCHANGED <<setup, helper, made, registered, starts, leaving, session>>
        /\ job[c].kind = "disconnect"
    BY <1>6 DEF OnDisconnect, Begins, helperVars, sessionVars, clientVars
  <2>2. CASE helper = 0
    <3>1. Halted
      BY <2>2 DEF Halted
    <3>2. PICK h, S : Moves(c, job[c].kind, "sent", job[c].thread, h, S)
      BY <1>6, <2>2, Handling DEF GoesTo
    <3> QED
      BY <1>3, <2>1, <3>1, <3>2
  <2>3. CASE helper # 0
    <3>1. PICK h, S : Moves(c, job[c].kind, "lookup", job[c].thread, h, S)
      BY <1>6, <2>3, Handling DEF GoesTo
    <3> QED
      BY <1>3, <2>1, <3>1
  <2> QED
    BY <2>2, <2>3
<1>7. ASSUME NilHelper(c) \/ NoResponse(c) PROVE Cleanup' /\ Leaves'
  <2>1. UNCHANGED <<setup, helper, made, registered, starts, leaving, session, job>>
    BY <1>7 DEF NilHelper, NoResponse, helperVars, sessionVars, clientVars
  <2>2. Halted => Halted'
    BY <2>1, HaltedSame DEF Starting
  <2> QED
    BY <2>1, <2>2, CleanupSame, LeavesSame
<1>8. ASSUME OnConfigurationDone(c) PROVE Cleanup' /\ Leaves'
  <2>1. /\ UNCHANGED <<setup, helper, made, registered, leaving, session>> /\ Starting(c)
        /\ helper # 0 /\ starts' = [starts EXCEPT ![helper] = @ + 1]
    BY <1>8 DEF OnConfigurationDone, Begins, Starting, RunCoordinator, helperVars, sessionVars, clientVars
  <2>2. GoesTo(c, "sent")
    BY <1>8, Handling
  <2>3. \A g \in 1..Helpers : starts[g] > 0 => starts'[g] > 0
    <3>1. \A g \in 1..Helpers : starts[g] \in Nat
      BY DEF Types, DataTyped
    <3> QED
      BY <2>1, <3>1 DEF Types, DataTyped
  <2>4. Cleanup'
    BY <1>1, <2>1, <2>2, <2>3, CleanupSame DEF GoesTo, Moves
  <2>5. Halted => Halted'
    <3>1. Scripts' = Scripts /\ \A t \in Scripts : <<helper, t>> \in VMs
      BY <2>1, ScriptsInUse
    <3>2. Halted => Ended(helper)
      BY <2>1 DEF Halted
    <3> QED
      BY <2>1, <3>1, <3>2, GoneStays DEF Halted, Ended, Scripts
  <2>6. job[c].kind # "disconnect"
    BY <2>1 DEF Starting
  <2> QED
    BY <1>1, <2>1, <2>2, <2>4, <2>5, <2>6, LeavesMoves DEF GoesTo
<1>9. ASSUME OnLaunch(c) \/ OnRestartLoads(c) PROVE Cleanup' /\ Leaves'
  <2>1. /\ HelperFromArguments(c) /\ UNCHANGED <<setup, starts, stage, leaving, session>> /\ Opening(c)
        /\ job[c].kind \in {"launch", "restart"}
        /\ job[c].kind = "launch" => job[c].pc = "begin"
        /\ job[c].kind = "restart" => job[c].pc = "load"
    BY <1>2, <1>9 DEF OnLaunch, OnRestartLoads, Begins, Opening, JobOK, PointsOf, Kinds, sessionVars, clientVars
  <2>2. PICK p \in {"event", "error"} :
          /\ GoesTo(c, p) /\ helper' \in {0, made'}
          /\ p = "event" => Make /\ helper' = made'
          /\ p = "error" => MakeFails /\ helper' = 0
    BY <2>1, OpeningHelper
  <2>3. \A d \in Goroutines : Opening(d) => d = c
    BY <1>1, <2>1 DEF InOrder
  <2>4. \A d \in Goroutines : ~Starting(d)
    BY <1>1, <2>1 DEF InOrder
  <2>5. \A d \in Goroutines : ~Starting(d)'
    BY <2>1, <2>2, <2>4 DEF Starting, GoesTo, Moves, Callers
  <2>6. Halted'
    <3>1. CASE p = "event"
      BY <2>1, <2>2, <2>5, <3>1, NewHelper DEF Halted
    <3>2. CASE p = "error"
      BY <2>2, <3>2 DEF Halted
    <3> QED
      BY <3>1, <3>2
  <2>7. \A d \in Callers : d # c => job'[d] = job[d]
    BY <2>2 DEF GoesTo, Moves
  <2>8. job'[c].kind = job[c].kind /\ job'[c].pc = p
    BY <2>2 DEF GoesTo, Moves
  <2>9. Leaves'
    BY <2>1, <2>6, <2>7, <2>8 DEF Leaves, Callers
  <2>10. Scripts' = Scripts /\ Scripts \subseteq Threads /\ 1..made \subseteq 1..Helpers /\ made \in Nat
         /\ \A g \in 1..Helpers, t \in Threads : <<g, t>> \in VMs
    BY <2>1, Facts DEF Scripts, Threads, VMs, Types, DataTyped
  <2>11. \A g \in 1..Helpers, t \in Threads :
           /\ mode[<<g, t>>] = "gone" => mode'[<<g, t>>] = "gone"
           /\ mode'[<<g, t>>] \notin {"none", "gone"} =>
                mode[<<g, t>>] \notin {"none", "gone"} \/ (Make /\ g = made + 1 /\ t \in Scripts)
    BY <2>10, GoneStays
  <2>12. \A g \in 1..made, t \in Scripts : mode'[<<g, t>>] = "gone" \/ t \in registered'[g]
    <3>1. \A g \in 1..made, t \in Scripts : mode'[<<g, t>>] = "gone" \/ t \in registered[g]
      BY <2>10, <2>11 DEF Cleanup
    <3>2. ASSUME Make, NEW g \in 1..made PROVE registered'[g] = registered[g]
      <4>1. registered' = [registered EXCEPT ![made + 1] = 1..setup.scripts]
        BY <3>2 DEF Make
      <4>2. g # made + 1 /\ g \in 1..Helpers
        BY <2>10, <3>2
      <4>3. registered \in [1..Helpers -> SUBSET Threads]
        BY DEF Types, DataTyped
      <4> QED
        BY <4>1, <4>2, <4>3
    <3>3. MakeFails => registered' = registered
      BY DEF MakeFails
    <3> QED
      BY <2>2, <3>1, <3>2, <3>3
  <2>13. \A g \in (1..made)' : \A t \in Scripts' : mode'[<<g, t>>] = "gone" \/ t \in registered'[g]
    <3>1. CASE made' = made
      BY <2>10, <2>12, <3>1
    <3>2. CASE Make
      <4>1. made' = made + 1 /\ made + 1 \in 1..Helpers
        BY <2>10, <3>2, Facts DEF Make
      <4>2. registered'[made + 1] = Scripts
        BY <3>2, <4>1 DEF Make, Scripts, Types, DataTyped
      <4>3. \A g \in (1..made)' : g \in 1..made \/ g = made + 1
        BY <2>10, <4>1
      <4> QED
        BY <2>10, <2>12, <4>2, <4>3
    <3> QED
      BY <2>2, <3>1, <3>2 DEF MakeFails
  <2>14. \A g \in 1..Helpers : \A t \in Threads :
           mode'[<<g, t>>] \notin {"none", "gone"} => g <= made' /\ t \in Scripts'
    <3>1. made <= made' /\ (Make => made' = made + 1)
      BY <2>2, <2>10 DEF Make, MakeFails
    <3>2. made' \in Nat
      BY <2>2, <2>10 DEF Make, MakeFails
    <3> QED
      BY <2>10, <2>11, <3>1, <3>2 DEF Cleanup
  <2>15. \A v \in VMs : mode'[v] = "handler" => starts'[v[1]] > 0
    BY <2>1, GoneStays DEF Cleanup
  <2>16. \A d \in Callers : job'[d].pc \in {"terminating", "await", "wait"} =>
           job'[d] = job[d] /\ job[d].helper \in 1..Helpers
    BY <2>2, <2>7, <2>8 DEF Types, JobsTyped, JobOK, Jobs
  <2>17. \A d \in Callers : job'[d].pc = "terminating" =>
           \A t \in Scripts' : mode'[<<job'[d].helper, t>>] = "gone" \/ t \in job'[d].todo
    BY <2>10, <2>11, <2>16 DEF Cleanup
  <2>18. \A d \in Callers : job'[d].pc \in {"await", "wait"} =>
           \A t \in Scripts' : mode'[<<job'[d].helper, t>>] = "gone"
    BY <2>10, <2>11, <2>16 DEF Cleanup, Ended
  <2>19. \A g \in 1..Helpers : (Busy(g) => Busy(g)') /\ (Ended(g) => Ended(g)')
    <3>1. \A g \in 1..Helpers : g \in Callers /\ g # c
      BY Facts DEF Callers
    <3> QED
      BY <2>7, <2>10, <2>11, <3>1 DEF Busy, Ended
  <2>20. \A g \in 1..made : Busy(g) \/ Ended(g)
    <3>1. CASE helper = 0
      BY <2>10, <3>1 DEF Cleanup
    <3>2. CASE helper # 0
      <4>1. job[c].kind = "restart"
        BY <1>1, <2>1, <3>2 DEF InOrder
      <4> QED
        BY <2>1, <4>1 DEF Cleanup
    <3> QED
      BY <3>1, <3>2
  <2>21. \A g \in (1..made)' : g = helper' \/ Busy(g)' \/ Ended(g)'
    <3>1. CASE p = "error"
      BY <2>2, <2>10, <2>19, <2>20, <3>1 DEF MakeFails
    <3>2. CASE p = "event"
      <4>1. made' = made + 1 /\ helper' = made + 1
        BY <2>2, <3>2 DEF Make
      <4> QED
        BY <2>10, <2>19, <2>20, <4>1
    <3> QED
      BY <3>1, <3>2
  <2>22. \A d \in Goroutines : ~(job'[d].kind = "restart" /\ job'[d].pc = "load")
    BY <2>2, <2>3, <2>7, <2>8 DEF Opening, Callers
  <2>23. Cleanup'
    BY <2>13, <2>14, <2>15, <2>17, <2>18, <2>21, <2>22 DEF Cleanup, Ended
  <2> QED
    BY <2>9, <2>23
<1>10. ASSUME OnRestart(c) PROVE Cleanup' /\ Leaves'
  <2>1. /\ UNCHANGED <<setup, helper, made, registered, starts, leaving, session, mode>>
        /\ job[c].kind = "restart" /\ helper # 0
    BY <1>10 DEF OnRestart, Begins, helperVars, vmVars, sessionVars, clientVars
  <2>2. PICK h \in 1..Helpers : h = helper
    BY <2>1, HelperInUse
  <2>3. /\ h \in Callers /\ h # c /\ h \notin Goroutines
        /\ job'[c].kind = "restart" /\ job'[c].pc = "load"
        /\ job'[h].pc = "terminate"
        /\ \A d \in Callers : d # c /\ d # h => job'[d] = job[d]
    BY <1>10, <2>1, <2>2, Abandoning, Facts
  <2>4. \A d \in Goroutines : d # c => job'[d] = job[d]
    BY <2>3 DEF Callers
  <2>5. \A d \in Goroutines : Starting(d)' => Starting(d)
    BY <2>3, <2>4 DEF Starting
  <2>6. Halted => Halted'
    BY <2>1, <2>5, HaltedSame
  <2>7. Leaves'
    BY <2>1, <2>3, <2>4, <2>6 DEF Leaves
  <2>8. Busy(h)' /\ \A g \in 1..Helpers : (Busy(g) => Busy(g)') /\ (Ended(g)' <=> Ended(g))
    <3>1. \A g \in 1..Helpers : g \in Callers /\ g # c
      BY Facts DEF Callers
    <3> QED
      BY <2>1, <2>2, <2>3, <3>1 DEF Busy, Ended, Scripts
  <2>9. \A d \in Callers : job'[d].pc \in {"terminating", "await", "wait"} => job'[d] = job[d]
    BY <2>3
  <2>10. \A d \in Goroutines : job'[d].kind = "restart" /\ job'[d].pc = "load" =>
           helper' # 0 /\ (Busy(helper)' \/ Ended(helper)')
    BY <2>1, <2>2, <2>8 DEF Busy, Ended
  <2>11. Scripts' = Scripts /\ (1..made)' = 1..made /\ mode' = mode
    BY <2>1 DEF Scripts
  <2>12. \A d \in Callers : job'[d].pc = "terminating" =>
           \A t \in Scripts' : mode'[<<job'[d].helper, t>>] = "gone" \/ t \in job'[d].todo
    BY <2>9, <2>11 DEF Cleanup
  <2>13. \A d \in Callers : job'[d].pc \in {"await", "wait"} =>
           \A t \in Scripts' : mode'[<<job'[d].helper, t>>] = "gone"
    BY <2>9, <2>11 DEF Cleanup, Ended
  <2>14. \A g \in (1..made)' : g = helper' \/ Busy(g)' \/ Ended(g)'
    <3>1. \A g \in 1..made : g \in 1..Helpers
      BY Facts DEF Types, DataTyped
    <3> QED
      BY <2>1, <2>8, <2>11, <3>1 DEF Cleanup
  <2>15. /\ \A g \in (1..made)' : \A t \in Scripts' : mode'[<<g, t>>] = "gone" \/ t \in registered'[g]
         /\ \A g \in 1..Helpers : \A t \in Threads :
              mode'[<<g, t>>] \notin {"none", "gone"} => g <= made' /\ t \in Scripts'
         /\ \A v \in VMs : mode'[v] = "handler" => starts'[v[1]] > 0
    BY <2>1, <2>11 DEF Cleanup
  <2>16. Cleanup'
    BY <2>10, <2>12, <2>13, <2>14, <2>15 DEF Cleanup, Ended
  <2> QED
    BY <2>7, <2>16
<1>11. ASSUME SendsEvent(c) PROVE Cleanup' /\ Leaves'
  <2>1. UNCHANGED <<setup, helper, made, registered, starts, leaving, session>>
    BY <1>11 DEF SendsEvent, helperVars
  <2>2. PICK p \in {"no body", "answer"} : GoesTo(c, p)
    BY <1>11, Handling
  <2> QED
    BY <1>3, <2>1, <2>2 DEF GoesTo
<1>12. ASSUME Answer(c) PROVE Cleanup' /\ Leaves'
  <2>1. /\ UNCHANGED <<setup, helper, made, registered, starts, session>> /\ Answerable(c)
        /\ leaving' = IF job[c].kind = "disconnect" THEN "may" ELSE leaving
        /\ Moves(c, "idle", "done", 0, 0, {})
    BY <1>12, Handling DEF Answer, helperVars
  <2>2. CASE job[c].kind # "disconnect"
    BY <1>3, <2>1, <2>2
  <2>3. CASE job[c].kind = "disconnect"
    <3>1. job[c].pc = "sent" /\ Halted
      BY <1>2, <2>1, <2>3 DEF Answerable, JobOK, PointsOf, Leaves
    <3>2. Cleanup'
      BY <1>1, <2>1, CleanupMoves DEF Moves
    <3>3. \A d \in Goroutines : Starting(d)' => Starting(d)
      BY <2>1 DEF Starting, Moves, Callers
    <3>4. Halted'
      BY <2>1, <3>1, <3>3, HaltedSame
    <3>5. Leaves'
      BY <2>1, <2>3, <3>4 DEF Leaves, Moves, Callers
    <3> QED
      BY <3>2, <3>5
  <2> QED
    BY <2>2, <2>3
<1>13. ASSUME LookUp(c) PROVE Cleanup' /\ Leaves'
  <2>1. UNCHANGED <<setup, helper, made, registered, starts, leaving, session>>
    BY <1>13 DEF LookUp, helperVars, sessionVars, clientVars
  <2>2. PICK p, h, S : /\ Moves(c, job[c].kind, p, job[c].thread, h, S)
                       /\ p \in {"send", "terminate"} /\ h = helper
    BY <1>13, Handling
  <2> QED
    BY <1>3, <2>1, <2>2
<1>14. ASSUME LookUpAgain(c) PROVE Cleanup' /\ Leaves'
  <2>1. /\ UNCHANGED <<setup, helper, made, registered, starts, leaving, session>>
        /\ job[c].pc = "await" /\ helper # 0
    BY <1>14 DEF LookUpAgain, helperVars, sessionVars, clientVars
  <2>2. job[c].kind = "disconnect" /\ Ended(job[c].helper) /\ (job[c].helper = helper \/ Halted)
    BY <1>1, <1>2, <2>1 DEF JobOK, PointsOf, Kinds, Cleanup, Leaves
  <2>3. helper \in 1..Helpers
    BY <2>1, HelperInUse
  <2>4. PICK p : /\ Moves(c, job[c].kind, p, job[c].thread, helper, registered[helper])
                 /\ p = IF helper = job[c].helper THEN "wait" ELSE "stray"
    BY <1>14, Handling
  <2>5. p \in {"wait", "stray"} /\ (p = "wait" => Ended(helper)) /\ (p = "stray" => Halted)
    BY <2>2, <2>4
  <2> QED
    BY <1>3, <2>1, <2>3, <2>4, <2>5
<1> QED
  BY <1>4, <1>5, <1>6, <1>7, <1>8, <1>9, <1>10, <1>11, <1>12, <1>13, <1>14 DEF Handler, OtherHandler

(* What the steps of a caller that terminates a helper leave.              *)
LEMMA CleanupCaller ==
  ASSUME Types, Cleanup, Next, UNCHANGED <<setup, helper, made, registered, starts>>,
         NEW c \in Callers, \A d \in Callers : d # c => job'[d] = job[d],
         job'[c].pc # "load",
         job'[c].pc = "terminating" =>
           \A t \in Scripts : mode'[<<job'[c].helper, t>>] = "gone" \/ t \in job'[c].todo,
         job'[c].pc \in {"await", "wait"} => \A t \in Scripts : mode'[<<job'[c].helper, t>>] = "gone",
         c \in 1..Helpers => Busy(c)' \/ \A t \in Scripts : mode'[<<c, t>>] = "gone"
  PROVE  Cleanup'
<1>1. Scripts \subseteq Threads /\ Scripts' = Scripts /\ 1..made \subseteq 1..Helpers
  BY Facts DEF Scripts, Threads, Types, DataTyped
<1>2. \A g \in 1..Helpers, t \in Threads : <<g, t>> \in VMs
  BY DEF VMs
<1>3. ~Make
  BY DEF Make, Types, DataTyped
<1>4. \A g \in 1..Helpers, t \in Threads :
        /\ mode[<<g, t>>] = "gone" => mode'[<<g, t>>] = "gone"
        /\ mode'[<<g, t>>] \notin {"none", "gone"} => mode[<<g, t>>] \notin {"none", "gone"}
  BY <1>2, <1>3, GoneStays
<1>5. \A g \in 1..Helpers : Ended(g) => Ended(g)'
  BY <1>1, <1>4 DEF Ended
<1>6. \A g \in (1..made)' : \A t \in Scripts' : mode'[<<g, t>>] = "gone" \/ t \in registered'[g]
  <2>1. \A g \in 1..made, t \in Scripts : mode[<<g, t>>] = "gone" => mode'[<<g, t>>] = "gone"
    BY <1>1, <1>4
  <2> QED
    BY <1>1, <2>1 DEF Cleanup
<1>7. \A g \in 1..Helpers : \A t \in Threads :
        mode'[<<g, t>>] \notin {"none", "gone"} => g <= made' /\ t \in Scripts'
  BY <1>1, <1>4 DEF Cleanup
<1>8. \A v \in VMs : mode'[v] = "handler" => starts'[v[1]] > 0
  BY GoneStays DEF Cleanup, VMs
<1>9. \A d \in Callers : job[d].pc \in {"terminating", "await", "wait"} => job[d].helper \in 1..Helpers
  BY DEF Types, JobsTyped, JobOK, Jobs
<1>10. \A d \in Callers : job'[d].pc = "terminating" =>
         \A t \in Scripts' : mode'[<<job'[d].helper, t>>] = "gone" \/ t \in job'[d].todo
  BY <1>1, <1>4, <1>9 DEF Cleanup
<1>11. \A d \in Callers : job'[d].pc \in {"await", "wait"} =>
         \A t \in Scripts' : mode'[<<job'[d].helper, t>>] = "gone"
  BY <1>1, <1>4, <1>9 DEF Cleanup, Ended
<1>12. \A g \in 1..Helpers : Busy(g) => Busy(g)' \/ Ended(g)'
  <2>1. ASSUME NEW g \in 1..Helpers, Busy(g), g # c PROVE Busy(g)'
    BY <2>1, Facts DEF Busy, Callers
  <2>2. ASSUME NEW g \in 1..Helpers, g = c PROVE Busy(g)' \/ Ended(g)'
    <3>1. Busy(c)' \/ \A t \in Scripts : mode'[<<c, t>>] = "gone"
      BY <2>2
    <3> QED
      BY <1>1, <2>2, <3>1 DEF Busy, Ended
  <2> QED
    BY <2>1, <2>2
<1>13. \A g \in (1..made)' : g = helper' \/ Busy(g)' \/ Ended(g)'
  BY <1>1, <1>5, <1>12 DEF Cleanup
<1>14. ASSUME NEW d \in Goroutines, job'[d].kind = "restart", job'[d].pc = "load"
       PROVE  helper' # 0 /\ (Busy(helper)' \/ Ended(helper)')
  <2>1. job'[d] = job[d]
    BY <1>14 DEF Callers
  <2>2. helper # 0 /\ (Busy(helper) \/ Ended(helper))
    BY <1>14, <2>1 DEF Cleanup
  <2>3. PICK h \in 1..Helpers : h = helper
    BY <2>2, HelperInUse
  <2>4. Busy(h)' \/ Ended(h)'
    BY <2>2, <2>3, <1>5, <1>12 DEF Busy, Ended
  <2> QED
    BY <2>2, <2>3, <2>4 DEF Busy, Ended
<1> QED
  BY <1>6, <1>7, <1>8, <1>10, <1>11, <1>13, <1>14 DEF Cleanup, Ended

(* What a caller does about a helper ends it, or is in progress.           *)
LEMMA CallerQuiet ==
  ASSUME Types, Cleanup, Leaves, Next, NEW c \in Callers, CallerStep(c), UNCHANGED sessionVars
  PROVE  Cleanup' /\ Leaves'
<1>1. UNCHANGED <<setup, helper, made, registered, starts, leaving, session>>
  BY DEF CallerStep, Deliver, BeginTerminate, TerminateOne, TerminatedAll, WaitForTermination,
         helperVars, sessionVars, clientVars
<1>2. JobOK(c) /\ job[c].kind \in Kinds /\ job[c].helper \in 0..Helpers /\ job[c].todo \subseteq Threads
  BY DEF Types, JobsTyped, Jobs
<1>3. Scripts \subseteq Threads /\ 1..made \subseteq 1..Helpers /\ made \in Nat /\ made <= Helpers
  BY Facts DEF Scripts, Threads, Types, DataTyped
<1>4. \A g \in 1..Helpers, t \in Threads : mode[<<g, t>>] = "gone" => mode'[<<g, t>>] = "gone"
  BY GoneStays DEF VMs
<1>5. PICK g \in 0..Helpers : g = job[c].helper
  BY <1>2
<1>6. ASSUME job[c].pc \in {"send", "terminate", "terminating", "wait", "stray"}
      PROVE  g \in 1..Helpers /\ g \in 1..made /\ Busy(c)
  <2>1. g # 0 /\ g <= made
    BY <1>2, <1>5, <1>6 DEF JobOK
  <2> QED
    BY <1>3, <1>6, <2>1 DEF Busy
<1>7. ASSUME NEW k, NEW p, NEW t, NEW h, NEW S, Moves(c, k, p, t, h, S), p # "begin"
      PROVE  Halted => Halted'
  <2>1. \A d \in Goroutines : Starting(d)' => Starting(d)
    BY <1>7 DEF Starting, Moves, Callers
  <2> QED
    BY <1>1, <2>1, HaltedSame
<1>8. CASE UNCHANGED job
  <2>1. Halted => Halted'
    BY <1>1, <1>8, HaltedSame DEF Starting
  <2> QED
    BY <1>1, <1>8, <2>1, CleanupSame, LeavesSame
<1>9. CASE Deliver(c) /\ ~UNCHANGED job
  <2>1. GoesTo(c, "sent") /\ job[c].pc = "send"
    BY <1>9, Requesting DEF Deliver
  <2>2. job[c].kind # "disconnect"
    BY <1>2, <2>1 DEF JobOK, PointsOf
  <2>3. Cleanup'
    BY <1>1, <2>1, CleanupMoves DEF GoesTo, Moves, Busy
  <2>4. Halted => Halted'
    BY <1>7, <2>1 DEF GoesTo
  <2> QED
    BY <1>1, <2>1, <2>2, <2>3, <2>4, LeavesMoves DEF GoesTo
<1>10. CASE BeginTerminate(c)
  <2>1. /\ Moves(c, job[c].kind, "terminating", job[c].thread, g, registered[g])
        /\ job[c].pc = "terminate" /\ mode' = mode
    BY <1>5, <1>10, Requesting DEF BeginTerminate, vmVars
  <2>2. g \in 1..made
    BY <1>6, <2>1
  <2>3. \A t \in Scripts : mode'[<<g, t>>] = "gone" \/ t \in registered[g]
    BY <2>1, <2>2 DEF Cleanup
  <2>4. Cleanup'
    BY <1>1, <2>1, <2>3, CleanupCaller DEF Moves, Busy
  <2>5. Halted => Halted'
    BY <1>7, <2>1
  <2>6. c \in Goroutines /\ job[c].kind = "disconnect" => g = helper \/ Halted
    BY <1>5, <2>1 DEF Leaves
  <2> QED
    BY <1>1, <2>1, <2>4, <2>5, <2>6, LeavesMoves
<1>11. CASE TerminateOne(c) /\ ~UNCHANGED job
  <2>1. PICK t \in job[c].todo : /\ job' = [job EXCEPT ![c].todo = @ \ {t}]
                                 /\ mode' = [mode EXCEPT ![<<g, t>>] = "gone"]
    BY <1>5, <1>11 DEF TerminateOne, Obey
  <2>2. PICK S \in SUBSET Threads : S = job[c].todo \ {t}
    BY <1>2
  <2>3. Moves(c, job[c].kind, job[c].pc, job[c].thread, g, S) /\ job[c].pc = "terminating"
    <3>1. job \in [Callers -> Jobs] /\ job[c].pc \in Points
      BY DEF Types, JobsTyped, Jobs
    <3>2. job' = [job EXCEPT ![c].todo = S]
      BY <2>1, <2>2
    <3> QED
      BY <1>5, <1>11, <3>1, <3>2, Moving DEF TerminateOne
  <2>4. g \in 1..Helpers /\ Busy(c)
    BY <1>6, <2>3
  <2>5. mode'[<<g, t>>] = "gone"
    BY <1>2, <2>1, <2>4 DEF Types, DataTyped, VMs
  <2>6. \A u \in Scripts : mode[<<g, u>>] = "gone" \/ u \in job[c].todo
    BY <1>5, <2>3 DEF Cleanup
  <2>7. \A u \in Scripts : mode'[<<g, u>>] = "gone" \/ u \in S
    BY <1>3, <1>4, <2>2, <2>4, <2>5, <2>6
  <2>8. Cleanup'
    BY <1>1, <2>3, <2>7, CleanupCaller DEF Moves, Busy
  <2>9. Halted => Halted'
    BY <1>7, <2>3
  <2>10. c \in Goroutines /\ job[c].kind = "disconnect" => g = helper \/ Halted
    BY <1>5, <2>3 DEF Leaves
  <2> QED
    BY <1>1, <2>3, <2>8, <2>9, <2>10, LeavesMoves
<1>12. CASE TerminatedAll(c)
  <2>1. job[c].pc = "terminating" /\ job[c].todo = {} /\ mode' = mode
    BY <1>12 DEF TerminatedAll, vmVars
  <2>2. \A t \in Scripts : mode'[<<g, t>>] = "gone"
    BY <1>5, <2>1 DEF Cleanup
  <2>3. CASE job[c].kind = "disconnect"
    <3>1. PICK S : Moves(c, "disconnect", "await", job[c].thread, g, S)
      BY <1>5, <1>12, <2>3, Requesting DEF GoesTo
    <3>2. Cleanup'
      BY <1>1, <2>2, <3>1, CleanupCaller DEF Moves, Busy
    <3>3. Halted => Halted'
      BY <1>7, <3>1
    <3>4. c \in Goroutines => g = helper \/ Halted
      BY <1>5, <2>1, <2>3 DEF Leaves
    <3> QED
      BY <1>1, <2>3, <3>1, <3>2, <3>3, <3>4, LeavesMoves
  <2>4. CASE job[c].kind = "abandoned"
    <3>1. Moves(c, "idle", "done", 0, 0, {})
      BY <1>12, <2>4, Requesting
    <3>2. c \in 1..Helpers => c = g
      BY <1>2, <1>5, <2>1 DEF JobOK, Busy
    <3>3. Cleanup'
      BY <1>1, <2>2, <3>1, <3>2, CleanupCaller DEF Moves
    <3>4. Halted => Halted'
      BY <1>7, <3>1
    <3> QED
      BY <1>1, <3>1, <3>3, <3>4, LeavesMoves
  <2>5. CASE job[c].kind \notin {"disconnect", "abandoned"}
    <3>1. GoesTo(c, "terminated")
      BY <1>12, <2>5, Requesting
    <3>2. Cleanup'
      BY <1>1, <3>1, CleanupMoves DEF GoesTo, Moves, Busy
    <3>3. Halted => Halted'
      BY <1>7, <3>1 DEF GoesTo
    <3> QED
      BY <1>1, <2>5, <3>1, <3>2, <3>3, LeavesMoves DEF GoesTo
  <2> QED
    BY <2>3, <2>4, <2>5
<1>13. CASE WaitForTermination(c)
  <2>1. Moves(c, job[c].kind, "sent", job[c].thread, g, {}) /\ job[c].pc \in {"wait", "stray"}
    BY <1>5, <1>13, Requesting DEF WaitForTermination
  <2>2. Cleanup'
    BY <1>1, <2>1, CleanupMoves DEF Moves, Busy
  <2>3. Halted => Halted'
    BY <1>7, <2>1
  <2>4. job[c].pc = "wait" => Ended(g)
    BY <1>5, <2>1 DEF Cleanup
  <2>5. c \in Goroutines /\ job[c].kind = "disconnect" => Halted
    BY <1>5, <2>1, <2>4 DEF Leaves, Halted
  <2>6. c \in Goroutines => job[c].kind = "disconnect"
    BY <1>2, <2>1 DEF JobOK, PointsOf, Kinds
  <2> QED
    BY <1>1, <2>1, <2>2, <2>3, <2>5, <2>6, LeavesMoves
<1> QED
  BY <1>8, <1>9, <1>10, <1>11, <1>12, <1>13 DEF CallerStep
(* What is debugged, and by whom, is settled at the start.                 *)
LEMMA SetupStays == Next => setup' = setup
<1> SUFFICES ASSUME Next PROVE setup' = setup
  OBVIOUS
<1>1. ASSUME NEW c \in Goroutines, Client(c) PROVE setup' = setup
  BY <1>1 DEF Client, SendLaunch, SendSetBreakpoints, SendConfigurationDone, SendResume, SendPause, SendRestart,
              SendTerminate, SendDisconnect, SendOther, Start, helperVars
<1>2. ASSUME NEW c \in Goroutines, Handler(c) PROVE setup' = setup
  BY <1>2 DEF Handler, OtherHandler, OnLaunch, OnRestart, OnRestartLoads, OnSetBreakpoints, AddBreakpoints,
              OnConfigurationDone, OnResume, OnPause, OnTerminate, OnDisconnect, LookUp, LookUpAgain,
              OnInspect, OnUnsupported, OnForeign, NilHelper, SendsEvent, Answer, NoResponse, helperVars
<1>3. ASSUME ShellStep PROVE setup' = setup
  BY <1>3 DEF ShellStep, Load, Reset, Choose, Pause, ContinueFirst, Continue, Step, Break, Return,
              HandlerPrints, debugVars, helperVars
<1>4. ASSUME NEW c \in Callers, CallerStep(c) PROVE setup' = setup
  BY <1>4 DEF CallerStep, Deliver, BeginTerminate, TerminateOne, TerminatedAll, WaitForTermination, helperVars
<1>5. ASSUME NEW v \in VMs, EnterHandler(v) \/ Unregister(v) \/ HandlerSends(v) PROVE setup' = setup
  BY <1>5 DEF EnterHandler, Unregister, HandlerSends, helperVars
<1>6. ASSUME HangUp \/ CloseQueue \/ Exit PROVE setup' = setup
  BY <1>6 DEF HangUp, CloseQueue, Exit, debugVars, helperVars
<1> QED
  BY <1>1, <1>2, <1>3, <1>4, <1>5, <1>6 DEF Next, AdapterStep

(* Nothing happens once the process has ended, and only a handler that     *)
(* finds the queue closed ends it for that reason.                         *)
LEMMA NextAlive ==
  ASSUME Types, Next
  PROVE  Alive /\ (died' = "closed queue" => \E v \in VMs : HandlerSends(v) /\ session = "closed")
<1>1. ASSUME NEW c \in Goroutines, Client(c) PROVE Alive /\ died' # "closed queue"
  BY <1>1 DEF Client, SendLaunch, SendSetBreakpoints, SendConfigurationDone, SendResume, SendPause, SendRestart,
              SendTerminate, SendDisconnect, SendOther, Start, Alive
<1>2. ASSUME NEW c \in Goroutines, Handler(c) PROVE Alive /\ died' # "closed queue"
  BY <1>2 DEF Handler, OtherHandler, OnLaunch, OnRestart, OnRestartLoads, OnSetBreakpoints, AddBreakpoints,
              OnConfigurationDone, OnResume, OnPause, OnTerminate, OnDisconnect, LookUp, LookUpAgain,
              OnInspect, OnUnsupported, OnForeign, NilHelper, SendsEvent, Answer, NoResponse, Begins, Alive, Die
<1>3. ASSUME ShellStep PROVE Alive /\ died' # "closed queue"
  BY <1>3 DEF ShellStep, Load, Reset, Choose, Pause, ContinueFirst, Continue, Step, Break, Return,
              HandlerPrints, Prompt, Alive, Die, debugVars
<1>4. ASSUME NEW c \in Callers, CallerStep(c) PROVE Alive /\ died' # "closed queue"
  BY <1>4 DEF CallerStep, Deliver, BeginTerminate, TerminateOne, TerminatedAll, WaitForTermination, Alive, Die
<1>5. ASSUME NEW v \in VMs, EnterHandler(v) \/ Unregister(v) PROVE Alive /\ died' # "closed queue"
  BY <1>5 DEF EnterHandler, Unregister, Alive, Die
<1>6. ASSUME HangUp \/ CloseQueue \/ Exit PROVE Alive /\ died' # "closed queue"
  BY <1>6 DEF HangUp, CloseQueue, Exit, Alive, Die, debugVars
<1>7. ASSUME NEW v \in VMs, HandlerSends(v)
      PROVE  Alive /\ (died' = "closed queue" => session = "closed")
  BY <1>7 DEF HandlerSends, Alive, Die
<1> QED
  BY <1>1, <1>2, <1>3, <1>4, <1>5, <1>6, <1>7 DEF Next, AdapterStep

(* The steps of the session and of the VMs.                                *)
LEMMA SessionQuiet ==
  ASSUME Types, Cleanup, Leaves, Next,
         (\E v \in VMs : HandlerSends(v) \/ (EnterHandler(v) /\ UNCHANGED sessionVars)) \/ HangUp \/ CloseQueue \/ Exit
  PROVE  Cleanup' /\ Leaves'
<1>1. UNCHANGED <<setup, helper, made, registered, starts, job, leaving>>
  BY DEF HandlerSends, EnterHandler, HangUp, CloseQueue, Exit, debugVars, helperVars, sessionVars, clientVars
<1>2. session' = session \/ leaving = "may"
  BY DEF HandlerSends, EnterHandler, HangUp, CloseQueue, Exit, sessionVars, Leaves
<1>3. Halted => Halted'
  BY <1>1, HaltedSame DEF Starting
<1> QED
  BY <1>1, <1>2, <1>3, CleanupSame, LeavesSame

(* Only VMs that are gone are removed.                                     *)
LEMMA UnregisterQuiet ==
  ASSUME Types, Cleanup, Leaves, Next, NEW v \in VMs, Unregister(v), UNCHANGED sessionVars
  PROVE  Cleanup' /\ Leaves'
<1>1. UNCHANGED <<setup, helper, made, starts, job, leaving, session>> /\ mode' = mode /\ mode[v] = "gone"
  BY DEF Unregister, vmVars, sessionVars, clientVars
<1>2. ASSUME NEW g \in 1..Helpers, NEW t \in registered[g], t \notin registered'[g]
      PROVE  mode'[<<g, t>>] = "gone"
  <2>1. registered' = [registered EXCEPT ![v[1]] = @ \ {v[2]}]
    BY DEF Unregister
  <2>2. g = v[1] /\ t = v[2]
    BY <1>2, <2>1 DEF Types, DataTyped
  <2> QED
    BY <1>1, <2>2 DEF VMs
<1>3. Halted => Halted'
  BY <1>1, HaltedSame DEF Starting
<1> QED
  BY <1>1, <1>2, <1>3, CleanupSame, LeavesSame

(* A handler that finds the queue closed is one of an abandoned helper.    *)
LEMMA OnlyAbandoned ==
  ASSUME Types, Cleanup, Leaves, NEW v \in VMs, HandlerSends(v), session = "closed"
  PROVE  \E g \in 1..Helpers : g # helper' /\ Busy(g)'
<1>1. PICK g \in 1..Helpers, t \in Threads : v = <<g, t>>
  BY DEF VMs
<1>2. mode[<<g, t>>] = "handler" /\ helper' = helper /\ job' = job
  BY <1>1 DEF HandlerSends, helperVars
<1>3. starts[g] > 0 /\ g <= made /\ t \in Scripts
  BY <1>1, <1>2 DEF Cleanup
<1>4. Halted
  BY DEF Leaves
<1>5. ~Ended(g)
  BY <1>2, <1>3 DEF Ended
<1>6. g # helper
  <2>1. ASSUME g = helper PROVE FALSE
    <3>1. helper # 0
      BY <1>1, <2>1, Facts
    <3> QED
      BY <1>3, <1>4, <1>5, <2>1, <3>1 DEF Halted, Started
  <2> QED
    BY <2>1
<1>7. g \in 1..made
  BY <1>3 DEF Types, DataTyped
<1>8. Busy(g)
  BY <1>5, <1>6, <1>7 DEF Cleanup
<1> QED
  BY <1>2, <1>6, <1>8 DEF Busy

(* Every step.                                                             *)
LEMMA StepQuiet == Types /\ Once /\ Quiet /\ [Next]_vars => Quiet'
<1> SUFFICES ASSUME Types, Once, Quiet, [Next]_vars PROVE Quiet'
  OBVIOUS
<1>1. CASE UNCHANGED vars
  <2>1. UNCHANGED <<setup, helper, made, mode, registered, starts, job, died, session, leaving>>
    BY <1>1 DEF vars, debugVars, helperVars, vmVars, sessionVars, clientVars
  <2>2. Scripts' = Scripts /\ (Halted' <=> Halted)
        /\ \A g \in 1..Helpers \cup 1..made : (Busy(g)' <=> Busy(g)) /\ (Ended(g)' <=> Ended(g))
    BY <2>1 DEF Scripts, Halted, Ended, Started, Starting, Busy
  <2>3. Cleanup => Cleanup'
    BY <2>1 DEF Cleanup, Ended, Busy, Scripts
  <2>4. Leaves => Leaves'
    BY <2>1, <2>2 DEF Leaves
  <2> QED
    BY <2>1, <2>2, <2>3, <2>4 DEF Quiet
<1>2. CASE Next
  <2>1. setup' = setup /\ setup.front \in {"dap", "shell"}
    <3>1. setup' = setup
      BY <1>2, SetupStays
    <3> QED
      BY <3>1, Facts DEF Types, DataTyped
  <2>2. CASE setup.front = "dap"
    <3>1. Cleanup /\ Leaves
      BY <2>2 DEF Quiet
    <3>2. ~ShellStep
      BY <2>2 DEF ShellStep, Load, Reset, Choose, Pause, ContinueFirst, Continue, Step, Break, Return,
                  HandlerPrints, Prompt
    <3>3. Cleanup' /\ Leaves'
      BY <1>2, <3>1, <3>2, ClientQuiet, HandlerQuiet, SessionQuiet, UnregisterQuiet, CallerQuiet
      DEF Next, AdapterStep
    <3>4. died' = "closed queue" => \E g \in 1..Helpers : g # helper' /\ Busy(g)'
      BY <1>2, <3>1, NextAlive, OnlyAbandoned
    <3> QED
      BY <2>1, <2>2, <3>3, <3>4 DEF Quiet
  <2>3. CASE setup.front = "shell"
    <3>1. session = "open" /\ leaving = "no"
      BY <2>3 DEF Quiet
    <3>2. \A c \in Goroutines : ~Client(c) /\ ~Handler(c)
      BY <2>3 DEF Client, SendLaunch, SendSetBreakpoints, SendConfigurationDone, SendResume, SendPause,
                  SendRestart, SendTerminate, SendDisconnect, SendOther, Start, Handler
    <3>3. \A v \in VMs : ~HandlerSends(v)
      BY <2>3 DEF HandlerSends
    <3>4. ~HangUp /\ ~CloseQueue
      BY <3>1 DEF HangUp, CloseQueue
    <3>5. UNCHANGED <<session, leaving>>
      BY <1>2, <3>2, <3>3, <3>4 DEF Next, AdapterStep, Exit, sessionVars, clientVars
    <3>6. died' # "closed queue"
      BY <1>2, <3>3, NextAlive
    <3> QED
      BY <2>1, <2>3, <3>1, <3>5, <3>6 DEF Quiet
  <2> QED
    BY <2>1, <2>2, <2>3
<1> QED
  BY <1>1, <1>2
(* Initially no helper is made and nobody has anything to do.              *)
LEMMA InitQuiet == Init => Quiet /\ Known /\ NoneForgotten
<1> SUFFICES ASSUME Init PROVE Quiet /\ Known /\ NoneForgotten
  OBVIOUS
<1>1. /\ helper = 0 /\ made = 0 /\ died = "no" /\ session = "open" /\ leaving = "no" /\ unsent = {}
      /\ stage = "new" /\ setup \in Setups
  BY DEF Init, InitDebug, InitAdapter
<1>2. \A v \in VMs : mode[v] = "none" /\ breakpoints[v] = {}
  BY DEF Init, InitDebug
<1>3. \A c \in Callers : job[c].kind = "idle" /\ job[c].pc = "done"
  BY DEF Init, InitDebug, Idle
<1>4. \A t \in Threads : verified[t] = {}
  BY DEF Init, InitAdapter
<1>5. \A g \in 1..Helpers, t \in Threads : <<g, t>> \in VMs
  BY DEF VMs
<1>6. Goroutines \subseteq Callers /\ 1..made = {} /\ \A t \in Threads \ Scripts : t \in Threads
  BY <1>1 DEF Callers
<1>7. Cleanup
  <2>1. \A g \in 1..made : FALSE
    BY <1>6
  <2>2. \A g \in 1..Helpers : \A t \in Threads : mode[<<g, t>>] = "none"
    BY <1>2, <1>5
  <2>3. \A v \in VMs : mode[v] # "handler"
    BY <1>2
  <2>4. \A c \in Callers : job[c].pc \notin {"terminating", "await", "wait", "load"}
    BY <1>3
  <2> QED
    BY <1>6, <2>1, <2>2, <2>3, <2>4 DEF Cleanup
<1>8. Leaves
  BY <1>1, <1>3, <1>6 DEF Leaves
<1>9. Quiet
  BY <1>1, <1>7, <1>8 DEF Quiet
<1>10. KnownBreakpoints
  BY <1>1, <1>2, <1>3, <1>4, <1>5, <1>6 DEF KnownBreakpoints, Sets
<1> QED
  BY <1>1, <1>9, <1>10 DEF Known, NoneForgotten
-----------------------------------------------------------------------------
(* The inductive invariant, and that it holds.                             *)
DebuggerInv == Types /\ Once /\ NoneForgotten /\ Known /\ Quiet

(* It is an invariant.                                                     *)
LEMMA DebuggerInductive == Spec => []DebuggerInv
<1>1. Init => DebuggerInv
  BY InitTypes, InitOnce, InitQuiet DEF DebuggerInv
<1>2. DebuggerInv /\ [Next]_vars => DebuggerInv'
  BY StepTypes, StepOnce, StepSeen, StepKnown, StepQuiet DEF DebuggerInv
<1> QED
  BY <1>1, <1>2, PTL DEF Spec

(***************************************************************************)
(* Every variable has its type, and every helper and VM that a goroutine   *)
(* still knows of is one that helper.go has made.                          *)
(***************************************************************************)
THEOREM TypeCorrect == Spec => []TypeOK
<1>1. DebuggerInv => TypeOK
  <2> SUFFICES ASSUME DebuggerInv PROVE TypeOK
    OBVIOUS
  <2>1. DataTyped /\ JobsTyped /\ AdapterTypeOK /\ ShellTypeOK
    BY DEF DebuggerInv, Types
  <2>2. DebugTypeOK
    BY <2>1 DEF DataTyped, JobsTyped, Jobs, Modes, DebugTypeOK
  <2> QED
    BY <2>1, <2>2 DEF TypeOK
<1> QED
  BY <1>1, DebuggerInductive, PTL

(***************************************************************************)
(* Coordinator.Run is called at most once for each helper: by              *)
(* configurationDone, which the client sends once for each launch or       *)
(* restart, or by the first continue or step of the shell.                 *)
(***************************************************************************)
THEOREM StartsOnce == Spec => []RunsOnce
<1>1. DebuggerInv => RunsOnce
  BY DEF DebuggerInv, Once
<1> QED
  BY <1>1, DebuggerInductive, PTL

(***************************************************************************)
(* A script of the helper in use that is paused was reported as stopped by *)
(* its handler (configureVM) or by the response to pause, or a request     *)
(* that will resume, report or abandon it is in progress, or it finished.  *)
(***************************************************************************)
THEOREM NeverStopsSilently == Spec => []NoSilentStop
<1>1. ASSUME DebuggerInv PROVE NoSilentStop
  <2>1. ASSUME NEW t \in Threads, WillBeSeen(t) PROVE Requested(t)
    <3>1. PICK c \in Goroutines : SeenBy(c, t)
      BY <2>1 DEF WillBeSeen
    <3>2. job[c].kind \in {"pause", "continue", "next", "restart"}
      BY <3>1 DEF SeenBy
    <3>3. Busy(c)
      BY <3>2, IdleIsDone, <1>1 DEF DebuggerInv, Callers
    <3>4. job[c].kind = "restart" \/ job[c].thread = t
      BY <3>1 DEF SeenBy, JobVM
    <3> QED
      BY <3>2, <3>3, <3>4 DEF Requested, Handles
  <2> QED
    BY <1>1, <2>1 DEF DebuggerInv, NoneForgotten, NoSilentStop
<1>2. DebuggerInv => NoSilentStop
  BY <1>1
<1> QED
  BY <1>2, DebuggerInductive, PTL

(***************************************************************************)
(* Once configurationDone is sent, the breakpoints of every script are     *)
(* those that OnSetBreakpointsRequest answered as verified, unless such a  *)
(* request is in progress: a restart, whose VMs have none, does not leave  *)
(* the client believing in breakpoints of the old ones.                    *)
(***************************************************************************)
THEOREM BreakpointsVerified == Spec => []VerifiedIsSet
<1>1. ASSUME DebuggerInv, setup.front = "dap", Alive, helper # 0, stage = "configured", NEW t \in Threads
      PROVE  breakpoints[<<helper, t>>] = verified[t] \/ HandlesFor("setBreakpoints", t)
  <2>1. InForce(t)
    BY <1>1 DEF DebuggerInv, Known, KnownBreakpoints
  <2>2. ASSUME NEW c \in Goroutines, Sets(c, t) PROVE HandlesFor("setBreakpoints", t)
    <3>1. Busy(c)
      BY <1>1, <2>2, IdleIsDone DEF DebuggerInv, Sets, Callers
    <3> QED
      BY <2>2, <3>1 DEF Sets, HandlesFor
  <2> QED
    BY <2>1, <2>2 DEF InForce
<1>2. DebuggerInv => VerifiedIsSet
  BY <1>1 DEF VerifiedIsSet
<1> QED
  BY <1>2, DebuggerInductive, PTL

(***************************************************************************)
(* When StartSession closes the queue of messages, no script of the helper *)
(* in use can still send to it: OnDisconnectRequest has terminated them    *)
(* and waited.  A send to the closed queue can only come from a helper     *)
(* that a restart left behind.                                             *)
(***************************************************************************)
THEOREM QueueClosesQuietly == Spec => []ClosesQuietly
<1>1. ASSUME DebuggerInv PROVE ClosesQuietly
  <2>1. ASSUME session = "closed", helper # 0, starts[helper] > 0
        PROVE  \A t \in 1..setup.scripts : mode[<<helper, t>>] = "gone"
    <3>1. setup.front = "dap"
      <4>1. setup.front \in {"dap", "shell"}
        BY <1>1, Facts DEF DebuggerInv, Types, DataTyped
      <4> QED
        BY <1>1, <2>1, <4>1 DEF DebuggerInv, Quiet
    <3>2. Halted
      BY <1>1, <2>1, <3>1 DEF DebuggerInv, Quiet, Leaves
    <3> QED
      BY <2>1, <3>2 DEF Halted, Started, Ended, Scripts
  <2> QED
    BY <1>1, <2>1 DEF DebuggerInv, Quiet, ClosesQuietly
<1>2. DebuggerInv => ClosesQuietly
  BY <1>1
<1> QED
  BY <1>2, DebuggerInductive, PTL
-----------------------------------------------------------------------------
(* FinishedVMs, as long as no restart has been made.                       *)
HasFinished(v) == mode[v] = "gone" \/ (mode[v] = "handler" /\ event[v] = "finish")
Marked == made <= 1 => \A g \in 1..Helpers : \A t \in finished[g] : HasFinished(<<g, t>>)

LEMMA StepMarked == Types /\ Marked /\ [Next]_vars => Marked'
<1> SUFFICES ASSUME Types, Marked, [Next]_vars PROVE Marked'
  OBVIOUS
<1>1. /\ finished \in [1..Helpers -> SUBSET Threads] /\ made \in Nat
      /\ mode \in [VMs -> Modes] /\ event \in [VMs -> {"none", "exception", "step", "breakpoint", "finish"}]
      /\ \A g \in 1..Helpers, t \in Threads : <<g, t>> \in VMs
  BY DEF Types, DataTyped, VMs
<1>2. ASSUME UNCHANGED finished, made' <= 1 => made <= 1,
             \A v \in VMs : HasFinished(v) => HasFinished(v)'
      PROVE  Marked'
  BY <1>1, <1>2 DEF Marked
<1>3. CASE UNCHANGED <<mode, event, finished, made>>
  BY <1>2, <1>3 DEF HasFinished
<1>4. ASSUME NEW u \in VMs, LeaveHandler(u), mode[u] = "handler", UNCHANGED <<finished, made>> PROVE Marked'
  <2>1. \A v \in VMs : HasFinished(v) => HasFinished(v)'
    BY <1>1, <1>4 DEF LeaveHandler, HasFinished
  <2> QED
    BY <1>2, <1>4, <2>1
<1>5. ASSUME NEW u, NEW k, Takes(u), Obey(u, k), UNCHANGED <<finished, made>> PROVE Marked'
  <2>1. \A v \in VMs : HasFinished(v) => HasFinished(v)'
    BY <1>1, <1>5 DEF Takes, Obey, HasFinished
  <2> QED
    BY <1>2, <1>5, <2>1
<1>6. ASSUME Make, UNCHANGED finished PROVE Marked'
  <2>1. \A v \in VMs : HasFinished(v) => v[1] <= made
    <3>1. ASSUME NEW g \in 1..Helpers, NEW t \in Threads, HasFinished(<<g, t>>) PROVE g <= made
      BY <1>1, <3>1 DEF HasFinished, Types, Fresh
    <3> QED
      BY <3>1 DEF VMs
  <2>2. \A v \in VMs : v[1] <= made => mode'[v] = mode[v] /\ event'[v] = event[v]
    BY <1>1, <1>6 DEF Make
  <2>3. made' <= 1 => made <= 1
    BY <1>1, <1>6 DEF Make
  <2>4. \A v \in VMs : HasFinished(v) => HasFinished(v)'
    BY <2>1, <2>2 DEF HasFinished
  <2> QED
    BY <1>2, <1>6, <2>3, <2>4
<1>7. ASSUME NEW u \in VMs, EnterHandler(u) PROVE Marked'
  <2>1. PICK r \in Reasons(u) :
          /\ mode' = [mode EXCEPT ![u] = "handler"] /\ event' = [event EXCEPT ![u] = r]
          /\ \/ finished' = finished
             \/ r = "finish" /\ helper # 0 /\ finished' = [finished EXCEPT ![helper] = @ \union {u[2]}]
    BY <1>7 DEF EnterHandler
  <2>2. mode[u] = "runs" /\ made' = made
    BY <1>7 DEF EnterHandler
  <2>3. \A v \in VMs : HasFinished(v) => HasFinished(v)'
    BY <1>1, <2>1, <2>2 DEF HasFinished
  <2>4. CASE finished' = finished
    BY <1>2, <2>2, <2>3, <2>4
  <2>5. CASE r = "finish" /\ helper # 0 /\ finished' = [finished EXCEPT ![helper] = @ \union {u[2]}]
    <3>1. PICK g \in 1..Helpers, t \in Threads : u = <<g, t>>
      BY DEF VMs
    <3>2. g <= made
      BY <1>1, <2>2, <3>1 DEF Types, Fresh
    <3>3. PICK h \in 1..Helpers : h = helper
      BY <2>5, HelperInUse
    <3>4. made <= 1 => g = h
      BY <1>1, <2>5, <3>2, <3>3, HelperInUse
    <3>5. HasFinished(u)'
      BY <1>1, <2>1, <2>5 DEF HasFinished
    <3>6. \A f \in 1..Helpers : \A s \in finished'[f] : s \in finished[f] \/ (f = h /\ s = t)
      BY <1>1, <2>5, <3>1, <3>3
    <3>7. ASSUME made <= 1, NEW f \in 1..Helpers, NEW s \in finished'[f] PROVE HasFinished(<<f, s>>)'
      <4>1. CASE s \in finished[f]
        BY <1>1, <2>3, <3>7, <4>1 DEF Marked
      <4>2. CASE f = h /\ s = t
        BY <3>1, <3>4, <3>5, <3>7, <4>2
      <4> QED
        BY <3>6, <4>1, <4>2
    <3> QED
      BY <2>2, <3>7 DEF Marked
  <2> QED
    BY <2>1, <2>4, <2>5
<1>8. ASSUME NEW c \in Goroutines, Client(c) PROVE UNCHANGED <<mode, event, finished, made>>
  BY <1>8 DEF Client, SendLaunch, SendSetBreakpoints, SendConfigurationDone, SendResume, SendPause, SendRestart,
              SendTerminate, SendDisconnect, SendOther, Start, vmVars, helperVars
<1>9. ASSUME NEW c \in Goroutines, Handler(c)
      PROVE  UNCHANGED <<mode, event, finished, made>> \/ (Make /\ UNCHANGED finished)
  BY <1>9 DEF Handler, OtherHandler, OnLaunch, OnRestart, OnRestartLoads, HelperFromArguments, MakeFails,
              OnSetBreakpoints, AddBreakpoints, OnConfigurationDone, OnResume, OnPause, OnTerminate,
              OnDisconnect, LookUp, LookUpAgain, OnInspect, OnUnsupported, OnForeign, NilHelper, SendsEvent,
              Answer, NoResponse, vmVars, helperVars
<1>10. ASSUME ShellStep
       PROVE  \/ UNCHANGED <<mode, event, finished, made>>
              \/ Make /\ UNCHANGED finished
              \/ \E u \in VMs : LeaveHandler(u) /\ mode[u] = "handler" /\ UNCHANGED <<finished, made>>
  BY <1>10 DEF ShellStep, Load, MakeFails, Reset, Choose, Pause, ContinueFirst, Continue, Step, Break, Return,
               HandlerPrints, debugVars, vmVars, helperVars
<1>11. ASSUME NEW c \in Callers, CallerStep(c)
       PROVE  \/ UNCHANGED <<mode, event, finished, made>>
              \/ \E u, k : Takes(u) /\ Obey(u, k) /\ UNCHANGED <<finished, made>>
  BY <1>11 DEF CallerStep, Deliver, BeginTerminate, TerminateOne, TerminatedAll, WaitForTermination, vmVars,
               helperVars
<1>12. ASSUME NEW u \in VMs, HandlerSends(u)
       PROVE  \/ UNCHANGED <<mode, event, finished, made>>
              \/ LeaveHandler(u) /\ mode[u] = "handler" /\ UNCHANGED <<finished, made>>
  BY <1>12 DEF HandlerSends, helperVars
<1>13. ASSUME UNCHANGED vars \/ HangUp \/ CloseQueue \/ Exit \/ \E u \in VMs : Unregister(u)
       PROVE  UNCHANGED <<mode, event, finished, made>>
  BY <1>13 DEF HangUp, CloseQueue, Exit, Unregister, vars, debugVars, vmVars, helperVars
<1> QED
  BY <1>3, <1>4, <1>5, <1>6, <1>7, <1>8, <1>9, <1>10, <1>11, <1>12, <1>13 DEF Next, AdapterStep

(***************************************************************************)
(* It takes a restart to mark a script as finished that has not: the       *)
(* finish handler of configureVM writes through h.helper, and until the    *)
(* first restart there is no other helper than that of the VM.             *)
(***************************************************************************)
THEOREM FinishedBeforeRestart == Spec => [](made <= 1 => FinishedIsTrue)
<1>1. Init => Marked
  BY DEF Init, InitDebug, Marked
<1>2. DebuggerInv /\ Marked /\ [Next]_vars => Marked'
  BY StepMarked DEF DebuggerInv
<1>3. ASSUME DebuggerInv, Marked PROVE made <= 1 => FinishedIsTrue
  <2>1. helper # 0 => helper \in 1..Helpers
    BY <1>3, HelperInUse DEF DebuggerInv
  <2> QED
    BY <1>3, <2>1 DEF Marked, HasFinished, FinishedIsTrue
<1>4. DebuggerInv /\ Marked => (made <= 1 => FinishedIsTrue)
  BY <1>3
<1> QED
  BY <1>1, <1>2, <1>4, DebuggerInductive, PTL DEF Spec
===============================================================================
