------------------------------ MODULE YololVM ------------------------------
(***************************************************************************)
(* One VM of pkg/vm/vm.go: the worker goroutine started by Create, the     *)
(* goroutines that send it state-change-requests, and the breakpoints they *)
(* set.  The program is data: every ast line is given by the set of ways   *)
(* it can execute, each a sequence of statements; the values of variables  *)
(* and the outcomes of conditions are the choice between these sequences.  *)
(***************************************************************************)
EXTENDS Integers, Sequences, FiniteSets

CONSTANTS
  Clients,    (* goroutines calling Resume, Step, Pause, Terminate          *)
  Requests,   (* the calls they make, by the state they ask for             *)
  Setups      (* the programs, with the settings made before Resume         *)

(* A statement is on a line of the main file (src > 0) or of another file  *)
(* (src = 0).  It runs through, fails, or is a goto to the line "to".      *)
Stmts == [src : Nat, op : {"do", "goto", "fail"}, to : Int]

(* An ast line: its source line and the ways it can execute.               *)
AstLines == [src : Nat \ {0}, runs : SUBSET Seq(Stmts)]

Setup == [
  lines            : Seq(AstLines),
  iterations       : Int,                                  (* SetIterations       *)
  maxExecutedLines : Int,                                  (* SetMaxExecutedLines *)
  coordinated      : BOOLEAN,                              (* SetCoordinator      *)
  handlers         : SUBSET {"step", "breakpoint", "error", "finish"},
  breakpoints      : SUBSET Nat,                           (* AddBreakpoint       *)
  toggled          : SUBSET Nat,                           (* the same, later on  *)
  cap              : Nat \ {0} ]       (* where the model's two counters stop    *)

States == {"paused", "running", "stepping", "terminated"}

ASSUME VMAssumption ==
  /\ Requests \subseteq States
  /\ \A s \in Setups :
       /\ s \in Setup
       /\ \A l \in DOMAIN s.lines :
             /\ s.lines[l].runs # {}
             /\ <<>> \in s.lines[l].runs => s.lines[l].runs = {<<>>}
       (* the counters are compared with these two settings and nothing else *)
       /\ s.cap > s.iterations /\ s.cap > s.maxExecutedLines + 1

VARIABLES
  setup,
  pc,                  (* the point the worker has reached                 *)
  ret,                 (* where it goes on after pause() or after the      *)
                       (* deferred report to the coordinator               *)
  state,               (* vm.state                                         *)
  astLine, srcLine,    (* currentAstLine, currentSourceLine                *)
  jumped,
  path,                (* what is left of the current line                 *)
  executedIterations, executedLines,
  breakpoints,
  sendq,               (* senders blocked on stateRequests, oldest first   *)
  taken,               (* the request received last (newstate, requested,  *)
                       (* statechange), "paused" before the first          *)
  panicked,            (* senders whose send hit the closed channel        *)
  turn,                (* whose move the coordinator waits for: its own    *)
                       (* next offer, or the report of this VM             *)
  stepLine,            (* history: source line executed since the last     *)
                       (* change of state on request, 0 if none, -1 if the *)
                       (* program has started over since that line         *)
  broke                (* history: whether the breakpoint-handler was      *)
                       (* called since the current source line was         *)
                       (* entered; "start" as long as none was             *)

code     == <<astLine, srcLine, jumped, path>>
counters == <<executedIterations, executedLines>>
outside  == <<breakpoints, sendq, taken, panicked, turn>>
history  == <<stepLine, broke>>
vars     == <<setup, pc, ret, state, code, counters, outside, history>>

Lines            == setup.lines
Iterations       == setup.iterations
MaxExecutedLines == setup.maxExecutedLines
Coordinated      == setup.coordinated
Handlers         == setup.handlers
CountCap         == setup.cap

(* In pause(): blocked, or holding a request and waiting for vm.lock.      *)
InPause == pc \in {"paused", "unpause"}

(* The worker is inside runLine, after the coordinator's permission.       *)
LinePoints == {"stmt", "changed", "step", "bpcheck", "brk", "recv", "exec"}
InLine ==
  \/ pc \in LinePoints \union {"report"}
  \/ InPause /\ ret \in LinePoints
Holding == Coordinated /\ InLine

(* At these points the worker has released vm.lock.                        *)
LockFree ==
  pc \in {"paused", "unpause", "top", "acquire", "select", "step", "brk", "err", "finish", "done"}

Init ==
  /\ setup \in Setups
  /\ pc = "paused" /\ ret = "top"
  /\ state = "paused"
  /\ astLine = 1 /\ srcLine = 1
  /\ jumped = FALSE
  /\ path = <<>>
  /\ executedIterations = 0 /\ executedLines = 0
  /\ breakpoints = setup.breakpoints
  /\ sendq = <<>> /\ taken = "paused" /\ panicked = {}
  /\ turn = "coordinator"
  /\ stepLine = 0 /\ broke = "start"

(***************************************************************************)
(* Control.                                                                *)
(***************************************************************************)
At(point, return) == pc' = point /\ ret' = return

(* pause(): the state is set at once, the worker blocks until a request.   *)
PauseThen_NoState(point) == UNCHANGED state /\ At("paused", point)
PauseThen(point) == state' = "paused" /\ At("paused", point)

(* panic(errKillVM).  Unwinding runs the deferred report of runLine.       *)
Kill_NoReport == At("closing", "none")
Kill_Returns == IF Holding THEN At("report", "after") ELSE At("closing", "none")
Kill == IF Holding THEN At("report", "closing") ELSE At("closing", "none")

(* changeState(), called at a point from which the worker goes on to next. *)
ChangeState_NoPanic(requested, next) ==
  /\ state' = requested
  /\ IF requested = "paused" THEN At("paused", next) ELSE At(next, "none")
ChangeState(requested, next) ==
  /\ state' = requested
  /\ \/ requested = "terminated" /\ Kill
     \/ requested = "paused" /\ At("paused", next)
     \/ requested \notin {"terminated", "paused"} /\ At(next, "none")

(* A request is received from the oldest sender, whose call returns.       *)
Take ==
  /\ sendq # <<>>
  /\ sendq' = Tail(sendq)
  /\ taken' = Head(sendq).req
  /\ UNCHANGED <<breakpoints, panicked, turn>>

(* The worker answers it with vm.lock held.                                *)
Answer(requested, next) ==
  /\ ChangeState(requested, next)
  /\ stepLine' = 0
  /\ UNCHANGED <<setup, code, counters, broke>>

(* Where a line continues once its statements are done: the deferred       *)
(* report comes before everything that run() does after runLine().         *)
LineEnd_NoReport(next) == At(next, "none")
LineEnd(next) == IF Coordinated THEN At("report", next) ELSE At(next, "none")

Count(n) == IF n < CountCap THEN n + 1 ELSE n

(***************************************************************************)
(* run(): the loop over the ast lines.                                     *)
(***************************************************************************)
(* pause() receives without vm.lock and answers once it has it again; a    *)
(* request to pause sends it back to sleep.                                *)
Wake ==
  /\ pc = "paused"
  /\ Take
  /\ At("unpause", ret)
  /\ UNCHANGED <<setup, state, code, counters, history>>

Unpause ==
  /\ pc = "unpause"
  /\ Answer(taken, ret)
  /\ UNCHANGED outside

(* runLine() after the permission: an empty line is a change of the source *)
(* line, any other line starts with its first statement.                   *)
BeginLine_NoSource ==
  \E run \in Lines[astLine].runs :
    /\ path' = run
    /\ IF run = <<>> THEN At("changed", "none") ELSE At("stmt", "none")
    /\ UNCHANGED <<srcLine, broke>>
BeginLine ==
  \E run \in Lines[astLine].runs :
    /\ path' = run
    /\ IF run = <<>>
       THEN /\ srcLine' = Lines[astLine].src
            /\ broke' = "no"
            /\ At("changed", "none")
       ELSE /\ At("stmt", "none")
            /\ UNCHANGED <<srcLine, broke>>

PastEnd == astLine > Len(Lines)

MoreIterations ==
  \/ Iterations = 0
  \/ Iterations < executedIterations'

Finish == IF "finish" \in Handlers THEN At("finish", "none") ELSE At("closing", "none")

Wrap ==
  /\ pc = "top" /\ PastEnd
  /\ astLine' = 1
  /\ executedIterations' = Count(executedIterations)
  /\ IF MoreIterations THEN At("top", "none") ELSE Finish
  /\ stepLine' = IF stepLine = 0 THEN 0 ELSE -1
  /\ UNCHANGED <<setup, state, srcLine, jumped, path, executedLines, outside, broke>>

NextLine ==
  /\ pc = "top" /\ ~PastEnd
  /\ IF Coordinated
     THEN /\ At("acquire", "none")
          /\ UNCHANGED <<path, srcLine, broke>>
     ELSE BeginLine
  /\ UNCHANGED <<setup, state, astLine, jumped, counters, outside, stepLine>>

(* aquireCoordinatorPermission(): a select, without vm.lock, between the   *)
(* permission and a request.  Only a request makes a difference to what    *)
(* others can read before the worker has the lock again.                   *)
Grant ==
  /\ pc = "acquire" /\ turn = "coordinator"
  /\ turn' = "vm"
  /\ BeginLine
  /\ UNCHANGED <<setup, state, astLine, jumped, counters, breakpoints, sendq, taken, panicked, stepLine>>

AcquireRequest ==
  /\ pc = "acquire"
  /\ Take
  /\ At("select", "acquire")
  /\ UNCHANGED <<setup, state, code, counters, history>>

AcquireAnswer ==
  /\ pc = "select"
  /\ Answer(taken, ret)
  /\ UNCHANGED outside

Report ==
  /\ pc = "report" /\ turn = "vm"
  /\ turn' = "coordinator"
  /\ At(ret, "none")
  /\ UNCHANGED <<setup, state, code, counters, breakpoints, sendq, taken, panicked, history>>

(***************************************************************************)
(* runStmt() and sourceLineChanged().                                      *)
(***************************************************************************)
NewSourceLine_NoJump(stmt) == stmt.src # 0 /\ stmt.src # srcLine
NewSourceLine_OnlyJump(stmt) == stmt.src # 0 /\ jumped
NewSourceLine(stmt) == stmt.src # 0 /\ (stmt.src # srcLine \/ jumped)

BeginStmt ==
  /\ pc = "stmt" /\ path # <<>>
  /\ IF NewSourceLine(Head(path))
     THEN /\ jumped' = FALSE
          /\ srcLine' = Head(path).src
          /\ broke' = "no"
          /\ At("changed", "none")
     ELSE At("exec", "none") /\ UNCHANGED <<jumped, srcLine, broke>>
  /\ UNCHANGED <<setup, state, astLine, path, counters, outside, stepLine>>

EndLine ==
  /\ pc \in {"stmt", "exec"} /\ path = <<>>
  /\ LineEnd("after")
  /\ UNCHANGED <<setup, state, code, counters, outside, history>>

Changed ==
  /\ pc = "changed"
  /\ IF state # "stepping" THEN At("bpcheck", "none") /\ UNCHANGED state
     ELSE IF "step" \in Handlers THEN At("step", "none") /\ UNCHANGED state
     ELSE PauseThen("bpcheck")
  /\ UNCHANGED <<setup, code, counters, outside, history>>

StepHandlerReturns ==
  /\ pc = "step"
  /\ PauseThen("bpcheck")
  /\ UNCHANGED <<setup, code, counters, outside, history>>

OnBreakpoint_Running == srcLine \in breakpoints /\ "breakpoint" \in Handlers /\ state = "running"
OnBreakpoint == srcLine \in breakpoints /\ "breakpoint" \in Handlers

BreakCheck ==
  /\ pc = "bpcheck"
  /\ IF OnBreakpoint THEN At("brk", "none") ELSE At("recv", "none")
  /\ broke' = IF OnBreakpoint THEN "yes" ELSE "no"
  /\ UNCHANGED <<setup, state, code, counters, outside, stepLine>>

BreakHandlerReturns ==
  /\ pc = "brk"
  /\ \/ At("recv", "none") /\ UNCHANGED state
     \/ PauseThen("recv")
  /\ UNCHANGED <<setup, code, counters, outside, history>>

(* receiveState() does not block, and the worker keeps vm.lock.            *)
Receive ==
  /\ pc = "recv"
  /\ \/ Take /\ Answer(taken', "exec")
     \/ /\ sendq = <<>>
        /\ At("exec", "none")
        /\ UNCHANGED <<setup, state, code, counters, outside, history>>

Clamp_NoLower(line) == IF line > 20 THEN 20 ELSE line
Clamp(line) == IF line < 1 THEN 1 ELSE IF line > 20 THEN 20 ELSE line

Exec ==
  /\ pc = "exec" /\ path # <<>>
  /\ LET stmt == Head(path) IN
     /\ stepLine' = IF stmt.src = 0 THEN stepLine ELSE stmt.src
     /\ \/ /\ stmt.op = "do"
           /\ path' = Tail(path)
           /\ At("stmt", "none")
           /\ UNCHANGED <<astLine, jumped>>
        \/ /\ stmt.op = "goto"
           /\ astLine' = Clamp(stmt.to) - 1
           /\ jumped' = TRUE
           /\ path' = <<>>
           /\ LineEnd("after")
        \/ /\ stmt.op = "fail"
           /\ path' = <<>>
           /\ LineEnd("failed")
           /\ UNCHANGED <<astLine, jumped>>
  /\ UNCHANGED <<setup, state, srcLine, counters, outside, broke>>

(***************************************************************************)
(* run() after the line, and the end of the worker.                        *)
(***************************************************************************)
Failed ==
  /\ pc = "failed"
  /\ IF "error" \in Handlers THEN At("err", "none") ELSE At("closing", "none")
  /\ UNCHANGED <<setup, state, code, counters, outside, history>>

ErrorHandlerReturns ==
  /\ pc = "err"
  /\ \/ At("after", "none") /\ UNCHANGED state
     \/ PauseThen("after")
  /\ UNCHANGED <<setup, code, counters, outside, history>>

LinesUsedUp_Iterations == MaxExecutedLines > 0 /\ executedIterations > MaxExecutedLines
LinesUsedUp == MaxExecutedLines > 0 /\ executedLines' > MaxExecutedLines

AfterLine ==
  /\ pc = "after"
  /\ executedLines' = Count(executedLines)
  /\ IF LinesUsedUp
     THEN Finish /\ UNCHANGED astLine
     ELSE astLine' = astLine + 1 /\ At("top", "none")
  /\ UNCHANGED <<setup, state, srcLine, jumped, path, executedIterations, outside, history>>

FinishHandlerReturns ==
  /\ pc = "finish"
  /\ At("closing", "none")
  /\ UNCHANGED <<setup, state, code, counters, outside, history>>

Blocked == {sendq[i].client : i \in DOMAIN sendq}

(* The deferred function of run(): whoever is blocked in a send panics.    *)
Close ==
  /\ pc = "closing"
  /\ state' = "terminated"
  /\ At("done", "none")
  /\ panicked' = Blocked
  /\ sendq' = <<>>
  /\ UNCHANGED <<setup, code, counters, breakpoints, taken, turn, history>>

(***************************************************************************)
(* The other goroutines.  A panic that nobody recovers ends the process;   *)
(* the worker is done by then.                                             *)
(***************************************************************************)
Alive == panicked = {}

Request(c, r) ==
  /\ Alive /\ c \notin Blocked
  /\ IF pc = "done"
     THEN panicked' = {c} /\ UNCHANGED sendq
     ELSE sendq' = Append(sendq, [client |-> c, req |-> r]) /\ UNCHANGED panicked
  /\ UNCHANGED <<setup, pc, ret, state, code, counters, breakpoints, taken, turn, history>>

ToggleBreakpoint(l) ==
  /\ Alive /\ LockFree
  /\ breakpoints' = IF l \in breakpoints THEN breakpoints \ {l} ELSE breakpoints \union {l}
  /\ UNCHANGED <<setup, pc, ret, state, code, counters, sendq, taken, panicked, turn, history>>

Worker ==
  \/ Wake \/ Unpause \/ Wrap \/ NextLine
  \/ Grant \/ AcquireRequest \/ AcquireAnswer \/ Report
  \/ BeginStmt \/ EndLine \/ Changed \/ StepHandlerReturns \/ BreakCheck
  \/ BreakHandlerReturns \/ Receive \/ Exec \/ Failed \/ ErrorHandlerReturns
  \/ AfterLine \/ FinishHandlerReturns \/ Close

Environment ==
  \/ \E c \in Clients, r \in Requests : Request(c, r)
  \/ \E l \in setup.toggled : ToggleBreakpoint(l)

Next == Worker \/ Environment

Spec == Init /\ [][Next]_vars

(* The worker goroutine is scheduled, its handlers return and the          *)
(* coordinator serves it.  select chooses at random among ready cases, so  *)
(* neither the permission nor the requests are passed over for ever.       *)
FairSpec ==
  /\ Spec
  /\ WF_vars(Worker)
  /\ SF_vars(Grant)
  /\ SF_vars(AcquireRequest)

(***************************************************************************)
(* Properties.                                                             *)
(***************************************************************************)
Points == LinePoints \union
  {"paused", "unpause", "top", "acquire", "select", "report", "failed", "err", "after", "finish", "closing", "done"}

TypeOK ==
  /\ setup \in Setups
  /\ pc \in Points
  /\ ret \in {"none", "top", "acquire", "bpcheck", "recv", "exec", "after", "failed", "closing"}
  /\ state \in States
  /\ astLine \in Nat /\ srcLine \in Nat
  /\ jumped \in BOOLEAN
  /\ path \in Seq(Stmts)
  /\ executedIterations \in 0..CountCap /\ executedLines \in 0..CountCap
  /\ breakpoints \subseteq Nat
  /\ sendq \in Seq([client : Clients, req : Requests])
  /\ taken \in States
  /\ panicked \subseteq Clients
  /\ turn \in {"coordinator", "vm"}
  /\ stepLine \in Nat \union {-1} /\ broke \in {"start", "no", "yes"}

(* runLine() is called for a line the program has, whatever a goto was     *)
(* given: the index into program.Lines is in range.                        *)
LineExists ==
  /\ pc = "top" => astLine >= 1
  /\ pc \in {"acquire", "select"} \/ (InPause /\ ret \in {"acquire"} \union LinePoints) =>
        astLine \in DOMAIN Lines

(* What State() answers to whoever gets vm.lock: "paused" exactly while    *)
(* the worker is in pause(), "terminated" exactly when it has ended.       *)
(* Otherwise it is the state last asked for, with one exception: Resume()  *)
(* or Pause() has returned as soon as its request is received, and until   *)
(* the worker has the lock again State() gives the state from before.      *)
(* Even then the program does not move on (Obeys).                         *)
Relocking == pc \in {"unpause", "select"}
StateIsTrue ==
  LockFree => /\ state = "paused" <=> InPause
              /\ state = "terminated" <=> pc = "done"
              /\ state \in {taken, "paused", "terminated"} \/ Relocking

(* From the moment a Pause or a Terminate is received - its call returns,  *)
(* whatever State() may still say - the program makes no progress until    *)
(* another request is: no statement runs, no line is counted.              *)
Obeys ==
  [][{state, taken} \intersect {"paused", "terminated"} # {} =>
       UNCHANGED <<code, counters>>]_vars

(* The first and the last line of the program share no source line, and    *)
(* each begins with a statement of the main file or is empty.              *)
Sources(l) ==
  {Lines[l].src} \union UNION {{run[k].src : k \in DOMAIN run} : run \in Lines[l].runs}
BordersDiffer ==
  /\ Lines # <<>>
  /\ Sources(1) \intersect Sources(Len(Lines)) \subseteq {0}
  /\ \A l \in {1, Len(Lines)} : \A run \in Lines[l].runs :
        run # <<>> => Head(run).src # 0

(* A Step lets the statements of one source line run, and not a second     *)
(* time if a goto leads back to it or the program starts over.  Starting   *)
(* over is not noticed where the last statement and the first are on the   *)
(* same source line: a program of one line runs on and on after a Step,    *)
(* against what the comment of Step() says.                                *)
StepStops ==
  (pc = "exec" /\ path # <<>> /\ state = "stepping") =>
    LET stmt == Head(path) IN
    stmt.src # 0 => /\ stepLine \in {0, stmt.src} \/ (stepLine = -1 /\ ~BordersDiffer)
                    /\ ~jumped

(* A statement on a line with a breakpoint runs only after the             *)
(* breakpoint-handler was called for this visit of the line.  Two cases    *)
(* are left out: a breakpoint set while the line executes, and line 1 from *)
(* the start of the program until another line is entered: the VM believes *)
(* that it was in line 1 all the time.                                     *)
BreakpointFires ==
  (pc = "exec" /\ path # <<>> /\ "breakpoint" \in Handlers /\ setup.toggled = {}) =>
    LET line == Head(path).src IN
    line \in breakpoints \ {0} => broke = "yes" \/ (broke = "start" /\ line = 1)

(* While the VM is paused in a line, CurrentSourceLine() is the line of    *)
(* the statement it will execute next.  (Paused after an error it still is *)
(* the line that failed, paused while waiting for its turn the last one.)  *)
NextSource == IF path = <<>> THEN Lines[astLine].src ELSE Head(path).src
CurrentLineIsNext == InPause /\ ret \in LinePoints => srcLine = NextSource

(* Every call of Resume, Step, Pause or Terminate returns (or panics), if  *)
(* the VM waits for a permission from time to time or every line of its    *)
(* program is noticed as a new one.                                        *)
Receptive ==
  \/ Coordinated
  \/ /\ Len(Lines) > 1
     /\ \A l \in DOMAIN Lines : \A run \in Lines[l].runs :
          run # <<>> => \E k \in DOMAIN run : run[k].src = Lines[l].src
RequestReturns == \A c \in Clients : (c \in Blocked /\ Receptive) ~> c \notin Blocked

(* What the comments promise: a request is always reacted on.              *)
EveryRequestReturns == \A c \in Clients : c \in Blocked ~> c \notin Blocked

(* An accepted Terminate ends the worker, so WaitForTermination returns.   *)
TerminateEnds == taken = "terminated" ~> pc = "done"

(* A line that was begun ends and is reported, unless the VM is paused     *)
(* in it: what the coordinator needs in order to serve the other VMs.      *)
LineIsReported == turn = "vm" ~> (turn = "coordinator" \/ pc = "paused")

(* With a limit on the executed lines, no program keeps the VM running.    *)
LimitStopsLoops == (pc = "top" /\ MaxExecutedLines > 0) ~> pc \in {"paused", "done"}

(* What the coordinator sees of the worker.                                *)
Phase ==
  IF pc = "closing" THEN "leaving"
  ELSE IF pc = "done" THEN "gone"
  ELSE IF turn = "vm" THEN "in"
  ELSE IF "acquire" \in {pc, ret} THEN "wait"
  ELSE "out"

LC == INSTANCE VMLifecycle WITH phase <- Phase, paused <- InPause

(* The VM keeps the protocol of VMLifecycle: permission and report         *)
(* alternate, a begun line is reported before the channels are closed, a   *)
(* paused VM takes no permission.                                          *)
Lifecycle == LC!Spec
=============================================================================
