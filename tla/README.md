# Verification of yodk

yodk is a development kit for YOLOL, the language of in-game chips. It parses,
optimizes, formats and checks YOLOL; compiles NOLOL, an extended language, to
YOLOL; and executes YOLOL in a virtual machine, for a debugger, for automated
tests and on the command line. This directory holds TLA+ specifications of its
concurrent core and of its language tools, the configurations that model-check
them with TLC, and proofs checked by TLAPS.

## The system

| Component | State | Operations | Properties that make it correct |
|---|---|---|---|
| **VM** `pkg/vm/vm.go` | program, line index, source line, state, breakpoints, counters, the channel of requests | Resume, Step, Pause, Terminate, Add/RemoveBreakpoint; the worker goroutine `run` | only existing lines are executed; the state it tells is true; a step is one line; a breakpoint is not passed; a request is answered; a terminate ends it |
| **Coordinator** `pkg/vm/coordinator.go` | slice of VMs with their two channels, global variables | registerVM, Run, Terminate, WaitForTermination; the goroutine `run` | lines exclude each other; every VM has its turn; a VM that ended is removed and no other; waiting and terminating reach all VMs |
| **YOLOL operators** `pkg/vm/operations.go`, `variable.go` | – | RunBinaryOperation, RunUnaryOperation | agree between the VM and the optimizer that computes constants |
| **Test runner** `pkg/testing/test.go` | failures, VMs, coordinator | GetRunner/Run | every test case is judged after all scripts ended; failures are not lost |
| **JSON-RPC** `pkg/jsonrpc2` | pending calls, requests being handled, write lock | Call, Notify, Reply, Run, Cancel | each call gets its own response, once; the read loop is never blocked |
| **LSP protocol** `pkg/lsp` | – | dispatch of methods to the Server interface | each call is replied to |
| **Language server** `pkg/langserver` | cache of texts, settings | Initialize, DidOpen/DidChange, DidChangeConfiguration, Formatting, Exit; the goroutines of Diagnose | every text that stays is diagnosed; edits fit the text they are for |
| **Debug adapter** `pkg/debug` | helper (VMs, names, coordinator), FinishedVMs, send queue | launch, set breakpoints, continue, next, pause, variables, restart, terminate, disconnect | a script that stops is reported; verified breakpoints are set; requests end; the queue closes after the scripts |
| **Command line debugger** `cmd/debug.go` | helper, `running` flag, current script | load, reset, choose, pause, continue, step, break, delete | the coordinator is started once per load; commands return |
| **NOLOL compiler** `pkg/nolol` | tables of definitions, macros, jump labels, line lengths | Convert: includes, macros, definitions, ifs, loops, gotos, merging | the YOLOL program behaves like the NOLOL program and keeps the limits of a chip |
| **Parsers** `pkg/parser`, `pkg/nolol/parser.go` | token position, errors | recursive descent | the tree is what the text says by the priorities of the operators |
| **AST and visitors** `pkg/parser/ast`, `pkg/nolol/nast` | – | Accept, replacement of nodes in a visit | a replacement is made by the parent and, without skip, visited again |
| **Optimizers** `pkg/optimizers` | variable renaming table | Optimize | the meaning stays |
| **Validators** `pkg/validators` | – | ValidateCodeLength | accepts what fits on a chip |
| **Formatting** `pkg/parser/printer.go`, `pkg/nolol/printer.go` | pending blanks | Print, CheckForFormattingError | what is printed is read back as the same tree |
| **Command line** `cmd` | the file | compile, optimize, format | each tool reads what another has written |
| **VSCode extension** | – | starts the other programs | – |

Interactions. A VM *is* a goroutine; everybody else reaches it through one
unbuffered channel, `stateRequests`, read in three places: when the worker is
paused, when it waits for the coordinator, and, without blocking, when the
source line changes. A coordinated VM exchanges two messages with the
coordinator for every line: it receives on `coordinatorPermission` and sends
on `coordinatorDone`. When it ends it closes `coordinatorDone`,
`stateRequests` and `terminationChannel`. The test runner, the debug adapter
and `cmd/debug.go` create VMs, set handlers (called from the worker), resume
them, run the coordinator, and terminate or wait. The language server and the
debug adapter are driven by messages on a JSON-RPC or DAP stream and start
goroutines of their own.

Hard behaviours. Requests arrive at any moment and are taken at three
different places. A Terminate unwinds the worker by a panic out of a
line, with a deferred function that must still report the line. Closing the
channel races with the senders. `remove` shifts the slice that Terminate and
WaitForTermination range over in another goroutine. One VM that neither takes
its permission nor leaves stops all others. Every request of the debug adapter
is handled in a goroutine of its own, without a lock. The passes of the
compiler rely on what the ones before have left. `PROJECT.json` lists every
hazard with its line.

## Modules

    VMLifecycle            what a VM promises to its coordinator (abstract)
      ^ implemented by          ^ assumed by
    YololVM                Coordinator <- TestRun <- MCTestRun
      ^         ^            ^          ^
    MCYololVM   |          MCCoordinator |
         YololVM_proofs         Coordinator_proofs <- TestRun_proofs (of TestRun)

    DebugVMs <- DebugAdapter, DebugShell <- Debugger <- MCDebug, Debugger_proofs
    JsonRpc <- MCJsonRpc, JsonRpc_proofs
    LangServer <- MCLangServer, LangServer_proofs

    Yolol <- YololText <- NololText <- NololMeaning ---.
      ^                       ^                        v
    Optimizers <-----------  Nolol  <------------  Toolchain <- MCToolchain
    (Visitor is instantiated by Optimizers and Nolol, once for each pass)

**VMLifecycle** has two variables: the phase of the worker as the coordinator
can tell it (between lines, waiting, in a line, leaving, gone), and whether it
is blocked in `pause()`.

**YololVM** is one VM. `pc` is the point the worker has reached (`ret`
is where it goes on after `pause()`, or after the deferred report of a line);
`state`, `astLine`, `srcLine`, `jumped`, `executedIterations`,
`executedLines`, `breakpoints` are the fields of the struct with these names;
`path` is what is left of the current line; `sendq` the goroutines blocked
sending to `stateRequests`, `taken` the request last received,
`panicked` those whose send met the closed channel;
`turn` is the exchange with the coordinator. `stepLine` (the line a Step is in, -1 once the program starts over) and
`broke` (whether the breakpoint handler was called on this visit of the line; "start"
before any line was entered) are history. Every action is the worker's code from one point where another
goroutine can intervene (a channel operation, or the lock released around a
handler) to the next. A program is data: each line has a set of
ways to execute, each a sequence of statements that run through, fail or jump.
Outcomes of conditions and values of variables are the choice among them.
The setup (program, settings, handlers, breakpoints) is a variable that is
chosen in `Init` and never changes, so that one run checks many programs.

| actions | code |
|---|---|
| `Wake`, `Unpause` | `pause()`: the receive without the lock; the relock and `changeState` |
| `Wrap`, `NextLine`, `AfterLine`, `Failed`, `ErrorHandlerReturns`, `FinishHandlerReturns` | the loop of `run` |
| `Grant`, `AcquireRequest`, `AcquireAnswer` | the `select` of `aquireCoordinatorPermission` without the lock; the relock and `changeState` |
| `BeginStmt`, `Exec`, `EndLine`, `Report` | `runLine`, `runStmt` and the deferred report |
| `Changed`, `StepHandlerReturns`, `BreakCheck`, `BreakHandlerReturns`, `Receive` | `checkSourceLineChanged`, `sourceLineChanged`, `receiveState` |
| `Close` | the deferred function of `run` |
| `Request`, `ToggleBreakpoint` | the exported methods |

**Coordinator** is the coordinator goroutine (`Run`, `Offer`,
`OfferToClosed`, `Await`, `NextRound`), its VMs, each one an abstract VM
(`Arrive`, `Finish`, `Close`, `Pause`, `Resume`), and the goroutines that
call Terminate (`TakeTerminate`, `SendOnClosed`) or WaitForTermination
(`SeeTermination`). `array` is the backing array of `c.vms`, shifted in place
by `Remove`; a caller ranges (`NextElement`) over that array up to the `bound`
it read at the start. `doomed` holds VMs that took a Terminate in the middle
of a line, which they still report. `served` and `roundLength` are history.
That its VMs do no more than VMLifecycle allows is the property
`VMContract`; YololVM is shown to implement the same module. Together they
say that replacing the abstract VM by the real one is sound. The scheduling of
the channel exchange is in both: what YololVM leaves to the environment (the
permission is offered and the report taken) Coordinator does, and the reverse.

**JsonRpc** is two Conns, one at either end of a pair of streams (`wire`), with
the dispatchers of `pkg/lsp` as handlers. A goroutine that calls goes through `Register`, `Send`,
`Receive`, or leaves through `SendFails`, or `Abandon` and `Leave` when its context
ends. The reading goroutine goes through `Read`, `Handle` (the dispatcher,
which runs in that goroutine, with the `Reply` it makes) and `Receive` (the exchange on
`rchan`). "shutdown" stands for all calls the dispatcher leaves without a reply.

**DebugVMs** is the helper of `pkg/debug` with its scripts, for both front ends. Of
a worker only what a debugger notices is left: `mode` (takes requests, is in a
handler, is paused, is gone), `stepping`, `event`. A VM is named by its
helper and its number, since a restart leaves the scripts of the old helper to a
goroutine that terminates them. `EnterHandler` and `LeaveHandler` are the
moments the worker calls the handlers of `configureVM`; `Deliver`, `BeginTerminate`,
`TerminateOne`, `TerminatedAll`, `WaitForTermination` are the calls that block
on a VM, made by any goroutine.

**DebugAdapter** is a session: the client, one goroutine for each request (`job`),
the queue and its end. `Send...` starts a request (`handleRequest`), `On...` is a
handler up to the first call that blocks or reads the helper again (`LookUp`,
`LookUpAgain`, after which a restart may have exchanged it), `Answer` and `NoResponse` are the end of
`dispatchRequest`, `NilHelper` the handler that meets a helper that is nil,
`HandlerSends` a VM that reports its stop, `HangUp`, `CloseQueue`, `Exit` the end of the
session. The client keeps to the protocol: launch first, one setBreakpoints at
a time for a source, configurationDone once those are answered, restart once that
is, breakpoints again on every initialized event, nothing after disconnect.
**DebugShell** is the debugger of the command line, one goroutine that executes
commands. **Debugger** composes the three: a setup has one front end.

**TestRun** is `Test.Run` on top of Coordinator, whose variables are those of
the case that runs: `CreateVMs`, `RunCase`, `WaitForCase`, `CheckResults`, `AppendResults`
for every case, or `CreateFails`. A VM that fails is in its handler (`LockFails`, `RecordError`), which
starts a goroutine that calls `Coordinator.Terminate` (`BeginTerminate`); one that comes
after its case has ended is `LateTerminate`, by a goroutine in the set `late`. `fails` is
read and written in two steps, as `append` is.

**LangServer** is the reading goroutine with its handlers, the editor, and a
goroutine of Diagnose for each change (`ReadText`, `Analyse`, `CheckLength`,
`CheckOptimized`, `Publish`). `Wire` is `Run` setting the fields of the server while
the connection is already reading. A text is a version and a class: what parser,
converter and validator would say of it.

**Yolol** has the nodes of the AST as records and runs a program as the VM does
when it is alone: operators with their types, errors and panics, side effects in
expressions, jumps. **YololText** is the tokenizer, the parser and the printer. A text is a
sequence of lexemes with its blanks; where two lexemes meet without a blank
the tokenizer may read them as one, which is what the printer has to prevent.
**NololText** is the same for the elements of NOLOL that contain lines. **Visitor** is
`Accept` with its replacements, parameterised by the visitor; **Optimizers**
instantiates it for each of the four optimizers, **Nolol** for each pass of the
converter, whose function names it keeps (`ConvertIf`, `Merged`, `ResolveGotoChains`,
`FindJumpLabels`, ...). **NololMeaning** is the yardstick: what a NOLOL program
means by `docs/nolol.md`, run block by block, without lines and generated labels.

**Toolchain** has a file and the commands run on it. A command is a function of the
file the one before has written (`Formatted`, `Optimized`, `Compiled`); each run
of `yodk` is a step that adds a command. What is claimed of a command is therefore an
action property, stated of the file a step finds and of what the command makes of it.

## Runs

| Run | Checks |
|---|---|
| `VM` | six setups, two clients that send each of the four requests at any time: six invariants, the action property `Obeys`, the refinement `Lifecycle`, and four liveness properties |
| `VM_oneline_request` | fails: a script of one line without a goto never takes a request |
| `Coord` | three VMs that end on their own, one that is also paused, one Terminate and one WaitForTermination: six invariants, the contract of the VMs and two liveness properties |
| `Coord_terminate_running` | fails: one Terminate on three running VMs may send to the same VM twice, the second time on a closed channel |
| `Rpc` | three goroutines, two at one end and one at the other, that call and notify, one of which may be cancelled, and streams that may break at any time: three invariants and that calls return |
| `Rpc_cancel` | fails: the response to a cancelled call blocks the reading goroutine, so that Wait never returns |
| `Debug` | nine setups of editor and shell with one or two scripts, one restart: four invariants and that every request ends |
| `Debug_restart_finished` | fails: a script that a restart abandoned marks a script of the new helper as finished |
| `Test` | two scripts, one case with two runtime errors or two cases with one: errors are recorded, an error ends its case |
| `Lang` | two documents, two changes and one other message in every order: edits fit, texts are diagnosed |
| `Toolchain` | two commands on each of some 650 YOLOL and 140 NOLOL files: six action properties |
| `Compile_function` | fails: a function of a local variable is compiled to that of another variable |

Bounds. *VM*: the programs of `MCYololVM` have up to three lines and contain
every kind of statement, an empty line, code of an include, gotos below,
above and onto the own line. The `cap` of a setup is where the two counters
stop; they are only compared with the settings, which the assumption keeps
below the cap. Two clients are enough to have one request queued behind another and
a sender caught by the close. The setups differ in what matters to the
worker: with and without coordinator, with each handler and without, with an
iteration count, with a line limit, looping by wrapping and by goto.
*Coord*: three VMs is the least number for which `remove` moves a VM that is
not the last; two are too few to see the effects of the shift. One VM may be
paused (it is the middle one, so it can hold up the VMs on both sides).
*Rpc*: each goroutine makes one call, which bounds the identifiers and the streams;
two at one end can have their responses mixed up, the third makes both ends read
and answer at the same time.
*Debug*: a setup has the requests that may interfere, since all of them at once
are too many states (restart meets disconnect in one, setBreakpoints in another); two goroutines let any two requests overlap, two helpers are one
restart, of two lines one has no statement.
*Test*: for two scripts WaitForTermination waits for all (see below for three). A case may fail to load. Two
errors of one case overlap in the handlers; with two cases the Terminate of the first meets
the second.
*Lang*: two changes can overtake each other, of one document or of two.
*Toolchain*: the YOLOL expressions are all combinations of three operands, two
operators of different or equal priority, brackets on either side and signs; the programs
combine jumps, ifs with else, comments, names in upper case, operators on
variables, strings and divisions that fail. The NOLOL programs are a definition, an include and a
macro, followed by one of seven heads, five blocks and four tails: inlined and multi-line ifs, else-if,
loops with break and continue, gotos out of blocks, lines to merge and lines kept
apart; and two programs of twenty and of twenty-one lines. One in five does not compile, because a goto names a label the tail does not
have. Runs of programs are followed for sixty lines in two environments (of which
one has a string), and some of the programs run on for ever. A second command shows that a
tool can read what another has written. Inputs that are known to go wrong are left out, see
below.
`CHECK_DEADLOCK FALSE` is set everywhere: the worker ends, the callers return,
a paused VM nobody resumes stays paused, connections and sessions end, and the user
of the tools may stop.

Fairness. Weak fairness of the worker and of each goroutine: the Go scheduler
runs every goroutine that can run, and handlers return. Strong fairness of
`Grant` and `AcquireRequest`: both are ready cases of one `select`, which
picks at random, so neither is passed over for ever. The same choice in
Coordinator gives strong fairness of `TakeTerminate`. The senders on a channel are served
in the order they came, so a goroutine that sends to a VM that keeps receiving is
taken (strong fairness of `IsTaken` in Debugger and TestRun), and a mutex is given to
every goroutine that waits for it (`LockFails`). Messages that were sent arrive
(`Receives` in LangServer). Nothing is assumed of whoever calls Run, Pause, Resume or
Terminate, of the user of a debugger or of an editor. Toolchain has no liveness.

## Properties

*The VM.* `LineExists`: whatever number a goto is given, `runLine` is called for
a line the program has. `StateIsTrue`: who takes the lock reads "paused"
exactly if the worker is in `pause()`, and else what was last asked for, except between
the receipt of a request and the relock. `Obeys`: from the receipt of a Pause or
Terminate no statement runs. `StepStops`: one source line per step, and that once,
unless the program starts over on the source line it ends with.
`BreakpointFires`: no statement of a line with a breakpoint runs before the
handler was called on this visit (line 1 is left out until another line is
entered, see below). `CurrentLineIsNext`: paused in a line, the
position shown is that of the next statement. `LimitStopsLoops`: the line limit
ends every program.
`RequestReturns`: a request is answered if the program is `Receptive`.
`TerminateEnds`, `LineIsReported`: liveness of the protocol.
`Lifecycle`: YololVM implements VMLifecycle.

*The coordinator.* `OneLineAtATime`, `AwaitsTheRunner`, `NobodyLost`,
`TurnComes`: exclusion, the right VM awaited and removed, nobody starves unless
a paused VM is in front. `EveryoneServed`: a round gives a line to each
registered VM, less one for each VM removed on the way.
`TerminateReachesAll`: a Terminate that returns has reached every VM, in spite of
the shifted array. `CoordinatorEnds`: once the VMs are gone the coordinator and
WaitForTermination finish.

*The connection.* `OwnAnswer`: a call returns the result of its own request.
`NothingLeftPending`: however Call ends, its entry is gone. `DeliveryAwaited`: the
only goroutine that reads never sends a response nobody will take, except
that of a cancelled call. `CallReturns`: without cancellation a call is answered.

*The debuggers.* `NoSilentStop`: a script that is paused has been reported as
stopped, so the user never waits for a script that waits for the user.
`VerifiedIsSet`: the breakpoints answered as verified are those of the VM that runs, also
after a restart. `RunsOnce`: the coordinator is run once per helper, whichever commands start
it. `ClosesQuietly`: when the queue is closed no script of the session runs. `RequestsEnd`:
every request is answered, or the process ends, except for a disconnect that waits for
scripts a restart has put in the place of those it terminated (`Stray`). `NoSilentStop` takes a
script that is marked as finished for reported, also one that `Debug_restart_finished`
shows wrongly marked.

*The tests.* `NoErrorLost`: when Run returns every runtime error is among the failures, and
results were compared at rest; only if a case cannot be loaded are they dropped. `TestEnds`: an error ends its case, although the scripts may
loop for ever.

*The language server.* `EditsFitText`: formatting answers with edits of the text the editor had when it
asked. `TextIsDiagnosed`: the diagnostics of a text that stays arrive.

*The tools.* `ReadsAsWritten`: an expression is read as its operators bind, compared with a
reader that looks for the last operator of the lowest priority. `FormatSucceeds`: what can be read
can be printed and read back. `OptimizeKeepsMeaning`, `CompileKeepsMeaning`: the program
written has the outcome of the one read, in its external variables and in how it
ends (the timing of a program that asks for `time()` apart). `CompiledFits`: 70 characters and 20 lines, or
the compiler says that it does not fit. `BoundariesKept`: what a `$` or a wait keeps apart is on
different lines, what a `;` binds together on one.

Every property has a mutant in `PROJECT.json`: a definition changed the way a
plausible bug would change the code, under which TLC finds it violated. The
mutants (`..._NoReport` and the like) stand before the definitions they change.

## Proofs

TLAPS checks every theorem for all values of the constants, from the assumptions
named in the modules. Every safety invariant that a run checks outside the
language modules is proved, and so are the action property `Obeys`, the refinement
`Lifecycle` and the contract `VMContract`. Each proof module has one inductive
invariant; below is what it says beyond the property, and why that is needed.

`YololVM_proofs`, for every program, setup and set of clients: `TypeOK`,
`LineExists`, `StateIsTrue`, `StepStops`, `BreakpointFires`, `CurrentLineIsNext`,
`Obeys`, and that `Spec` implements `VMLifecycle!Spec`. `LineExists` alone is
not inductive: whether the index is in range when the worker leaves `pause()`
depends on where it goes on (`ControlOK`), and the index has a different range at
`top`, where it may be behind the last line (`IndexOK`). `StateOK` says which
points a terminated worker may still pass and `TurnOK` that the permission
is held exactly inside `runLine`; the refinement follows from these two, one
step of VMLifecycle or a stutter for each action. The three properties of source lines
follow from `VisitOK`: at every point of a line, what `srcLine`, `jumped` and the two
histories are compared with the statement ahead, and `WrapOK`: when the
program starts over they belong to its last line, so that the first is noticed as another. From `VMAssumption`: settings are typed,
each line has at least one execution, one without statements has no other, and the
caps lie above the settings.

`Coordinator_proofs`, for every number of VMs and every set of callers:
`TypeOK`, `AwaitsTheRunner`, `OneLineAtATime`, `NobodyLost`, `TerminateReachesAll`,
`EveryoneServed`, `VMContract`. Exclusion is not inductive alone: it needs that the
coordinator awaits the VM that has the line, which needs that `Remove`
takes out the slot of a VM that is gone and moves no other out of the slice
(`RemoveKeepsOthers`, the lemma about the shift). For a round, the VMs
passed that were not served are counted: no more than `Remove` has moved to a place
already passed. For Terminate the shift can move a VM that was not told yet
to a place the loop has passed; then it has left the last VM twice ahead of the
loop (`RemoveDoubles`), where the loop blocks or panics, so that it does not return
(`OnItsWay`). `TwoAreSafe`: where one Terminate meets at most two VMs that do not end on their
own, `NobodyPanics` holds, which `Coord_terminate_running` shows violated with three; until it
tells a VM that VM is in one place ahead of the loop only (`OnlyOnce`).
From `CoordinatorAssumption`: at least one VM, and callers that do one thing.

`JsonRpc_proofs`, for all finite sets of callers at either end: `OwnAnswer`,
`NothingLeftPending`, `DeliveryAwaited` and the types. A call and its response are one token
that travels from end to end. The invariant says that no two callers of an end share an id
(`IdsUnique`, which counts those that have one), that a token carries the id of a
call that was sent and not answered (`TokensTrue`), and that there is one token per call
(`TokensOnce`); without the last a second response could meet a caller that has left.

`LangServer_proofs`, for all documents, changes and requests under way: `EditsFitText`.
The server lags behind the editor; the invariant is that for every formatting request in
the inbox the text it was made for is the one the cache will have when it is reached
(`WillHave`, `InStep`).

`TestRun_proofs`: for every number of scripts and cases, when Run returns
without having compared results while a script ran, every runtime error is among the
failures, or the failure is that a case could not be loaded (`ErrorsReturned`). What an `append` writes is what it has read, so the invariant
says that the slice a handler has read is still the slice when it writes (the mutex), and
that Run, which appends without the mutex, does so when no handler is left. With `N <= 2`
Run always compares at rest and `NoErrorLost` holds (`NothingLost`). The bound is not the proof's: with three
scripts `remove` may shift one out of sight of WaitForTermination, and TLC shows
`NoErrorLost` violated. The invariant of Coordinator holds in every
case, so its theorems are used as they are.

`Debugger_proofs`, for all setups of either front end, numbers of scripts and restarts and sets
of goroutines: `RunsOnce`, `NoSilentStop`, `VerifiedIsSet`, `ClosesQuietly` and the types. All
requests share the helper without a lock, so what each property needs is who is going to
put right what is not right yet. `Types` has the points a job of each kind goes
through and which helper it may be about. `Once`: at most one job opens a
helper, and none while a configurationDone has its coordinator to start. `NoneForgotten`: for a
script that is paused and not reported there is a request that will report, resume or
abandon it. `Known`: the breakpoints of a script are those the client knows, or a request is in progress, one
per script, about the helper in use. `Quiet`: every helper that was made is in use, ended, or
has a goroutine that ends it, and what a Terminate has yet to do covers the scripts that
are not gone (`Cleanup`); a disconnect ends the helper in use, or that was never started (`Leaves`).
`FinishedBeforeRestart` says that `FinishedIsTrue`, which the run
`Debug_restart_finished` shows violated, holds until the first restart. From
`DebugAssumption`: setups are typed, there is a goroutine, and goroutines are not numbers,
which name helpers. The order of requests that the proofs rely on is the client's, as
described for DebugAdapter; no other assumption is made on what it sends or when.

Checked by TLC only. Liveness (`TerminateEnds`, `LineIsReported`, `RequestReturns`,
`LimitStopsLoops`, `TurnComes`, `CoordinatorEnds`, `CallReturns`, `RequestsEnd`, `TestEnds`,
`TextIsDiagnosed`): it rests on fairness and ENABLED, which the prover does not reason about. The
six properties of the tools: the language modules are recursive over programs, and
what a recursive definition computes for every input would need induction
over data, which is out of the prover's reach too.

## Disagreements between code and documentation

Five are shown by runs and listed in `PROJECT.json`. Others were met while
modelling. Where a model contains what the code does, the property or the input that
leaves the case out is named.

The VM and the coordinator:

* `vm.go:425`: the iterations go on while `iterations < executedIterations`, which is false
  after the first, although `vm.go:126` says ">0 repeat x times".
* `vm.go:454` compares after counting, with `>`: one line more than the
  documented maximum is executed.
* `coordinator.go:45`: WaitForTermination ranges over the array that `remove` shifts, so
  with three VMs the second may still run when it returns.
* `vm.go:105`: the source line starts as 1, so that a breakpoint on line 1 is
  not noticed when the program starts, and never in a program of one line (`BreakpointFires`
  leaves line 1 out until another line is entered).
* `vm.go:357`: a request sent after the VM has ended, Terminate included,
  panics on the closed channel (`Alive`); the comment of Terminate says "(if running)".
  `Coordinator.Terminate` has the same effect when one of its VMs has ended.
* `vm.go:387`, `516`: Resume and the others, which block "until the VM reacts", return when the
  request is received; State() may tell the state from before until the worker has the
  lock again (`Relocking` in `StateIsTrue`).
* `vm.go:178`: "Step executes the next line and paused the execution", but in a program that
  starts over on the source line it ends with, one of a single line above all, no change of line is
  noticed, and a Step runs on and on (`BordersDiffer` in `StepStops`).
* `vm.go:516`: a VM paused while it waits for its permission still shows
  the line it executed last (`CurrentLineIsNext` is about pauses in a line).
* `coordinator.go:118`: after `remove(i)` the loop goes on with `i+1`, so the
  VM that moved to `i` misses a turn, while `vscode-yolol/README.md:47` has all
  scripts run their lines one after another (`EveryoneServed` allows for it).

The connection and the language server:

* `lsp/server.go:82` does not reply to shutdown and, like `jsonrpc2.go:91`, it
  replies to unknown notifications instead of unknown calls, while
  `jsonrpc2.go:37` says that a handler "must eventually call Reply" (`CallReturns`
  is about the other methods).
* A call that waits when the stream breaks is not woken (`CallReturns` assumes `open`).
* `jsonrpc2.go:124`: Cancel "cancels a pending Call on the server side", but
  handlers run in the goroutine that would read the cancellation.
* `langserver/server.go:20`: a message that is handled before `Run` has set client, cache and
  settings ends the process (`TextIsDiagnosed` leaves that case out). `diagnostics.go:114` reads the settings
  for a .nolol text, too, and `formatting.go:35` for a .yolol text.
* `diagnostics.go:54`: the diagnostics of an older text may be published last, and stay.
* `diagnostics.go:114`: the settings are read twice while a notification may
  replace them, without a lock.
* `diagnostics.go:89`: an error of a type that is not expected is only logged, so
  that the errors of the previous text stay (`"untyped"`).
* `formatting.go:66`: a document of another suffix is replaced by nothing.

The debug adapter and the test runner:

* Two setBreakpoints for one source at a time lose breakpoints; a restart that overlaps
  configurationDone runs the new coordinator twice. The client of the model does neither.
* `handler.go:331`: continue for a finished script ends the process (`session.go:413`
  uses the response that is nil); so does terminate when a script has ended
  (`handler.go:249`) and any request after a restart that failed to load.
* `handler.go:234-236`: disconnect reads the helper three times. If a restart exchanges it in
  between, it waits for scripts nobody terminates, or dereferences nil if the restart fails to load
  (`Stray` in `RequestsEnd`). Continue, next and setBreakpoints read it twice or more, too
  (`handler.go:334`, `345`, `284`): a resume may go to the script of the new helper.
* The event that a script has stopped may come before the response to the request that
  started it.
* Scripts that a restart abandons may send to the queue after it is closed.
* `handler.go:448`: variables that are left out of a list leave blank entries.
* `test.go:195`: a runtime error shortly before a script ends starts a Terminate whose send
  may panic on the closed channel (`TestEnds` leaves it out).
* `test.go:201`: if the scripts of a later case cannot be loaded, Run returns that error alone and
  drops those the cases before have recorded (`NoErrorLost` leaves it out).
* `handler.go:116` compares the type of the number of a test case with `int`, which a number from JSON
  never has, so that the first case is the one that is debugged.

The parsers, printers and optimizers:

* `parser.go:407`: an else with several statements becomes the block for then and its last
  statement (`ElseBlock`).
* A comparison of a comparison is printed without brackets and cannot be read again,
  `(a==2)==b`.
* `a=b ++c` in compact code is read as `a=b++ c`.
* `expression_inversion.go:60`: `not not y` becomes `y`, which is another value if y is
  neither 0 nor 1.
* `operations.go:99`, `102`: `%` by zero and zero to a negative power panic, also in the
  optimizer and thereby in the language server.
* `variable_names.go:73`: short names are not compared with the keywords, so that `if` is
  among them after enough variables.
* `nolol/parser.go:235`: the newline after `$ //comment` is left over and makes a line of its own,
  so that the formatter reports a bug.

The NOLOL compiler:

* `converter_builtins.go:17`: the number of a wait label is never counted up, so that two waits
  are a "Duplicate declaration".
* `converter_ifs.go:50`: the error of merging is ignored, so that a block that begins with a line that is
  too long and has another one is dropped without a message.
* `converter_ifs.go:58`: an empty block with an else loses its goto; `if c then end` is not
  readable YOLOL.
* A `$` at the end of a block is lost when the block is inlined.
* `converter.go:314-328`: the length of a line is looked at only if another one follows that
  might be merged, and never if it ends with `$`.
* `nast/copy.go:139`: a continue in a macro is copied as a break.
* `converter_macros.go:103`: the uses of an argument share one node, so that an operator
  on one of them is seen by all; labels in macros are not scoped, and the same macro on
  the same line of two files shares its variables.
* `converter_builtins.go:88`: `TIME()` is not recognised as the use of time before the
  conversion, while it is compiled as `time()`.
* Generated labels may be those of the user (`endif0`, `while1`, ...).

## Not modelled

*In the VM model*: values of variables, since the model chooses among the
ways a line can execute (Yolol has them). The map of global variables and its mutex.
Source columns and positions.

*In the debuggers*: what the inspecting requests answer, the value setVariable sets, the
messages' sequence numbers, the framing of the stream.

*In the connection*: malformed messages, the framing, tracing, the types
of parameters and results in `pkg/lsp`, which are generated from the protocol.

*In the language*: numbers are integers, without decimals, roots and trigonometry; strings
have no escapes; a parser stops at its first error, where the code goes on and reports more;
positions in errors, debug output, the table of translated names. An argument of a macro
is used once only, since the code lets its uses share a node.

For good: pure input and output (`stream.go`, `stdio.go`, files and flags of `cmd`), the
extension of VSCode, which starts the other programs, and the test data.

## Plan

1. done: VMLifecycle, YololVM, Coordinator, their runs and first proofs;
2. done: JsonRpc, the debuggers, TestRun and LangServer with their runs;
3. done: the language, from the tokenizer to the compiler, and the tools on files;
4. done: proofs of the safety properties of the VM, the coordinator, the connection, the
   language server, the test runner and the debuggers;
5. proofs: conditions under which what the failing runs show cannot happen (as
   `FinishedBeforeRestart` and `TwoAreSafe` do for two of them), and the safety part of the liveness
   properties, that nothing is left that could go on but cannot.
