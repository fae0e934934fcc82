------------------------------ MODULE MCYololVM ------------------------------
(* Programs and settings for checking YololVM.                             *)
EXTENDS YololVM

Stmt(src, op, to) == [src |-> src, op |-> op, to |-> to]
Do(src)        == Stmt(src, "do", 0)
Fail(src)      == Stmt(src, "fail", 0)
Goto(src, to)  == Stmt(src, "goto", to)
Line(src, runs) == [src |-> src, runs |-> runs]

(* x=1 if a then goto 3 end / an empty line / a line that fails, jumps     *)
(* back, jumps to itself or out of the program, or runs code of an include *)
Branching == <<
  Line(1, {<<Do(1)>>, <<Do(1), Goto(1, 3)>>}),
  Line(2, {<<>>}),
  Line(3, {<<Do(3), Fail(3)>>, <<Do(3), Do(0), Do(3)>>, <<Goto(3, -1)>>, <<Goto(3, 3)>>, <<Goto(3, 99)>>}) >>

(* Two lines, one of which may fail.                                       *)
Alternating == << Line(1, {<<Do(1), Do(1)>>}), Line(2, {<<Do(2)>>, <<Fail(2)>>}) >>

(* x++ goto 1                                                              *)
Jumping == << Line(1, {<<Do(1), Goto(1, 1)>>}) >>

(* x++ on its own: the program wraps around without a goto.                *)
Wrapping == << Line(1, {<<Do(1)>>}) >>

Looping ==
  [ lines |-> Wrapping, iterations |-> 0, maxExecutedLines |-> 0, coordinated |-> FALSE,
    handlers |-> {}, breakpoints |-> {}, toggled |-> {}, cap |-> 2 ]

AllHandlers == {"step", "breakpoint", "error", "finish"}

(* The debugger's VM; a coordinated one with a limit and few handlers;     *)
(* three that loop; one that runs once, with a breakpoint that is toggled. *)
AllSetups == {
  [Looping EXCEPT !.lines = Branching, !.handlers = AllHandlers, !.breakpoints = {1, 3}],
  [Looping EXCEPT !.lines = Alternating, !.coordinated = TRUE, !.maxExecutedLines = 2, !.cap = 4,
                  !.handlers = {"error", "breakpoint"}, !.breakpoints = {2}],
  [Looping EXCEPT !.coordinated = TRUE, !.handlers = {"breakpoint"}, !.breakpoints = {1}],
  [Looping EXCEPT !.lines = Alternating],
  [Looping EXCEPT !.lines = Jumping, !.maxExecutedLines = 3, !.cap = 5,
                  !.handlers = {"finish"}],
  [Looping EXCEPT !.lines = Alternating, !.iterations = 1, !.handlers = AllHandlers,
                  !.toggled = {2}] }

(* A program of one line that is executed for ever.                        *)
OneLineSetup == {Looping}

(* A script that is to run three times.                                    *)
ThriceSetup == {[Looping EXCEPT !.lines = Alternating, !.iterations = 3, !.cap = 4,
                           !.handlers = AllHandlers]}
=============================================================================
