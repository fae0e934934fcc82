--------------------------- MODULE YololVM_proofs ---------------------------
(***************************************************************************)
(* Theorems about YololVM for every set of clients, every program and all  *)
(* of its settings.                                                        *)
(***************************************************************************)
EXTENDS YololVM, SequenceTheorems, TLAPS

(***************************************************************************)
(* The inductive invariant.  LineExists and StateIsTrue speak of the       *)
(* points where others can look; to be inductive they need to know where   *)
(* the worker goes on after pause() and after a report (ControlOK), that   *)
(* the line index is right at every point on the way (IndexOK), what a     *)
(* dying worker may still do (StateOK), and that the permission is held    *)
(* exactly in between runLine's two exchanges with the coordinator         *)
(* (TurnOK).  A request is in effect from its receipt on, although the     *)
(* state follows only with the lock: StateOK speaks of both.               *)
(***************************************************************************)
ControlOK ==
  /\ InPause => ret \in {"top", "acquire", "bpcheck", "recv", "exec", "after"}
  /\ pc = "report" => ret \in {"after", "failed", "closing"}
  /\ pc = "select" => ret = "acquire"
  /\ pc \in {"report", "acquire", "select"} \/ (InPause /\ ret = "acquire") => Coordinated
  /\ pc \notin {"paused", "unpause", "report", "select"} => ret = "none"

IndexOK ==
  /\ pc = "top" \/ (InPause /\ ret = "top") => astLine >= 1
  /\ pc \in {"acquire", "select"} \union LinePoints => astLine \in DOMAIN Lines
  /\ InPause /\ ret \in {"acquire"} \union LinePoints => astLine \in DOMAIN Lines

StateOK ==
  /\ state = "paused" <=> InPause
  /\ state = "terminated" => pc \in {"closing", "done"} \/ (pc = "report" /\ ret = "closing")
  /\ pc = "done" => state = "terminated"
  /\ state \in {taken, "paused", "terminated"} \/ Relocking
  /\ taken = "paused" => InPause \/ pc = "select"
  /\ taken = "terminated" => \/ pc \in {"unpause", "select", "closing", "done"}
                             \/ pc = "report" /\ ret = "closing"

TurnOK == turn = "vm" <=> Coordinated /\ InLine

Inv == TypeOK /\ ControlOK /\ IndexOK /\ StateOK /\ TurnOK

-----------------------------------------------------------------------------
(* What the proofs use of the settings: the program is a sequence of lines *)
(* whose executions are sequences of statements, ...                       *)
LEMMA LinesTyped ==
  ASSUME setup \in Setups
  PROVE  /\ Len(Lines) \in Nat
         /\ DOMAIN Lines = 1..Len(Lines)
         /\ \A l \in DOMAIN Lines :
               /\ Lines[l].src \in Nat
               /\ \A run \in Lines[l].runs : run \in Seq(Stmts)
<1>1. Lines \in Seq(AstLines)
  BY VMAssumption DEF Setup, Lines
<1>2. Len(Lines) \in Nat /\ DOMAIN Lines = 1..Len(Lines)
  BY <1>1, LenProperties
<1>3. \A l \in 1..Len(Lines) : Lines[l] \in AstLines
  BY <1>1, ElementOfSeq
<1> QED
  BY <1>2, <1>3 DEF AstLines

(* ... and requests, counters and breakpoints have the types they need.    *)
LEMMA SettingsTyped ==
  ASSUME setup \in Setups
  PROVE  /\ Requests \subseteq States
         /\ CountCap \in Nat
         /\ setup.toggled \subseteq Nat
         /\ setup.breakpoints \subseteq Nat
BY VMAssumption DEF Setup, CountCap

(* An execution of an existing line is a sequence of statements.           *)
LEMMA BeginLineTyped ==
  ASSUME BeginLine, setup \in Setups, astLine \in DOMAIN Lines, srcLine \in Nat,
         broke \in {"start", "no", "yes"}
  PROVE  /\ path' \in Seq(Stmts)
         /\ srcLine' \in Nat
         /\ broke' \in {"start", "no", "yes"}
         /\ pc' \in {"changed", "stmt"} /\ ret' = "none"
BY LinesTyped DEF BeginLine, At

(* A line begins with a statement or, if empty, with a change of line.    *)
LEMMA BeginLineControl ==
  ASSUME BeginLine
  PROVE  pc' \in {"changed", "stmt"} /\ ret' = "none"
BY DEF BeginLine, At

(* Receiving a request keeps the types.                                    *)
LEMMA TakeTyped ==
  ASSUME TypeOK, Take
  PROVE  sendq' \in Seq([client : Clients, req : Requests]) /\ taken' \in States
<1>1. sendq \in Seq([client : Clients, req : Requests]) /\ sendq # <<>>
  BY DEF TypeOK, Take
<1>2. /\ sendq' \in Seq([client : Clients, req : Requests])
      /\ Head(sendq) \in [client : Clients, req : Requests]
  BY <1>1, HeadTailProperties DEF Take
<1>3. Head(sendq).req \in States
  BY <1>2, SettingsTyped DEF TypeOK
<1> QED
  BY <1>2, <1>3 DEF Take

(* So does answering it.                                                   *)
LEMMA AnswerTyped ==
  ASSUME NEW requested \in States,
         NEW next \in {"top", "acquire", "bpcheck", "recv", "exec", "after"},
         Answer(requested, next)
  PROVE  /\ state' \in States /\ stepLine' \in Nat
         /\ pc' \in Points
         /\ ret' \in {"none", "top", "acquire", "bpcheck", "recv", "exec", "after", "failed", "closing"}
         /\ UNCHANGED <<setup, astLine, srcLine, jumped, path, executedIterations, executedLines,
                        broke>>
BY DEF Answer, ChangeState, Kill, At, Points, LinePoints, code, counters

(* A VM that was just created is well typed.                               *)
LEMMA InitType == Init => TypeOK
<1> SUFFICES ASSUME Init PROVE TypeOK
  OBVIOUS
<1>1. pc \in Points /\ state \in States
  BY DEF Init, Points, States
<1>2. executedIterations \in 0..CountCap /\ executedLines \in 0..CountCap
  BY SettingsTyped DEF Init, CountCap
<1>3. breakpoints \subseteq Nat
  BY SettingsTyped DEF Init, CountCap
<1>4. path \in Seq(Stmts) /\ sendq \in Seq([client : Clients, req : Requests])
  BY DEF Init
<1> QED
  BY <1>1, <1>2, <1>3, <1>4 DEF Init, TypeOK

(* Every step keeps the types; a goto needs the clamp for it.              *)
LEMMA StepType == TypeOK /\ ControlOK /\ IndexOK /\ [Next]_vars => TypeOK'
<1> SUFFICES ASSUME TypeOK, ControlOK, IndexOK, [Next]_vars
             PROVE  TypeOK'
  OBVIOUS
<1> USE DEF At, code, counters, outside, history, TypeOK, Points, LinePoints, CountCap
<1>1. CASE Unpause
  <2>1. taken \in States /\ ret \in {"top", "acquire", "bpcheck", "recv", "exec", "after"}
    BY <1>1 DEF Unpause, ControlOK, InPause
  <2>2. Answer(taken, ret) /\ UNCHANGED <<breakpoints, sendq, taken, panicked, turn>>
    BY <1>1 DEF Unpause
  <2> HIDE DEF Points
  <2> QED
    BY <2>1, <2>2, AnswerTyped
<1>2. CASE Wrap
  BY <1>2, SettingsTyped DEF Wrap, Finish, Count
<1>3. CASE NextLine
  <2>1. CASE Coordinated
    BY <2>1, <1>3 DEF NextLine
  <2>2. CASE ~Coordinated
    <3>1. astLine \in DOMAIN Lines
      BY <1>3, LinesTyped DEF NextLine, PastEnd, IndexOK
    <3> QED
      BY <2>2, <3>1, <1>3, BeginLineTyped DEF NextLine
  <2> QED
    BY <2>1, <2>2
<1>4. CASE Grant
  <2>1. astLine \in DOMAIN Lines
    BY <1>4 DEF Grant, IndexOK
  <2> QED
    BY <2>1, <1>4, BeginLineTyped DEF Grant
<1>5. CASE AcquireRequest
  BY <1>5, TakeTyped DEF AcquireRequest, Take
<1>6. CASE Report
  BY <1>6 DEF Report, ControlOK
<1>7. CASE BeginStmt
  <2>1. Head(path) \in Stmts
    BY <1>7, HeadTailProperties DEF BeginStmt
  <2>2. Head(path).src \in Nat
    BY <2>1 DEF Stmts
  <2> QED
    BY <2>2, <1>7 DEF BeginStmt
<1>8. CASE EndLine
  BY <1>8 DEF EndLine, LineEnd
<1>9. CASE Changed
  BY <1>9 DEF Changed, PauseThen, States
<1>10. CASE StepHandlerReturns
  BY <1>10 DEF StepHandlerReturns, PauseThen, States
<1>11. CASE BreakCheck
  BY <1>11 DEF BreakCheck, OnBreakpoint
<1>12. CASE BreakHandlerReturns
  BY <1>12 DEF BreakHandlerReturns, PauseThen, States
<1>13. CASE Receive
  <2>1. CASE Take /\ Answer(taken', "exec")
    <3>1. taken' \in States /\ sendq' \in Seq([client : Clients, req : Requests])
      BY <2>1, TakeTyped
    <3>2. UNCHANGED <<breakpoints, panicked, turn>>
      BY <2>1 DEF Take
    <3> HIDE DEF Points
    <3> QED
      BY <2>1, <3>1, <3>2, AnswerTyped
  <2>2. CASE ~(Take /\ Answer(taken', "exec"))
    BY <2>2, <1>13 DEF Receive
  <2> QED
    BY <2>1, <2>2
<1>14. CASE Exec
  <2>1. Head(path) \in Stmts /\ Tail(path) \in Seq(Stmts)
    BY <1>14, HeadTailProperties DEF Exec
  <2>2. /\ Head(path).src \in Nat
        /\ Head(path).to \in Int
    BY <2>1 DEF Stmts
  <2>3. Clamp(Head(path).to) - 1 \in Nat
    BY <2>2 DEF Clamp
  <2>4. path' \in Seq(Stmts)
    BY <2>1, <1>14, EmptySeq DEF Exec
  <2>7. astLine' \in Nat /\ jumped' \in BOOLEAN
    BY <2>3, <1>14 DEF Exec
  <2>5. stepLine' \in Nat \union {-1}
    BY <2>2, <1>14 DEF Exec
  <2>6. /\ pc' \in {"stmt", "report", "after", "failed"}
        /\ ret' \in {"none", "after", "failed"}
    BY <1>14 DEF Exec, LineEnd
  <2> QED
    BY <2>4, <2>5, <2>6, <2>7, <1>14 DEF Exec
<1>15. CASE Failed
  BY <1>15 DEF Failed
<1>16. CASE ErrorHandlerReturns
  BY <1>16 DEF ErrorHandlerReturns, PauseThen, States
<1>17. CASE AfterLine
  BY <1>17, SettingsTyped DEF AfterLine, Finish, Count
<1>18. CASE FinishHandlerReturns
  BY <1>18 DEF FinishHandlerReturns
<1>19. CASE Close
  <2>1. Blocked \subseteq Clients
    <3>1. \A k \in DOMAIN sendq : sendq[k] \in [client : Clients, req : Requests]
      BY ElementOfSeq, LenProperties
    <3> QED
      BY <3>1 DEF Blocked
  <2> QED
    BY <2>1, <1>19 DEF Close, States
<1>20. ASSUME NEW c \in Clients, NEW r \in Requests, Request(c, r)
       PROVE  TypeOK'
  <2>1. [client |-> c, req |-> r] \in [client : Clients, req : Requests]
    OBVIOUS
  <2>2. sendq' \in Seq([client : Clients, req : Requests])
    <3>1. Append(sendq, [client |-> c, req |-> r]) \in Seq([client : Clients, req : Requests])
      BY <2>1, AppendProperties
    <3> QED
      BY <3>1, <1>20 DEF Request
  <2> QED
    BY <2>2, <1>20 DEF Request
<1>21. ASSUME NEW l \in setup.toggled, ToggleBreakpoint(l)
       PROVE  TypeOK'
  <2>1. l \in Nat
    BY SettingsTyped
  <2>2. breakpoints' \subseteq Nat
    BY <1>21, <2>1 DEF ToggleBreakpoint
  <2> QED
    BY <1>21, <2>2 DEF ToggleBreakpoint
<1>22. CASE UNCHANGED vars
  BY <1>22 DEF vars
<1>23. CASE Wake
  BY <1>23, TakeTyped DEF Wake, Take
<1>24. CASE AcquireAnswer
  <2>1. taken \in States /\ ret = "acquire"
    BY <1>24 DEF AcquireAnswer, ControlOK
  <2>2. Answer(taken, ret) /\ UNCHANGED <<breakpoints, sendq, taken, panicked, turn>>
    BY <1>24 DEF AcquireAnswer
  <2> HIDE DEF Points
  <2> QED
    BY <2>1, <2>2, AnswerTyped
<1>. QED
  BY <1>1, <1>2, <1>3, <1>4, <1>5, <1>6, <1>7, <1>8,
     <1>9, <1>10, <1>11, <1>12, <1>13, <1>14, <1>15, <1>16,
     <1>17, <1>18, <1>19, <1>20, <1>21, <1>22, <1>23, <1>24 DEF Next, Worker, Environment

(***************************************************************************)
(* Control, state and permission.                                          *)
(***************************************************************************)
Shape == ControlOK /\ StateOK /\ TurnOK

(* A new VM is blocked in pause() and holds no permission.                 *)
LEMMA InitShape == Init => Shape
BY DEF Init, Shape, ControlOK, StateOK, TurnOK, InPause, Relocking, InLine, LinePoints

(* A request answered between two lines, or inside one, leads to a point of   *)
(* the same kind, to pause(), or to the end by way of the pending report.  *)
LEMMA AnswerShape ==
  ASSUME Shape, NEW next, Answer(taken', next), UNCHANGED turn,
         \/ pc = "unpause" /\ next = ret
         \/ pc = "select" /\ next = "acquire"
         \/ pc = "recv" /\ next = "exec"
  PROVE  Shape'
<1> DEFINE r == taken'
<1> USE DEF Answer, ChangeState, At, Coordinated, Shape, ControlOK, StateOK, TurnOK, InPause, InLine,
            LinePoints, Relocking
<1>1. CASE r = "terminated"
  BY <1>1 DEF Kill, Holding
<1>2. CASE r = "paused"
  BY <1>2
<1>3. CASE r \notin {"terminated", "paused"}
  BY <1>3
<1> QED
  BY <1>1, <1>2, <1>3

(* Every step keeps control, state and permission in agreement.            *)
LEMMA StepShape == Shape /\ [Next]_vars => Shape'
<1> SUFFICES ASSUME Shape, [Next]_vars
             PROVE  Shape'
  OBVIOUS
<1> USE DEF At, code, counters, outside, history, Coordinated, Shape, ControlOK, StateOK, TurnOK,
            InPause, InLine, LinePoints, Relocking
<1>1. CASE Unpause
  BY <1>1, AnswerShape DEF Unpause
<1>2. CASE Wrap
  BY <1>2 DEF Wrap, PastEnd, MoreIterations, Finish, Count
<1>3. CASE NextLine
  BY <1>3, BeginLineControl DEF NextLine
<1>4. CASE Grant
  BY <1>4, BeginLineControl DEF Grant
<1>5. CASE AcquireRequest
  BY <1>5 DEF AcquireRequest, Take
<1>6. CASE Report
  BY <1>6 DEF Report
<1>7. CASE BeginStmt
  BY <1>7 DEF BeginStmt, NewSourceLine
<1>8. CASE EndLine
  BY <1>8 DEF EndLine, LineEnd
<1>9. CASE Changed
  BY <1>9 DEF Changed, PauseThen
<1>10. CASE StepHandlerReturns
  BY <1>10 DEF StepHandlerReturns, PauseThen
<1>11. CASE BreakCheck
  BY <1>11 DEF BreakCheck, OnBreakpoint
<1>12. CASE BreakHandlerReturns
  BY <1>12 DEF BreakHandlerReturns, PauseThen
<1>13. CASE Receive
  <2>1. CASE Take /\ Answer(taken', "exec")
    BY <2>1, <1>13, AnswerShape DEF Receive, Take
  <2>2. CASE ~(Take /\ Answer(taken', "exec"))
    BY <2>2, <1>13 DEF Receive
  <2> QED
    BY <2>1, <2>2
<1>14. CASE Exec
  BY <1>14 DEF Exec, LineEnd, Clamp
<1>15. CASE Failed
  BY <1>15 DEF Failed
<1>16. CASE ErrorHandlerReturns
  BY <1>16 DEF ErrorHandlerReturns, PauseThen
<1>17. CASE AfterLine
  BY <1>17 DEF AfterLine, Finish, Count, LinesUsedUp
<1>18. CASE FinishHandlerReturns
  BY <1>18 DEF FinishHandlerReturns
<1>19. CASE Close
  BY <1>19 DEF Close, Blocked
<1>20. ASSUME NEW c \in Clients, NEW r \in Requests, Request(c, r)
       PROVE  Shape'
  BY <1>20 DEF Request
<1>21. ASSUME NEW l \in setup.toggled, ToggleBreakpoint(l)
       PROVE  Shape'
  BY <1>21 DEF ToggleBreakpoint
<1>22. CASE UNCHANGED vars
  BY <1>22 DEF vars
<1>23. CASE Wake
  BY <1>23 DEF Wake, Take
<1>24. CASE AcquireAnswer
  BY <1>24, AnswerShape DEF AcquireAnswer
<1>. QED
  BY <1>1, <1>2, <1>3, <1>4, <1>5, <1>6, <1>7, <1>8,
     <1>9, <1>10, <1>11, <1>12, <1>13, <1>14, <1>15, <1>16,
     <1>17, <1>18, <1>19, <1>20, <1>21, <1>22, <1>23, <1>24 DEF Next, Worker, Environment

(***************************************************************************)
(* The line index.                                                         *)
(***************************************************************************)
(* A new VM is at the first line.                                          *)
LEMMA InitIndex == Init => IndexOK
BY DEF Init, IndexOK, InPause, LinePoints

(* Every step keeps the line index in range where the line is used.        *)
LEMMA StepIndex == TypeOK /\ ControlOK /\ IndexOK /\ [Next]_vars => IndexOK'
<1> SUFFICES ASSUME setup \in Setups, astLine \in Nat, ControlOK, IndexOK, [Next]_vars
             PROVE  IndexOK'
  BY DEF TypeOK
<1> USE LinesTyped DEF Lines, At, code, counters, outside, history, IndexOK, InPause, LinePoints
<1>1. CASE Unpause
  BY <1>1 DEF Unpause, Answer, ChangeState, Kill, Holding, ControlOK
<1>2. CASE Wrap
  BY <1>2 DEF Wrap, PastEnd, MoreIterations, Finish, Count
<1>3. CASE NextLine
  BY <1>3, BeginLineControl DEF NextLine, PastEnd
<1>4. CASE Grant
  BY <1>4, BeginLineControl DEF Grant
<1>5. CASE AcquireRequest
  BY <1>5 DEF AcquireRequest
<1>6. CASE Report
  BY <1>6 DEF Report, ControlOK
<1>7. CASE BeginStmt
  BY <1>7 DEF BeginStmt, NewSourceLine
<1>8. CASE EndLine
  BY <1>8 DEF EndLine, LineEnd
<1>9. CASE Changed
  BY <1>9 DEF Changed, PauseThen
<1>10. CASE StepHandlerReturns
  BY <1>10 DEF StepHandlerReturns, PauseThen
<1>11. CASE BreakCheck
  BY <1>11 DEF BreakCheck, OnBreakpoint
<1>12. CASE BreakHandlerReturns
  BY <1>12 DEF BreakHandlerReturns, PauseThen
<1>13. CASE Receive
  BY <1>13 DEF Receive, Answer, ChangeState, Kill, Holding, ControlOK
<1>14. CASE Exec
  BY <1>14 DEF Exec, LineEnd
<1>15. CASE Failed
  BY <1>15 DEF Failed
<1>16. CASE ErrorHandlerReturns
  BY <1>16 DEF ErrorHandlerReturns, PauseThen
<1>17. CASE AfterLine
  BY <1>17 DEF AfterLine, Finish, Count, LinesUsedUp
<1>18. CASE FinishHandlerReturns
  BY <1>18 DEF FinishHandlerReturns
<1>19. CASE Close
  BY <1>19 DEF Close, Blocked
<1>20. ASSUME NEW c \in Clients, NEW r \in Requests, Request(c, r)
       PROVE  IndexOK'
  BY <1>20 DEF Request
<1>21. ASSUME NEW l \in setup.toggled, ToggleBreakpoint(l)
       PROVE  IndexOK'
  BY <1>21 DEF ToggleBreakpoint
<1>22. CASE UNCHANGED vars
  BY <1>22 DEF vars
<1>23. CASE Wake
  BY <1>23 DEF Wake, ControlOK
<1>24. CASE AcquireAnswer
  BY <1>24 DEF AcquireAnswer, Answer, ChangeState, Kill, Holding, ControlOK
<1>. QED
  BY <1>1, <1>2, <1>3, <1>4, <1>5, <1>6, <1>7, <1>8,
     <1>9, <1>10, <1>11, <1>12, <1>13, <1>14, <1>15, <1>16,
     <1>17, <1>18, <1>19, <1>20, <1>21, <1>22, <1>23, <1>24 DEF Next, Worker, Environment

-----------------------------------------------------------------------------
(* The three parts together are inductive.                                 *)
LEMMA Invariance == Spec => []Inv
<1>1. Init => Inv
  BY InitType, InitShape, InitIndex DEF Inv, Shape
<1>2. Inv /\ [Next]_vars => Inv'
  BY StepType, StepShape, StepIndex DEF Inv, Shape
<1> QED
  BY <1>1, <1>2, PTL DEF Spec

(* The variables of the VM keep their types: in particular the line index  *)
(* is never negative, whatever a goto was given.                           *)
THEOREM TypeCorrect == Spec => []TypeOK
<1>1. Inv => TypeOK
  BY DEF Inv
<1> QED
  BY <1>1, Invariance, PTL

(* runLine() only ever indexes program.Lines with a line that exists.      *)
THEOREM LinesExist == Spec => []LineExists
<1>1. Inv => LineExists
  BY DEF Inv, IndexOK, LineExists, InPause
<1> QED
  BY <1>1, Invariance, PTL

(* State() tells everyone who gets the lock what the worker is doing, and  *)
(* what was asked of it last, except between receipt and relock.           *)
THEOREM StateCorrect == Spec => []StateIsTrue
<1>1. Inv => StateIsTrue
  BY DEF Inv, StateOK, StateIsTrue, LockFree, InPause, Relocking
<1> QED
  BY <1>1, Invariance, PTL

(* A paused or terminated program makes no progress.  The line that a      *)
(* Terminate cuts short is still reported, but nothing of it is executed.  *)
(* That holds from the receipt of the request, not only from the change of *)
(* state.                                                                  *)
THEOREM ProgramObeys == Spec => Obeys
<1> DEFINE Frozen == {state, taken} \intersect {"paused", "terminated"} # {} =>
                       UNCHANGED <<code, counters>>
<1>1. Inv /\ [Next]_vars => [Frozen]_vars
  <2> SUFFICES ASSUME StateOK, [Next]_vars
               PROVE  [Frozen]_vars
    BY DEF Inv
  <2> USE DEF StateOK, At, InPause, LinePoints
  <2>1. CASE Unpause
    BY <2>1 DEF Unpause, Answer
  <2>2. CASE Wrap
    BY <2>2 DEF Wrap
  <2>3. CASE NextLine
    BY <2>3 DEF NextLine
  <2>4. CASE Grant
    BY <2>4 DEF Grant
  <2>5. CASE AcquireRequest
    BY <2>5 DEF AcquireRequest
  <2>6. CASE Report
    BY <2>6 DEF Report
  <2>7. CASE BeginStmt
    BY <2>7 DEF BeginStmt
  <2>8. CASE EndLine
    BY <2>8 DEF EndLine
  <2>9. CASE Changed
    BY <2>9 DEF Changed
  <2>10. CASE StepHandlerReturns
    BY <2>10 DEF StepHandlerReturns
  <2>11. CASE BreakCheck
    BY <2>11 DEF BreakCheck
  <2>12. CASE BreakHandlerReturns
    BY <2>12 DEF BreakHandlerReturns
  <2>13. CASE Receive
    BY <2>13 DEF Receive, Answer
  <2>14. CASE Exec
    BY <2>14 DEF Exec
  <2>15. CASE Failed
    BY <2>15 DEF Failed
  <2>16. CASE ErrorHandlerReturns
    BY <2>16 DEF ErrorHandlerReturns
  <2>17. CASE AfterLine
    BY <2>17 DEF AfterLine
  <2>18. CASE FinishHandlerReturns
    BY <2>18 DEF FinishHandlerReturns
  <2>19. CASE Close
    BY <2>19 DEF Close
  <2>20. ASSUME NEW c \in Clients, NEW r \in Requests, Request(c, r)
         PROVE  [Frozen]_vars
    BY <2>20 DEF Request, outside
  <2>21. ASSUME NEW l \in setup.toggled, ToggleBreakpoint(l)
         PROVE  [Frozen]_vars
    BY <2>21 DEF ToggleBreakpoint
  <2>22. CASE UNCHANGED vars
    BY <2>22 DEF vars
  <2>23. CASE Wake
    BY <2>23 DEF Wake
  <2>24. CASE AcquireAnswer
    BY <2>24 DEF AcquireAnswer, Answer
  <2>. QED
    BY <2>1, <2>2, <2>3, <2>4, <2>5, <2>6, <2>7, <2>8,
       <2>9, <2>10, <2>11, <2>12, <2>13, <2>14, <2>15, <2>16,
       <2>17, <2>18, <2>19, <2>20, <2>21, <2>22, <2>23, <2>24 DEF Next, Worker, Environment
<1> QED
  BY <1>1, Invariance, PTL DEF Spec, Obeys
-----------------------------------------------------------------------------
(* What the coordinator sees of a step that answers a request.             *)
LEMMA AnswerLifecycle ==
  ASSUME Shape, NEW next, Answer(taken', next), UNCHANGED turn,
         \/ pc = "unpause" /\ next = ret
         \/ pc = "select" /\ next = "acquire"
         \/ pc = "recv" /\ next = "exec"
  PROVE  [LC!Next]_(LC!vars)
<1> DEFINE r == taken'
<1> USE DEF Answer, ChangeState, At, Shape, ControlOK, StateOK, TurnOK, InPause, InLine,
            LinePoints, Phase, LC!vars, LC!Next, LC!Moves
<1>1. CASE r = "terminated"
  BY <1>1 DEF Kill, Holding, LC!Resume, LC!Leave
<1>2. CASE r = "paused"
  BY <1>2 DEF LC!Pause
<1>3. CASE r \notin {"terminated", "paused"}
  BY <1>3 DEF LC!Resume
<1> QED
  BY <1>1, <1>2, <1>3

(* The detailed VM implements what the coordinator is promised.            *)
THEOREM VMKeepsProtocol == Spec => Lifecycle
<1>1. Init => LC!Init
  BY DEF Init, LC!Init, InPause, Phase
<1>2. Inv /\ [Next]_vars => [LC!Next]_(LC!vars)
  <2> SUFFICES ASSUME Shape, [Next]_vars
               PROVE  [LC!Next]_(LC!vars)
    BY DEF Inv, Shape
  <2> USE DEF At, code, counters, outside, history, Shape, ControlOK, StateOK, TurnOK,
              InPause, InLine, LinePoints, Phase, LC!vars, LC!Next, LC!Moves
  <2>1. CASE Unpause
    BY <2>1, AnswerLifecycle DEF Unpause
  <2>2. CASE Wrap
    BY <2>2 DEF Wrap, Finish, LC!Leave
  <2>3. CASE NextLine
    BY <2>3, BeginLineControl DEF NextLine, LC!Arrive
  <2>4. CASE Grant
    BY <2>4, BeginLineControl DEF Grant, LC!Grant
  <2>5. CASE AcquireRequest
    BY <2>5 DEF AcquireRequest, Take
  <2>6. CASE Report
    BY <2>6 DEF Report, LC!Report
  <2>7. CASE BeginStmt
    BY <2>7 DEF BeginStmt
  <2>8. CASE EndLine
    BY <2>8 DEF EndLine, LineEnd
  <2>9. CASE Changed
    BY <2>9 DEF Changed, PauseThen, LC!Pause
  <2>10. CASE StepHandlerReturns
    BY <2>10 DEF StepHandlerReturns, PauseThen, LC!Pause
  <2>11. CASE BreakCheck
    BY <2>11 DEF BreakCheck
  <2>12. CASE BreakHandlerReturns
    BY <2>12 DEF BreakHandlerReturns, PauseThen, LC!Pause
  <2>13. CASE Receive
    <3>1. CASE Take /\ Answer(taken', "exec")
      BY <3>1, <2>13, AnswerLifecycle DEF Receive, Take
    <3>2. CASE ~(Take /\ Answer(taken', "exec"))
      BY <3>2, <2>13 DEF Receive
    <3> QED
      BY <3>1, <3>2
  <2>14. CASE Exec
    BY <2>14 DEF Exec, LineEnd
  <2>15. CASE Failed
    BY <2>15 DEF Failed, LC!Leave
  <2>16. CASE ErrorHandlerReturns
    BY <2>16 DEF ErrorHandlerReturns, PauseThen, LC!Pause
  <2>17. CASE AfterLine
    BY <2>17 DEF AfterLine, Finish, LC!Leave
  <2>18. CASE FinishHandlerReturns
    BY <2>18 DEF FinishHandlerReturns, LC!Leave
  <2>19. CASE Close
    BY <2>19 DEF Close, LC!Close
  <2>20. ASSUME NEW c \in Clients, NEW r \in Requests, Request(c, r)
         PROVE  [LC!Next]_(LC!vars)
    BY <2>20 DEF Request
  <2>21. ASSUME NEW l \in setup.toggled, ToggleBreakpoint(l)
         PROVE  [LC!Next]_(LC!vars)
    BY <2>21 DEF ToggleBreakpoint
  <2>22. CASE UNCHANGED vars
    BY <2>22 DEF vars
  <2>23. CASE Wake
    BY <2>23 DEF Wake, Take
  <2>24. CASE AcquireAnswer
    BY <2>24, AnswerLifecycle DEF AcquireAnswer
  <2>. QED
    BY <2>1, <2>2, <2>3, <2>4, <2>5, <2>6, <2>7, <2>8,
       <2>9, <2>10, <2>11, <2>12, <2>13, <2>14, <2>15, <2>16,
       <2>17, <2>18, <2>19, <2>20, <2>21, <2>22, <2>23, <2>24 DEF Next, Worker, Environment
<1> QED
  BY <1>1, <1>2, Invariance, PTL DEF Spec, Lifecycle, LC!Spec
-----------------------------------------------------------------------------
(***************************************************************************)
(* Source lines.  From the moment a line is noticed until its statement    *)
(* runs, srcLine is the line of that statement and jumped is taken back    *)
(* (LineOK).  Nothing of another line has run since the request that made  *)
(* the VM step, unless the change of line is about to pause it (StepOK).   *)
(* The breakpoint-handler was called for the line, or is about to be, or   *)
(* the VM ends (BreakOK).                                                  *)
(***************************************************************************)
AtHead == pc \in LinePoints \ {"stmt"} \/ (InPause /\ ret \in LinePoints)
LineOK ==
  AtHead => /\ pc # "exec" => srcLine = NextSource
            /\ (path # <<>> /\ Head(path).src # 0) => srcLine = Head(path).src /\ ~jumped

StepOK == state = "stepping" /\ pc \notin {"changed", "step"} => stepLine \in {0, srcLine, -1}

Checking == pc \in {"changed", "step", "bpcheck"} \/ (InPause /\ ret = "bpcheck")
BreakOK ==
  /\ broke = "start" => srcLine = 1
  /\ ("breakpoint" \in Handlers /\ setup.toggled = {} /\ srcLine \in breakpoints) =>
       broke \in {"start", "yes"} \/ Checking \/ state = "terminated"

VisitOK == LineOK /\ StepOK /\ BreakOK

(* A new VM has not begun a line.                                          *)
LEMMA InitVisit == Init => VisitOK
BY DEF Init, VisitOK, LineOK, AtHead, InPause, LinePoints, StepOK, BreakOK

(* Answering a request resets what a step may run and leaves the line      *)
(* alone.                                                                  *)
LEMMA AnswerVisit ==
  ASSUME Inv, VisitOK, NEW next, Answer(taken', next), UNCHANGED breakpoints,
         \/ pc = "unpause" /\ next = ret
         \/ pc = "select" /\ next = "acquire"
         \/ pc = "recv" /\ next = "exec"
  PROVE  VisitOK'
<1> DEFINE r == taken'
<1> USE DEF Answer, ChangeState, At, InPause, LinePoints, VisitOK, LineOK, AtHead, StepOK, BreakOK,
            Checking, NextSource, Lines, Handlers, code, Inv, ControlOK, StateOK
<1>1. CASE r = "terminated"
  BY <1>1 DEF Kill, Holding
<1>2. CASE r = "paused"
  BY <1>2
<1>3. CASE r \notin {"terminated", "paused"}
  BY <1>3
<1> QED
  BY <1>1, <1>2, <1>3

(* Each step keeps the worker's idea of the source line right.             *)
LEMMA StepVisit == Inv /\ VisitOK /\ [Next]_vars => VisitOK'
<1> SUFFICES ASSUME Inv, VisitOK, [Next]_vars
             PROVE  VisitOK'
  OBVIOUS
<1> USE DEF At, code, counters, outside, history, Inv, ControlOK, StateOK, InPause, LinePoints,
            VisitOK, LineOK, AtHead, StepOK, BreakOK, Checking, NextSource, Lines, Handlers
<1>1. CASE Unpause
  BY <1>1, AnswerVisit DEF Unpause
<1>2. CASE Wrap
  BY <1>2 DEF Wrap, Finish
<1>3. CASE NextLine
  BY <1>3 DEF NextLine, BeginLine
<1>4. CASE Grant
  BY <1>4 DEF Grant, BeginLine
<1>5. CASE AcquireRequest
  BY <1>5 DEF AcquireRequest, Take
<1>6. CASE Report
  BY <1>6 DEF Report
<1>7. CASE BeginStmt
  BY <1>7 DEF BeginStmt, NewSourceLine
<1>8. CASE EndLine
  BY <1>8 DEF EndLine, LineEnd
<1>9. CASE Changed
  BY <1>9 DEF Changed, PauseThen
<1>10. CASE StepHandlerReturns
  <2>1. /\ pc = "step" /\ pc' = "paused" /\ ret' = "bpcheck" /\ state' = "paused"
        /\ UNCHANGED <<setup, astLine, srcLine, jumped, path, breakpoints, stepLine, broke>>
    BY <1>10 DEF StepHandlerReturns, PauseThen
  <2> QED
    BY <2>1
<1>11. CASE BreakCheck
  <2>1. /\ pc = "bpcheck" /\ pc' \in {"brk", "recv"} /\ broke' = IF OnBreakpoint THEN "yes" ELSE "no"
        /\ UNCHANGED <<setup, state, astLine, srcLine, jumped, path, breakpoints, stepLine>>
    BY <1>11 DEF BreakCheck
  <2>2. LineOK' /\ StepOK'
    BY <2>1
  <2>3. BreakOK'
    BY <2>1 DEF OnBreakpoint
  <2> QED
    BY <2>2, <2>3
<1>12. CASE BreakHandlerReturns
  BY <1>12 DEF BreakHandlerReturns, PauseThen
<1>13. CASE Receive
  <2>1. CASE Take /\ Answer(taken', "exec")
    BY <2>1, <1>13, AnswerVisit DEF Receive, Take
  <2>2. CASE ~(Take /\ Answer(taken', "exec"))
    BY <2>2, <1>13 DEF Receive
  <2> QED
    BY <2>1, <2>2
<1>14. CASE Exec
  BY <1>14 DEF Exec, LineEnd
<1>15. CASE Failed
  BY <1>15 DEF Failed
<1>16. CASE ErrorHandlerReturns
  BY <1>16 DEF ErrorHandlerReturns, PauseThen
<1>17. CASE AfterLine
  BY <1>17 DEF AfterLine, Finish
<1>18. CASE FinishHandlerReturns
  BY <1>18 DEF FinishHandlerReturns
<1>19. CASE Close
  BY <1>19 DEF Close
<1>20. ASSUME NEW c \in Clients, NEW r \in Requests, Request(c, r)
       PROVE  VisitOK'
  BY <1>20 DEF Request
<1>21. ASSUME NEW l \in setup.toggled, ToggleBreakpoint(l)
       PROVE  VisitOK'
  BY <1>21 DEF ToggleBreakpoint
<1>22. CASE UNCHANGED vars
  BY <1>22 DEF vars
<1>23. CASE Wake
  BY <1>23 DEF Wake, Take
<1>24. CASE AcquireAnswer
  BY <1>24, AnswerVisit DEF AcquireAnswer
<1>. QED
  BY <1>1, <1>2, <1>3, <1>4, <1>5, <1>6, <1>7, <1>8,
     <1>9, <1>10, <1>11, <1>12, <1>13, <1>14, <1>15, <1>16,
     <1>17, <1>18, <1>19, <1>20, <1>21, <1>22, <1>23, <1>24 DEF Next, Worker, Environment

(* In every state.                                                         *)
LEMMA VisitInvariance == Spec => [](Inv /\ VisitOK)
BY InitVisit, StepVisit, Invariance, PTL DEF Spec

(***************************************************************************)
(* Starting over.  Past the last line either a goto is pending or the      *)
(* worker's source line is one of the last line (EndOK: it is on the last  *)
(* line as well, unless its first statement is still to be looked at), so  *)
(* that the first line is noticed as another one: a Step that was answered *)
(* before is over when the first statement runs (FreshOK).                 *)
(***************************************************************************)
FirstSources == Sources(1) \ {0}
LastLine     == Len(Lines)
LastSources  == Sources(LastLine) \ {0}

(* In runLine or just after it.                                            *)
AtLine ==
  \/ pc \in LinePoints \union {"failed", "err", "after"}
  \/ pc \in {"paused", "unpause", "report"} /\ ret \in LinePoints \union {"failed", "after"}

InBody == pc \in LinePoints \/ (InPause /\ ret \in LinePoints)
PathOK ==
  InBody /\ astLine = LastLine =>
    \A k \in DOMAIN path : path[k].src \in LastSources \union {0}

Entering == pc = "stmt" /\ path # <<>> /\ Head(path).src # 0

EndOK ==
  astLine > LastLine \/ (astLine = LastLine /\ AtLine) =>
    jumped \/ srcLine \in LastSources \/ Entering

FreshOK ==
  state = "stepping" /\ stepLine = -1 =>
    /\ astLine = 1
    /\ jumped \/ srcLine \in LastSources \/ pc \in {"changed", "step"}
    /\ \/ pc \in {"top", "acquire", "select", "changed", "step", "finish", "closing"}
       \/ pc = "stmt" /\ path # <<>> /\ Head(path).src \in FirstSources

WrapOK == BordersDiffer => PathOK /\ EndOK /\ FreshOK

(* The program does not change.                                            *)
LEMMA SetupFixed == [Next]_vars => UNCHANGED setup
BY DEF Next, vars, Worker, Environment, Wake, Unpause, Answer, Wrap, NextLine, Grant, AcquireRequest,
       AcquireAnswer, Report, BeginStmt, EndLine, Changed, StepHandlerReturns, BreakCheck,
       BreakHandlerReturns, Receive, Exec, Failed, ErrorHandlerReturns, AfterLine,
       FinishHandlerReturns, Close, Request, ToggleBreakpoint

(* What a line of a program with different borders begins with.            *)
LEMMA BordersBegin ==
  ASSUME setup \in Setups, BordersDiffer, BeginLine, astLine \in DOMAIN Lines
  PROVE  /\ astLine = 1 => path' = <<>> \/ Head(path').src \in FirstSources
         /\ astLine = LastLine => /\ path' = <<>> \/ Head(path').src # 0
                                  /\ \A k \in DOMAIN path' : path'[k].src \in LastSources \union {0}
                                  /\ path' = <<>> => srcLine' \in LastSources
         /\ path' = <<>> => pc' = "changed"
         /\ path' # <<>> => pc' = "stmt" /\ srcLine' = srcLine
<1>1. PICK run \in Lines[astLine].runs :
        /\ path' = run
        /\ run = <<>> => srcLine' = Lines[astLine].src /\ pc' = "changed"
        /\ run # <<>> => pc' = "stmt" /\ srcLine' = srcLine
  BY DEF BeginLine, At
<1>2. run \in Seq(Stmts) /\ Lines[astLine].src # 0
  <2>1. Lines \in Seq(AstLines)
    BY VMAssumption DEF Setup, Lines
  <2>2. Lines[astLine] \in AstLines
    BY <2>1, ElementOfSeq, LenProperties
  <2> QED
    BY <2>2, <1>1, LinesTyped DEF AstLines
<1>3. /\ Lines[astLine].src \in Sources(astLine)
      /\ \A k \in DOMAIN run : run[k].src \in Sources(astLine)
  BY <1>1 DEF Sources
<1>4. run # <<>> => 1 \in DOMAIN run /\ Head(run) = run[1]
  BY <1>2, HeadTailProperties, EmptySeq, LenProperties
<1>5. astLine \in {1, LastLine} => run = <<>> \/ Head(run).src # 0
  BY <1>1 DEF BordersDiffer, LastLine
<1> QED
  BY <1>1, <1>2, <1>3, <1>4, <1>5 DEF FirstSources, LastSources, LastLine

(* A new VM has not executed anything.                                     *)
LEMMA InitWrap == Init => WrapOK
<1> SUFFICES ASSUME Init, BordersDiffer
             PROVE  PathOK /\ EndOK /\ FreshOK
  BY DEF WrapOK
<1>1. Lines \in Seq(AstLines) /\ Lines # <<>>
  BY VMAssumption DEF Init, Setup, Lines, BordersDiffer
<1>2. LastLine >= 1 /\ LastLine \in Nat
  BY <1>1, EmptySeq, LenProperties DEF LastLine
<1>3. PathOK
  BY DEF Init, PathOK, LinePoints
<1>4. EndOK
  BY <1>2 DEF Init, EndOK, AtLine, LinePoints
<1>5. FreshOK
  BY DEF Init, FreshOK
<1> QED
  BY <1>3, <1>4, <1>5

(* The statements that are left of a line were in it before.               *)
LEMMA TailSources ==
  ASSUME path \in Seq(Stmts), path # <<>>,
         \A k \in DOMAIN path : path[k].src \in LastSources \union {0}
  PROVE  /\ Head(path).src \in LastSources \union {0}
         /\ \A k \in DOMAIN Tail(path) : Tail(path)[k].src \in LastSources \union {0}
<1>1. Len(path) \in Nat /\ Len(path) >= 1 /\ DOMAIN path = 1..Len(path) /\ Head(path) = path[1]
  BY EmptySeq, LenProperties, HeadTailProperties
<1>2. /\ Tail(path) \in Seq(Stmts) /\ Len(Tail(path)) = Len(path) - 1
      /\ \A k \in 1..Len(Tail(path)) : Tail(path)[k] = path[k + 1]
  BY HeadTailProperties
<1>3. DOMAIN Tail(path) = 1..(Len(path) - 1)
  BY <1>2, LenProperties
<1> QED
  BY <1>1, <1>2, <1>3

(* A request that is answered leads nowhere the worker was not heading.    *)
LEMMA AnswerMoves ==
  ASSUME ControlOK, NEW next, Answer(taken', next),
         \/ pc = "unpause" /\ next = ret
         \/ pc = "select" /\ next = "acquire"
         \/ pc = "recv" /\ next = "exec"
  PROVE  /\ stepLine' = 0 /\ UNCHANGED <<astLine, srcLine, jumped, path>>
         /\ ~Entering
         /\ AtLine' => AtLine
         /\ InBody' => InBody
<1> USE DEF Answer, At, code, ControlOK, AtLine, InBody, InPause, LinePoints, Entering
<1>1. CASE taken' = "terminated"
  BY <1>1 DEF ChangeState, Kill, Holding
<1>2. CASE taken' = "paused"
  BY <1>2 DEF ChangeState
<1>3. CASE taken' \notin {"terminated", "paused"}
  BY <1>3 DEF ChangeState
<1> QED
  BY <1>1, <1>2, <1>3

(* Such a move keeps what is known about the line, ...                     *)
LEMMA MoveKeepsEnd ==
  ASSUME PathOK, EndOK, LastSources' = LastSources, LastLine' = LastLine,
         UNCHANGED <<astLine, srcLine, jumped, path>>,
         ~Entering, AtLine' => AtLine, InBody' => InBody
  PROVE  PathOK' /\ EndOK'
BY DEF PathOK, EndOK

(* ... and the beginning of a line establishes it.                         *)
LEMMA BeginKeepsWrap ==
  ASSUME setup \in Setups, BordersDiffer, BeginLine, astLine \in DOMAIN Lines,
         FreshOK, LastSources' = LastSources, FirstSources' = FirstSources,
         LastLine' = LastLine, LastLine \in Nat, astLine \in 1..LastLine,
         UNCHANGED <<state, astLine, jumped, stepLine>>, pc \in {"top", "acquire"},
         0 \notin FirstSources
  PROVE  PathOK' /\ EndOK' /\ FreshOK'
<1>1. /\ astLine = 1 => path' = <<>> \/ Head(path').src \in FirstSources
      /\ astLine = LastLine => /\ path' = <<>> \/ Head(path').src # 0
                               /\ \A k \in DOMAIN path' : path'[k].src \in LastSources \union {0}
                               /\ path' = <<>> => srcLine' \in LastSources
      /\ path' = <<>> => pc' = "changed"
      /\ path' # <<>> => pc' = "stmt" /\ srcLine' = srcLine
  BY BordersBegin
<1>2. PathOK'
  BY <1>1 DEF PathOK
<1>3. EndOK'
  BY <1>1 DEF EndOK, Entering
<1>4. FreshOK'
  BY <1>1 DEF FreshOK
<1> QED
  BY <1>2, <1>3, <1>4

(* Each step keeps what is known about starting over.                      *)
LEMMA StepWrap == Inv /\ VisitOK /\ WrapOK /\ [Next]_vars => WrapOK'
<1> SUFFICES ASSUME Inv, VisitOK, WrapOK, [Next]_vars, BordersDiffer'
             PROVE  PathOK' /\ EndOK' /\ FreshOK'
  BY DEF WrapOK
<1>0. UNCHANGED setup
  BY SetupFixed
<1>a. /\ BordersDiffer
      /\ FirstSources' = FirstSources /\ LastSources' = LastSources
      /\ LastLine' = LastLine /\ DOMAIN Lines' = DOMAIN Lines
  BY <1>0 DEF BordersDiffer, FirstSources, LastSources, LastLine, Sources, Lines
<1>b. /\ LastLine \in Nat /\ DOMAIN Lines = 1..LastLine
      /\ Lines # <<>> /\ LastLine >= 1
  <2>1. setup \in Setups
    BY DEF Inv, TypeOK
  <2>2. Lines \in Seq(AstLines) /\ Lines # <<>>
    BY <2>1, <1>a, VMAssumption DEF Setup, Lines, BordersDiffer
  <2> QED
    BY <2>2, EmptySeq, LenProperties DEF LastLine
<1>c. PathOK /\ EndOK /\ FreshOK
  BY <1>a DEF WrapOK
<1>d. /\ setup \in Setups /\ astLine \in Nat /\ srcLine \in Nat /\ path \in Seq(Stmts)
      /\ jumped \in BOOLEAN
  BY DEF Inv, TypeOK
<1>e. ControlOK /\ IndexOK /\ StateOK
  BY DEF Inv
<1>f. FirstSources \intersect LastSources = {} /\ 0 \notin FirstSources \union LastSources
  BY <1>a DEF BordersDiffer, FirstSources, LastSources, LastLine
<1> USE <1>a, <1>b, <1>c, <1>d, <1>e
        DEF At, code, counters, outside, history, InPause, LinePoints, ControlOK, StateOK,
            PathOK, EndOK, FreshOK, AtLine, InBody, Entering
<1> HIDE DEF BordersDiffer, FirstSources, LastSources, LastLine, Lines
<1>1. CASE Unpause
  <2>1. /\ stepLine' = 0 /\ UNCHANGED <<astLine, srcLine, jumped, path>>
        /\ ~Entering
        /\ AtLine' => AtLine
        /\ InBody' => InBody
    BY <1>1, AnswerMoves DEF Unpause
  <2> HIDE DEF PathOK, EndOK, AtLine, InBody, Entering, StateOK, ControlOK
  <2>2. PathOK' /\ EndOK'
    BY <2>1, MoveKeepsEnd
  <2>3. FreshOK'
    BY <2>1
  <2> QED
    BY <2>2, <2>3
<1>2. CASE Wrap
  <2>1. /\ pc = "top" /\ astLine > LastLine /\ astLine' = 1
        /\ pc' \in {"top", "finish", "closing"} /\ ret' = "none"
        /\ UNCHANGED <<state, srcLine, jumped, path>>
    BY <1>2 DEF Wrap, PastEnd, LastLine, Finish
  <2> QED
    BY <2>1
<1>3. CASE NextLine
  <2>1. pc = "top" /\ astLine \in DOMAIN Lines /\ UNCHANGED <<state, astLine, jumped, stepLine>>
    BY <1>3 DEF NextLine, PastEnd, IndexOK
  <2>2. CASE Coordinated
    BY <2>1, <2>2, <1>3 DEF NextLine
  <2>3. CASE BeginLine
    <3> HIDE DEF PathOK, EndOK, FreshOK, AtLine, InBody, Entering, StateOK, ControlOK
    <3> QED
      BY <2>1, <2>3, <1>f, BeginKeepsWrap
  <2> QED
    BY <2>2, <2>3, <1>3 DEF NextLine
<1>4. CASE Grant
  <2>1. /\ pc = "acquire" /\ astLine \in DOMAIN Lines /\ BeginLine
        /\ UNCHANGED <<state, astLine, jumped, stepLine>>
    BY <1>4 DEF Grant, IndexOK
  <2> HIDE DEF PathOK, EndOK, FreshOK, AtLine, InBody, Entering, StateOK, ControlOK
  <2> QED
    BY <2>1, <1>f, BeginKeepsWrap
<1>5. CASE AcquireRequest
  BY <1>5 DEF AcquireRequest
<1>6. CASE Report
  BY <1>6 DEF Report
<1>7. CASE BeginStmt
  <2>1. /\ pc = "stmt" /\ path # <<>> /\ ret' = "none"
        /\ UNCHANGED <<state, astLine, path, stepLine>>
    BY <1>7 DEF BeginStmt
  <2>2. astLine = LastLine => Head(path).src \in LastSources \union {0}
    BY <2>1, TailSources
  <2>3. CASE NewSourceLine(Head(path))
    <3>1. pc' = "changed" /\ srcLine' = Head(path).src /\ Head(path).src # 0
      BY <2>3, <1>7 DEF BeginStmt, NewSourceLine
    <3>2. astLine \in 1..LastLine
      BY <2>1 DEF IndexOK
    <3>3. PathOK'
      BY <2>1, <3>1
    <3>4. EndOK'
      <4>1. astLine' = LastLine' => srcLine' \in LastSources'
        BY <2>1, <2>2, <3>1
      <4>2. ~(astLine' > LastLine')
        BY <2>1, <3>2
      <4> HIDE DEF StateOK, ControlOK, PathOK, FreshOK, AtLine, InBody, Entering
      <4> QED
        BY <4>1, <4>2
    <3>5. FreshOK'
      BY <2>1, <3>1
    <3> QED
      BY <3>3, <3>4, <3>5
  <2>4. CASE ~NewSourceLine(Head(path))
    <3>1. /\ pc' = "exec" /\ UNCHANGED <<jumped, srcLine>>
          /\ Head(path).src = 0 \/ (Head(path).src = srcLine /\ ~jumped)
      BY <2>4, <1>7 DEF BeginStmt, NewSourceLine
    <3>2. ~(state = "stepping" /\ stepLine = -1)
      BY <2>1, <3>1, <1>f
    <3>3. PathOK' /\ FreshOK'
      BY <2>1, <3>1, <3>2
    <3>4. EndOK'
      <4>1. astLine \in DOMAIN Lines
        BY <2>1 DEF IndexOK
      <4>2. CASE Head(path).src = 0
        BY <2>1, <3>1, <4>1, <4>2
      <4>3. CASE Head(path).src # 0
        <5>1. astLine = LastLine => srcLine \in LastSources
          BY <2>2, <3>1, <4>3
        <5>2. ~(astLine' > LastLine') /\ (astLine' = LastLine' => astLine = LastLine)
          BY <2>1, <4>1
        <5> HIDE DEF StateOK, ControlOK, PathOK, FreshOK, AtLine, InBody, Entering
        <5> QED
          BY <2>1, <3>1, <5>1, <5>2
      <4> QED
        BY <4>2, <4>3
    <3> QED
      BY <3>3, <3>4
  <2> QED
    BY <2>3, <2>4
<1>8. CASE EndLine
  BY <1>8 DEF EndLine, LineEnd
<1>9. CASE Changed
  BY <1>9 DEF Changed, PauseThen
<1>10. CASE StepHandlerReturns
  BY <1>10 DEF StepHandlerReturns, PauseThen
<1>11. CASE BreakCheck
  BY <1>11 DEF BreakCheck
<1>12. CASE BreakHandlerReturns
  BY <1>12 DEF BreakHandlerReturns, PauseThen
<1>13. CASE Receive
  <2>1. CASE Take /\ Answer(taken', "exec")
    <3>1. /\ stepLine' = 0 /\ UNCHANGED <<astLine, srcLine, jumped, path>>
          /\ ~Entering
          /\ AtLine' => AtLine
          /\ InBody' => InBody
      BY <2>1, <1>13, AnswerMoves DEF Receive
    <3> HIDE DEF PathOK, EndOK, AtLine, InBody, Entering, StateOK, ControlOK
    <3>2. PathOK' /\ EndOK'
      BY <3>1, MoveKeepsEnd
    <3>3. FreshOK'
      BY <3>1
    <3> QED
      BY <3>2, <3>3
  <2>2. CASE ~(Take /\ Answer(taken', "exec"))
    BY <2>2, <1>13 DEF Receive
  <2> QED
    BY <2>1, <2>2
<1>14. CASE Exec
  <2>1. pc = "exec" /\ path # <<>> /\ UNCHANGED <<state, srcLine>>
    BY <1>14 DEF Exec
  <2>2. astLine \in DOMAIN Lines
    BY <2>1 DEF IndexOK
  <2>3. Head(path) \in Stmts
    BY <2>1, HeadTailProperties
  <2>8. Head(path).src \in Nat
    BY <2>3 DEF Stmts
  <2>9. stepLine' \in {stepLine, Head(path).src}
    BY <1>14 DEF Exec
  <2>4. ~(state' = "stepping" /\ stepLine' = -1)
    <3>1. ~(state = "stepping" /\ stepLine = -1)
      BY <2>1
    <3> HIDE DEF StateOK, ControlOK, PathOK, EndOK, FreshOK, AtLine, InBody, Entering
    <3> QED
      BY <3>1, <2>1, <2>8, <2>9
  <2>5. CASE Head(path).op = "do"
    <3>1. pc' = "stmt" /\ ret' = "none" /\ path' = Tail(path) /\ UNCHANGED <<astLine, jumped>>
      BY <2>5, <1>14 DEF Exec
    <3>2. PathOK'
      BY <2>1, <3>1, TailSources
    <3>3. EndOK' /\ FreshOK'
      BY <2>1, <2>2, <2>4, <3>1
    <3> QED
      BY <3>2, <3>3
  <2>6. CASE Head(path).op = "goto"
    <3>1. jumped' = TRUE /\ path' = <<>> /\ pc' \in {"report", "after"} /\ ret' \in {"none", "after"}
      BY <2>6, <1>14 DEF Exec, LineEnd
    <3> QED
      BY <2>4, <3>1
  <2>7. CASE Head(path).op = "fail"
    <3>1. /\ path' = <<>> /\ pc' \in {"report", "failed"} /\ ret' \in {"none", "failed"}
          /\ UNCHANGED <<astLine, jumped>>
      BY <2>7, <1>14 DEF Exec, LineEnd
    <3> QED
      BY <2>1, <2>2, <2>4, <3>1
  <2> QED
    BY <2>5, <2>6, <2>7, <1>14 DEF Exec
<1>15. CASE Failed
  BY <1>15 DEF Failed
<1>16. CASE ErrorHandlerReturns
  BY <1>16 DEF ErrorHandlerReturns, PauseThen
<1>17. CASE AfterLine
  <2>1. /\ pc = "after" /\ ret' = "none"
        /\ UNCHANGED <<state, srcLine, jumped, path, stepLine>>
        /\ \/ pc' = "top" /\ astLine' = astLine + 1
           \/ pc' \in {"finish", "closing"} /\ astLine' = astLine
    BY <1>17 DEF AfterLine, Finish
  <2>2. PathOK' /\ ~AtLine'
    BY <2>1
  <2>3. EndOK'
    <3>1. astLine' > LastLine' => astLine >= LastLine
      BY <2>1
    <3>2. AtLine /\ ~Entering
      BY <2>1
    <3> HIDE DEF StateOK, ControlOK, PathOK, FreshOK, AtLine, InBody, Entering
    <3> QED
      BY <2>1, <2>2, <3>1, <3>2
  <2>4. FreshOK'
    BY <2>1
  <2> QED
    BY <2>2, <2>3, <2>4
<1>18. CASE FinishHandlerReturns
  BY <1>18 DEF FinishHandlerReturns
<1>19. CASE Close
  BY <1>19 DEF Close
<1>20. ASSUME NEW c \in Clients, NEW r \in Requests, Request(c, r)
       PROVE  PathOK' /\ EndOK' /\ FreshOK'
  BY <1>20 DEF Request
<1>21. ASSUME NEW l \in setup.toggled, ToggleBreakpoint(l)
       PROVE  PathOK' /\ EndOK' /\ FreshOK'
  BY <1>21 DEF ToggleBreakpoint
<1>22. CASE UNCHANGED vars
  BY <1>22 DEF vars
<1>23. CASE Wake
  BY <1>23 DEF Wake
<1>24. CASE AcquireAnswer
  <2>1. /\ stepLine' = 0 /\ UNCHANGED <<astLine, srcLine, jumped, path>>
        /\ ~Entering
        /\ AtLine' => AtLine
        /\ InBody' => InBody
    BY <1>24, AnswerMoves DEF AcquireAnswer
  <2> HIDE DEF PathOK, EndOK, AtLine, InBody, Entering, StateOK, ControlOK
  <2>2. PathOK' /\ EndOK'
    BY <2>1, MoveKeepsEnd
  <2>3. FreshOK'
    BY <2>1
  <2> QED
    BY <2>2, <2>3
<1>. QED
  BY <1>1, <1>2, <1>3, <1>4, <1>5, <1>6, <1>7, <1>8,
     <1>9, <1>10, <1>11, <1>12, <1>13, <1>14, <1>15, <1>16,
     <1>17, <1>18, <1>19, <1>20, <1>21, <1>22, <1>23, <1>24 DEF Next, Worker, Environment

(* In every state.                                                         *)
LEMMA WrapInvariance == Spec => []WrapOK
BY InitWrap, StepWrap, VisitInvariance, PTL DEF Spec

(* A Step lets one source line run, whatever way the program takes, and    *)
(* once, unless the program starts over unnoticed.                         *)
THEOREM StepsOneLine == Spec => []StepStops
<1>1. Inv /\ VisitOK /\ WrapOK => StepStops
  <2> SUFFICES ASSUME Inv, VisitOK, WrapOK, pc = "exec", path # <<>>, state = "stepping",
                      Head(path).src # 0
               PROVE  /\ stepLine \in {0, Head(path).src} \/ (stepLine = -1 /\ ~BordersDiffer)
                      /\ ~jumped
    BY DEF StepStops
  <2>1. srcLine = Head(path).src /\ ~jumped /\ stepLine \in {0, srcLine, -1}
    BY DEF VisitOK, LineOK, AtHead, LinePoints, StepOK
  <2>2. BordersDiffer => stepLine # -1
    BY DEF WrapOK, FreshOK
  <2> QED
    BY <2>1, <2>2
<1> QED
  BY <1>1, VisitInvariance, WrapInvariance, PTL

(* No statement on a line with a breakpoint escapes the handler.           *)
THEOREM BreakpointsFire == Spec => []BreakpointFires
<1>1. Inv /\ VisitOK => BreakpointFires
  BY DEF VisitOK, LineOK, AtHead, InPause, LinePoints, BreakOK, Checking, BreakpointFires, Inv, StateOK
<1> QED
  BY <1>1, VisitInvariance, PTL

(* The line a debugger is shown is the one that runs next.                 *)
THEOREM LineIsNext == Spec => []CurrentLineIsNext
<1>1. Inv /\ VisitOK => CurrentLineIsNext
  BY DEF VisitOK, LineOK, AtHead, InPause, LinePoints, CurrentLineIsNext
<1> QED
  BY <1>1, VisitInvariance, PTL
=============================================================================
