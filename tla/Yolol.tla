--------------------------------- MODULE Yolol ---------------------------------
(***************************************************************************)
(* YOLOL programs and what they mean.  The nodes of pkg/parser/ast as      *)
(* records, without their positions: k names the kind, kids holds the      *)
(* children.  A program is run as pkg/vm runs it alone: operators with     *)
(* their types and errors, side effects inside expressions, jumps.         *)
(*                                                                         *)
(* Numbers are integers: the programs of the checks divide without         *)
(* remainder and raise to natural powers only; sqrt and the trigonometric  *)
(* operators are left out.                                                 *)
(***************************************************************************)
EXTENDS Integers, Sequences, SequencesExt, FiniteSetsExt, TLC

(* op of every element; TLC computes what \o has taken once and for all.     *)
Each(s, op(_)) == <<>> \o [j \in DOMAIN s |-> op(s[j])]
Indices(s) == [j \in DOMAIN s |-> j]

Num(n) == [k |-> "num", n |-> n, kids |-> <<>>]
Str(s) == [k |-> "str", s |-> s, kids |-> <<>>]
(* x, ++x (prepost "Pre"), x++ (prepost "Post"), and the same with --.     *)
Deref(x, op, prepost) ==
  [k |-> "var", name |-> x, op |-> op, prepost |-> prepost, kids |-> <<>>]
Var(x) == Deref(x, "", "")
Un(op, e) == [k |-> "un", op |-> op, kids |-> <<e>>]
Bin(op, l, r) == [k |-> "bin", op |-> op, kids |-> <<l, r>>]

Assign(x, op, e) == [k |-> "assign", name |-> x, op |-> op, kids |-> <<e>>]
Goto(e) == [k |-> "goto", kids |-> <<e>>]
(* A list of statements is not a node of its own in the code.              *)
List(stmts) == [k |-> "list", kids |-> stmts]
If(c, then) == [k |-> "if", kids |-> <<c, List(then)>>]
IfElse(c, then, else) == [k |-> "if", kids |-> <<c, List(then), List(else)>>]

Line(stmts, comment) == [k |-> "line", comment |-> comment, kids |-> stmts]
Program(lines) == [k |-> "program", kids |-> lines]

(***************************************************************************)
(* Values and operators.  An operator may fail, or panic and so end the    *)
(* process.                                                                *)
(***************************************************************************)
N(n) == [t |-> "num", n |-> n]
S(s) == [t |-> "str", s |-> s]
Error == [t |-> "error"]
Panic == [t |-> "panic"]
IsNumber(v) == v.t = "num"
IsString(v) == v.t = "str"
Fails(v) == v.t \in {"error", "panic"}

Itoa(v) == IF IsNumber(v) THEN ToString(v.n) ELSE ""
Truth(b) == N(IF b THEN 1 ELSE 0)
Abs(n) == IF n < 0 THEN -n ELSE n

RunUnaryOperation(arg, op) ==
  IF ~IsNumber(arg) THEN Error
  ELSE CASE op = "-"   -> N(-arg.n)
         [] op = "not" -> Truth(arg.n = 0)
         [] op = "abs" -> N(Abs(arg.n))
         [] OTHER      -> Error

Power[b \in Int, e \in Nat] == IF e = 0 THEN 1 ELSE b * Power[b, e - 1]
(* Go's remainder and quotient have the sign of the dividend.              *)
Quotient(a, b) == (IF (a < 0) = (b < 0) THEN 1 ELSE -1) * (Abs(a) \div Abs(b))
Remainder(a, b) == a - b * Quotient(a, b)

OfNumbers(a, b, op) ==
  CASE op = "+" -> N(a + b)
    [] op = "-" -> N(a - b)
    [] op = "*" -> N(a * b)
    [] op = "/" -> IF b = 0 THEN Error ELSE N(Quotient(a, b))
    [] op = "%" -> IF b = 0 THEN Panic ELSE N(Remainder(a, b))
    [] op = "^" -> IF a = 0 /\ b < 0 THEN Panic ELSE N(Power[a, b])
    [] op = "==" -> Truth(a = b)
    [] op = "!=" -> Truth(a # b)
    [] op = ">=" -> Truth(a >= b)
    [] op = "<=" -> Truth(a <= b)
    [] op = ">"  -> Truth(a > b)
    [] op = "<"  -> Truth(a < b)
    [] op = "and" -> Truth(a # 0 /\ b # 0)
    [] op = "or"  -> Truth(a # 0 \/ b # 0)
    [] OTHER -> Error

(* Subtraction takes the last occurrence of the second string out.         *)
Without(s, t) ==
  LET at == {i \in 0..(Len(s) - Len(t)) : SubSeq(s, i + 1, i + Len(t)) = t}
  IN IF at = {} THEN s
     ELSE SubSeq(s, 1, Max(at)) \o SubSeq(s, Max(at) + Len(t) + 1, Len(s))

OfStrings(s, t, op) ==
  CASE op = "+"  -> S(s \o t)
    [] op = "-"  -> S(Without(s, t))
    [] op = "==" -> Truth(s = t)
    [] op = "!=" -> Truth(s # t)
    [] OTHER -> Error

AsString(v) == IF IsString(v) THEN v.s ELSE Itoa(v)

(* With a string on either side both operands are taken as strings.        *)
RunBinaryOperation(l, r, op) ==
  IF IsNumber(l) /\ IsNumber(r) THEN OfNumbers(l.n, r.n, op)
  ELSE OfStrings(AsString(l), AsString(r), op)

(***************************************************************************)
(* A run.  m is the machine: its variables, the line it is at and how it   *)
(* goes on: "run", "jumped" (the rest of the line is skipped), "error" or  *)
(* "panic".  Names of variables are case-insensitive.                      *)
(***************************************************************************)
LowerOf == [X |-> "x", Y |-> "y", Lim |-> "lim"]
ToLower(x) == IF x \in DOMAIN LowerOf THEN LowerOf[x] ELSE x

Machine(env) == [env |-> env, line |-> 1, how |-> "run"]
GetVariable(m, x) ==
  IF ToLower(x) \in DOMAIN m.env THEN m.env[ToLower(x)] ELSE N(0)
SetVariable(m, x, v) == [m EXCEPT !.env = (ToLower(x) :> v) @@ @]

(* What x++ and x-- make of a value.                                       *)
Stepped(v, op) ==
  CASE IsNumber(v) -> N(IF op = "++" THEN v.n + 1 ELSE v.n - 1)
    [] op = "++"   -> S(v.s \o " ")
    [] v.s = ""    -> Error
    [] OTHER       -> S(SubSeq(v.s, 1, Len(v.s) - 1))

RunDeref(d, m) ==
  LET old == GetVariable(m, d.name)
      new == Stepped(old, d.op)
  IN CASE d.op = ""  -> [val |-> old, m |-> m]
       [] Fails(new) -> [val |-> new, m |-> m]
       [] OTHER      -> [val |-> IF d.prepost = "Pre" THEN new ELSE old,
                         m |-> SetVariable(m, d.name, new)]

RECURSIVE RunExpr(_, _)
RunExpr(e, m) ==
  CASE e.k = "num" -> [val |-> N(e.n), m |-> m]
    [] e.k = "str" -> [val |-> S(e.s), m |-> m]
    [] e.k = "var" -> RunDeref(e, m)
    [] e.k = "un"  ->
         LET arg == RunExpr(e.kids[1], m)
         IN IF Fails(arg.val) THEN arg
            ELSE [arg EXCEPT !.val = RunUnaryOperation(@, e.op)]
    [] e.k = "bin" ->
         LET l == RunExpr(e.kids[1], m)
             r == RunExpr(e.kids[2], l.m)
         IN IF Fails(l.val) THEN l ELSE IF Fails(r.val) THEN r
            ELSE [r EXCEPT !.val = RunBinaryOperation(l.val, @, e.op)]

OperatorOf(op) ==
  CASE op = "+=" -> "+" [] op = "-=" -> "-" [] op = "*=" -> "*"
    [] op = "/=" -> "/" [] op = "%=" -> "%"

Stopped(r) == [r.m EXCEPT !.how = r.val.t]

RunAssignment(s, m) ==
  LET new == IF s.op = "=" THEN s.kids[1]
             ELSE Bin(OperatorOf(s.op), Var(s.name), s.kids[1])
      r   == RunExpr(new, m)
  IN IF Fails(r.val) THEN Stopped(r) ELSE SetVariable(r.m, s.name, r.val)

RunGoto(s, m) ==
  LET r  == RunExpr(s.kids[1], m)
      to == IF r.val.n < 1 THEN 1 ELSE IF r.val.n > 20 THEN 20 ELSE r.val.n
  IN CASE Fails(r.val)    -> Stopped(r)
       [] IsString(r.val) -> [r.m EXCEPT !.how = "error"]
       [] OTHER           -> [r.m EXCEPT !.how = "jumped", !.line = to]

RECURSIVE RunStmts(_, _)
RunStmt(s, m) ==
  CASE s.k = "assign" -> RunAssignment(s, m)
    [] s.k = "goto"   -> RunGoto(s, m)
    [] s.k = "var"    -> LET r == RunDeref(s, m)
                         IN IF Fails(r.val) THEN Stopped(r) ELSE r.m
    [] s.k = "if"     ->
         LET r == RunExpr(s.kids[1], m)
         IN CASE Fails(r.val)       -> Stopped(r)
              [] IsString(r.val)    -> [r.m EXCEPT !.how = "error"]
              [] r.val.n # 0        -> RunStmts(s.kids[2].kids, r.m)
              [] Len(s.kids) = 3    -> RunStmts(s.kids[3].kids, r.m)
              [] OTHER              -> r.m

RunStmts(stmts, m) ==
  IF stmts = <<>> \/ m.how # "run" THEN m
  ELSE RunStmts(Tail(stmts), RunStmt(Head(stmts), m))

RunLine(line, m) ==
  LET r == RunStmts(line.kids, m)
  IN CASE r.how = "jumped" -> [r EXCEPT !.how = "run"]
       [] r.how = "run"    -> [r EXCEPT !.line = @ + 1]
       [] OTHER            -> r

(* One pass over the program, which is cut off after fuel lines.           *)
RECURSIVE RunLines(_, _, _)
RunLines(program, m, fuel) ==
  CASE m.how # "run"               -> m
    [] m.line > Len(program.kids)  -> [m EXCEPT !.how = "ended"]
    [] fuel = 0                    -> [m EXCEPT !.how = "runs on"]
    [] OTHER -> RunLines(program, RunLine(program.kids[m.line], m), fuel - 1)

Run(program, env, fuel) == RunLines(program, Machine(env), fuel)
================================================================================
