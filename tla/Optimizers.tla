------------------------------ MODULE Optimizers -------------------------------
(***************************************************************************)
(* pkg/optimizers: the four passes yodk optimize makes over a YOLOL        *)
(* program, and which the NOLOL compiler uses in part.                     *)
(***************************************************************************)
EXTENDS Yolol

Keep(node, st) == [act |-> "keep", node |-> node, with |-> <<>>, st |-> st]
ReplaceBy(node, st) == [act |-> "visit", node |-> [k |-> "gone"], with |-> <<node>>, st |-> st]
SkipTo(node, st) == [ReplaceBy(node, st) EXCEPT !.act = "skip"]

NoState == [err |-> ""]

(***************************************************************************)
(* StaticExpressionOptimizer: operators on constants are computed, with    *)
(* the operators of the VM.  What fails is left as it is.                  *)
(***************************************************************************)
IsConstant(e) == e.k \in {"num", "str"}
ConstToVar(e) == IF e.k = "num" THEN N(e.n) ELSE S(e.s)
VarToConst(v) == IF IsNumber(v) THEN Num(v.n) ELSE Str(v.s)

Computed(e) == IF e.k = "un" THEN RunUnaryOperation(ConstToVar(e.kids[1]), e.op)
               ELSE RunBinaryOperation(ConstToVar(e.kids[1]), ConstToVar(e.kids[2]), e.op)
IsStatic(e) == /\ e.k \in {"un", "bin"} /\ \A j \in DOMAIN e.kids : IsConstant(e.kids[j])
               /\ Computed(e).t # "error"

StaticVisit(node, when, st) ==
  CASE ~(when = "post" /\ IsStatic(node)) -> Keep(node, st)
    [] Computed(node).t = "panic" -> Keep(node, [st EXCEPT !.err = "panic"])
    [] OTHER                      -> SkipTo(VarToConst(Computed(node)), st)

(***************************************************************************)
(* ExpressionInversionOptimizer: a negation is pushed into comparisons,    *)
(* "and" and "or"; what cannot take it gives it back.                      *)
(***************************************************************************)
Inversions_Loose == [op \in {">=", "<=", "<", ">", "==", "!="} |->
  CASE op = ">=" -> "<=" [] op = "<=" -> ">=" [] op = "<" -> ">"
    [] op = ">" -> "<" [] op = "==" -> "!=" [] op = "!=" -> "=="]
Inversions == [op \in {">=", "<=", "<", ">", "==", "!="} |->
  CASE op = ">=" -> "<" [] op = "<=" -> ">" [] op = "<" -> ">="
    [] op = ">" -> "<=" [] op = "==" -> "!=" [] op = "!=" -> "=="]
AndOr == [op \in {"and", "or"} |-> IF op = "and" THEN "or" ELSE "and"]

IsNot(e) == e.k = "un" /\ e.op = "not"
IsOf(e, operators) == e.k = "bin" /\ e.op \in operators

CanPushDown(e) ==
  IsNot(e) /\ (IsNot(e.kids[1]) \/ IsOf(e.kids[1], DOMAIN Inversions \union DOMAIN AndOr))
PushDownNots(e) ==
  LET inner == e.kids[1]
  IN CASE IsNot(inner)                     -> inner.kids[1]
       [] IsOf(inner, DOMAIN Inversions)   -> [inner EXCEPT !.op = Inversions[@]]
       [] IsOf(inner, DOMAIN AndOr)        ->
            Bin(AndOr[inner.op], Un("not", inner.kids[1]), Un("not", inner.kids[2]))

CanBubbleUp(e) == IsOf(e, DOMAIN AndOr) /\ IsNot(e.kids[1]) /\ IsNot(e.kids[2])
BubbleUpNots(e) ==
  Un("not", Bin(AndOr[e.op], e.kids[1].kids[1], e.kids[2].kids[1]))

InversionVisit(node, when, st) ==
  CASE when = "pre" /\ CanPushDown(node)  -> ReplaceBy(PushDownNots(node), st)
    [] when = "post" /\ CanBubbleUp(node) -> SkipTo(BubbleUpNots(node), st)
    [] OTHER                              -> Keep(node, st)

(***************************************************************************)
(* CommentOptimizer and VariableNameOptimizer.  names maps the old names   *)
(* in lower case to the new ones, which are handed out in order; external  *)
(* variables keep theirs.                                                  *)
(***************************************************************************)
CommentVisit(node, when, st) ==
  Keep(IF node.k = "line" THEN [node EXCEPT !.comment = ""] ELSE node, st)

Letters == <<"a", "b", "c", "d", "e", "f", "g", "h", "i", "j", "k", "l", "m",
             "n", "o", "p", "q", "r", "s", "t", "u", "v", "w", "x", "y", "z">>
(* a, b, ... z, aa, ab, ...                                                *)
NextVarName[n \in Nat] ==
  IF n = 0 THEN "" ELSE NextVarName[(n - 1) \div 26] \o Letters[((n - 1) % 26) + 1]

NoNames == [err |-> "", names |-> <<>>]
IsExternal(x) == SubSeq(x, 1, 1) = ":"
Known(x, st) == ToLower(x) \in DOMAIN st.names
OptimizeVarName(x, st) ==
  CASE IsExternal(x) -> [name |-> x, st |-> st]
    [] Known(x, st)  -> [name |-> st.names[ToLower(x)], st |-> st]
    [] OTHER -> LET new == NextVarName[Cardinality(DOMAIN st.names) + 1]
                IN [name |-> new, st |-> [st EXCEPT !.names = (ToLower(x) :> new) @@ @]]

NamesVisit(node, when, st) ==
  IF node.k \in {"assign", "var"} /\ when \in {"pre", "single"}
  THEN LET r == OptimizeVarName(node.name, st) IN Keep([node EXCEPT !.name = r.name], r.st)
  ELSE Keep(node, st)

(***************************************************************************)
(* CompoundOptimizer: one pass after the other.  err is "panic" when the   *)
(* first of them ends the process.                                         *)
(***************************************************************************)
Static == INSTANCE Visitor WITH Visit <- StaticVisit
Inversion == INSTANCE Visitor WITH Visit <- InversionVisit
Comments == INSTANCE Visitor WITH Visit <- CommentVisit
Names == INSTANCE Visitor WITH Visit <- NamesVisit

Optimize(program) ==
  LET static   == Static!Accept(program, NoState)
      plain    == Comments!Accept(static.node, NoState)
      inverted == Inversion!Accept(plain.node, NoState)
      named    == Names!Accept(inverted.node, NoNames)
  IN [program |-> named.node, err |-> static.st.err, names |-> named.st.names]
================================================================================
