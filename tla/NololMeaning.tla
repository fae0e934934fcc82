------------------------------ MODULE NololMeaning ------------------------------
(***************************************************************************)
(* What a NOLOL program means, by docs/nolol.md: its elements are run as   *)
(* they are written, block by block, without labels for ifs and loops and  *)
(* without lines.  The yardstick for the compiler, which has nothing of    *)
(* this kind.                                                              *)
(***************************************************************************)
EXTENDS NololText

(***************************************************************************)
(* Definitions, macros and includes are put in.  scope has what is defined *)
(* so far and counts the insertions; their variables are told apart by it. *)
(***************************************************************************)
NoScope(files) == [files |-> files, definitions |-> <<>>, macros |-> <<>>, insertions |-> 0]
Lookup(f, x) == f[ToLower(x)]
Has(f, x) == ToLower(x) \in DOMAIN f
Bind(f, x, value) == (ToLower(x) :> value) @@ f

(* node with the variables f has replaced, and all other local ones that   *)
(* are not known renamed by a prefix.                                      *)
RECURSIVE Substituted(_, _, _, _)
Substituted(node, f, known, prefix) ==
  LET within == [node EXCEPT !.kids =
                   Each(@, LAMBDA kid : Substituted(kid, f, known, prefix))]
      scoped(x) == IF SubSeq(x, 1, 1) = ":" \/ Has(known, x) THEN x ELSE prefix \o x
  IN CASE node.k = "var" /\ Has(f, node.name) ->
            IF node.op = "" THEN Lookup(f, node.name)
            ELSE [Lookup(f, node.name) EXCEPT !.op = node.op, !.prepost = node.prepost]
       [] node.k = "var" /\ ~Has(f, node.name) -> [node EXCEPT !.name = scoped(@)]
       [] node.k = "assign" ->
            [within EXCEPT !.name = IF Has(f, @) THEN Lookup(f, @).name ELSE scoped(@)]
       [] OTHER -> within

(* Functions are the operators of YOLOL.                                   *)
RECURSIVE WithOperators(_)
WithOperators(node) ==
  LET within == [node EXCEPT !.kids = Each(@, WithOperators)]
  IN IF node.k = "call" THEN Un(node.name, within.kids[1]) ELSE within

RECURSIVE Expanded(_, _)
ExpandedOne(e, scope) ==
  LET defined(node) == Substituted(node, scope.definitions, <<>>, "")
      blocks    == FoldLeft(LAMBDA acc, kid :
                     LET r == Expanded(kid.kids, acc.scope)
                     IN IF kid.k # "block" THEN [acc EXCEPT !.kids = Append(@, defined(kid))]
                        ELSE [kids |-> Append(acc.kids, Block(r.body)), scope |-> r.scope],
                     [kids |-> <<>>, scope |-> scope], e.kids)
      call      == e.kids[1]
      m         == Lookup(scope.macros, call.name)
      arguments == FoldLeft(LAMBDA f, j : Bind(f, m.args[j], call.kids[j]), <<>>,
                            Indices(m.args))
      inserted  == Substituted(m.kids[1], arguments, scope.definitions,
                               "#" \o ToString(scope.insertions) \o ".")
  IN CASE e.k = "define"  -> [body |-> <<>>, scope |->
            [scope EXCEPT !.definitions = Bind(@, e.name, defined(e.kids[1]))]]
       [] e.k = "macro"   -> [body |-> <<>>, scope |->
            [scope EXCEPT !.macros = Bind(@, e.name, e)]]
       [] e.k = "include" -> Expanded(ParseNolol(scope.files[e.file]).kids, scope)
       [] e.k = "insert"  -> Expanded(inserted.kids, [scope EXCEPT !.insertions = @ + 1])
       [] e.k \in {"mlif", "while"} ->
            [body |-> <<WithOperators([e EXCEPT !.kids = blocks.kids])>>, scope |-> blocks.scope]
       [] OTHER -> [body |-> <<WithOperators(defined(e))>>, scope |-> scope]

Expanded(elements, scope) ==
  FoldLeft(LAMBDA acc, e : LET r == ExpandedOne(e, acc.scope)
                           IN [body |-> acc.body \o r.body, scope |-> r.scope],
           [body |-> <<>>, scope |-> scope], elements)

(***************************************************************************)
(* The run.  how is as in a Machine, "break", "continue", or "goto" with   *)
(* the label in to; fuel counts down by the element.                       *)
(***************************************************************************)
Reader(env, fuel) == [env |-> env, how |-> "run", to |-> "", fuel |-> fuel]
Goes(m) == m.how = "run"

RECURSIVE ReadStmts(_, _), ReadFrom(_, _, _), ReadIf(_, _, _), ReadLoop(_, _), ReadWait(_, _)

ReadStmt(s, m) ==
  CASE s.k = "gotolabel" -> [m EXCEPT !.how = "goto", !.to = s.label]
    [] s.k \in {"break", "continue"} -> [m EXCEPT !.how = s.k]
    [] OTHER -> RunStmt(s, m)
ReadStmts(stmts, m) ==
  IF stmts = <<>> \/ ~Goes(m) THEN m ELSE ReadStmts(Tail(stmts), ReadStmt(Head(stmts), m))

(* A condition, and how it goes on when it holds and when not.             *)
Decide(c, m, holds(_), fails(_)) ==
  LET r == RunExpr(c, m)
  IN CASE Fails(r.val)    -> Stopped(r)
       [] IsString(r.val) -> [r.m EXCEPT !.how = "error"]
       [] OTHER           -> IF r.val.n # 0 THEN holds(r.m) ELSE fails(r.m)

ReadIf(kids, j, m) ==
  CASE j > Len(kids) -> m
    [] j = Len(kids) -> ReadFrom(kids[j].kids, 1, m)
    [] OTHER -> Decide(kids[j], m, LAMBDA n : ReadFrom(kids[j + 1].kids, 1, n),
                                   LAMBDA n : ReadIf(kids, j + 2, n))

Refuelled(m) == IF m.fuel = 0 THEN [m EXCEPT !.how = "runs on"] ELSE [m EXCEPT !.fuel = @ - 1]
ReadLoop(loop, m) ==
  LET again(n) ==
        LET b == ReadFrom(loop.kids[2].kids, 1, n)
        IN CASE b.how \in {"run", "continue"} -> ReadLoop(loop, [b EXCEPT !.how = "run"])
             [] b.how = "break" -> [b EXCEPT !.how = "run"]
             [] OTHER -> b
  IN IF m.fuel = 0 THEN Refuelled(m)
     ELSE Decide(loop.kids[1], Refuelled(m), again, LAMBDA n : n)
ReadWait(w, m) ==
  IF m.fuel = 0 THEN Refuelled(m)
  ELSE Decide(w.kids[1], Refuelled(m), LAMBDA n : ReadWait(w, n),
              LAMBDA n : IF Len(w.kids) = 2 THEN ReadStmts(w.kids[2].kids, n) ELSE n)

ReadElement(e, m) ==
  CASE e.k = "stmtline" -> ReadStmts(e.kids, m)
    [] e.k = "mlif"     -> ReadIf(e.kids, 1, m)
    [] e.k = "while"    -> ReadLoop(e, m)
    [] e.k = "wait"     -> ReadWait(e, m)

(* A goto leads to the label in this block, or leaves the block.           *)
ReadFrom(elements, j, m) ==
  LET r  == ReadElement(elements[j], Refuelled(m))
      at == {l \in DOMAIN elements : elements[l].k = "stmtline" /\ elements[l].label = r.to}
  IN CASE j > Len(elements) -> m
       [] j <= Len(elements) /\ m.fuel = 0 -> Refuelled(m)
       [] OTHER ->
            IF Goes(r) THEN ReadFrom(elements, j + 1, r)
            ELSE IF r.how = "goto" /\ at # {}
            THEN ReadFrom(elements, Min(at), [r EXCEPT !.how = "run"])
            ELSE r

ReadNolol(program, files, env, fuel) ==
  LET r == ReadFrom(Expanded(program.kids, NoScope(files)).body, 1, Reader(env, fuel))
  IN IF Goes(r) THEN [r EXCEPT !.how = "ended"] ELSE r
================================================================================
