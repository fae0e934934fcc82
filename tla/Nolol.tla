--------------------------------- MODULE Nolol ---------------------------------
(***************************************************************************)
(* The NOLOL compiler: nolol.Converter.  A first traversal turns every     *)
(* element into lines with labels; the passes after it follow chains of    *)
(* gotos, merge lines as far as they fit and replace the labels by line    *)
(* numbers.                                                                *)
(*                                                                         *)
(* The converter changes the nodes in place; here every use of a node is a *)
(* copy of its own, so an argument of a macro may be used once only in it. *)
(***************************************************************************)
EXTENDS NololText, Optimizers

Label(word, n) == word \o ToString(n)
(* A line without $ or comment.                                            *)
CodeLine(label, stmts) == StatementLine(label, FALSE, stmts, FALSE, "")
GotoIf(c, label) == If(c, <<GotoLabel(label)>>)
RemoveNode(st) == [act |-> "skip", node |-> [k |-> "gone"], with |-> <<>>, st |-> st]
SkipToAll(nodes, st) == [RemoveNode(st) EXCEPT !.with = nodes]
VisitAll(nodes, st) == [SkipToAll(nodes, st) EXCEPT !.act = "visit"]
Raise(node, st, err) == Keep(node, [st EXCEPT !.err = err])

(***************************************************************************)
(* The converter's state.  files maps names to texts, missing ones to      *)
(* nothing; time tells whether the program uses time tracking.             *)
(***************************************************************************)
reservedTimeVariable == "_time"
NewConverter(files) ==
  [err |-> "", names |-> <<>>, files |-> files, definitions |-> <<>>, macros |-> <<>>,
   ifs |-> 0, loops |-> 0, loopLevel |-> <<>>, includes |-> 0, insertions |-> 0,
   macroLevel |-> <<>>, time |-> FALSE]
GetDefinition(x, st) == st.definitions[ToLower(x)]
IsDefined(x, st) == ToLower(x) \in DOMAIN st.definitions

RECURSIVE UsesTimeTracking(_)
UsesTimeTracking(node) ==
  \/ node.k = "call" /\ node.name = "time"
  \/ \E j \in DOMAIN node.kids : UsesTimeTracking(node.kids[j])

MaxLineLength(st) == IF st.time THEN 66 ELSE 70

(* As YOLOL, with two digits for every label and a newline.                *)
AnonymousVisit(node, when, st) ==
  Keep(IF node.k = "gotolabel" THEN [node EXCEPT !.label = "XX"] ELSE node, st)
Anonymous == INSTANCE Visitor WITH Visit <- AnonymousVisit
LengthOfLine(stmts) ==
  LET line == Anonymous!Accept(Line(stmts, ""), NoState).node
  IN LengthOf(Render("compact", PrintLine(line, FALSE)))

(***************************************************************************)
(* Merging lines.  A line without label and without $ before it goes to    *)
(* the end of the line before, if both fit and that has no $ behind it.    *)
(* The length of a line is looked at only when another one follows.        *)
(***************************************************************************)
Fits_First(length, next, maxlen) == length <= maxlen
Fits(length, next, maxlen) == length + next <= maxlen
MayJoin_OverDollar(next) == next.label = ""
MayJoin(next) == next.label = "" /\ ~next.bol
Merged(lines, maxlen) ==
  LET add(acc, next) ==
        LET current == Last(acc.lines)
            len     == LengthOfLine(current.kids)
            newline == [next EXCEPT !.bol = FALSE, !.comment = ""]
        IN CASE acc.err # "" -> acc
             [] acc.err = "" /\ acc.open /\ len > maxlen -> [acc EXCEPT !.err = "line too long"]
             [] acc.err = "" /\ acc.open /\ MayJoin(next)
                /\ Fits(len, LengthOfLine(next.kids), maxlen) ->
                  [acc EXCEPT !.lines[Len(acc.lines)].kids = @ \o next.kids,
                              !.open = ~next.eol]
             [] OTHER -> [acc EXCEPT !.lines = Append(@, newline), !.open = ~next.eol]
  IN FoldLeft(add, [lines |-> <<>>, open |-> FALSE, err |-> ""], lines)

(* A goto right behind a goto is not reached.                              *)
DuplicateVisit(node, when, st) ==
  CASE node.k = "gotolabel" /\ st.lastWasGoto -> RemoveNode(st)
    [] node.k = "gotolabel" /\ ~st.lastWasGoto -> Keep(node, [st EXCEPT !.lastWasGoto = TRUE])
    [] node.k = "stmtline" -> Keep(node, IF when = "pre" /\ node.label # ""
                                         THEN [st EXCEPT !.lastWasGoto = FALSE] ELSE st)
    [] OTHER -> Keep(node, [st EXCEPT !.lastWasGoto = FALSE])
Duplicates == INSTANCE Visitor WITH Visit <- DuplicateVisit
RemoveDuplicateGotos(node) ==
  Duplicates!Accept(node, [err |-> "", lastWasGoto |-> FALSE]).node

(***************************************************************************)
(* Ifs.  A block that fits into one line goes into an if of YOLOL,         *)
(* another one is jumped over.  Lines that cannot be merged count as none. *)
(***************************************************************************)
ConditionInline(c, block, endlabel, st) ==
  LET merge  == Merged(block.kids, MaxLineLength(st))
      merged == IF merge.err = "" THEN merge.lines ELSE <<>>
      stmts  == IF merged = <<>> THEN <<>>
                ELSE merged[1].kids \o IF endlabel = "" THEN <<>> ELSE <<GotoLabel(endlabel)>>
      line   == RemoveDuplicateGotos(CodeLine("", <<If(c, stmts)>>))
  IN IF Len(merged) > 1 \/ (merged # <<>> /\ merged[1].label # "")
        \/ LengthOfLine(line.kids) > MaxLineLength(st)
     THEN <<>> ELSE <<line>>

Inverted(c) == Inversion!AcceptChild(Un("not", c), NoState).node

ConditionMultiline_NoEndGoto(c, block, endlabel, skipIf) ==
  <<CodeLine("", <<GotoIf(Inverted(c), skipIf)>>)>> \o block.kids \o <<CodeLine(skipIf, <<>>)>>
ConditionMultiline(c, block, endlabel, skipIf) ==
  <<CodeLine("", <<GotoIf(Inverted(c), skipIf)>>)>> \o block.kids
  \o (IF endlabel = "" THEN <<>> ELSE <<CodeLine("", <<GotoLabel(endlabel)>>)>>)
  \o <<CodeLine(skipIf, <<>>)>>

ConvertIf(mlif, st) ==
  LET n       == Len(mlif.kids) \div 2
      hasElse == Len(mlif.kids) = 2 * n + 1
      endif   == Label("endif", st.ifs)
      part(i) ==
        LET c        == mlif.kids[2 * i - 1]
            block    == mlif.kids[2 * i]
            endlabel == IF hasElse \/ i < n THEN endif ELSE ""
            inline   == ConditionInline(c, block, endlabel, st)
        IN IF inline # <<>> THEN inline
           ELSE ConditionMultiline(c, block, endlabel,
                                   Label(Label("iflbl", st.ifs) \o "-", i - 1))
  IN SkipToAll(Joined(Each([i \in 1..n |-> i], part))
               \o (IF hasElse THEN Last(mlif.kids).kids ELSE <<>>)
               \o <<CodeLine(endif, <<>>)>>, [st EXCEPT !.ifs = @ + 1])

(***************************************************************************)
(* Loops.  A condition that is always true is not checked.                 *)
(***************************************************************************)
StartLabel(st) == Label("while", Last(st.loopLevel))
EndLabel(st) == Label("endwhile", Last(st.loopLevel))

ConvertWhileLoop(loop, st) ==
  LET static == Static!AcceptChild(loop.kids[1], NoState)
      check  == IF static.node.k = "num" /\ static.node.n # 0 THEN <<>>
                ELSE <<GotoIf(Inverted(static.node), EndLabel(st))>>
  IN IF static.st.err # "" THEN Raise(loop, st, "panic")
     ELSE SkipToAll(<<CodeLine(StartLabel(st), check)>> \o loop.kids[2].kids
                    \o <<CodeLine("", <<GotoLabel(StartLabel(st))>>),
                         CodeLine(EndLabel(st), <<>>)>>,
                    [st EXCEPT !.loopLevel = Front(@)])

ConvertJump(stmt, st) ==
  IF st.loopLevel = <<>> THEN Raise(stmt, st, "not inside a loop")
  ELSE SkipTo(GotoLabel(IF stmt.k = "break" THEN EndLabel(st) ELSE StartLabel(st)), st)

(* The number of the label is always 0.                                    *)
ConvertWait(wait, st) ==
  LET stmts == <<GotoIf(wait.kids[1], "wait0")>>
               \o IF Len(wait.kids) = 2 THEN wait.kids[2].kids ELSE <<>>
  IN IF LengthOfLine(stmts) > MaxLineLength(st) THEN Raise(wait, st, "line too long")
     ELSE SkipTo(StatementLine("wait0", FALSE, stmts, TRUE, ""), st)
(***************************************************************************)
(* Names: definitions, variables and functions.                            *)
(***************************************************************************)
IsPlainVariable(e) == e.k = "var" /\ e.op = ""

ConvertAssignment(s, st) ==
  LET r == OptimizeVarName(s.name, st)
  IN CASE ~IsDefined(s.name, st) -> Keep([s EXCEPT !.name = r.name], r.st)
       [] IsDefined(s.name, st) /\ IsPlainVariable(GetDefinition(s.name, st)) ->
            Keep([s EXCEPT !.name = GetDefinition(s.name, st).name], st)
       [] OTHER -> Raise(s, st, "assignment to an expression")

(* What stands for the variable d, with d's operator; "clash" if it cannot *)
(* have it.                                                                *)
InPlaceOf(d, value) ==
  CASE d.op = "" -> value
    [] d.op # "" /\ IsPlainVariable(value) -> [value EXCEPT !.op = d.op, !.prepost = d.prepost]
    [] OTHER -> [k |-> "clash"]

ConvertDereference(d, st) ==
  LET r     == OptimizeVarName(d.name, st)
      value == InPlaceOf(d, GetDefinition(d.name, st))
  IN CASE ~IsDefined(d.name, st) -> Keep([d EXCEPT !.name = r.name], r.st)
       [] IsDefined(d.name, st) /\ value.k = "clash" -> Raise(d, st, "operator on an expression")
       [] OTHER -> SkipTo(value, st)

ConvertDefinition(d, st) ==
  VisitAll(<<>>, [st EXCEPT !.definitions = (ToLower(d.name) :> d.kids[1]) @@ @])

(* An operator in place of the call is visited once more, its argument,    *)
(* too.                                                                    *)
ConvertFuncCall(call, st) ==
  LET name == ToLower(call.name)
      time == OptimizeVarName(reservedTimeVariable, [st EXCEPT !.time = TRUE])
  IN CASE name = "time" -> SkipTo(Var(time.name), time.st)
       [] name \in UnaryWords /\ Len(call.kids) = 1 ->
            ReplaceBy(Un(name, call.kids[1]), st)
       [] OTHER -> Raise(call, st, "no such function")

(***************************************************************************)
(* Macros.  A copied continue is a break.                                  *)
(***************************************************************************)
CopyVisit(node, when, st) == IF node.k = "continue" THEN SkipTo(Break, st) ELSE Keep(node, st)
Copies == INSTANCE Visitor WITH Visit <- CopyVisit

(* st: the arguments by name, the prefix for the variables of the          *)
(* insertion and the converter's definitions.                              *)
ScopedName_Shared(x, st) == x
ScopedName(x, st) == IF IsExternal(x) \/ IsDefined(x, st) THEN x ELSE st.prefix \o x

ArgumentVisit(node, when, st) ==
  LET isArgument == ToLower(node.name) \in DOMAIN st.arguments
      argument   == st.arguments[ToLower(node.name)]
      value      == InPlaceOf(node, argument)
  IN CASE ~((node.k = "assign" /\ when = "pre") \/ node.k = "var") -> Keep(node, st)
       [] node.k = "assign" /\ when = "pre" /\ isArgument ->
            IF IsPlainVariable(argument) THEN Keep([node EXCEPT !.name = argument.name], st)
            ELSE Raise(node, st, "argument is no variable")
       [] node.k = "var" /\ isArgument ->
            IF value.k = "clash" THEN Raise(node, st, "operator on an argument")
            ELSE SkipTo(value, st)
       [] OTHER -> Keep([node EXCEPT !.name = ScopedName(@, st)], st)
Arguments == INSTANCE Visitor WITH Visit <- ArgumentVisit

Trigger == [k |-> "trigger", kids |-> <<>>]

ConvertMacroDef(def, st) ==
  RemoveNode([st EXCEPT !.macros = (ToLower(def.name) :> def) @@ @])

(* A macro is inserted for the whole level of insertions it is in.         *)
ConvertMacroInsertion(ins, before) ==
  LET call   == ins.kids[1]
      name   == ToLower(call.name)
      st     == [before EXCEPT !.insertions = @ + 1,
                   !.macroLevel = Append(@, Label(call.name \o ":", ins.line))]
      m      == st.macros[name]
      copied == Copies!Accept(m, NoState).node.kids[1]
      prefix == FoldLeft(LAMBDA p, level : p \o level \o "_", "", st.macroLevel)
      arguments == FoldLeft(LAMBDA f, i : (ToLower(m.args[i]) :> call.kids[i]) @@ f,
                            <<>>, Indices(m.args))
      r      == Arguments!Accept(copied, [err |-> "", arguments |-> arguments, prefix |-> prefix,
                                          definitions |-> st.definitions])
  IN CASE st.insertions > 20 -> Raise(ins, st, "macro-loop")
       [] st.insertions <= 20 /\ name \notin DOMAIN st.macros -> Raise(ins, st, "no such macro")
       [] OTHER ->
            IF Len(m.args) # Len(call.kids) THEN Raise(ins, st, "wrong number of arguments")
            ELSE IF r.st.err # "" THEN Raise(ins, st, r.st.err)
            ELSE VisitAll(Append(r.node.kids, Trigger), st)

ConvertInclude(include, before) ==
  LET st     == [before EXCEPT !.includes = @ + 1]
      parsed == ParseNolol(st.files[include.file])
  IN CASE st.includes > 20 -> Raise(include, st, "include-loop")
       [] st.includes <= 20 /\ include.file \notin DOMAIN st.files ->
            Raise(include, st, "no such file")
       [] OTHER -> IF parsed.k = "nil" THEN Raise(include, st, "no program")
                   ELSE VisitAll(parsed.kids, [st EXCEPT !.time = @ \/ UsesTimeTracking(parsed)])

(***************************************************************************)
(* The first traversal.                                                    *)
(***************************************************************************)
ConvertVisit(node, when, st) ==
  LET post == when = "post"
      pre  == when = "pre"
  IN CASE node.k = "assign" /\ post  -> ConvertAssignment(node, st)
       [] node.k = "define" /\ post  -> ConvertDefinition(node, st)
       [] node.k = "macro" /\ pre    -> ConvertMacroDef(node, st)
       [] node.k = "insert" /\ pre   -> ConvertMacroInsertion(node, st)
       [] node.k = "include"         -> ConvertInclude(node, st)
       [] node.k = "wait" /\ post    -> ConvertWait(node, st)
       [] node.k = "call" /\ post    -> ConvertFuncCall(node, st)
       [] node.k = "var"             -> ConvertDereference(node, st)
       [] node.k = "mlif" /\ post    -> ConvertIf(node, st)
       [] node.k = "while" /\ pre    ->
            Keep(node, [st EXCEPT !.loops = @ + 1, !.loopLevel = Append(@, st.loops + 1)])
       [] node.k = "while" /\ post   -> ConvertWhileLoop(node, st)
       [] node.k = "bin" /\ post     -> StaticVisit(node, when, st)
       [] node.k = "trigger"         -> VisitAll(<<>>, [st EXCEPT !.macroLevel = Front(@)])
       [] node.k \in {"break", "continue"} -> ConvertJump(node, st)
       [] OTHER -> Keep(node, st)
Nodes == INSTANCE Visitor WITH Visit <- ConvertVisit

(***************************************************************************)
(* The passes over lines.                                                  *)
(***************************************************************************)
(* The goto that is the first thing to do at a label, or Nil.              *)
TargetGoto(lines, label) ==
  LET from == {j \in DOMAIN lines : lines[j].label = label}
      busy == {j \in DOMAIN lines : from # {} /\ j >= Min(from)
                                    /\ (lines[j].kids # <<>> \/ lines[j].eol)}
      line == lines[Min(busy)]
  IN IF busy = {} \/ line.kids = <<>> \/ line.kids[1].k # "gotolabel" THEN Nil
     ELSE line.kids[1]

ChainVisit(node, when, st) ==
  LET target == TargetGoto(st.lines, node.label)
  IN IF node.k # "gotolabel" \/ target = Nil THEN Keep(node, st)
     ELSE Keep([node EXCEPT !.label = target.label], st)
Chains == INSTANCE Visitor WITH Visit <- ChainVisit

(* Statement by statement: a goto that has been changed is followed as it  *)
(* is then.                                                                *)
ResolveGotoChains(lines) ==
  FoldLeft(LAMBDA now, at :
             [now EXCEPT ![at[1]].kids[at[2]] =
                Chains!Accept(@, [err |-> "", lines |-> now]).node],
           lines,
           Joined(Each(Indices(lines), LAMBDA i : Each(Indices(lines[i].kids), LAMBDA j : <<i, j>>))))

RECURSIVE LabelsUsed(_)
LabelsUsed(node) ==
  IF node.k = "gotolabel" THEN {node.label}
  ELSE UNION {LabelsUsed(node.kids[j]) : j \in DOMAIN node.kids}
RemoveUnusedLabels(lines) ==
  LET used == UNION {LabelsUsed(lines[j]) : j \in DOMAIN lines}
  IN Each(lines, LAMBDA line : IF line.label \in used THEN line ELSE [line EXCEPT !.label = ""])

(* Empty lines go, their labels name the line behind them.                 *)
FindJumpLabels(lines) ==
  LET add(acc, line) ==
        LET labels == IF line.label = "" THEN acc.labels
                      ELSE (line.label :> Len(acc.lines) + 1) @@ acc.labels
        IN IF acc.err # "" THEN acc
           ELSE IF line.label \in DOMAIN acc.labels THEN [acc EXCEPT !.err = "duplicate label"]
           ELSE [acc EXCEPT !.labels = labels,
                            !.lines = IF line.kids = <<>> /\ ~line.eol THEN @ ELSE Append(@, line)]
  IN FoldLeft(add, [lines |-> <<>>, labels |-> <<>>, err |-> ""], lines)

GotoVisit(node, when, st) ==
  CASE node.k # "gotolabel" -> Keep(node, st)
    [] node.k = "gotolabel" /\ node.label \notin DOMAIN st.labels ->
         Raise(node, st, "unknown label")
    [] OTHER -> ReplaceBy(Goto(Num(st.labels[node.label])), st)
Gotos == INSTANCE Visitor WITH Visit <- GotoVisit

TimeCounter(st) == Deref(OptimizeVarName(reservedTimeVariable, st).name, "++", "Post")
InsertLineCounter(lines, st) ==
  IF ~st.time THEN lines
  ELSE Each(lines, LAMBDA line : [line EXCEPT !.kids = <<TimeCounter(st)>> \o @])

(* The YOLOL program, or Nil, and what is wrong.                           *)
Convert(program, files) ==
  LET reserved == OptimizeVarName(reservedTimeVariable, NewConverter(files)).st
      nodes    == Nodes!Accept(program, [reserved EXCEPT !.time = UsesTimeTracking(program)])
      chained  == RemoveUnusedLabels(ResolveGotoChains(nodes.node.kids))
      merged   == Merged(chained, MaxLineLength(nodes.st))
      jumps    == FindJumpLabels(RemoveDuplicateGotos(Program(merged.lines)).kids)
      gotos    == Gotos!Accept(Program(jumps.lines), [err |-> "", labels |-> jumps.labels])
      counted  == InsertLineCounter(gotos.node.kids, nodes.st)
      errors   == SelectSeq(<<nodes.st.err, merged.err, jumps.err, gotos.st.err>>,
                            LAMBDA err : err # "")
      out      == Program(Each(counted, LAMBDA line : Line(line.kids, "")))
  IN CASE nodes.st.err # ""  -> [program |-> Nil, err |-> nodes.st.err]
       [] nodes.st.err = "" /\ merged.err # "" -> [program |-> Nil, err |-> merged.err]
       [] OTHER ->
            IF errors # <<>> THEN [program |-> Nil, err |-> errors[1]]
            ELSE [program |-> out, err |-> IF Len(counted) > 20 THEN "too large" ELSE ""]
================================================================================
