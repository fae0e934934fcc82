------------------------------- MODULE NololText -------------------------------
(***************************************************************************)
(* NOLOL programs as text: the nodes of pkg/nolol/nast, the parser of the  *)
(* elements that contain lines, and the printer.  Statements and           *)
(* expressions are those of YololText with lang "nolol".                   *)
(***************************************************************************)
EXTENDS YololText

(* bol, eol: $ before and after the statements.                            *)
StatementLine(label, bol, stmts, eol, comment) ==
  [k |-> "stmtline", label |-> label, bol |-> bol, eol |-> eol,
   comment |-> comment, kids |-> stmts]
Block(elements) == [k |-> "block", kids |-> elements]
(* c1, b1, c2, b2, ..., and the block for else if there is one.            *)
MultilineIf(kids) == [k |-> "mlif", kids |-> kids]
WhileLoop(c, block) == [k |-> "while", kids |-> <<c, block>>]
Wait(c) == [k |-> "wait", kids |-> <<c>>]
WaitThen(c, stmts) == [k |-> "wait", kids |-> <<c, List(stmts)>>]
Definition(x, value) == [k |-> "define", name |-> x, kids |-> <<value>>]
MacroDefinition(name, args, block) ==
  [k |-> "macro", name |-> name, args |-> args, kids |-> <<block>>]
MacroInsertion(call, line) == [k |-> "insert", line |-> line, kids |-> <<call>>]
Include(file) == [k |-> "include", file |-> file, kids |-> <<>>]

(***************************************************************************)
(* Parsing.                                                                *)
(***************************************************************************)
(* Go on after the newline that must follow, unless the text ends here.    *)
ExpectLineEnd(q, r) ==
  IF r.ok /\ IsType(q, r.i, "EOF") THEN r
  ELSE IF r.ok /\ IsType(q, r.i, "Newline") THEN [r EXCEPT !.i = @ + 1] ELSE Failed
ExpectNewline(q, r) ==
  IF r.ok /\ IsType(q, r.i, "Newline") THEN [r EXCEPT !.i = @ + 1] ELSE Failed
Then(r, node) == IF r.ok THEN [r EXCEPT !.node = node] ELSE Failed

ParseInclude(q, i) ==
  CASE ~IsKeyword(q, i, "include") -> NotMine(i)
    [] ~IsType(q, i + 1, "String") -> Failed
    [] OTHER -> ExpectLineEnd(q, Got(Include(Unquoted(Tok(q, i + 1).value)), i + 2))

ParseDefinition(q, i) ==
  LET value == Needed(ParseExpression(q, i + 3))
  IN CASE ~IsKeyword(q, i, "define") -> NotMine(i)
       [] ~IsType(q, i + 1, "ID") \/ ~IsSymbol(q, i + 2, "=") -> Failed
       [] OTHER -> ExpectLineEnd(q, Then(value, Definition(Tok(q, i + 1).value, value.node)))

LineOf(q, i) == 1 + Cardinality({j \in 1..(i - 1) : IsType(q, j, "Newline")})
ParseMacroInsertion(q, i) ==
  LET call == Needed(ParseFuncCall(q, i + 1))
  IN IF ~IsKeyword(q, i, "insert") THEN NotMine(i)
     ELSE ExpectLineEnd(q, Then(call, MacroInsertion(call.node, LineOf(q, i))))

(* Statements with ; between them.                                         *)
RECURSIVE ParseStatements(_, _, _)
ParseStatements(q, i, stmts) ==
  LET r == Needed(ParseStatement(q, i))
      read == Append(stmts, r.node)
  IN CASE ~r.ok -> Failed
       [] IsSymbol(q, r.i, ";") -> ParseStatements(q, r.i + 1, read)
       [] OTHER -> Got(List(read), r.i)

(* A line without statements ends at a comment that follows a $: the       *)
(* newline behind it makes a line of its own.                              *)
ParseStatementLine(q, i) ==
  LET labelled == IsType(q, i, "ID") /\ IsSymbol(q, i + 1, ">")
      label    == IF labelled THEN ToLower(Tok(q, i).value) ELSE ""
      i1       == IF labelled THEN i + 2 ELSE i
      i2       == AfterComment(q, i1)
      bol      == IsSymbol(q, i2, "$")
      i3       == IF bol THEN i2 + 1 ELSE i2
      stmts    == ParseStatements(q, i3, <<>>)
      eol      == IsSymbol(q, stmts.i, "$")
      i4       == IF eol THEN stmts.i + 1 ELSE stmts.i
  IN CASE AtLineEnd(q, i3) \/ IsType(q, i3, "Comment") ->
            Got(StatementLine(label, bol, <<>>, bol, CommentAt(q, IF i2 > i1 THEN i1 ELSE i3)),
                i3 + 1)
       [] ~(AtLineEnd(q, i3) \/ IsType(q, i3, "Comment")) /\ ~stmts.ok -> Failed
       [] OTHER ->
            ExpectLineEnd(q, Got(StatementLine(label, bol, stmts.node.kids, eol,
                                               CommentAt(q, i4)), AfterComment(q, i4)))

(* The newline after a wait directive is left to the next element.         *)
ParseWaitDirective(q, i) ==
  LET cond  == Needed(ParseExpression(q, i + 1))
      stmts == ParseStatements(q, cond.i + 1, <<>>)
  IN CASE ~IsKeyword(q, i, "wait") -> NotMine(i)
       [] ~cond.ok -> Failed
       [] IsKeyword(q, cond.i, "then") ->
            Expect(q, Then(stmts, WaitThen(cond.node, stmts.node.kids)), "Keyword", "end")
       [] OTHER -> [cond EXCEPT !.node = Wait(@)]

RECURSIVE ParseElements(_, _, _, _), ParseNestableElement(_, _), ParseConditions(_, _, _)

(* A block, up to one of the words.                                        *)
ParseElements(q, i, words, elements) ==
  LET r == ParseNestableElement(q, i)
  IN IF IsOneOf(q, i, "Keyword", words) \/ IsType(q, i, "EOF") THEN Got(Block(elements), i)
     ELSE IF r.ok THEN ParseElements(q, r.i, words, Append(elements, r.node)) ELSE Failed
ParseElementBlock(q, r, words) ==
  IF r.ok THEN ParseElements(q, r.i, words, <<>>) ELSE Failed

(* The conditions and blocks from token i on, after those already read.    *)
ParseConditions(q, i, kids) ==
  LET cond  == Needed(ParseExpression(q, i))
      then  == ExpectNewline(q, Expect(q, cond, "Keyword", "then"))
      block == ParseElementBlock(q, then, {"end", "else"})
      read  == kids \o <<cond.node, block.node>>
      else  == ParseElementBlock(q, ExpectNewline(q, Got(Nil, block.i + 1)), {"end"})
  IN CASE ~block.ok -> Failed
       [] IsKeyword(q, block.i, "else") /\ IsKeyword(q, block.i + 1, "if") ->
            ParseConditions(q, block.i + 2, read)
       [] IsKeyword(q, block.i, "else") /\ ~IsKeyword(q, block.i + 1, "if") ->
            Expect(q, Then(else, MultilineIf(Append(read, else.node))), "Keyword", "end")
       [] OTHER -> Expect(q, Then(block, MultilineIf(read)), "Keyword", "end")

ParseMultilineIf(q, i) ==
  IF IsKeyword(q, i, "if") THEN ExpectLineEnd(q, ParseConditions(q, i + 1, <<>>))
  ELSE NotMine(i)

ParseWhile(q, i) ==
  LET cond  == Needed(ParseExpression(q, i + 1))
      do    == ExpectNewline(q, Expect(q, cond, "Keyword", "do"))
      block == ParseElementBlock(q, do, {"end"})
  IN IF ~IsKeyword(q, i, "while") THEN NotMine(i)
     ELSE ExpectLineEnd(q, Expect(q, Then(block, WhileLoop(cond.node, block.node)),
                                  "Keyword", "end"))

(* The first of the functions that is in charge.                           *)
FirstOf(tried, otherwise) ==
  LET hits == {j \in DOMAIN tried : ~tried[j].ok \/ ~IsNil(tried[j])}
  IN IF hits = {} THEN otherwise ELSE tried[Min(hits)]

ParseNestableElement(q, i) ==
  FirstOf(<<ParseMultilineIf(q, i), ParseWhile(q, i), ParseWaitDirective(q, i),
            ParseMacroInsertion(q, i)>>, ParseStatementLine(q, i))

RECURSIVE ParseArgumentNames(_, _, _)
ParseArgumentNames(q, i, names) ==
  CASE IsSymbol(q, i, ")") -> Got([k |-> "names", names |-> names], i + 1)
    [] IsType(q, i, "ID") /\ IsSymbol(q, i + 1, ",") ->
         ParseArgumentNames(q, i + 2, Append(names, Tok(q, i).value))
    [] IsType(q, i, "ID") /\ IsSymbol(q, i + 1, ")") ->
         ParseArgumentNames(q, i + 1, Append(names, Tok(q, i).value))
    [] OTHER -> Failed

(* The newline after its end is left to the next element.                  *)
ParseMacroDefinition(q, i) ==
  LET args  == IF IsType(q, i + 1, "ID") /\ IsSymbol(q, i + 2, "(")
               THEN ParseArgumentNames(q, i + 3, <<>>) ELSE Failed
      block == ParseElementBlock(q, ExpectNewline(q, args), {"end"})
  IN IF ~IsKeyword(q, i, "macro") THEN NotMine(i)
     ELSE Expect(q, IF block.ok
                    THEN Got(MacroDefinition(Tok(q, i + 1).value, args.node.names, block.node),
                             block.i)
                    ELSE Failed, "Keyword", "end")

ParseElement(q, i) ==
  FirstOf(<<ParseInclude(q, i), ParseDefinition(q, i), ParseMacroDefinition(q, i)>>,
          ParseNestableElement(q, i))

RECURSIVE ParseAllElements(_, _, _)
ParseAllElements(q, i, elements) ==
  LET r == ParseElement(q, i)
  IN IF i > Len(q.toks) THEN Got(Program(elements), i)
     ELSE IF r.ok THEN ParseAllElements(q, r.i, Append(elements, r.node)) ELSE Failed

(* The program a text is, or Nil.                                          *)
ParseNolol(text) == ParseAllElements(Source(text, "nolol"), 1, <<>>).node

(***************************************************************************)
(* Printing, always readable.                                              *)
(***************************************************************************)
Indentation(depth) == [j \in 1..depth |-> "\t"]
Separated(stmts, separator) ==
  Between(separator, Each(stmts, PrintStmt))

PrintStatementLine(l) ==
  (IF l.label = "" THEN <<>> ELSE <<l.label, ">", Space>>)
  \o (IF ~l.bol THEN <<>> ELSE IF l.kids = <<>> THEN <<"$">> ELSE <<"$", Space>>)
  \o Separated(l.kids, <<";", OptionalSpace>>)
  \o (IF l.eol /\ l.kids # <<>> THEN <<Space, "$">> ELSE <<>>)
  \o (IF l.comment # "" /\ (l.bol \/ l.label # "" \/ l.kids # <<>>) THEN <<Space>> ELSE <<>>)
  \o (IF l.comment = "" THEN <<>> ELSE <<l.comment>>) \o <<"\n">>

PrintWait(w) ==
  <<"wait", Space>> \o PrintExpr(w.kids[1])
  \o IF Len(w.kids) = 1 THEN <<>>
     ELSE <<Space, "then", Space>>
          \o Separated(w.kids[2].kids, <<OptionalSpace, ";", OptionalSpace>>)
          \o <<Space, "end">>

RECURSIVE PrintElement(_, _)
PrintElementBlock(block, depth) ==
  Joined(Each(block.kids, LAMBDA e : Indentation(depth + 1) \o PrintElement(e, depth + 1)))

PrintMultilineIf(e, depth) ==
  LET conditions == Len(e.kids) \div 2
      part(j) == (IF j = 1 THEN <<"if", Space>>
                  ELSE Indentation(depth) \o <<"else", " ", "if", Space>>)
                 \o PrintExpr(e.kids[2 * j - 1]) \o <<Space, "then", "\n">>
                 \o PrintElementBlock(e.kids[2 * j], depth)
  IN Joined(Each([j \in 1..conditions |-> j], part))
     \o (IF Len(e.kids) = 2 * conditions THEN <<>>
         ELSE Indentation(depth) \o <<"else", "\n">> \o PrintElementBlock(Last(e.kids), depth))
     \o Indentation(depth) \o <<"end", "\n">>

PrintElement(e, depth) ==
  CASE e.k = "stmtline" -> PrintStatementLine(e)
    [] e.k = "mlif"     -> PrintMultilineIf(e, depth)
    [] e.k = "while"    -> <<"while", Space>> \o PrintExpr(e.kids[1]) \o <<Space, "do", "\n">>
                             \o PrintElementBlock(e.kids[2], depth)
                             \o Indentation(depth) \o <<"end", "\n">>
    [] e.k = "wait"     -> PrintWait(e)
    [] e.k = "insert"   -> <<"insert", Space>> \o PrintExpr(e.kids[1]) \o <<"\n">>
    [] e.k = "include"  -> <<"include", Space, "\"" \o e.file \o "\"", "\n">>
    [] e.k = "define"   -> <<"define", Space, e.name, OptionalSpace, "=", OptionalSpace>>
                             \o PrintExpr(e.kids[1]) \o <<"\n">>
    [] e.k = "macro"    -> <<"macro", Space, e.name, "(">>
                             \o Between(<<",", " ">>, Each(e.args, LAMBDA x : <<x>>))
                             \o <<")", "\n">> \o PrintElementBlock(e.kids[1], depth)
                             \o <<"end">>

PrintNolol(program) ==
  Render("readable", Joined(Each(program.kids, LAMBDA e : PrintElement(e, 0))))
================================================================================
