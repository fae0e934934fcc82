------------------------------- MODULE YololText -------------------------------
(***************************************************************************)
(* From text to program and back: the tokenizer, the parser of expressions *)
(* and YOLOL lines, and the printer.  A text is a sequence of lexemes,     *)
(* blanks included; where two of them meet without a blank the tokenizer   *)
(* may read them as one.                                                   *)
(*                                                                         *)
(* A parser that has met an error answers with errors only, so the model   *)
(* stops at the first one.  Strings without escapes, numbers without       *)
(* decimals.                                                               *)
(***************************************************************************)
EXTENDS Yolol

(***************************************************************************)
(* Tokens.                                                                 *)
(***************************************************************************)
Symbols == <<"++", "--", ">=", "<=", "!=", "==", "+=", "-=", "*=", "/=", "%=",
             "=", ">", "<", "+", "-", "*", "/", "^", "%", ",", "(", ")">>
SymbolsOf(lang) == Symbols \o (IF lang = "nolol" THEN <<";", "$">> ELSE <<>>)

UnaryWords == {"abs", "sqrt", "sin", "cos", "tan", "asin", "acos", "atan"}
Keywords(lang) ==
  {"if", "else", "end", "then", "goto", "and", "or", "not"} \union
  (IF lang = "yolol" THEN UnaryWords
   ELSE {"define", "while", "do", "wait", "include", "macro", "insert",
         "break", "continue"})

Digits == {"0", "1", "2", "3", "4", "5", "6", "7", "8", "9"}
SymbolChars == {"+", "-", ">", "<", "!", "=", "*", "/", "%", "^", ",", "(", ")",
                ";", "$"}

Start(s, n) == SubSeq(s, 1, n)
Class(l) ==
  CASE l \in {" ", "\t"}        -> "Whitespace"
    [] l = "\n"                 -> "Newline"
    [] Start(l, 1) = "\""       -> "String"
    [] Len(l) > 1 /\ Start(l, 2) = "//" -> "Comment"
    [] Start(l, 1) \in SymbolChars -> "Symbol"
    [] Start(l, 1) \in Digits   -> "Number"
    [] OTHER                    -> "Word"

(* Adjacent symbols are one run of characters; letters and digits after a  *)
(* word belong to it.                                                      *)
Glues(l, m) == \/ Class(l) = Class(m) /\ Class(l) \in {"Symbol", "Number", "Word"}
               \/ Class(l) = "Word" /\ Class(m) = "Number"

(* One sequence after the other; by halves, for long texts.                *)
RECURSIVE Joined(_)
Joined(seqs) ==
  LET half == Len(seqs) \div 2
  IN CASE Len(seqs) = 0 -> <<>>
       [] Len(seqs) = 1 -> seqs[1]
       [] OTHER -> Joined(SubSeq(seqs, 1, half)) \o Joined(SubSeq(seqs, half + 1, Len(seqs)))

Runs(text) ==
  LET first  == SelectSeq(Indices(text), LAMBDA j : j = 1 \/ ~Glues(text[j - 1], text[j]))
      end(n) == IF n = Len(first) THEN Len(text) ELSE first[n + 1] - 1
  IN Each(Indices(first), LAMBDA n : Joined(SubSeq(text, first[n], end(n))))

(* The first of the symbols a run of symbol characters begins with.        *)
RECURSIVE CutSymbols(_, _)
CutSymbols(run, lang) ==
  LET symbols == SymbolsOf(lang)
      fits == {j \in DOMAIN symbols :
                 Len(symbols[j]) <= Len(run) /\ Start(run, Len(symbols[j])) = symbols[j]}
      n == IF fits = {} THEN 1 ELSE Len(symbols[Min(fits)])
  IN IF run = "" THEN <<>>
     ELSE <<Start(run, n)>> \o CutSymbols(SubSeq(run, n + 1, Len(run)), lang)

Lexemes(text, lang) ==
  Joined(Each(Runs(text), LAMBDA run : IF Class(run) = "Symbol" THEN CutSymbols(run, lang)
                                       ELSE <<run>>))

TypeOf(l, lang) ==
  CASE Class(l) = "Word"   -> IF l \in Keywords(lang) THEN "Keyword" ELSE "ID"
    [] Class(l) = "Symbol" -> IF Contains(SymbolsOf(lang), l) THEN "Symbol" ELSE "Unknown"
    [] OTHER               -> Class(l)

(* space: whether whitespace comes before the token.                       *)
Tokens(text, lang) ==
  LET ls       == Lexemes(text, lang)
      blank(j) == Class(ls[j]) = "Whitespace"
      solid    == SelectSeq(Indices(ls), LAMBDA j : ~blank(j))
  IN Each(solid, LAMBDA j : [type |-> TypeOf(ls[j], lang), value |-> ls[j],
                             space |-> j > 1 /\ blank(j - 1)])

(***************************************************************************)
(* Parsing.  q holds the tokens and the language, i is the current token.  *)
(* A parsing function answers the node, or Nil where it is not in charge,  *)
(* and the token to go on with.  The functions a NOLOL parser overrides    *)
(* look at q.lang.                                                         *)
(***************************************************************************)
EOF == [type |-> "EOF", value |-> "", space |-> FALSE]
Source(text, lang) == [toks |-> Tokens(text, lang), lang |-> lang]
Tok(q, i) == IF i <= Len(q.toks) THEN q.toks[i] ELSE EOF

Nil == [k |-> "nil"]
IsNil(r) == r.node.k = "nil"
Got(node, i) == [node |-> node, i |-> i, ok |-> TRUE]
NotMine(i) == Got(Nil, i)
Failed == [node |-> Nil, i |-> 0, ok |-> FALSE]
(* Missing: an error unless there is a node.                               *)
Needed(r) == IF r.ok /\ ~IsNil(r) THEN r ELSE Failed

Is(q, i, type, value) == Tok(q, i).type = type /\ Tok(q, i).value = value
IsKeyword(q, i, word) == Is(q, i, "Keyword", word)
IsSymbol(q, i, s) == Is(q, i, "Symbol", s)
IsType(q, i, type) == Tok(q, i).type = type
IsOneOf(q, i, type, values) == Tok(q, i).type = type /\ Tok(q, i).value \in values
AtLineEnd(q, i) == Tok(q, i).type \in {"Newline", "EOF"}

(* Go on after a symbol or keyword that must follow r.                     *)
Expect(q, r, type, value) ==
  IF r.ok /\ Is(q, r.i, type, value) THEN [r EXCEPT !.i = @ + 1] ELSE Failed

NumberOf(s) == CHOOSE n \in 0..999 : ToString(n) = s
Unquoted(s) == SubSeq(s, 2, Len(s) - 1)

RECURSIVE ParseExpression(_, _), ParseChain(_, _, _), ParseUnaryExpression(_, _),
          ParseArguments(_, _, _)

ParsePreOpExpression(q, i) ==
  IF ~IsOneOf(q, i, "Symbol", {"++", "--"}) THEN NotMine(i)
  ELSE IF IsType(q, i + 1, "ID")
       THEN Got(Deref(Tok(q, i + 1).value, Tok(q, i).value, "Pre"), i + 2)
       ELSE Failed

ParsePostOpExpression(q, i) ==
  IF IsType(q, i, "ID") /\ IsOneOf(q, i + 1, "Symbol", {"++", "--"})
  THEN Got(Deref(Tok(q, i).value, Tok(q, i + 1).value, "Post"), i + 2)
  ELSE NotMine(i)

(* NOLOL: name(argument, ...), with a comma allowed after the last.        *)
FuncCall(name, args) == [k |-> "call", name |-> name, kids |-> args]
ParseFuncCall(q, i) ==
  IF ~(IsType(q, i, "ID") /\ IsSymbol(q, i + 1, "(")) THEN NotMine(i)
  ELSE ParseArguments(q, i + 2, FuncCall(Tok(q, i).value, <<>>))

ParseArguments(q, i, call) ==
  IF IsSymbol(q, i, ")") THEN Got(call, i + 1)
  ELSE LET r == Needed(ParseExpression(q, i))
           more == [call EXCEPT !.kids = Append(@, r.node)]
       IN CASE ~r.ok -> Failed
            [] IsSymbol(q, r.i, ",") -> ParseArguments(q, r.i + 1, more)
            [] OTHER -> Expect(q, Got(more, r.i), "Symbol", ")")

ParseSingleExpression(q, i) ==
  LET call == IF q.lang = "nolol" THEN ParseFuncCall(q, i) ELSE NotMine(i)
      pre  == ParsePreOpExpression(q, i)
      post == ParsePostOpExpression(q, i)
      here == Tok(q, i)
  IN CASE ~IsNil(call) \/ ~call.ok -> call
       [] ~IsNil(pre) \/ ~pre.ok   -> pre
       [] ~IsNil(post)             -> post
       [] here.type = "ID"         -> Got(Var(here.value), i + 1)
       [] here.type = "String"     -> Got(Str(Unquoted(here.value)), i + 1)
       [] here.type = "Number"     -> Got(Num(NumberOf(here.value)), i + 1)
       [] OTHER                    -> NotMine(i)

ParseBracketExpression(q, i) ==
  IF IsSymbol(q, i, "(")
  THEN Expect(q, Needed(ParseExpression(q, i + 1)), "Symbol", ")")
  ELSE ParseSingleExpression(q, i)

ParseUnaryExpression(q, i) ==
  IF IsOneOf(q, i, "Keyword", {"not"} \union UnaryWords) \/ IsSymbol(q, i, "-")
  THEN LET r == Needed(ParseUnaryExpression(q, i + 1))
       IN IF r.ok THEN [r EXCEPT !.node = Un(Tok(q, i).value, @)] ELSE Failed
  ELSE ParseBracketExpression(q, i)

(* A chain of operators of one level, taken from the left.                 *)
OperatorsOf(level) == CASE level = "logic" -> {"or", "and"}
                        [] level = "sum"   -> {"+", "-"}
                        [] level = "prod"  -> {"*", "/", "%", "^"}
ParseProdExpression_FromTheRight(q, i) ==
  LET left  == ParseUnaryExpression(q, i)
      right == Needed(ParseChain(q, "prod", ParseUnaryExpression(q, left.i + 1)))
  IN IF left.ok /\ ~IsNil(left) /\ IsOneOf(q, left.i, "Symbol", OperatorsOf("prod"))
     THEN IF right.ok THEN [right EXCEPT !.node = Bin(Tok(q, left.i).value, left.node, @)]
          ELSE Failed
     ELSE left
ParseProdExpression(q, i) == ParseChain(q, "prod", ParseUnaryExpression(q, i))
ParseSumExpression(q, i) == ParseChain(q, "sum", ParseProdExpression(q, i))

(* At most one comparison.                                                 *)
ParseCompareExpression(q, i) ==
  LET left  == ParseSumExpression(q, i)
      right == Needed(ParseSumExpression(q, left.i + 1))
  IN IF ~left.ok \/ IsNil(left)
        \/ ~IsOneOf(q, left.i, "Symbol", {"==", "!=", "<=", ">=", "<", ">"})
     THEN left
     ELSE IF right.ok
          THEN [right EXCEPT !.node = Bin(Tok(q, left.i).value, left.node, @)]
          ELSE Failed

ParseLogicExpression(q, i) == ParseChain(q, "logic", ParseCompareExpression(q, i))
ParseExpression(q, i) == ParseLogicExpression(q, i)

Operand(q, level, i) == CASE level = "logic" -> ParseCompareExpression(q, i)
                          [] level = "sum"   -> ParseProdExpression(q, i)
                          [] level = "prod"  -> ParseUnaryExpression(q, i)
ParseChain(q, level, left) ==
  LET type  == IF level = "logic" THEN "Keyword" ELSE "Symbol"
      right == Needed(Operand(q, level, left.i + 1))
  IN IF ~left.ok \/ IsNil(left) \/ ~IsOneOf(q, left.i, type, OperatorsOf(level))
     THEN left
     ELSE IF right.ok
          THEN ParseChain(q, level,
                 [right EXCEPT !.node = Bin(Tok(q, left.i).value, left.node, @)])
          ELSE Failed
(***************************************************************************)
(* Statements and lines.                                                   *)
(***************************************************************************)
RECURSIVE ParseStatement(_, _), ParseBlock(_, _, _), ParseLineFrom(_, _, _)

ParseAssignment(q, i) ==
  IF ~(IsType(q, i, "ID") /\ Tok(q, i + 1).value \in {"=", "+=", "-=", "*=", "/=", "%="})
  THEN NotMine(i)
  ELSE LET r == Needed(ParseExpression(q, i + 2))
       IN IF r.ok THEN [r EXCEPT !.node = Assign(Tok(q, i).value, Tok(q, i + 1).value, @)]
          ELSE Failed

(* YOLOL goes to a number, NOLOL to a label.                               *)
GotoLabel(label) == [k |-> "gotolabel", label |-> label, kids |-> <<>>]
ParseGoto(q, i) ==
  LET r == Needed(ParseExpression(q, i + 1))
  IN CASE ~IsKeyword(q, i, "goto") -> NotMine(i)
       [] q.lang = "nolol" ->
            IF IsType(q, i + 1, "ID")
            THEN Got(GotoLabel(ToLower(Tok(q, i + 1).value)), i + 2) ELSE Failed
       [] OTHER ->
            IF r.ok /\ r.node.k # "str" THEN [r EXCEPT !.node = Goto(@)] ELSE Failed

(* The statements from token i on, after those already read.               *)
ParseBlock(q, i, stmts) ==
  LET r == ParseStatement(q, i)
  IN CASE ~r.ok    -> Failed
       [] IsNil(r) -> IF stmts = <<>> THEN Failed ELSE Got(List(stmts), i)
       [] OTHER    -> ParseBlock(q, r.i, Append(stmts, r.node))

(* With two statements or more the block for else is made of the block for *)
(* then and the last of them.                                              *)
ElseBlock(then, else) ==
  IF Len(else) = 1 THEN else ELSE Append(then, Last(else))

ParseIf(q, i) ==
  LET cond == Expect(q, Needed(ParseExpression(q, i + 1)), "Keyword", "then")
      then == ParseBlock(q, cond.i, <<>>)
      else == ParseBlock(q, then.i + 1, <<>>)
      end(r, node) == Expect(q, IF r.ok THEN Got(node, r.i) ELSE Failed, "Keyword", "end")
  IN CASE q.lang = "nolol" \/ ~IsKeyword(q, i, "if") -> NotMine(i)
       [] ~cond.ok \/ ~then.ok -> Failed
       [] IsKeyword(q, then.i, "else") ->
            end(else, IfElse(cond.node, then.node.kids,
                             ElseBlock(then.node.kids, else.node.kids)))
       [] OTHER -> end(then, If(cond.node, then.node.kids))

ParsePreOrPostOperation(q, i) ==
  LET pre == ParsePreOpExpression(q, i)
  IN IF ~pre.ok \/ ~IsNil(pre) THEN pre ELSE ParsePostOpExpression(q, i)

Break == [k |-> "break", kids |-> <<>>]
Continue == [k |-> "continue", kids |-> <<>>]

ParseStatement(q, i) ==
  LET assignment == ParseAssignment(q, i)
      if         == ParseIf(q, i)
      goto       == ParseGoto(q, i)
      mine(r)    == ~r.ok \/ ~IsNil(r)
  IN CASE IsKeyword(q, i, "break")    -> Got(Break, i + 1)
       [] IsKeyword(q, i, "continue") -> Got(Continue, i + 1)
       [] mine(assignment) -> assignment
       [] mine(if)         -> if
       [] mine(goto)       -> goto
       [] OTHER            -> ParsePreOrPostOperation(q, i)

(* A comment reaches to the end of the line.                               *)
CommentAt(q, i) == IF IsType(q, i, "Comment") THEN Tok(q, i).value ELSE ""
AfterComment(q, i) == IF IsType(q, i, "Comment") THEN i + 1 ELSE i

ParseLineFrom(q, i, stmts) ==
  LET r == Needed(ParseStatement(q, i))
      j == AfterComment(q, r.i)
      read == Append(stmts, r.node)
  IN CASE ~r.ok -> Failed
       [] AtLineEnd(q, j) -> Got(Line(read, CommentAt(q, r.i)), j + 1)
       [] OTHER -> IF Tok(q, j).space THEN ParseLineFrom(q, j, read) ELSE Failed

ParseLine(q, i) ==
  LET j == AfterComment(q, i)
  IN IF AtLineEnd(q, j) THEN Got(Line(<<>>, CommentAt(q, i)), j + 1)
     ELSE ParseLineFrom(q, j, <<>>)

RECURSIVE ParseLines(_, _, _)
ParseLines(q, i, lines) ==
  LET r == ParseLine(q, i)
  IN IF i > Len(q.toks) THEN Got(Program(lines), i)
     ELSE IF r.ok THEN ParseLines(q, r.i, Append(lines, r.node)) ELSE Failed

(* The program a text is, or Nil.                                          *)
Parse(text) == ParseLines(Source(text, "yolol"), 1, <<>>).node

(***************************************************************************)
(* Printing: lexemes and three kinds of spacing, which Render then turns   *)
(* into blanks.                                                            *)
(***************************************************************************)
Space == "space"              (* a blank, unless there is one              *)
OptionalSpace == "optional"   (* a Space in readable code                  *)
StatementSeparator == "next statement"

(* mode is "readable" or "compact".                                        *)
Spacing(mode, piece) ==
  CASE piece = OptionalSpace      -> IF mode = "readable" THEN <<Space>> ELSE <<>>
    [] piece = StatementSeparator -> IF mode = "readable" THEN <<" ", Space>> ELSE <<Space>>
    [] OTHER                      -> <<piece>>
Render(mode, pieces) ==
  LET all == Joined(Each(pieces, LAMBDA piece : Spacing(mode, piece)))
      text(j) == CASE all[j] # Space -> <<all[j]>>
                   [] all[j] = Space /\ j > 1 /\ all[j - 1] = Space -> <<>>
                   [] OTHER -> <<" ">>
  IN Joined(Each(Indices(all), text))

Priority(op) == CASE op \in {"or", "and"} -> 0
                  [] op \in {"==", "!=", ">=", "<=", ">", "<"} -> 1
                  [] op \in {"+", "-"} -> 2
                  [] op \in {"*", "/", "^", "%"} -> 3
IsBinary(e) == e.k = "bin"
PriorityForExpression(e) == IF IsBinary(e) THEN Priority(e.op) ELSE 10

InBrackets(pieces) == <<"(">> \o pieces \o <<")">>
BracketsIf(condition, pieces) == IF condition THEN InBrackets(pieces) ELSE pieces

PrintNumber(n) == IF n < 0 THEN <<Space, "-", ToString(-n)>> ELSE <<ToString(n)>>
PrintDeref(d) == CASE d.prepost = "Pre"  -> <<Space, d.op, d.name>>
                   [] d.prepost = "Post" -> <<d.name, d.op, Space>>
                   [] OTHER              -> <<d.name>>

Between(separator, printed) ==
  FoldLeft(LAMBDA all, pieces : IF all = <<>> THEN pieces ELSE all \o separator \o pieces,
           <<>>, printed)

RECURSIVE PrintExpr(_)
PrintUnary(e) ==
  (IF e.op = "-" THEN <<Space, "-">> ELSE <<e.op, Space>>)
    \o BracketsIf(IsBinary(e.kids[1]), PrintExpr(e.kids[1]))

PrintBinary_KeepsRight(e) ==
  LET prio == Priority(e.op)
      sep  == IF e.op \in {"and", "or"} THEN <<Space>> ELSE <<OptionalSpace>>
  IN BracketsIf(PriorityForExpression(e.kids[1]) < prio, PrintExpr(e.kids[1]))
     \o sep \o <<e.op>> \o sep
     \o BracketsIf(PriorityForExpression(e.kids[2]) < prio, PrintExpr(e.kids[2]))
(* The right operand gets brackets for an equal priority, too.             *)
PrintBinary(e) ==
  LET prio == Priority(e.op)
      sep  == IF e.op \in {"and", "or"} THEN <<Space>> ELSE <<OptionalSpace>>
  IN BracketsIf(PriorityForExpression(e.kids[1]) < prio, PrintExpr(e.kids[1]))
     \o sep \o <<e.op>> \o sep
     \o BracketsIf(IsBinary(e.kids[2]) /\ PriorityForExpression(e.kids[2]) <= prio,
                   PrintExpr(e.kids[2]))

PrintExpr(e) ==
  CASE e.k = "num"  -> PrintNumber(e.n)
    [] e.k = "str"  -> <<"\"" \o e.s \o "\"">>
    [] e.k = "var"  -> PrintDeref(e)
    [] e.k = "un"   -> PrintUnary(e)
    [] e.k = "bin"  -> PrintBinary(e)
    [] e.k = "call" -> <<e.name, "(">>
         \o Between(<<",", OptionalSpace>>, Each(e.kids, PrintExpr))
         \o <<")">>

RECURSIVE PrintStmts(_)
PrintStmt(s) ==
  CASE s.k = "assign" ->
         <<s.name, OptionalSpace, s.op, OptionalSpace>> \o PrintExpr(s.kids[1])
    [] s.k = "goto" -> <<"goto", Space>> \o PrintExpr(s.kids[1])
    [] s.k = "if" ->
         <<"if", Space>> \o PrintExpr(s.kids[1]) \o <<Space, "then", Space>>
         \o PrintStmts(s.kids[2].kids)
         \o (IF Len(s.kids) = 3
             THEN <<Space, "else", Space>> \o PrintStmts(s.kids[3].kids) ELSE <<>>)
         \o <<Space, "end">>
    [] s.k = "gotolabel" -> <<"goto", Space, s.label>>
    [] s.k = "break"     -> <<"break", Space>>
    [] s.k = "continue"  -> <<"continue", Space>>
    [] OTHER -> PrintExpr(s)

PrintStmts(stmts) ==
  Between(<<StatementSeparator>>, Each(stmts, PrintStmt))

(* Every line ends with a newline, the last one only if it is empty.       *)
PrintLine(line, isLast) ==
  PrintStmts(line.kids)
  \o (IF line.comment = "" THEN <<>>
      ELSE (IF line.kids = <<>> THEN <<>> ELSE <<Space>>) \o <<line.comment>>)
  \o (IF ~isLast \/ (line.kids = <<>> /\ line.comment = "") THEN <<"\n">> ELSE <<>>)

PrintProgram(program, mode) ==
  LET lines == program.kids
  IN Render(mode, Joined(Each(Indices(lines), LAMBDA j : PrintLine(lines[j], j = Len(lines)))))

LengthOf(text) == IF text = <<>> THEN 0 ELSE Len(Joined(text))
================================================================================
