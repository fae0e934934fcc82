------------------------------ MODULE MCToolchain ------------------------------
(***************************************************************************)
(* Files for Toolchain.  YOLOL: one assignment with every combination of   *)
(* three operands, and programs of a few lines.  NOLOL: a head with a      *)
(* definition, an include and a macro, and a body of elements that stand   *)
(* for what the compiler treats differently.                               *)
(*                                                                         *)
(* Left out, because the code is known to go wrong there (see README): an  *)
(* else with several statements, a comparison of a comparison, two waits,  *)
(* a function of a local variable, empty blocks, x ++y behind a variable,  *)
(* an argument used twice, continue in a macro.                            *)
(***************************************************************************)
EXTENDS Toolchain

(* A line ends the list before.                                            *)
L(lexemes) == lexemes \o <<"\n">>

(***************************************************************************)
(* YOLOL.                                                                  *)
(***************************************************************************)
Unaries == {<<>>, <<"not", " ">>, <<"-">>}
Word(op) == <<" ", op, " ">>
Expressions ==
  { u1 \o <<":a">> \o op1 \o u2 \o <<":b">> \o op2 \o u3 \o <<"3">> :
      u1, u2, u3 \in Unaries, op1, op2 \in {Word("or"), Word("-"), <<"<">>, <<"*">>} }
  \union
  { u1 \o <<"(", ":a">> \o op1 \o u2 \o <<"5", ")">> \o op2 \o <<":b", "++">> :
      u1, u2 \in Unaries \ {<<"-">>}, op1 \in {Word("and"), <<"<=">>, <<"-">>, <<"*">>},
      op2 \in {Word("and"), <<"-">>, <<"*">>} }
  \union
  { u1 \o <<"2">> \o op1 \o u2 \o <<"(", "X">> \o op2 \o u3 \o <<"3", ")">> :
      u1, u2, u3 \in Unaries \ {<<"not", " ">>},
      op1, op2 \in {Word("or"), Word("-"), <<">=">>, <<"/">>} }

(* Programs of two or three lines: jumps, ifs, comments, names in upper    *)
(* case, operators in front of and behind variables, constants to compute. *)
Firsts == {
  L(<<"X", "=", ":b", " ", "if", " ", "X", ">", "1", " ", "then", " ", "goto", " ", "3", " ",
      "end", " ", ":a", "=", "7">>),
  L(<<"X", "=", "\"a\"", " ", "x", "++", " ", ":a", "+=", "x", "-", "\" \"">>),
  L(<<"//c">>),
  L(<<"y", "=", ":b", "*", "2", " ", "++", "y", " ", "//c">>) }
Seconds == {
  L(<<":a", "=", "X", "+", "2", "*", "3", "^", "2", " ", "--", ":b">>),
  L(<<"if", " ", "not", " ", "(", "x", "==", "0", " ", "or", " ", ":a", "<=", "3", ")", " ", "then",
      " ", ":a", "=", "-", "3", " ", "else", " ", ":a", "=", "10", "%", "4", "+", "y", " ", "end">>),
  L(<<"if", " ", ":a", "<", "5", " ", "then", " ", ":a", "++", " ", "goto", " ", "1", "+", "1", " ",
      "end">>) }
Thirds == { <<>>, <<":c", "=", "\"q\"", "+", "x", " ", ":d", "=", "y", "/", "0">>,
            <<":c", "=", "x", "*", "1", " ", "++", ":c", " ", ":c", "*=", "not", " ", ":a">> }

YololTexts == {<<":x", "=">> \o e : e \in Expressions}
              \union {f \o s \o t : f \in Firsts, s \in Seconds, t \in Thirds}

(***************************************************************************)
(* NOLOL.                                                                  *)
(***************************************************************************)
A == Var(":a")
X == Var("X")
Plain(stmts) == StatementLine("", FALSE, stmts, FALSE, "")
Labelled(label, stmts) == StatementLine(label, FALSE, stmts, FALSE, "//" \o label)
EndOfLine(stmts) == StatementLine("", FALSE, stmts, TRUE, "")
BeginOfLine(stmts) == StatementLine("", TRUE, stmts, FALSE, "")
Empty == Plain(<<>>)
Gives(x, e) == Assign(x, "=", e)
Long == "012345678901234567890123456789"

(* replace: the macro's argument; t: a variable of its own.                *)
Prologue == << Definition("Lim", Num(3)), Include("lib"),
           MacroDefinition("m", <<"v", "n">>, Block(<<
             Plain(<<Gives("t", Bin("+", Var("t"), Var("n")))>>),
             MultilineIf(<<Bin(">", Var("t"), Var("lim")), Block(<<
               Plain(<<Assign("v", "+=", Var("t"))>>)>>)>>)>>)),
           Empty >>

(* Simple lines: to be merged or kept apart.                               *)
Heads == {
  <<Plain(<<Gives(":a", Bin("+", Num(1), Bin("*", Num(2), Num(3)))), Gives("x", A)>>)>>,
  <<Plain(<<Gives(":c", Str(Long))>>)>>,
  <<EndOfLine(<<Gives(":e", Num(5))>>)>>,
  <<MacroInsertion(FuncCall("m", <<Var(":a"), Num(4)>>), 0)>>,
  <<Labelled("next", <<Deref("x", "++", "Post")>>)>>,
  <<Plain(<<Gives(":t", Bin("-", FuncCall("time", <<>>), Var("x")))>>)>>,
  <<WaitThen(Bin("<", Deref(":a", "++", "Pre"), Num(3)), <<Gives(":g", Num(7))>>), Empty>> }

(* Blocks: inlined or jumped over, with gotos out of them.                 *)
Middles == {
  <<MultilineIf(<<Bin("<", A, Var("Lim")), Block(<<Plain(<<Gives(":a", Var("lib"))>>)>>),
                  Bin("==", A, Num(7)), Block(<<Plain(<<Gives("x", Num(1))>>),
                                               EndOfLine(<<GotoLabel("next")>>)>>),
                  Block(<<Plain(<<Gives("x", A)>>)>>)>>)>>,
  <<MultilineIf(<<Un("not", Bin("and", A, X)), Block(<<Plain(<<Gives(":d", Str(Long))>>),
                  Plain(<<Gives(":c", Str("-" \o Long))>>)>>),
                  Block(<<Plain(<<Gives(":c", X)>>)>>)>>)>>,
  <<WhileLoop(Bin("<", Deref("x", "++", "Post"), Var("lim")), Block(<<
      MultilineIf(<<Bin("==", X, Num(2)), Block(<<Plain(<<Continue>>)>>)>>),
      Plain(<<Deref(":a", "++", "Post")>>),
      MultilineIf(<<Bin(">", A, Num(8)), Block(<<Plain(<<Break>>)>>)>>)>>))>>,
  <<WhileLoop(Bin("==", Num(1), Num(1)), Block(<<
      MultilineIf(<<Bin(">", Deref(":a", "++", "Pre"), Num(9)), Block(<<
        Plain(<<GotoLabel("next")>>)>>),
        Block(<<MacroInsertion(FuncCall("m", <<X, A>>), 0)>>)>>)>>))>>,
  <<Plain(<<Gives(":d", Str("+" \o Long))>>)>> }

Tails == {
  <<BeginOfLine(<<Gives(":f", Num(6))>>)>>,
  <<Labelled("next", <<Deref(":x", "++", "Post")>>)>>,
  <<Labelled("next", <<>>), Plain(<<Gives(":c", Str(Long)), Assign(":c", "+=", X)>>)>>,
  <<MultilineIf(<<Bin("and", A, Bin(">=", X, Num(2))), Block(<<Plain(<<Gives(":f", Num(6))>>)>>)>>),
    Plain(<<Gives(":f", X)>>)>> }

NololPrograms == {Program(Prologue \o first \o second \o third) :
                    first \in Heads, second \in Middles, third \in Tails}
NololTexts == {PrintNolol(program) : program \in NololPrograms}
MCIncluded == [lib |-> PrintNolol(Program(<<Definition("lib", Bin("+", X, Num(1))),
                                            Plain(<<Gives("x", Num(0))>>)>>))]

(* As many lines as the chip has, and one more.                            *)
FullTexts == {PrintNolol(Program([k \in 1..n |-> EndOfLine(<<Gives(":f", Num(k))>>)])) : n \in 20..21}

MCFiles == {[lang |-> "yolol", text |-> t] : t \in YololTexts}
           \union {[lang |-> "nolol", text |-> t] : t \in NololTexts \union FullTexts}
(* A function of a local variable.                                         *)
FunctionFiles ==
  {[lang |-> "nolol", text |-> PrintNolol(Program(<<
      Plain(<<Gives("x", Bin("-", A, Num(9)))>>),
      Plain(<<Gives(":a", FuncCall("abs", <<Var("x")>>))>>)>>))]}
MCEnvironments == { (":a" :> N(0)) @@ (":b" :> N(2)), (":a" :> N(5)) @@ (":b" :> S("s")) }
================================================================================
