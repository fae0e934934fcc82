------------------------------- MODULE Toolchain -------------------------------
(***************************************************************************)
(* yodk format, optimize and compile on a file somebody has written by     *)
(* hand, each on what the one before has left.  The commands are functions *)
(* of the file; the state is the file to start with and the commands run,  *)
(* what they have made of it is After.                                     *)
(***************************************************************************)
EXTENDS Nolol, NololMeaning

CONSTANTS Files,       (* the files to start with: [lang, text]              *)
          Included,    (* the texts of the files that can be included        *)
          Environments,(* the values of the external variables               *)
          Fuel,        (* how many lines of YOLOL are followed in a run      *)
          MaxCommands  (* the commands run on a file                         *)

VARIABLES file, commands
vars == <<file, commands>>

(***************************************************************************)
(* The commands.  Each answers with the file and what it says.             *)
(***************************************************************************)
Yodk(text) == [lang |-> "yolol", text |-> text]
Stays(f, what) == [file |-> f, said |-> what]

(* What the formatter compares: the trees without their positions.         *)
RECURSIVE WithoutPositions(_)
WithoutPositions(node) ==
  LET within == [node EXCEPT !.kids = Each(@, WithoutPositions)]
  IN IF node.k = "insert" THEN [within EXCEPT !.line = 0] ELSE within

ParseFile(f) == IF f.lang = "yolol" THEN Parse(f.text) ELSE ParseNolol(f.text)
PrintFile(lang, parsed, mode) ==
  [lang |-> lang, text |-> IF lang = "yolol" THEN PrintProgram(parsed, mode)
                           ELSE PrintNolol(parsed)]

CheckForFormattingError(parsed, formatted) ==
  LET again == ParseFile(formatted)
  IN again = Nil \/ WithoutPositions(parsed) # WithoutPositions(again)

Formatted(f, mode) ==
  LET parsed    == ParseFile(f)
      formatted == PrintFile(f.lang, parsed, mode)
  IN CASE parsed = Nil -> Stays(f, "no program")
       [] parsed # Nil /\ CheckForFormattingError(parsed, formatted) -> Stays(f, "formatting bug")
       [] OTHER -> [file |-> formatted, said |-> "formatted"]

Optimized(f) ==
  LET parsed == Parse(f.text)
      r      == Optimize(parsed)
  IN CASE parsed = Nil -> Stays(f, "no program")
       [] parsed # Nil /\ r.err # "" -> Stays(f, "error")
       [] OTHER -> [file |-> PrintFile("yolol", r.program, "compact"), said |-> "optimized"]

(* A program that is too large is written all the same.                    *)
Compiled(f) ==
  LET parsed == ParseNolol(f.text)
      r      == Convert(parsed, Included)
  IN CASE parsed = Nil -> Stays(f, "no program")
       [] parsed # Nil /\ r.program = Nil -> Stays(f, "error")
       [] OTHER -> [file |-> PrintFile("yolol", r.program, "compact"),
                    said |-> IF r.err = "" THEN "compiled" ELSE r.err]

Result(command, f) ==
  CASE command \in {"readable", "compact"} -> Formatted(f, command)
    [] command = "optimize" /\ f.lang = "yolol" -> Optimized(f)
    [] command = "compile"  /\ f.lang = "nolol" -> Compiled(f)
    [] OTHER -> Stays(f, "not for this file")
After(f, run) == FoldLeft(LAMBDA g, command : Result(command, g).file, f, run)

(***************************************************************************)
(* Running them.                                                           *)
(***************************************************************************)
Init == file \in Files /\ commands = <<>>

RunCommand(command) == /\ Len(commands) < MaxCommands
                       /\ commands' = Append(commands, command) /\ UNCHANGED file
Format       == \E mode \in {"readable", "compact"} : RunCommand(mode)
OptimizeFile == (file.lang = "yolol" \/ Contains(commands, "compile")) /\ RunCommand("optimize")
CompileFile  == file.lang = "nolol" /\ ~Contains(commands, "compile") /\ RunCommand("compile")

Next == Format \/ OptimizeFile \/ CompileFile
Spec == Init /\ [][Next]_vars

(* What holds of the file a step finds and of what its command answers.    *)
Step(holds(_, _)) == \A before \in {After(file, commands)} :
                       \A latest \in {Result(Last(commands'), before)} : holds(before, latest)

(***************************************************************************)
(* An expression is read by the priorities of the operators, the ones of   *)
(* one priority from the left, a sign or function before them all.  Here   *)
(* by looking for the last operator of the lowest priority.                *)
(***************************************************************************)
Depth(ls, j) == Cardinality({i \in 1..(j - 1) : ls[i] = "("})
                - Cardinality({i \in 1..(j - 1) : ls[i] = ")"})
PriorityOf(l) == CASE l \in {"or", "and"} -> 0
                   [] l \in {"<", ">", "<=", ">=", "==", "!="} -> 1
                   [] l \in {"+", "-"} -> 2
                   [] l \in {"*", "/", "%", "^"} -> 3
                   [] OTHER -> 4
(* An operator between operands stands behind the end of one.              *)
Between2(ls, j) == j > 1 /\ PriorityOf(ls[j]) < 4 /\ Depth(ls, j) = 0
                   /\ PriorityOf(ls[j - 1]) = 4 /\ ls[j - 1] \notin {"(", "not", "abs"}
RECURSIVE Reading(_)
Reading(ls) ==
  LET operators == {j \in DOMAIN ls : Between2(ls, j)}
      lowest    == Min({PriorityOf(ls[j]) : j \in operators})
      at        == Max({j \in operators : PriorityOf(ls[j]) = lowest})
  IN CASE operators # {} ->
            Bin(ls[at], Reading(SubSeq(ls, 1, at - 1)), Reading(SubSeq(ls, at + 1, Len(ls))))
       [] operators = {} /\ ls[1] \in {"not", "-", "abs"} -> Un(ls[1], Reading(Tail(ls)))
       [] operators = {} /\ ls[1] = "(" -> Reading(SubSeq(ls, 2, Len(ls) - 1))
       [] operators = {} /\ ls[1] \in {"++", "--"} -> Deref(ls[2], ls[1], "Pre")
       [] operators = {} /\ Len(ls) = 2 /\ ls[2] \in {"++", "--"} -> Deref(ls[1], ls[2], "Post")
       [] OTHER -> IF Class(ls[1]) = "Number" THEN Num(NumberOf(ls[1])) ELSE Var(ls[1])

IsSingleAssignment(program) == Len(program.kids) = 1 /\ Len(program.kids[1].kids) = 1
                               /\ program.kids[1].kids[1].k = "assign"

Read(f) ==
  LET program == Parse(f.text)
      values  == Each(Tokens(f.text, "yolol"), LAMBDA token : token.value)
  IN program # Nil /\ IsSingleAssignment(program)
       => program.kids[1].kids[1].kids[1] = Reading(SubSeq(values, 3, Len(values)))

(* The parser reads an expression as its operators bind, in every layout   *)
(* the formatter and the optimizer give it: its functions for the levels   *)
(* call each other, and each loops over its own operators.                 *)
ReadsAsWritten ==
  [][Step(LAMBDA before, latest :
       \A f \in {before, latest.file} : f.lang = "yolol" => Read(f))]_vars

(* A program that can be read can be formatted, and the tools read what    *)
(* they have written themselves: the printer puts the brackets and blanks  *)
(* the parser needs, which nothing but the formatter's own check looks at. *)
FormatSucceeds ==
  [][Step(LAMBDA before, latest : /\ latest.said # "formatting bug"
                                  /\ latest.said = "no program" => before = file)]_vars

(***************************************************************************)
(* What a file does: its external variables at the end and how it ends.    *)
(***************************************************************************)
External(env) == [x \in {y \in DOMAIN env : IsExternal(y)} |-> env[x]]
Outcome(m) == IF m.how = "runs on" THEN [how |-> m.how, env |-> <<>>]
              ELSE [how |-> m.how, env |-> External(m.env)]
Does(f, env) ==
  IF f.lang = "yolol" THEN Outcome(Run(Parse(f.text), env, Fuel))
  ELSE Outcome(ReadNolol(ParseNolol(f.text), Included, env, Fuel))
SameMeaning(f, g) == \A env \in Environments : Does(f, env) = Does(g, env)

(* Optimizing changes nothing a program does to its external variables,    *)
(* errors included: constants are computed, negations moved and variables  *)
(* renamed in expressions with side effects and values of two types.       *)
OptimizeKeepsMeaning ==
  [][Step(LAMBDA before, latest :
       latest.said = "optimized" => SameMeaning(before, latest.file))]_vars

(* The compiled program does what the NOLOL program says: conditions are   *)
(* inverted, blocks inlined or jumped over, gotos chained, lines merged    *)
(* and macros inserted, each on what the passes before it have left.       *)
UsesTime(f) == UsesTimeTracking(ParseNolol(f.text))
CompileKeepsMeaning ==
  [][CompileFile => Step(LAMBDA before, latest :
       latest.said \in {"compiled", "too large"} /\ ~UsesTime(before)
         => SameMeaning(before, latest.file))]_vars

(* A compiled program fits the chip: 70 characters a line and 20 lines, or *)
(* the compiler says that it does not.  Lines are merged by estimated      *)
(* lengths, before labels become numbers and time is counted.              *)
LengthsOf(program) == {LengthOf(Render("compact", PrintLine(line, TRUE))) :
                         line \in Range(program.kids)}
CompiledFits ==
  [][CompileFile => Step(LAMBDA before, latest :
       LET program == Parse(latest.file.text)
       IN latest.said = "compiled" =>
            /\ Len(program.kids) <= 20
            /\ \A length \in LengthsOf(program) : length <= 70)]_vars

(* Statements a $ or a wait keeps apart do not share a line of YOLOL, and  *)
(* all that a ; binds together is on one line: the timing of a program     *)
(* rests on it.  For lines outside blocks; a statement is known by the     *)
(* constant it assigns to an external variable.                            *)
Settings(stmts) == {<<s.name, s.kids>> : s \in {t \in Range(stmts) :
                      t.k = "assign" /\ IsExternal(t.name) /\ IsConstant(t.kids[1])}}
Own(e) == IF e.k = "stmtline" THEN Settings(e.kids)
          ELSE IF e.k = "wait" /\ Len(e.kids) = 2 THEN Settings(e.kids[2].kids) ELSE {}
EndsLine(e) == e.k = "wait" \/ (e.k = "stmtline" /\ e.eol)
BeginsLine(e) == e.k = "stmtline" /\ e.bol
KeptApart(elements, i, j) ==
  /\ i < j /\ Own(elements[i]) # Own(elements[j])
  /\ {i, j} = {n \in DOMAIN elements : Own(elements[n]) \in {Own(elements[i]), Own(elements[j])}}
  /\ \/ \E n \in i..(j - 1) : EndsLine(elements[n])
     \/ \E n \in (i + 1)..j : BeginsLine(elements[n])
BoundariesKept ==
  [][CompileFile => Step(LAMBDA before, latest :
       LET elements == ParseNolol(before.text).kids
           lines    == {Settings(line.kids) : line \in Range(Parse(latest.file.text).kids)}
       IN latest.said = "compiled" =>
            /\ \A i, j \in DOMAIN elements : KeptApart(elements, i, j) =>
                 ~\E line \in lines : /\ line \intersect Own(elements[i]) # {}
                                      /\ line \intersect Own(elements[j]) # {}
            /\ \A i \in DOMAIN elements : Own(elements[i]) # {} =>
                 \E line \in lines : Own(elements[i]) \subseteq line)]_vars
================================================================================
