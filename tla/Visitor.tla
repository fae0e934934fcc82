-------------------------------- MODULE Visitor --------------------------------
(***************************************************************************)
(* The traversal every pass over a program is made with: Accept and the    *)
(* AcceptChild functions of pkg/parser/ast and pkg/nolol/nast.  A visitor  *)
(* is called before a node's children, between them and after them, or     *)
(* once where there can be none.  It answers with the node as it leaves    *)
(* it, or asks for a replacement, which the parent makes: without skip the *)
(* replacement is visited in its turn.                                     *)
(*                                                                         *)
(* The state is a record with the visitor's own fields and err, which      *)
(* stops the traversal when it is not empty.                               *)
(***************************************************************************)
EXTENDS Integers, Sequences, SequencesExt

CONSTANT Visit(_, _, _)   (* node, "pre", "inter", "post" or "single", state *)

Keep(node, st) == [act |-> "keep", node |-> node, with |-> <<>>, st |-> st]
Replace(nodes, st) == [act |-> "visit", node |-> [k |-> "gone"], with |-> nodes, st |-> st]
ReplaceSkip(nodes, st) == [Replace(nodes, st) EXCEPT !.act = "skip"]

Leaves == {"num", "str", "var", "gotolabel", "include", "break", "continue", "trigger"}
(* The nodes whose children are one list, which replacements are put into. *)
Lists == {"list", "line", "program", "block", "call", "stmtline"}

RECURSIVE Accept(_, _), AcceptChild(_, _), AcceptList(_, _, _), AcceptKids(_, _)

AcceptChild(node, st) ==
  LET r == Accept(node, st)
  IN CASE r.act = "keep"  -> r
       [] r.act = "skip"  -> Keep(r.with[1], r.st)
       [] r.act = "visit" -> AcceptChild(r.with[1], r.st)

(* The nodes from the i-th on; the answer has the whole list.              *)
AcceptList(nodes, i, st) ==
  LET r == Accept(nodes[i], st)
      replaced == ReplaceAt(nodes, i, r.node)
      spliced  == SubSeq(nodes, 1, i - 1) \o r.with \o SubSeq(nodes, i + 1, Len(nodes))
  IN CASE i > Len(nodes) \/ st.err # "" -> [nodes |-> nodes, st |-> st]
       [] r.act = "keep"  -> AcceptList(replaced, i + 1, r.st)
       [] r.act = "skip"  -> AcceptList(spliced, i + Len(r.with), r.st)
       [] r.act = "visit" -> AcceptList(spliced, i, r.st)

(* Children of different roles, with a call of the visitor between them.   *)
AcceptKids(node, st) ==
  FoldLeft(LAMBDA acc, i :
             LET between == IF i = 1 THEN acc ELSE Visit(acc.node, "inter", acc.st)
                 kid     == AcceptChild(between.node.kids[i], between.st)
             IN IF acc.st.err # "" THEN acc
                ELSE Keep([between.node EXCEPT !.kids[i] = kid.node], kid.st),
           Keep(node, st), [i \in 1..Len(node.kids) |-> i])

AcceptBody(node, st) ==
  IF node.k \in Lists
  THEN LET r == AcceptList(node.kids, 1, st) IN Keep([node EXCEPT !.kids = r.nodes], r.st)
  ELSE AcceptKids(node, st)

Accept(node, st) ==
  LET pre  == Visit(node, IF node.k \in Leaves THEN "single" ELSE "pre", st)
      body == AcceptBody(pre.node, pre.st)
      done(r) == r.act # "keep" \/ r.st.err # ""
  IN CASE node.k = "list" -> AcceptBody(node, st)
       [] node.k # "list" /\ (node.k \in Leaves \/ done(pre)) -> pre
       [] OTHER -> IF body.st.err # "" THEN body ELSE Visit(body.node, "post", body.st)
================================================================================
