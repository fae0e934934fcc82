---------------------------- MODULE MCLangServer ----------------------------
(* A document of each kind; an edit may be of any of them.                 *)
EXTENDS LangServer

CONSTANTS yolol, nolol
MCKindOf == [d \in {yolol, nolol} |-> IF d = yolol THEN "yolol" ELSE "nolol"]
==============================================================================
