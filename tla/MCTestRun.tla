------------------------------ MODULE MCTestRun ------------------------------
(* Two scripts: the number for which WaitForTermination waits for all.     *)
(* Two errors in a case overlap; a goroutine of one case meets the next.   *)
EXTENDS TestRun

MCTests == {[cases |-> 1, errors |-> 2], [cases |-> 2, errors |-> 1]}
==============================================================================
