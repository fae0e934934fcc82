----------------------------- MODULE VMLifecycle -----------------------------
(***************************************************************************)
(* What one VM of pkg/vm promises to the coordinator it is registered with *)
(* and to the code that waits for it.  The coordinator only sees when the  *)
(* VM takes the permission to run a line (coordinatorPermission), when it  *)
(* reports that line (a value on coordinatorDone) and when it leaves for   *)
(* good (coordinatorDone closed, together with terminationChannel).        *)
(*                                                                         *)
(* YololVM implements this specification, and Coordinator is written       *)
(* against it, one copy for every registered VM.                           *)
(***************************************************************************)
VARIABLES
  phase,    (* where the worker goroutine of the VM is                     *)
  paused    (* whether it is blocked in pause(), so that only a request    *)
            (* from outside can move it                                    *)

vars == <<phase, paused>>

(***************************************************************************)
(* out     : between two lines                                             *)
(* wait    : in aquireCoordinatorPermission, ready to take the permission  *)
(* in      : permission taken, the line is not reported yet                *)
(* leaving : unwinding from errKillVM, nothing left to report              *)
(* gone    : terminated, every channel of the VM is closed                 *)
(***************************************************************************)
Phases == {"out", "wait", "in", "leaving", "gone"}

Init == phase = "out" /\ paused = TRUE

Moves(from, to) ==
  /\ phase = from
  /\ phase' = to
  /\ UNCHANGED paused

(* The worker comes to a line of a coordinated program.                    *)
Arrive == ~paused /\ Moves("out", "wait")

(* It takes the permission.  A VM paused while it waits does not take it.  *)
Grant == ~paused /\ Moves("wait", "in")

(* It reports the line, whether the line ended normally, failed, or was    *)
(* cut short by a Terminate request.                                       *)
Report == ~paused /\ \E to \in {"out", "leaving"} : Moves("in", to)

(* It stops.  A line that was begun has been reported before.              *)
Leave ==
  /\ phase \in {"out", "wait"}
  /\ phase' = "leaving"
  /\ paused' = FALSE

Close == Moves("leaving", "gone")

Pause ==
  /\ phase \in {"out", "wait", "in"}
  /\ ~paused
  /\ paused' = TRUE
  /\ UNCHANGED phase

Resume ==
  /\ paused
  /\ paused' = FALSE
  /\ UNCHANGED phase

Next == Arrive \/ Grant \/ Report \/ Leave \/ Close \/ Pause \/ Resume

Spec == Init /\ [][Next]_vars
=============================================================================
