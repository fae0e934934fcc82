---------------------------- MODULE MCCoordinator ----------------------------
(* Coordinator with the constants its configurations give: three VMs, so   *)
(* that remove() moves a VM which is neither the first nor the last.       *)
EXTENDS Coordinator
==============================================================================
