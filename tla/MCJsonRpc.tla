------------------------------ MODULE MCJsonRpc ------------------------------
(* JsonRpc with the callers its configurations name.                       *)
EXTENDS JsonRpc
==============================================================================
