------------------------------- MODULE MCDebug -------------------------------
(* Setups of both front ends: what is debugged and what is asked.          *)
EXTENDS Debugger

S(front, kind, scripts, requests) ==
  [front |-> front, kind |-> kind, scripts |-> scripts, requests |-> requests]

MCSetups ==
  { S("dap", "scripts", 1, {"setBreakpoints", "continue", "next", "disconnect"}),
    S("dap", "test", 1, {"continue", "next", "pause", "disconnect"}),
    S("dap", "test", 1, {"restart", "continue"}),
    S("dap", "scripts", 1, {"restart", "disconnect"}),
    S("dap", "scripts", 1, {"restart", "setBreakpoints"}),
    S("dap", "scripts", 2, {"terminate", "disconnect"}),
    S("dap", "test", 1, {"terminate", "inspect", "unsupported", "foreign"}),
    S("shell", "scripts", 1, {"pause", "continue", "step", "break", "reset"}),
    S("shell", "test", 2, {"choose", "continue", "step", "reset"}) }
==============================================================================
