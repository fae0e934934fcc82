\* A request to a program that stays on one source line.
CONSTANTS
  Clients = {c1}
  Requests = {"running", "stepping", "paused", "terminated"}
  Setups <- OneLineSetup
SPECIFICATION FairSpec
PROPERTY EveryRequestReturns
CHECK_DEADLOCK FALSE
