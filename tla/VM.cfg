\* Every setup, two clients that send every request.
CONSTANTS
  Clients = {c1, c2}
  Requests = {"running", "stepping", "paused", "terminated"}
  Setups <- AllSetups
SPECIFICATION FairSpec
INVARIANT TypeOK
INVARIANT LineExists
INVARIANT StateIsTrue
INVARIANT StepStops
INVARIANT BreakpointFires
INVARIANT CurrentLineIsNext
PROPERTY Obeys
PROPERTY Lifecycle
PROPERTY TerminateEnds
PROPERTY LineIsReported
PROPERTY RequestReturns
PROPERTY LimitStopsLoops
CHECK_DEADLOCK FALSE
