\* One goroutine of the client, which may be cancelled.
CONSTANTS
  ClientCallers = {c1}
  ServerCallers = {}
  Cancellable = {c1}
SPECIFICATION FairSpec
PROPERTY WaitReturns
CHECK_DEADLOCK FALSE
