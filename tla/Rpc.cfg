\* Two goroutines of the client, one of which may be cancelled, and one of the server.
CONSTANTS
  ClientCallers = {c1, c2}
  ServerCallers = {s1}
  Cancellable = {c1}
SPECIFICATION FairSpec
INVARIANT OwnAnswer
INVARIANT NothingLeftPending
INVARIANT DeliveryAwaited
PROPERTY CallReturns
CHECK_DEADLOCK FALSE
