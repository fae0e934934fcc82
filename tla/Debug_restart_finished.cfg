\* A test that is restarted while one of its scripts finishes.
CONSTANTS
  Setups <- MCSetups
  MaxScripts = 2
  Helpers = 2
  Lines = {1, 2}
  Invalid = {2}
  Goroutines = {c1, c2}
SPECIFICATION Spec
INVARIANT FinishedIsTrue
CHECK_DEADLOCK FALSE
