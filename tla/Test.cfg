\* Two scripts; one case with two runtime errors, two cases with one.
SPECIFICATION TestFairSpec
CONSTANTS
  N = 2
  Tests <- MCTests
  Terminators = {t1, t2}
  Waiters = {run}
  Pausable = {}
  MayEnd = TRUE
INVARIANT NoErrorLost
PROPERTY TestEnds
CHECK_DEADLOCK FALSE
