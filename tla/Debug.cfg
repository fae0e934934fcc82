\* Sessions of an editor and of the shell: one or two scripts, one restart.
CONSTANTS
  Setups <- MCSetups
  MaxScripts = 2
  Helpers = 2
  Lines = {1, 2}
  Invalid = {2}
  Goroutines = {c1, c2}
SPECIFICATION FairSpec
INVARIANT RunsOnce
INVARIANT NoSilentStop
INVARIANT VerifiedIsSet
INVARIANT ClosesQuietly
PROPERTY RequestsEnd
CHECK_DEADLOCK FALSE
