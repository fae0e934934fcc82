\* Three VMs that are paused, resumed, terminated and waited for, and end on their own.
CONSTANTS
  N = 3
  Terminators = {t1}
  Waiters = {w1}
  Pausable = {2}
  MayEnd = TRUE
SPECIFICATION FairSpec
INVARIANT TypeOK
INVARIANT OneLineAtATime
INVARIANT AwaitsTheRunner
INVARIANT NobodyLost
INVARIANT TerminateReachesAll
INVARIANT EveryoneServed
PROPERTY VMContract
PROPERTY TurnComes
PROPERTY CoordinatorEnds
CHECK_DEADLOCK FALSE
