\* Terminate is called once, on three VMs none of which ends on its own.
CONSTANTS
  N = 3
  Terminators = {t1}
  Waiters = {}
  Pausable = {}
  MayEnd = FALSE
SPECIFICATION Spec
INVARIANT NobodyPanics
CHECK_DEADLOCK FALSE
