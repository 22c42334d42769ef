SPECIFICATION Spec
CONSTANTS
  Pids = {p1}
  MaxLosses = 0
  MaxBuffered = 1
  MaxRecordings = 1
INVARIANT StartFailureIsAnError
CHECK_DEADLOCK FALSE
