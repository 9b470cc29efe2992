\* The smallest window of all, where a worker may be idle between two others.
SPECIFICATION Spec
CHECK_DEADLOCK FALSE
CONSTANTS
  w1 = w1
  w2 = w2
  Worker = {w1, w2}
  Starts <- MCStarts
  Steps <- MCSteps
  MaxReports = 3
INVARIANTS
  MinTputOfAnyWindow
