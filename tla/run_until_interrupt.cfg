\* RuntimeSeconds 0, meant to last until ^C, under the fairness of the scheduler.
SPECIFICATION FairSpec
CONSTANTS
  Worker = {w1, w2}
  RuntimeSeconds = 0
  SetupOutcomes = {"ok", "nodomain"}
  MaxReports = 1
  MaxSigints = 1
  MaxDestroyFailures = 0
INVARIANTS
  InterruptCompletes
PROPERTIES
  EventuallyStopped
  StoppedRunReturns
\* Run returns and its guests end: the program stops there.
CHECK_DEADLOCK FALSE
