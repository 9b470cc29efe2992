\* Two workers with five reports between them, of any rates, the last one of
\* each possibly torn.  No deadlock check: Process returns.
SPECIFICATION Spec
CHECK_DEADLOCK FALSE
CONSTANTS
  w1 = w1
  w2 = w2
  Worker = {w1, w2}
  Starts <- MCStarts
  Steps <- MCSteps
  MaxReports = 5
INVARIANTS
  TypeOK
  MinMaxOfWindows
  AverageIsBetweenWindows
  SetSummaryNeedsNoOrder
  ReportsShowTheWindows
