\* Three jobs whose waits differ, one of them 0.
SPECIFICATION Spec
CONSTANTS
  Args <- MCArgs
  Kops <- MCKops
  Wait <- MCWait
  Interval = 2
  Words = 3
  OpsPerKop = 2
  Wrap = 100
  MaxTime = 7
  MaxJitter = 1
INVARIANTS
  TypeOK
  JobsConserved
  WaitsAtLeast
  SleepIsBounded
  ReportsKeepSchedule
PROPERTIES
  EarliestFirst
\* The clock is bounded, and the worker may abort.
CHECK_DEADLOCK FALSE
