\* Two runs from every start, one failing call, one read that fails, one guest left
\* behind, and the administrator at work.
SPECIFICATION Spec
CONSTANTS
  Cpu = {0, 1, 2, 9}
  Host = {0, 1, 2}
  InMap = {0, 1, 2}
  PoolId = {0, 1, 2}
  Name <- MCName
  Scheduler = {"credit", "credit2"}
  RunConfigs <- MCMixed
  MaxRuns = 2
  MaxFaults = 1
  MaxMisreads = 1
  MaxAdmin = 1
  MaxLeftBehind = 1
INVARIANTS
  TypeOK
  ReadyIsConfigured
  WantedCpusAreFree
  OnePoolOfAName
PROPERTIES
  TakesOnlyItsOwn
\* After the last run the program stops.
CHECK_DEADLOCK FALSE
