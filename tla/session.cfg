\* Three runs, two commands, a failing command or kill, and two ^C, anywhere.
\* No deadlock check: after the last command nothing happens.
SPECIFICATION FairSpec
CHECK_DEADLOCK FALSE
CONSTANTS
  N = 3
  Size <- MCSize
  Names = 2
  MaxCommands = 2
  MaxFaults = 1
  MaxSigints = 2
INVARIANTS
  TypeOK
  CompletedRanItsWorkers
  LeftoversExplained
  SetupIsAsRunLoopAssumes
PROPERTIES
  CommandEnds
