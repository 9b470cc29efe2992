\* Nothing fails: a ^C during the first set-up, and one while Run waits.
SPECIFICATION Spec
CHECK_DEADLOCK FALSE
CONSTANTS
  N = 3
  Size <- MCSize
  Names = 2
  MaxCommands = 2
  MaxFaults = 0
  MaxSigints = 2
INVARIANTS
  SavedRunsHadTheirGuests
