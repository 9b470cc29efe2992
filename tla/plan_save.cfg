\* Four runs of all kinds, five commands, and up to three faults anywhere.
SPECIFICATION Spec
CONSTANTS
  N = 4
  NumaUnset = {4}
  NumaDisabled = {2, 3}
  NoSets = {1}
  EmptySets = {2}
  UntilInterrupt = {3}
  DirNames = {TRUE, FALSE}
  MaxCommands = 5
  MaxFaults = 3
INVARIANTS
  TypeOK
  SavedIsDurable
  OnlyMissingRunsExecute
PROPERTIES
  ImplementsDurablePlan
\* Between commands the program is not running.
CHECK_DEADLOCK FALSE
