\* A run with RuntimeSeconds 0 ended by ^C; nothing fails.
SPECIFICATION Spec
CONSTANTS
  N = 2
  NumaUnset = {}
  NumaDisabled = {}
  NoSets = {}
  EmptySets = {}
  UntilInterrupt = {1}
  DirNames = {FALSE}
  MaxCommands = 3
  MaxFaults = 0
INVARIANTS
  CompletedOnce
\* Between commands the program is not running.
CHECK_DEADLOCK FALSE
