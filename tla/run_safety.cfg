\* Every way Init can end, a failing xl destroy, two ^C; one report per guest.
SPECIFICATION Spec
CONSTANTS
  Worker = {w1, w2}
  RuntimeSeconds = 10
  SetupOutcomes = {"ok", "nodomid", "noconsole", "deadconsole"}
  MaxReports = 1
  MaxSigints = 2
  MaxDestroyFailures = 1
SYMMETRY Symmetry
INVARIANTS
  TypeOK
  LeftCountsWorkers
  NoGuestLeftBehind
  Verdict
  RawIsAPrefix
  CputimeLostOnlyByExit
PROPERTIES
  ImplementsContract
\* Run returns and its guests end: the program stops there.
CHECK_DEADLOCK FALSE
