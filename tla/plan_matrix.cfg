\* Plan commands on any files, in one process or several.
SPECIFICATION Spec
CONSTANTS
  Preset = {"A", "P001"}
  Args = {"builtin", "x", "y"}
  NoArgs = "none"
  Default = Default
  Builtin <- MCBuiltin
  Inputs <- MCInputs
INVARIANTS
  PlanIsTheMatrix
