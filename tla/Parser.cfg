CONSTANTS
  nil = nil
  Inputs <- MCInputs
SPECIFICATION Spec
INVARIANTS StatementsSeparate TextKept CodeParses TreeRight HelpInRange
CHECK_DEADLOCK FALSE
