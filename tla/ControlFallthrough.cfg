CONSTANTS
  MaxDepth = 4
  MaxOperand = 3
  Fallthrough = TRUE
  TrapActions = FALSE
SPECIFICATION Spec
INVARIANTS
  PendingWithinLoops
