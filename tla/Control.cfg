CONSTANTS
  MaxDepth = 4
  MaxOperand = 3
  Fallthrough = FALSE
  TrapActions = FALSE
SPECIFICATION FairSpec
INVARIANTS
  PendingAddsUp
PROPERTIES
  TargetIsFixed
  NothingStartsWhileUnwinding
  UnwindingEnds
