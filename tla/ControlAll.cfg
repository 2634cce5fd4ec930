CONSTANTS
  MaxDepth = 4
  MaxOperand = 2
  Fallthrough = TRUE
  TrapActions = TRUE
SPECIFICATION Spec
INVARIANTS
  TypeOK
  LoopsCounted
  ArgumentsOfInnermostCall
  TrapActionsDoNotNest
