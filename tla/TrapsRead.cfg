CONSTANTS
  LastSignal = 2
  SIGINT = 1
  TerminalFails = FALSE
  Scripts = FALSE
SPECIFICATION Spec
INVARIANTS
  TrapsDoNotEndTheShell
