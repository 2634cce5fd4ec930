CONSTANTS
  LastSignal = 2
  SIGINT = 1
  TerminalFails = TRUE
  Scripts = TRUE
SPECIFICATION Spec
INVARIANTS
  TypeOK
PROPERTIES
  IgnoredStayIgnored
  ActionsAreDue
