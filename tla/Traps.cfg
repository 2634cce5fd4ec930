CONSTANTS
  LastSignal = 2
  SIGINT = 1
  TerminalFails = FALSE
  Scripts = FALSE
SPECIFICATION FairSpec
INVARIANTS
  HandlersMatch
  HandlersAreBlocked
  NothingIsLost
  CommandsFollowTraps
PROPERTIES
  ExitTrapIsLast
  SignalsAreServed
