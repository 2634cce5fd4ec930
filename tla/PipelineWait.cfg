CONSTANTS
  MaxCommands = 3
  LastFd = 5
  MaxWrites = 1
  Capacity = 1
  HereDocuments = 1
  NotOpen = {}
  File = File
  Closed = Closed
SPECIFICATION Spec
INVARIANTS
  CommandsHaveEnded
