CONSTANTS
  MaxCommands = 3
  LastFd = 5
  MaxWrites = 2
  Capacity = 1
  HereDocuments = 0
  NotOpen = {0}
  File = File
  Closed = Closed
SPECIFICATION FairSpec
INVARIANTS
  TypeOK
  PipesConnect
  GroupIsReady
  CommandsHaveEnded
  StatusIsTheLast
PROPERTIES
  PipelineEnds
