CONSTANTS
  Base = 2
  LastFd = 3
  MaxDepth = 2
  MaxSaved = 3
  Files = {f, g}
  Script = Script
  Closed = Closed
SPECIFICATION Spec
SYMMETRY Symmetry
INVARIANTS
  TypeOK
  NothingLeaks
  InputIntact
  UtilitiesInheritLow
  PopsAreBalanced
PROPERTIES
  RedirectionsAreScopes
