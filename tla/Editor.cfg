CONSTANTS
  Buffers = {b1, b2, b3, b4}
  Characters = {a, b}
  Free = Free
  MaxCharacters = 4
  MaxHistory = 2
  EndOfFile = EndOfFile
  Nothing = Nothing
SPECIFICATION Spec
SYMMETRY Symmetry
INVARIANTS
  TypeOK
  BuffersAreOwned
PROPERTIES
  EditsLines
