CONSTANTS
  Names = {"x", "IFS"}
  Values = {"1", "blank"}
  IFS = "IFS"
  DefaultIFS = "blank"
  Absent = Absent
  Null = Null
  Definitions = {f1, f2}
  FunctionNames = {"f"}
  NameOf <- MCNameOf
  Lists = {1, 2, 3, 4}
  None = None
  MaxDepth = 4
  MaxAssignments = 1
SPECIFICATION Spec
INVARIANTS
  TypeOK
  TemporariesBelongToCommands
  ReferencesAreCounted
PROPERTIES
  VariablesAreKept
