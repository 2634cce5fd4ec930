CONSTANTS
  Ifs <- MCIfs
  Files <- MCFiles
  Strings <- MCStrings
SPECIFICATION Spec
INVARIANTS
  ParserFollowsGrammar
  TokensAreTheWords
  FieldsAreTheStandards
  PatternsMatchAsWritten
CHECK_DEADLOCK FALSE
