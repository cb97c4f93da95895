SPECIFICATION MCSpec
CONSTANTS
  NumRuns = 3
  Schedules <- MCSchedules
  Overlapping <- SideBySide
  Checks <- MCChecks
  Decls <- MCDecls
  Faulty = {1}
  Kinds = {"object", "function", "defaults"}
  Langs = {"c", "c++"}
  MaxItems <- MCMaxItems
  ScopeLangs = {"c", "c++"}
  MaxScopes = 3
  MaxNames = 3
  MaxTypeUses = 2
  WideVariables <- MCWideVariables
INVARIANTS
  TypeOK
  PassesComplete
  WholeUnits
  NoDuplicateKeys
  FileJudged
  ScopesJudged
PROPERTIES
  ImplementsCollection
CHECK_DEADLOCK FALSE
