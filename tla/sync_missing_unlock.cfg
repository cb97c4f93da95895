SPECIFICATION MCSpec
CONSTANTS
  Units <- MCUnits
  Names = {"a", "b"}
  Vars = {"a1", "a2", "b1"}
  NoVar = "none"
  Functions = {"f", "f2", "g", "sys"}
  NameOf <- MCNameOf
  SysFunctions = {"sys"}
  ErrnoFunctions <- MCErrnoFunctions
  HowCalled = {"statement", "initializer", "assigned"}
  MaxDepth = 3
  MaxErrnoStatements = 5
  Topics = {"sync"}
  FileVars = {"f", "g"}
  Streams = {"in", "file"}
  StringVars = {"p", "q", "c"}
  Listed = {"in"}
  ConstStrings = {"c"}
  MaxLibrarySteps = 5
  MaxHandlers = 2
  Hierarchies <- MCHierarchies
  MaxObjectSteps = 4
  Programs <- MCPrograms
  EffectStatements <- MCEffectStatements
  ForLoops <- MCForLoops
  Callees <- MCCallees
  Limit = 3
  MaxRounds = 4
  SharedPrograms <- MCSharedPrograms
INVARIANTS
  MissingUnlockReported
CHECK_DEADLOCK FALSE
