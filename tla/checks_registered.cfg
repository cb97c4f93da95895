SPECIFICATION ConfiguredSpec
CONSTANTS
  Dirs <- MCDirs
  Path <- MCPath
  Trees <- MCTrees
  Options <- MCOptions
  MaxLookups = 3
  CommandLine = "inherit"
  Checkers <- MCCheckers
  Core <- MCCore
INVARIANT
  RegisteredChecksRun
CHECK_DEADLOCK FALSE
