SPECIFICATION ConfiguredSpec
CONSTANTS
  Dirs <- MCDirs
  Path <- MCPath
  Trees <- MCTrees
  Options <- MCOptions
  MaxLookups = 3
  CommandLine = "inherit"
  Checkers <- MCCheckers
  Core <- MCCore
INVARIANTS
  TypeOK
  CacheSound
  WholeChain
  EffectiveAsFresh
  ChecksJudged
CHECK_DEADLOCK FALSE
