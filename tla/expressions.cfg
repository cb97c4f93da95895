SPECIFICATION MCSpec
CONSTANTS
  CharWidth = 2
  ShortWidth = 3
  FloatMantissa = 4
  IntWidth = 5
  DoubleMantissa = 6
  LongWidth = 7
  Leaves <- MCLeaves
  Operators <- MCOperators
  Casts <- MCCasts
  Targets <- MCTargets
  MaxMoves = 2
  MaxStatements = 3
  Objects <- MCObjects
  Pointers <- MCPointers
  Fragments <- MCFragments
  MemberTypes <- MCMemberTypes
  Accesses <- MCAccesses
  MaxAccesses = 3
  SelectionStarts <- MCSelectionStarts
  MaxAssociations = 3
INVARIANTS
  ValuesJudged
  MemoryJudged
  SelectionsJudged
PROPERTY
  OriginFound
