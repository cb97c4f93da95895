SPECIFICATION Spec
CONSTANTS
  m1 = m1
  m2 = m2
  hdr = hdr
  quiet = quiet
  block = block
  open = open
  sys = sys
  cmd = cmd
  nowhere = nowhere
  Texts <- MCTexts
  CompilerNames = {"", "w"}
  Rank <- MCRank
  Locs <- MCLocs
  NoLoc = nowhere
  LocsIn <- MCLocsIn
  SystemLocs = {sys}
  NoFileLocs = {cmd}
  FileOf <- MCFileOf
  LineNoLint <- MCLineNoLint
  BlockNoLint <- MCBlockNoLint
  MainLocs <- MCMain
  HeaderLocs <- MCHeader
  ExcludeLocs <- MCExclude
  NumFiles = 2
  MaxDiags = 4
  Inputs <- MCInputs
  NoteLocs = {hdr, quiet}
  LineOK = {m1, m2, hdr}
  ShowSystem = {2}
  Enabled <- MCEnabled
  AsErrors <- NoErrors
  ConfigDiags <- MCConfig
  Unmatched <- AllMatched
  MappingItems <- NoItems
INVARIANTS
  Balance
  FiltersExact
  ReportComplete
PROPERTIES
  ErrorsAlwaysShown
  ImplementsGroups
CHECK_DEADLOCK FALSE
