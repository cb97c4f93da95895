SPECIFICATION Spec
CONSTANTS
  m1 = m1
  m2 = m2
  hdr = hdr
  quiet = quiet
  block = block
  open = open
  sys = sys
  cmd = cmd
  nowhere = nowhere
  Texts <- MCTexts
  CompilerNames = {"", "w"}
  Rank <- MCRank
  Locs <- MCLocs
  NoLoc = nowhere
  LocsIn <- MCLocsIn
  SystemLocs = {sys}
  NoFileLocs = {cmd}
  FileOf <- MCFileOf
  LineNoLint <- MCLineNoLint
  BlockNoLint <- MCBlockNoLint
  MainLocs <- MCMain
  HeaderLocs <- MCHeader
  ExcludeLocs <- MCExclude
  NumFiles = 1
  MaxDiags = 5
  Inputs <- AliasInputs
  NoteLocs = {hdr, quiet}
  LineOK = {m1, hdr}
  ShowSystem = {}
  Enabled <- AliasEnabled
  AsErrors <- AliasErrors
  ConfigDiags <- NoConfig
  Unmatched <- OneUnmatched
  MappingItems <- CycleItems
INVARIANTS
  TypeOK
  NotesOwned
  MappingTransparent
  MappingFaithful
CHECK_DEADLOCK FALSE
