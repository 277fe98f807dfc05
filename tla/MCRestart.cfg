SPECIFICATION MarchSpec
CONSTANTS
  TagLiterals <- TwinLiteral
  Sources <- RestartSources
  Names <- NamesFG
  GarbageTypes = {"i64"}
  MaxRestarts = 1
  MaxFrames = 8
  MaxDefs = 2
  MaxQuotDepth = 3
  MaxTypeStack = 5
  MaxQuotRefs = 4
  MaxArrayDepth = 2
  MaxSpecs = 2
  JunkWords = {0}
  WordBits = 8
  MaxData = 12
  MaxReturn = 5
  MapHash <- HashBits
  MaxRuns = 2
INVARIANTS
  CacheFaithful
  LinkedOnce
CHECK_DEADLOCK FALSE
