SPECIFICATION MarchSpec
CONSTANTS
  TagLiterals <- NoTagLiterals
  Sources <- ArraySources
  Names <- NameF
  GarbageTypes = {"i64"}
  MaxRestarts = 0
  MaxFrames = 4
  MaxDefs = 3
  MaxQuotDepth = 3
  MaxTypeStack = 5
  MaxQuotRefs = 4
  MaxArrayDepth = 2
  MaxSpecs = 4
  JunkWords = {0}
  WordBits = 16
  MaxData = 24
  MaxReturn = 5
  MapHash <- HashBits
  MaxRuns = 2
INVARIANTS
  RunsAsWritten
CHECK_DEADLOCK FALSE
