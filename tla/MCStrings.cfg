SPECIFICATION Spec
CONSTANTS
  TagLiterals <- NoTagLiterals
  Sources <- StringSources
  Names <- NamesFG
  GarbageTypes = {"i64"}
  MaxRestarts = 0
  MaxFrames = 4
  MaxDefs = 2
  MaxQuotDepth = 3
  MaxTypeStack = 4
  MaxQuotRefs = 4
  MaxArrayDepth = 2
  MaxSpecs = 2
INVARIANTS
  RefsFitRows
CHECK_DEADLOCK FALSE
