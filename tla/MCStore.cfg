SPECIFICATION Spec
CONSTANTS
  TagLiterals <- TwinLiteral
  Sources <- StoreSources
  Names <- NamesFG
  GarbageTypes = {"i64"}
  MaxRestarts = 1
  MaxFrames = 8
  MaxDefs = 2
  MaxQuotDepth = 3
  MaxTypeStack = 5
  MaxQuotRefs = 4
  MaxArrayDepth = 2
  MaxSpecs = 2
INVARIANTS
  PendingClosed
PROPERTIES
  TableSpec
CHECK_DEADLOCK FALSE
