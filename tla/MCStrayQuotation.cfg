SPECIFICATION Spec
CONSTANTS
  TagLiterals <- NoTagLiterals
  Sources <- StraySources
  Names <- NamesFG
  GarbageTypes = {"i64"}
  MaxRestarts = 0
  MaxFrames = 4
  MaxDefs = 2
  MaxQuotDepth = 3
  MaxTypeStack = 4
  MaxQuotRefs = 4
  MaxArrayDepth = 2
  MaxSpecs = 2
INVARIANTS
  QuotationsStayHome
CHECK_DEADLOCK FALSE
