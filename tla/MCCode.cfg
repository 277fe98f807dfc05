SPECIFICATION Spec
CONSTANTS
  TagLiterals <- TwinLiteral
  Sources <- CodeSources
  Names <- NamesFG
  GarbageTypes = {"i64"}
  MaxRestarts = 0
  MaxFrames = 4
  MaxDefs = 3
  MaxQuotDepth = 3
  MaxTypeStack = 5
  MaxQuotRefs = 4
  MaxArrayDepth = 2
  MaxSpecs = 4
INVARIANTS
  EncodingsInStep
  BranchesLand
  QuotationsUsedOnce
  RefsFitRows
  CacheSound
CHECK_DEADLOCK FALSE
