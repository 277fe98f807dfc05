SPECIFICATION Spec
CONSTANTS
  TagLiterals <- NoTagLiterals
  Sources <- RecursionSources
  Names <- NamesFGH
  GarbageTypes = {"i64", "ptr", "?"}
  MaxRestarts = 0
  MaxFrames = 8
  MaxDefs = 2
  MaxQuotDepth = 2
  MaxTypeStack = 3
  MaxQuotRefs = 1
  MaxArrayDepth = 2
  MaxSpecs = 1
INVARIANTS
  TypeOK
  CrashOnlyByRecursion
  StacksBounded
PROPERTIES
  Terminates
CHECK_DEADLOCK FALSE
