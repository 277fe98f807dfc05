SPECIFICATION Spec
CONSTANTS
  TagLiterals <- NoTagLiterals
  Codes <- Words
  MaxWords = 2
  Byte = 4
  LitSize = 4
  CidSize = 9
  PrimId <- Ids
  Digest <- Digests
  BlobCapacity = 4
  CellCapacity = 2
  PrimAddr <- PrimAddrs
  RowAddr <- RowAddrs
  RowValue <- RowValues
INVARIANTS
  TypeOK
  Fits
  InBounds
  DecodesBack
  CellsDispatch
PROPERTIES
  EveryWordLinked
CHECK_DEADLOCK FALSE
