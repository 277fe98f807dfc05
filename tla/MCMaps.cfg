SPECIFICATION Spec
CONSTANTS
  Keys <- MCKeys
  Values = {2, 5}
  Hash <- MCHash
  MaxVersions = 3
  Histories <- MCHistories
INVARIANTS
  TypeOK
  GetAgrees
  SizeAgrees
PROPERTIES
  MapSpec
CHECK_DEADLOCK FALSE
