SPECIFICATION Inputs
CONSTANTS
  TagLiterals <- NoTagLiterals
  SigTypes = {"i64", "str", "a", "b", "any"}
  StackTypes = {"i64", "str", "str!", "?", "a"}
  WordNames = {"f", "swap"}
  MaxIns = 2
  MaxDepth = 3
INVARIANTS
  ScoreMatchesLoop
  ApplyMatchesLoop
  LookupMatchesLoop
  SelectedApplies
CHECK_DEADLOCK FALSE
