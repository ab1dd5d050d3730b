SPECIFICATION TestSpec
CONSTANTS
  IntValue <- MCIntValue
  FloatValue <- MCFloatValue
  SizeLists <- MCSizeLists
  Strings = {"PATH", "NAME"}
  Exprs = {"CONST"}
  Pieces <- MCPieces
  MaxPieces = 5
  Max64 = 999
  Costs <- MCCosts
  Values <- MCValues
  Baseline = 1
INVARIANTS
  ParsesTheGrammar
  ExpansionForesees
  PassedWithinLimits
  GrowthIsAsDeclared
CHECK_DEADLOCK FALSE
