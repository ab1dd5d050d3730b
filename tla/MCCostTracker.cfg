SPECIFICATION Spec
CONSTANTS
  Names <- MCNames
  Costs = {1, 2}
  MaxU64 = 4
  MaxWarmup = 4
  NoLimit = NoLimit
INVARIANTS
  SwapSafe
  BenchIsFair
  VerdictsAgree
PROPERTY ImplementsMap
CHECK_DEADLOCK FALSE
