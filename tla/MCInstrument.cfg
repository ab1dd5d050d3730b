CONSTANTS
  Items <- MCItems
  Height = 3
SPECIFICATION RewriteSpec
INVARIANTS
  AssertedOnEveryExit
  RefusedAsWritten
