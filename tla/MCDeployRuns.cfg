CONSTANTS
  Packages <- MCPackage
  BuildsOf <- MCBuildsOf
  Run = {r1, r2}
  Invocations <- MCHonest
  EditsDuringRuns = FALSE
  None = None
SPECIFICATION Spec
SYMMETRY Symmetry
VIEW LiveState
INVARIANTS TypeOK MeasuresOnThisNetwork UnchangedNotRedeployed
PROPERTY ImplementsUncached
