CONSTANTS
  Packages <- MCPackages
  BuildsOf <- MCBuildsOf
  Run = {r1}
  Invocations <- MCReplays
  EditsDuringRuns = FALSE
  None = None
SPECIFICATION Spec
INVARIANT MeasuresThisBuild
