SPECIFICATION Spec
CONSTANTS
  Packages <- MCPackages
  Exports <- MCExports
  Configs <- MCConfigs
  Invocations <- MCInvocations
  MemCosts = {6}
  Costs = {10, 11, 12}
  Tolerances = {0, 10}
  DefaultTolerance = 10
  MaxAllowed <- MCMaxAllowed
  None = None
  Failed = Failed
INVARIANTS
  ZeroMeansClean
  RetryOnlyInfrastructure
  RegressionsSinceRecording
  OutputsTellTheExitCode
  ReportReadsBack
  ComparisonsAddUp
