SPECIFICATION Spec
CONSTANTS
  Function <- MCFunction
  Components <- MCFunction
  MetricOrder <- MCMetricOrder
  Reports <- MCReports
  Margins <- MCMargins
  NetworkLimits <- MCNetworkLimits
  Costs = {1, 5}
  Baseline = 1
  Pct = 25
  MaxDerivations = 2
  Scenario = "SCENARIO__full_workflow"
  Network = "NETWORK"
  None = None
INVARIANTS
  FilesAreWhole
  ProvenanceFollowsLimits
  ScenarioCoversParts
  PassedWithinMargin
