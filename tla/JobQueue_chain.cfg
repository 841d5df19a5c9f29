SPECIFICATION Spec
CONSTANTS
  Lots = {l1}
  Workers = {w1, w2}
  Keys = {k1}
  None = None
  UserRun = UserRun
  Steps <- ChainSteps
  Entry <- ChainEntry
  OnDemand <- ChainOnDemand
  Sources <- ChainSources
  Downstream <- ChainDownstream
  Enqueues <- ChainEnqueues
  Validates <- ChainValidates
  CreatedAt <- TwoPerSecond
  MaxJobs = 3
  MaxActiveJobs = 1
  MaxLapses = 0
  MaxCrashes = 1
SYMMETRY Symmetry
INVARIANT TypeOK
INVARIANT OneActiveJobPerStep
INVARIANT ActiveJobsAreCurrent
INVARIANT StepTellsItsRun
CHECK_DEADLOCK FALSE
