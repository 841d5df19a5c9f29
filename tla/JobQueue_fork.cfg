SPECIFICATION Spec
CONSTANTS
  Lots = {l1}
  Workers = {w1, w2}
  Keys = {}
  None = None
  UserRun = UserRun
  Steps <- ForkSteps
  Entry <- ForkEntry
  OnDemand = {}
  Sources <- ForkSources
  Downstream <- ForkDownstream
  Enqueues <- ForkEnqueues
  Validates <- ForkValidates
  CreatedAt <- TwoPerSecond
  MaxJobs = 3
  MaxActiveJobs = 2
  MaxLapses = 1
  MaxCrashes = 0
SYMMETRY Symmetry
INVARIANT LeasesAreFenced
INVARIANT PurgedLotIsEmpty
INVARIANT FinishedStepExposesItsAttempt
PROPERTY ImplementsContract
CHECK_DEADLOCK FALSE
