SPECIFICATION Spec
CONSTANTS
  MaxIncidents = 1
INVARIANTS
  FinishedStepUsedWhatIsCurrent
  LotTellsItsSteps
  ReadyStepsAreQueued
  WaitingStepsAreReady
  PackageHasNoBlocker
