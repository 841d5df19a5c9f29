SPECIFICATION FairSpec
CONSTANTS
  Lots = {l1}
  Artefacts = {a1, a2}
  Writers = {w1, w2}
  Purgers = {p1, p2}
  External = {}
  None = None
  MaxCrashes = 2
  MaxLapses = 1
  MaxLosses = 1
INVARIANT ExposedArtefactHasItsFile
INVARIANT PurgedLotKeepsNothing
PROPERTY PurgeResumes
CHECK_DEADLOCK FALSE
