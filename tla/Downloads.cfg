SPECIFICATION DownloadsSpec
CONSTANTS
    Refused = Refused
    None = None
    Dossiers = {1, 2}
    Sites <- MCSites
    HandMade <- MCHandMade
    Leftovers <- MCLeftovers
    Bodies = {"whole", "page"}
    Workers = 2
    Retries = 1
    ReportEvery = 2
    MaxSaved = 2
    MaxLaunches = 2
    MaxCrashes = 1
CHECK_DEADLOCK FALSE
INVARIANT ReportedFilesAreThere
INVARIANT ExitTellsTheReport
PROPERTY KeptFilesStay
PROPERTY RunEnds
