SPECIFICATION Spec
CONSTANTS
    Tables <- MCTables
    Galleries <- MCGalleries
    Paths = {"bureau", "reseau"}
    IdLetter = 2
    RegionNames = {"Region"}
    DepartmentNames = {"Departements"}
    DateNames = {"Date"}
    PhotoNames = {"Photo du produit"}
    KnownNames = {"ID dossier"}
    HeadName <- MCHeadName
    Order <- MCOrder
    DateText <- MCDateText
    CleanText <- MCCleanText
    Voids = {"none"}
    Stripped <- MCStripped
    RawImage <- MCRawImage
    Normalised <- MCNormalised
    Expected <- MCExpected
    Spaced <- MCSpaced
    Base <- MCBase
    Keyword <- MCKeyword
    Unreadable = {"pain.png"}
    MaxRuns = 2
    MaxChanges = 2
    MaxIncidents = 1
CHECK_DEADLOCK FALSE
INVARIANT CompleteRunIsOfOneTable
INVARIANT ReportTellsTheRun
INVARIANT ImagesServeOneDossier
