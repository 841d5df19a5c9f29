SPECIFICATION Spec
CONSTANTS
    HiddenSpellings = {"1"}
    Cells <- MCCells
    Canon <- MCCanon
    Ident <- MCIdent
    Lettered <- MCLettered
    Formulas = {"=1"}
    HeaderRole <- MCHeaderRole
    HeaderBody <- MCHeaderBody
    HEADER_SCAN_ROWS = 3
    MaxExcelRows = 4
    MaxExcelColumns = 3
    MaxExcelCells = 8
    Roles = {"id_dossier", "date", "region", "departement", "nom_image_source", "texte"}
    UserBodies = {"Dept", "?"}
    CleanBody <- MCCleanBody
    Workbooks <- MCWorkbooks
    Redeposits <- MCRedeposits
    Text <- MCText
    DateText <- MCDateText
    Fold <- MCFold
    Number <- MCNumber
    Forbidden = {"N/C"}
    Postal = {"Postal"}
    ImageId <- MCImageId
    PathImg <- MCPathImg
    EditedRoles = {"date", "id_dossier"}
CHECK_DEADLOCK FALSE
INVARIANT DiagnosisTellsItsProblems
INVARIANT AcceptedDataIsMapped
INVARIANT OneRowPerIdentifier
INVARIANT EveryRowIsAccountedFor
INVARIANT CsvTellsTheWorkbook
INVARIANT VerifiedContentIsAccepted
INVARIANT ProfileReplaysItsMapping
