SPECIFICATION Spec
CONSTANTS
    HiddenSpellings = {"1","true"}
    Cells <- MCCells
    Canon <- MCCanon
    Ident <- MCIdent
    Lettered <- MCLettered
    Formulas = {"=1"}
    HeaderRole <- MCHeaderRole
    HeaderBody <- MCHeaderBody
    HEADER_SCAN_ROWS = 3
    MaxExcelRows = 4
    MaxExcelColumns = 3
    MaxExcelCells = 8
    Roles = {"id_dossier", "date", "region", "departement", "nom_image_source", "texte"}
    UserBodies = {"Dept", "?"}
    CleanBody <- MCCleanBody
    Workbooks <- MCWorkbooks
    Redeposits <- MCRedeposits
    Text <- MCText
    DateText <- MCDateText
    Fold <- MCFold
    Number <- MCNumber
    Forbidden = {"N/C"}
    Postal = {"Postal"}
    ImageId <- MCImageId
    PathImg <- MCPathImg
    EditedRoles = {"date", "id_dossier"}
INVARIANT HiddenRowsStayOut
CHECK_DEADLOCK FALSE
