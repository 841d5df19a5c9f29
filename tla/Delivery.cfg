SPECIFICATION DeliverySpec
CONSTANTS
    Archives <- MCArchives
    Tables <- MCTables
    FullName <- MCFullName
    Stem <- MCStem
    Tolerant <- MCStem
    Folded <- MCFolded
    LongKeys = {}
    Within = {}
    ImageId <- MCImageId
    MaxImageSize = 2
    MaxImageCount = 3
    MaxUnzippedSize = 4
    MaxResolutions = 1
    Roots = {"bureau", "reseau"}
    MaxRestarts = 1
INVARIANT PackagedImagesAreNamed
INVARIANT ReportsCountThePackage
INVARIANT AlertlessPackageIsComplete
INVARIANT ExportedCsvIsCurrent
