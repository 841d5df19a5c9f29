SPECIFICATION Spec
CONSTANTS
    Archives <- MCArchives
    Tables <- MCTables
    FullName <- MCFullName
    Stem <- MCStem
    Tolerant <- MCTolerant
    Folded <- MCFolded
    LongKeys <- MCLongKeys
    Within <- MCWithin
    ImageId <- MCImageId
    MaxImageSize = 2
    MaxImageCount = 2
    MaxUnzippedSize = 4
    MaxResolutions = 2
INVARIANT ImagesServeOneDossier
INVARIANT ChosenImageIsUsed
INVARIANT NamedImageIsUsed
INVARIANT EveryImageIsAccountedFor
