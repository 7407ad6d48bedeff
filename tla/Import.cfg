SPECIFICATION ExportSpec
CONSTANTS
    Calls = {c1, c2}
    MaxChunks = 2
    MaxRedirects = 1
    Losses = 2
SYMMETRY CallSymmetry
VIEW View
INVARIANTS
    ExportTypeOK
    NeverPartial
    SuccessIsDurable
    NoTempLeft
    ErrorMeansUnpublished
    LinkSizeHolds
PROPERTIES
    NeverReplaces
    ImplementsAtomicImport
    ExportIsWhole
