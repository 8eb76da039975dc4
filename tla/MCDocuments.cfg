SPECIFICATION Spec
CONSTANTS
    MaxPage = 5
    Caps = {1, 2, 3}
    MaxBytes = 3
    Framing = 10
    MaxHeaders = 2
    MaxHeaderBytes = 3
    Sniffed = 3
    SignatureBytes = 2
    MaxItems = 3
    Originals <- MCOriginals
    Objects <- MCObjects
    Layers <- MCLayers
    Scans <- MCScans
    MaxPages = 2
    OcrMinChars = 1
    NerMaxChars = 3
    Column = 2
    Dimensions = {1, 2}
INVARIANTS ChunksCoverPage ChunksWithinLimits MatchesReference AnswerFitsUpload StoredIsTheDocument
