SPECIFICATION DocumentsSpec
CONSTANTS
    MaxCharacters = 3
    OverlapCharacters = 1
    MinAlphanumeric = 1
    Names <- MCNames
    Origins <- MCOrigins
INVARIANTS
    InventoryMatchesArtifacts
    CitationsLocateContent
    NothingVisibleIsLost
    ChunksFitTheLimit
    CitedTextIsAuthorised
CHECK_DEADLOCK FALSE
