CONSTANTS
    Uris <- MC_Uris
    Root <- MC_Root
    MAX_ARCHIVES = 2
    MaxMounts = 3
    MaxVer = 2
    Closed = Closed

SPECIFICATION Spec

INVARIANTS
    TypeOK
    CleanMatchesDisk

PROPERTY
    RefinesArchiveStore
