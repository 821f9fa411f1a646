CONSTANTS
    Empty = Empty
    AllocMayFail = FALSE
    Tokens <- MC_Tokens

SPECIFICATION Spec

INVARIANT
    ParseMatchesReference
