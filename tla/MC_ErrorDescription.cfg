CONSTANTS
    ErrCodes <- MC_ErrCodes
    GarbageCodes <- MC_GarbageCodes
SPECIFICATION Spec
INVARIANT
    MessageIsError
