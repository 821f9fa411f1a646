CONSTANTS
    MaxRetries = 3
    RetryDelay = 10
    OK200 = "HTTP_200"
    TransientCodes <- MC_TransientCodes
    OtherCodes <- MC_OtherCodes
    RespLengths <- MC_RespLengths
    AcptSizes <- MC_AcptSizes
    URLs = {"url"}
    APNs = {"apn"}
    Algs = {"MD5", "SHA"}
    Users = {"u1"}
    Macs = {"m1"}
    Headers <- MC_Headers
    NoHeader = NoHeader
    Empty = Empty
    AllocMayFail = FALSE
    LookupMayFail = TRUE

SPECIFICATION Spec

INVARIANT
    CallsThroughResolvedIds
