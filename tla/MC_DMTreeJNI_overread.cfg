CONSTANTS
    RESULT_BUF_SIZE = 10
    NoString = NoString
    NoDump = NoDump
    MsgLen <- MC_MsgLen
    Nodes <- MC_Nodes
    Children <- MC_Children
    ArraySizes <- MC_ArraySizes
    WbxmlLens <- MC_WbxmlLens
SPECIFICATION Spec
INVARIANT
    NoHeapOverRead
\* A failed registerDMTreeNatives leaves the library unusable: a final state.
CHECK_DEADLOCK FALSE
