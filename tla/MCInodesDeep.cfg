SPECIFICATION Spec
CONSTANTS
    NTotalBlocks = 13
    NBlockBeginFiles = 1
    NInodes = 2
    IHeight = 7
    BNPB = 2
    BSZ = 2
    LinkCounts = {1}
INVARIANTS Exclusive Readable
PROPERTY ContentStable
CHECK_DEADLOCK FALSE
