SPECIFICATION Spec
CONSTANTS
    NTotalBlocks = 7
    NBlockBeginFiles = 1
    NInodes = 3
    IHeight = 3
    BNPB = 2
    BSZ = 2
    LinkCounts = {0, 1}
PROPERTY ContentStable
CHECK_DEADLOCK FALSE
