SPECIFICATION Spec
CONSTANTS
    NTotalBlocks = 7
    NBlockBeginFiles = 1
    NInodes = 3
    IHeight = 7
    BNPB = 2
    BSZ = 2
    LinkCounts = {1}
PROPERTY SetFreeReleasesAll
CHECK_DEADLOCK FALSE
