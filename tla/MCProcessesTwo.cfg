SPECIFICATION FairSpec
CONSTANTS
    Kids = {k1}
    NFds = 9
    PipeCapacity = 3
    MaxOut = 3
    NBits = 1
    Line <- MCLine
PROPERTY TwoPipesReturn
CHECK_DEADLOCK FALSE
