SPECIFICATION CarefulSpec
CONSTANTS
    Kids = {k1}
    NFds = 9
    PipeCapacity = 2
    MaxOut = 3
    NBits = 2
    Line <- MCLine
INVARIANTS TypeOK DescriptorsRestored PipeDelivers RedirectionDelivers ChangesKept
PROPERTY PromptReturns
