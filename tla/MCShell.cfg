SPECIFICATION CarefulSpec
CONSTANTS
    None = None
    Plain = {p, q}
    Dotted = {a, b}
    NInodes = 5
    MaxEntries = 5
    MaxCount = 2
SYMMETRY Symmetry
INVARIANTS UniqueNames LinkCounts DirectoryTree NoCrash FreedInUse
