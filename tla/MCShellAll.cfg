SPECIFICATION Spec
CONSTANTS
    None = None
    Plain = {p}
    Dotted = {a, b}
    NInodes = 4
    MaxEntries = 4
    MaxCount = 1
SYMMETRY Symmetry
INVARIANTS TypeOK Headed
