SPECIFICATION FilesSpec
CONSTANTS
    Objects = {root, wd}
    BSZ = 3
    IWidth = 1
    MaxBlocks = 5
    Dot <- MCDot
    DotDot <- MCDotDot
    Names <- MCNames
    Numbers = {2}
    OrdinaryFiles = {f, g}
    DiskBlocks = 3
    HostFiles <- MCHostFiles
    HostStreams <- MCHostStreams
INVARIANTS TypeOK FilesOK CopiesFaithful RoundTrip
PROPERTY Implements
