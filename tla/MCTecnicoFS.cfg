\* Callers do anything, to open files too.
CONSTANTS
    n1 = n1
    n2 = n2
    long = long
    NoName = NoName
    Names = {n1, n2}
    LongNames = {long}
    InodeCount = 3
    BlockCount = 3
    HandleCount = 2
    BlockSize = 1
    EntryCount = 2
    Bytes = {0}
    SizeModulus = 4
    MaxLength = 2
    DiscardOpen = TRUE
SPECIFICATION Spec
SYMMETRY Symmetry
INVARIANTS
    TypeOK
    DirConsistent
    LiveBlocksExclusive
