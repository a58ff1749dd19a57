\* Callers do not unlink or truncate open files: they see plain files.
CONSTANTS
    n1 = n1
    n2 = n2
    long = long
    NoName = NoName
    Names = {n1, n2}
    LongNames = {long}
    InodeCount = 3
    BlockCount = 3
    HandleCount = 2
    BlockSize = 2
    EntryCount = 2
    Bytes = {1}
    SizeModulus = 16
    MaxLength = 2
    DiscardOpen = FALSE
SPECIFICATION Spec
SYMMETRY Symmetry
INVARIANTS
    BlocksAccounted
    HandlesLive
    OffsetsInside
    NeverDead
PROPERTIES
    ImplementsFileStore
