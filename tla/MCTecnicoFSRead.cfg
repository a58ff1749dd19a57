\* A file that is truncated while a handle is further inside it.
CONSTANTS
    n1 = n1
    n2 = n2
    long = long
    NoName = NoName
    Names = {n1}
    LongNames = {}
    InodeCount = 3
    BlockCount = 3
    HandleCount = 2
    BlockSize = 2
    EntryCount = 2
    Bytes = {0}
    SizeModulus = 8
    MaxLength = 2
    DiscardOpen = TRUE
SPECIFICATION Spec
PROPERTY ReadsStayInside
