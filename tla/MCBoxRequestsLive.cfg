\* Two workers, one box: every request ends.
CONSTANTS
    w1 = w1
    w2 = w2
    box1 = box1
    box2 = box2
    meta1 = meta1
    meta2 = meta2
    Workers = {w1, w2}
    Boxes = {box1}
    Meta <- DistinctMeta
    NoName = NoName
    NoRequest = NoRequest
    Nobody = Nobody
    InodeCount = 3
    BlockCount = 1
    HandleCount = 3
    BlockSize = 1
    EntryCount = 2
    SizeModulus = 4
SPECIFICATION FairSpec
PROPERTIES
    RequestsFinish
