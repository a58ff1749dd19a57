\* Three publishers of one box.
CONSTANTS
    w1 = w1
    w2 = w2
    w3 = w3
    box1 = box1
    box2 = box2
    meta1 = meta1
    meta2 = meta2
    Workers = {w1, w2, w3}
    Boxes = {box1}
    Meta <- DistinctMeta
    NoName = NoName
    NoRequest = NoRequest
    Nobody = Nobody
    InodeCount = 4
    BlockCount = 1
    HandleCount = 6
    BlockSize = 1
    EntryCount = 3
    SizeModulus = 4
SPECIFICATION Spec
SYMMETRY Symmetry
INVARIANT OnePublisherPerBox
