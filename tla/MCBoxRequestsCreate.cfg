\* Boxes are created until the handle table is full.
CONSTANTS
    w1 = w1
    box1 = box1
    box2 = box2
    meta1 = meta1
    meta2 = meta2
    Workers = {w1}
    Boxes = {box1, box2}
    Meta <- DistinctMeta
    NoName = NoName
    NoRequest = NoRequest
    Nobody = Nobody
    InodeCount = 4
    BlockCount = 1
    HandleCount = 2
    BlockSize = 1
    EntryCount = 3
    SizeModulus = 4
SPECIFICATION Spec
INVARIANT CreatesOnlyNewBoxes
