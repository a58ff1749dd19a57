\* A box that is called like the meta-file of another box.
CONSTANTS
    w1 = w1
    w2 = w2
    box1 = box1
    box2 = box2
    meta1 = meta1
    meta2 = meta2
    Workers = {w1, w2}
    Boxes = {box1, box2}
    Meta <- CollidingMeta
    NoName = NoName
    NoRequest = NoRequest
    Nobody = Nobody
    InodeCount = 4
    BlockCount = 1
    HandleCount = 4
    BlockSize = 1
    EntryCount = 3
    SizeModulus = 4
SPECIFICATION Spec
INVARIANT MetaFileHasPublisher
