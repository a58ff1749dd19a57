\* Two workers, two boxes, a handle table that can fill up.
CONSTANTS
    w1 = w1
    w2 = w2
    box1 = box1
    box2 = box2
    meta1 = meta1
    meta2 = meta2
    Workers = {w1, w2}
    Boxes = {box1, box2}
    Meta <- DistinctMeta
    NoName = NoName
    NoRequest = NoRequest
    Nobody = Nobody
    InodeCount = 4
    BlockCount = 1
    HandleCount = 3
    BlockSize = 1
    EntryCount = 3
    SizeModulus = 4
SPECIFICATION Spec
SYMMETRY SymmetryOfBoxes
INVARIANTS
    TypeOK
    TfsOpsDiscipline
    HeldHandlesOpen
    MetaFileHasPublisher
PROPERTIES
    HandleKeepsBox
