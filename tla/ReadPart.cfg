SPECIFICATION Spec
CONSTANTS
    Top = 5
    SegmentCount = 3
    MaxSize = 1
INVARIANTS
    NoOverrun
    OwnSegment
    NoLeak
    StableInv
