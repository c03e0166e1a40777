SPECIFICATION Spec
CONSTANTS
    Hosts = {h1, h2}
    Workers = {w1, w2}
    Depots = {d1, d2}
    MaxJobs = 3
    MaxSegments = 2
    ChainIntoClose = FALSE
    NoOne = NoOne
SYMMETRY Symmetry
INVARIANTS
    CallbackOnce
    NoDanglingDepot
    NoThreadOutlivesStop
    AbortWithinOneSegment
    CallbackNeverWaits
PROPERTIES
    DrainLeavesNothing
    ImplementsAsyncReads
