SPECIFICATION Spec
CONSTANTS
    Hosts = {h1, h2}
    Workers = {w1, w2}
    Depots = {d1, d2}
    MaxJobs = 2
    MaxSegments = 1
    ChainIntoClose = TRUE
    NoOne = NoOne
INVARIANT NoDanglingDepot
