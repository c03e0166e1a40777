SPECIFICATION FairSpec
CONSTANTS
    Hosts = {h1, h2}
    Workers = {w1}
    Depots = {d1, d2}
    MaxJobs = 2
    MaxSegments = 1
    ChainIntoClose = FALSE
    NoOne = NoOne
PROPERTIES
    EveryJobCompletes
    EveryCallReturns
