SPECIFICATION Spec
CONSTANTS
    base = base
    h1 = h1
    Paths = {base, mod}
    Versions = {1, 2}
    Hashes = {h1}
    Addrs = {a1}
    Readers = {r1}
    Crc <- MCCrc
    Holds <- MCHolds
    MaxArchives = 2
    ReuseAddress = FALSE
    None = None
SYMMETRY Symmetry
INVARIANTS
    CacheInv
PROPERTIES
    ServesCurrent
    NeverLost
