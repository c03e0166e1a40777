SPECIFICATION Spec
CONSTANTS
    base = base
    h1 = h1
    Paths = {base, mod}
    Versions = {1}
    Hashes = {h1}
    Addrs = {a1, a2}
    Readers = {r1, r2}
    Crc <- MCCrc
    Holds <- MCHolds
    MaxArchives = 1
    ReuseAddress = FALSE
    None = None
SYMMETRY Symmetry
INVARIANT OneObject
PROPERTY ServesCurrent
