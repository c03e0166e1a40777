SPECIFICATION Spec
CONSTANTS
    a1 = a1
    a2 = a2
    None = None
    Paths <- MCPaths
    Long <- MCLong
    Held <- MCHeld
    Archives = {a1, a2}
    Imports <- MCImports
    f1 = f1
    f2 = f2
    Files = {f1, f2}
SYMMETRY MCSymmetry
INVARIANTS
    CacheInv
PROPERTIES
    NeverForgotten
