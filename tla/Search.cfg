SPECIFICATION SearchSpec
CONSTANTS
    p1 = p1
    p2 = p2
    p3 = p3
    p4 = p4
    p5 = p5
    p6 = p6
    p7 = p7
    None = None
    Paths <- MCPaths
    Hash <- MCHash
    Length <- MCLength
    Held <- MCHeld
    MaxLength = 7
    BlockSize = 6
    MaxPending = 2
    Chars = {"a", "b"}
    MaxPattern = 4
    MaxText = 4
    MaxDecoded = 40
    MaxExpansion = 4
    Texts <- MCTexts
    HostThreads = {"host", "other"}
    MaxSteps = 6
INVARIANTS
    PointersStable
    DictionaryInv
    DeliversSnapshot
    GlobCorrect
    SpellingsAgree
    NeverStuck
PROPERTIES
    GlobTerminates
CHECK_DEADLOCK FALSE
