SPECIFICATION FilesSpec
CONSTANTS
    Base <- MCBase
    Names <- MCNames
    Imports <- MCImports
    Inputs <- MCInputs
    Threads = {t1, t2, t3}
    Scratch = {b1, b2, b3}
    MaxCalls = 6
    NoBlock = NoBlock
    ExtentBits = 8
    Textures <- MCTextures
    Sounds <- MCSounds
    MeshWord = 32
    MaxFloat = 9
    MaterialBudget = 3
    MeshFiles <- MCMeshes
    ArchiveWord = 256
    Granularity = 32
    ArchiveFiles <- MCArchives
    Installed <- MCInstalled
    DepotHashes = {1, 2}
    Indexes <- MCIndexes
    MaxArchives = 3
SYMMETRY Symmetry
INVARIANTS
    DocumentExact
    DocumentInside
    DescriptorHonest
    LoaderReadsPayload
    ChunksTrue
    BoxesFromGeometry
    MaterialsBounded
    CountsAgree
    IndexInside
    DepotInv
    DocumentedOverrides
    BlocksAccounted
    BindingSound
CHECK_DEADLOCK FALSE
