CONSTANTS
    A = A
    B = B
    C = C
    NumClusters = 5
    RootClusters = 2
    ClusterSlots = 2
    SectorSlots = 2
    ClusterBytes = 2
    SectorBytes = 2
    Handles = {h1}
    Names <- ThreeFiles
    WriteSizes = {0}
    ReadSizes = {}
    SeekPositions = {}
    MaxSize = 0
    Kinds = {FALSE}
    MallocOutcomes = {TRUE, FALSE}
SPECIFICATION ListSpec
SYMMETRY Symmetry
INVARIANT ListingComplete
PROPERTY EntriesKept
CHECK_DEADLOCK FALSE
