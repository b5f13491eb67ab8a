CONSTANTS
    A = A
    B = B
    h1 = h1
    h2 = h2
    NumClusters = 4
    RootClusters = 1
    ClusterSlots = 2
    SectorSlots = 2
    ClusterBytes = 2
    SectorBytes = 2
    Handles = {h1, h2}
    Names <- TwoFiles
    WriteSizes = {0, 3}
    ReadSizes = {}
    SeekPositions = {}
    MaxSize = 3
    Kinds = {FALSE}
    MallocOutcomes = {TRUE}
SPECIFICATION Spec
SYMMETRY Symmetry
INVARIANTS LinksSound StoreFits
PROPERTIES FreesOnlyDetached OtherChainsKept
CHECK_DEADLOCK FALSE
