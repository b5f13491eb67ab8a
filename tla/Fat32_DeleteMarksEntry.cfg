CONSTANTS
    A = A
    B = B
    h1 = h1
    h2 = h2
    NumClusters = 4
    RootClusters = 1
    ClusterSlots = 2
    SectorSlots = 2
    ClusterBytes = 2
    SectorBytes = 2
    Handles = {h1}
    Names <- OneFile
    WriteSizes = {1, 2, 3}
    ReadSizes = {1, 2, 3}
    SeekPositions = {0, 2}
    MaxSize = 4
    Kinds = {FALSE}
    MallocOutcomes = {TRUE}
SPECIFICATION Spec
CHECK_DEADLOCK FALSE
PROPERTY DeleteMarksEntry
