CONSTANTS
    A = A
    B = B
    h1 = h1
    h2 = h2
    NumClusters = 6
    RootClusters = 2
    ClusterSlots = 1
    SectorSlots = 1
    ClusterBytes = 2
    SectorBytes = 2
    Handles = {h1}
    Names <- OneFileAndLonger
    WriteSizes = {0, 3}
    ReadSizes = {2, 3}
    SeekPositions = {1, 2}
    MaxSize = 3
    Kinds = {TRUE, FALSE}
    MallocOutcomes = {TRUE, FALSE}
SPECIFICATION FairSpec
INVARIANT ChainsSound
PROPERTIES OperationsReturn PlaceKept MadeIsListed
CHECK_DEADLOCK FALSE
