CONSTANTS
    Words = 3
    Calls = {"read", "write", "identify", "flush"}
    NumDevices = 2
    NumFunctions = 2
    Top = 8
    Functions <- SomeFunctions
    MaxDrivers = 3
    MaxCards = 1
    Outcomes = {TRUE, FALSE}
    Partitions = 2
    DirClusters = 2
SPECIFICATION BootSpec
INVARIANTS ReadGetsSector BarsRestored RegistersFound
PROPERTIES CallsReturn KernelReachesLoop
CHECK_DEADLOCK FALSE
