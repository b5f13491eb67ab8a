SPECIFICATION FairIntSpec
CONSTANTS
    Task = {t1, t2}
    Boot = Boot
    MaxTasks = 2
    Places = 2
    Wired = {0, 9, 12}
    MaxRaises = 1
INVARIANTS StatesTrue HandledLinesEnd
PROPERTIES EndsItsOwnLine ServedUnlessBlocked EveryTaskRuns
CHECK_DEADLOCK FALSE
