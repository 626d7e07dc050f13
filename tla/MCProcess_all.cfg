SPECIFICATION FairSpec_Process
CONSTANTS
    t1 = t1
    t2 = t2
    t3 = t3
    Thread = {t1, t2, t3}
    Main = t1
    NULL = NULL
    RandomYield = TRUE
    UserProgram = TRUE
    Sem = {}
    CV = {}
    Lock = {syscallLock, tableLock}
    InitialValue <- NoSemaphores
    MaxUnits = 0
    StaleOwner <- CleanOwner
    syscallLock = syscallLock
    tableLock = tableLock
    TableSize = 2
    NumPhysPages = 3
    Images = {0, 1, 2}
    StalePid <- Garbage
    MaxForks = 2
    Calls = {"Exec", "Fork", "Exit", "Yield", "Halt"}
INVARIANTS ThreadCounts MarkedIsStored OwnContext
PROPERTIES LastExitHalts ExitEnds
