SPECIFICATION FairSpec_Syscalls
CONSTANTS
    t1 = t1
    t2 = t2
    t3 = t3
    Thread = {t1, t2}
    Main = t1
    NULL = NULL
    RandomYield = TRUE
    UserProgram = TRUE
    Sem = {}
    InitialValue <- NoSemaphores
    MaxUnits = 0
    StaleOwner <- CleanOwner
    LockTableLock = LockTableLock
    CVTableLock = CVTableLock
    MaxLocks = 1
    MaxCVs = 0
    Lock <- AllLocks
    CV <- AllCVs
    LockArg <- OnlyZero
    CVArg <- OnlyZero
    Calls <- SimpleCalls
PROPERTY ReleaseReturns
