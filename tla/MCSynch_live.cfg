SPECIFICATION FairSpec
CONSTANTS
    t1 = t1
    t2 = t2
    t3 = t3
    Thread = {t1, t2, t3}
    Main = t1
    NULL = NULL
    RandomYield = TRUE
    UserProgram = TRUE
    Sem = {s}
    Lock = {l}
    CV = {}
    InitialValue <- ZeroValue
    StaleOwner <- CleanOwner
    MaxUnits = 2
INVARIANT NoLostWakeup
PROPERTY ReadyRuns
