SPECIFICATION Spec
CONSTANTS
    t1 = t1
    t2 = t2
    t3 = t3
    Thread = {t1, t2, t3}
    Main = t1
    NULL = NULL
    RandomYield = TRUE
    UserProgram = FALSE
    Sem = {s}
    Lock = {l, m}
    CV = {c}
    InitialValue <- ZeroValue
    StaleOwner <- CleanOwner
    MaxUnits = 1
SYMMETRY OtherThreads
INVARIANTS OnePlace MutualExclusion CVLockAgrees
PROPERTY LocksAreFifo
