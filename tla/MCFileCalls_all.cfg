SPECIFICATION FairSpec_FileCalls
CONSTANTS
    NULL = NULL
    Thread = {t1, t2}
    Main = t1
    RandomYield = TRUE
    UserProgram = TRUE
    Sem = {}
    Lock = {tableLock}
    CV = {}
    tableLock = tableLock
    InitialValue <- NoUnits
    StaleOwner <- ZeroedMemory
    MaxUnits = 0
    TableSize = 3
    Names = {a}
    Sizes = {1, 2}
    Pointers = {TRUE, FALSE}
    Calls = {"Create", "Open", "Write", "Read", "Close"}
    Keyboard = {1}
    MaxOpens = 3
    MaxLength = 2
INVARIANT FilesAccounted
PROPERTY CallsReturn
