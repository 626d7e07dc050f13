SPECIFICATION FairSpec_Clients
CONSTANTS
    NULL = NULL
    EOF = EOF
    NL = NL
    RandomYield = TRUE
    UserProgram = FALSE
    Waiter = {1, 2}
    Tests = {1, 2, 3, 4, 5}
    Thread <- TestThread
    Main <- MainThread
    Sem <- TestSemaphores
    Lock <- TestLocks
    CV <- TestConditions
    InitialValue <- NoUnits
    StaleOwner <- ZeroedMemory
    MaxUnits = 5
INVARIANTS
    NoStrandedItem OwnCompletion
    LinesWhole InputInOrder
    SuiteOutcome
PROPERTY RequestsReturn
