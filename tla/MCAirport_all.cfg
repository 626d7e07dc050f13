SPECIFICATION FairSpec_Airport
CONSTANTS
    NULL = NULL
    RandomYield = TRUE
    UserProgram = FALSE
    simNumOfPassengers = 3
    simNumOfAirlines = 2
    simNumOfLiaisons = 2
    simNumOfCIOs = 2
    simNumOfCargoHandlers = 2
    simNumOfScreeningOfficers = 2
    BaggageCounts = {2}
    Classes <- TwoMixes
    ScreenPasses = {TRUE, FALSE}
    SecurityPasses = {TRUE}
    Questionings = {1, 2}
    StaleIndex <- StaleInts
    StaleBreak = {TRUE, FALSE}
    MaxSlices = 1
    Thread <- AgentThreads
    Main <- MainThread
    Sem <- NoSemaphore
    Lock <- AirportLocks
    CV <- AirportCVs
    InitialValue <- NoUnits
    StaleOwner <- ZeroedMemory
    MaxUnits = 1
INVARIANTS PlaneComplete ReportAgrees OwnAnswer
PROPERTY EverybodyBoards
