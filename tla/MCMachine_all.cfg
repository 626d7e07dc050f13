SPECIFICATION Spec_Machine
CONSTANTS
    NULL = NULL
    Thread = {t1, t2}
    Main = t1
    SystemTick = 3
    UserTick = 1
    TimerDelay = {1, 4}
    DeviceDelay = {2, 5}
    MaxTime = 20
INVARIANTS
    NothingDueWhileOn
    HaltsWhenDone
    LatencyExact
    ReadsAgree
PROPERTIES
    ImplementsQueue
    ImplementsFlat
