SPECIFICATION Spec
CHECK_DEADLOCK FALSE
CONSTANTS
    Thread = {t1, t2}
    First = t1
    ByteBits = 1
    GP = 4
    Segment = 4
    Program <- Kinds
    Text <- Texts
    Memory0 <- Memories
    Switches <- Several
    MaxSteps <- Steps
INVARIANT AsIfAlone
PROPERTY ComputesAsManual
