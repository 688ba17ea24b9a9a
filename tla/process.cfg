CONSTANTS
    Poll = 2
    Grace = 2
    Seconds = 3
    RelayTick = 2
    PostTime = 1
    Records = 2
    JoinWait = 4
    StopWait = 4
SPECIFICATION FairSpec
INVARIANTS
    ProcessTypeOK
    OnceInOrder
    LastWords
PROPERTIES
    CyclesKeepComing
    JoinWaitsForACycle
    StopIsFinal
    ShutdownEnds
CHECK_DEADLOCK FALSE
