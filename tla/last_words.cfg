CONSTANTS
    Poll = 6
    Grace = 6
    Seconds = 5
    RelayTick = 6
    PostTime = 1
    Records = 1
    JoinWait = 2
    StopWait = 2
SPECIFICATION Spec
INVARIANT LastWords
CHECK_DEADLOCK FALSE
