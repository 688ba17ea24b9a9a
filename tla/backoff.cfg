CONSTANTS
    Poll = 6
    Grace = 6
    Seconds = 5
    RelayTick = 6
    PostTime = 1
    Records = 0
    JoinWait = 2
    StopWait = 2
SPECIFICATION Spec
PROPERTY BackoffGrows
CHECK_DEADLOCK FALSE
