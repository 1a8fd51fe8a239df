SPECIFICATION Spec
CONSTANTS
    Pids = {p1, p2}
    Started = {p1}
    MAX_PROCESSES = 2
    MAX_PIPES = 2
    MAX_FDS = 5
    PIPE_BUFFER_SIZE = 1
    Names = {"n"}
    Bytes = {0}
    Buffers <- OneByte
    Counts = {1, 2}
    MaxOpens = 2
INVARIANTS
    EndsCounted
    QueuesHoldSleepers
    SleepersHaveHope
PROPERTIES
    LastEndFrees
CHECK_DEADLOCK FALSE
