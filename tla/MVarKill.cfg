SPECIFICATION MSpec
CONSTANTS
    Instances = {"m1", "m2"}
    Participants <- Everybody
    Pids <- EveryPid
    MAX_USER_MVARS = 1
    Casts <- OneIsKilled
    MAX_PROCESSES = 8
    MAX_SEMS = 2
    Names <- SemNames
    Truncate <- Short
    InitialValues = {0, 1}
    MaxValue = 2
    MaxOpens = 8
    Discipline = {}
INVARIANTS
    BufferOfOne
CHECK_DEADLOCK FALSE
