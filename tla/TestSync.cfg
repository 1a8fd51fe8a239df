SPECIFICATION TSpec
CONSTANTS
    Pids = {d1, d2, u1, u2}
    Up = {u1, u2}
    Iterations = 1
    Kills = TRUE
    MAX_PROCESSES = 4
    MAX_SEMS = 1
    Names = {"sem"}
    Truncate <- Short
    InitialValues = {1}
    MaxValue = 4
    MaxOpens = 4
    Discipline = {}
INVARIANTS
    NoUpdateLost
PROPERTIES
    TestEnds
CHECK_DEADLOCK FALSE
