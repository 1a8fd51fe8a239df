SPECIFICATION Spec
CONSTANTS
    Pids = {p1, p2, p3}
    MAX_PROCESSES = 3
    MAX_SEMS = 2
    Names = {"a", "b"}
    Truncate <- Short
    InitialValues = {1}
    Name = "a"
    Stock = 1
    MaxValue = 1
    MaxOpens = 3
    Discipline = {"opened", "once", "paired", "no_resume"}
INVARIANTS
    QueueMatchesValue
    QueuesHoldWaiters
    UnitsConserved
    OpenersCounted
PROPERTIES
    ImplementsCounting
CHECK_DEADLOCK FALSE
