SPECIFICATION TSpec
CONSTANTS
    MAX_PROCESSES = 6
    MAX_PRIORITY = 5
    DEFAULT_PRIORITY = 3
    AGING_INTERVAL = 1
    MAX_AGING_BONUS = 4
    MaxPid = 12
    Calls = {"create_process"}
    NiceArguments = {}
    Misuse = {}
    Arguments = {2, 4}
INVARIANTS
    BookAgrees
PROPERTIES
    TestPrioEnds
