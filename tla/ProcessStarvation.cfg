SPECIFICATION FairSpec
CONSTANTS
    MAX_PROCESSES = 3
    MAX_PRIORITY = 5
    DEFAULT_PRIORITY = 3
    AGING_INTERVAL = 2
    MAX_AGING_BONUS = 4
    MaxPid = 3
    Calls = {"create_process", "nice"}
    NiceArguments = {1, 5}
    Misuse = {}
PROPERTIES
    AgingPreventsStarvation
