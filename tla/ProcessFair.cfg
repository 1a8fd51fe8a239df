SPECIFICATION FairSpec
CONSTANTS
    MAX_PROCESSES = 4
    MAX_PRIORITY = 5
    DEFAULT_PRIORITY = 3
    AGING_INTERVAL = 3
    MAX_AGING_BONUS = 4
    MaxPid = 4
    Calls = {"create_process", "exit", "yield", "block", "waitpid"}
    NiceArguments = {1}
    Misuse = {}
PROPERTIES
    NoStarvation
