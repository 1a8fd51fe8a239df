SPECIFICATION Spec
CONSTANTS
    MAX_PROCESSES = 4
    MAX_PRIORITY = 2
    DEFAULT_PRIORITY = 1
    AGING_INTERVAL = 1
    MAX_AGING_BONUS = 1
    MaxPid = 4
    Calls = {"create_process", "exit", "kill", "nice", "block", "unblock", "yield", "waitpid", "read"}
    NiceArguments = {0, 3}
    Misuse = {}
INVARIANTS
    TypeOK
    Structure
    CurrentRuns
    PidsAndStacks
    WaiterHasChild
    KbdWaiterBlocked
    ChoiceIsFirstInTurn
PROPERTIES
    WaitEndsWithDeath
