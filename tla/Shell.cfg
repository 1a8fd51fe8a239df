SPECIFICATION LSpec
CONSTANTS
    Shell = sh
    Left = l
    Right = r
    Nobody = nobody
    Pids = {sh, l, r}
    Readers = {sh, l, r}
    Started = {sh}
    MAX_PROCESSES = 3
    MAX_PIPES = 1
    MAX_FDS = 4
    PIPE_BUFFER_SIZE = 3
    Names = {}
    Bytes = {0, 4, 8, 10, 65, 66, 67, 68, 97, 98, 99, 100}
    Buffers <- NoBuffers
    Counts = {}
    MaxOpens = 1
    BUFF_LENGTH = 2
    LINE_LENGTH = 3
    Scancodes = {14, 28, 29, 30, 32, 42, 46, 48, 58}
    kbd_min <- Small
    kbd_mayus <- Capital
    ReadSizes = {1, 2}
    Input <- Typing
    Vowels = {65, 97}
    BUF_SIZE = 2
INVARIANTS
    LineFits
    NobodyForgotten
    SleeperNeedsInput
    NothingLeftOpen
    OutputArrives
PROPERTIES
    KeysInOrder
    PipelineEnds
    ImplementsStream
CHECK_DEADLOCK FALSE
