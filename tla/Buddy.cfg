SPECIFICATION Spec
CONSTANTS
    MIN_ORDER = 4
    MAX_ORDER = 6
    HeapSizes = {64, 112}
    Sizes = {0, 1, 9, 24, 25, 56, 57, 1000}
    Word = 1024
INVARIANTS
    HeapIsWhole
    HeadersWhereRead
    RefusalIsHonest
PROPERTIES
    ImplementsAllocator
