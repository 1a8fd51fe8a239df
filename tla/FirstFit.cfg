SPECIFICATION Spec
CONSTANTS
    HEAP_SIZE = 192
    Sizes = {0, 1, 8, 20, 40, 90, 168, 65528}
    Word = 65536
INVARIANTS
    Tiling
    RefusalIsHonest
PROPERTIES
    ImplementsAllocator
