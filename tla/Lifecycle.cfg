SPECIFICATION Spec
CONSTANTS
    Thread = {t1, t2, t3}
    NI <- MCNI
    Entries = 14
    WORD = 2
    PAGE = 32
    Pages = 3
    Walks <- MCWalks
    Arrays <- MCArrays
    Calls = 4
    MaxLoads = 4
    MaxFiles = 2
    PREEMPT = TRUE
    NoMemory = NoMemory
SYMMETRY Symmetry
INVARIANT ScanFindsFirst
INVARIANT ScanReadsMapped
INVARIANT LiveMeansInstalled
INVARIANT OneLoadPerTable
INVARIANT RefExact
INVARIANT RefProtects
INVARIANT NothingLeaked
CHECK_DEADLOCK FALSE
