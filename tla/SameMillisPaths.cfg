\* Two flushes into one bucket within one millisecond share a data file.
CONSTANTS
    b1 = b1
    b2 = b2
    b3 = b3
    BucketIds <- MCBucketIds
    TableSizes = {10}
    MIN_SSTABLE_SIZE = 32
    MIN_TRESHOLD = 2
    MAX_TRESHOLD = 3
    MaxFlushes = 2
    MaxTables = 2
    SameMillisCreation = TRUE
    WriteMayFail = FALSE
SPECIFICATION Spec
INVARIANT UniqueSSTablePaths
CHECK_DEADLOCK FALSE
