\* Two flushes into one bucket, then a compaction round: the slice panics.
CONSTANTS
    b1 = b1
    b2 = b2
    b3 = b3
    BucketIds <- MCBucketIds
    TableSizes = {10}
    MIN_SSTABLE_SIZE = 32
    MIN_TRESHOLD = 2
    MAX_TRESHOLD = 3
    MaxFlushes = 3
    MaxTables = 3
    SameMillisCreation = FALSE
    WriteMayFail = FALSE
SPECIFICATION Spec
INVARIANT NoPanic
CHECK_DEADLOCK FALSE
