\* A bucket past MAX_TRESHOLD compacted: delete_sstables drops the uncompacted tail.
CONSTANTS
    b1 = b1
    b2 = b2
    b3 = b3
    BucketIds <- MCBucketIds
    TableSizes = {10}
    MIN_SSTABLE_SIZE = 32
    MIN_TRESHOLD = 2
    MAX_TRESHOLD = 3
    MaxFlushes = 4
    MaxTables = 5
    SameMillisCreation = FALSE
    WriteMayFail = FALSE
SPECIFICATION Spec
INVARIANT FlushedDataReachable
CHECK_DEADLOCK FALSE
