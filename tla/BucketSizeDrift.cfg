\* Insertions alone, sizes around MIN_SSTABLE_SIZE: members drift out of the average's bounds.
CONSTANTS
    b1 = b1
    b2 = b2
    b3 = b3
    BucketIds <- MCBucketIds
    TableSizes = {16, 20, 30, 44}
    MIN_SSTABLE_SIZE = 32
    MIN_TRESHOLD = 2
    MAX_TRESHOLD = 3
    MaxFlushes = 4
    MaxTables = 4
    SameMillisCreation = FALSE
    WriteMayFail = FALSE
SPECIFICATION Spec
INVARIANT BucketSizeInvariant
CHECK_DEADLOCK FALSE
