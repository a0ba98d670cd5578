\* Three flushes into two buckets: the bloom list is sorted by stale hotness copies.
CONSTANTS
    b1 = b1
    b2 = b2
    b3 = b3
    BucketIds <- MCBucketIds
    TableSizes = {10, 40}
    MIN_SSTABLE_SIZE = 32
    MIN_TRESHOLD = 4
    MAX_TRESHOLD = 5
    MaxFlushes = 3
    MaxTables = 3
    SameMillisCreation = FALSE
    WriteMayFail = FALSE
    SignalCapacity = 1
SPECIFICATION FlusherSpec
INVARIANT BloomOrderedByHotness
CHECK_DEADLOCK FALSE
