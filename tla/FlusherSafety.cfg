\* Three concurrent flush tasks, write errors, compaction rounds that merge a
\* bucket of two (kept) or three (deleted) tables; thresholds 1 and 2.
CONSTANTS
    b1 = b1
    b2 = b2
    b3 = b3
    BucketIds <- MCBucketIds
    TableSizes = {10, 40}
    MIN_SSTABLE_SIZE = 32
    MIN_TRESHOLD = 1
    MAX_TRESHOLD = 2
    MaxFlushes = 3
    MaxTables = 4
    SameMillisCreation = FALSE
    WriteMayFail = TRUE
    SignalCapacity = 1
SPECIFICATION FlusherSpec
INVARIANT FlusherTypeOK
INVARIANT SealedDataReadable
CHECK_DEADLOCK FALSE
SYMMETRY MCBucketSymmetry
