\* Flushes and compaction rounds interleaved, write errors possible, every
\* SSTable created in its own millisecond.
CONSTANTS
    b1 = b1
    b2 = b2
    b3 = b3
    BucketIds <- MCBucketIds
    TableSizes = {10, 40}
    MIN_SSTABLE_SIZE = 32
    MIN_TRESHOLD = 2
    MAX_TRESHOLD = 3
    MaxFlushes = 5
    MaxTables = 7
    SameMillisCreation = FALSE
    WriteMayFail = TRUE
SPECIFICATION Spec
INVARIANT FlushedDataOnDisk
\* The engine idles once no memtable is sealed: a final state is legitimate.
CHECK_DEADLOCK FALSE
SYMMETRY MCBucketSymmetry
