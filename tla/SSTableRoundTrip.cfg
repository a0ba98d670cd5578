\* write_to_file, get, range and from_file on every memtable over four keys.
\* Value offsets stay below 2^OffsetBits here, as they do below 4 GiB.
SPECIFICATION SSTSpec
CONSTANTS
    Keys = {1, 2, 3, 4}
    KeyLen <- MCKeyLen4
    ValOffsets = {0, 100}
    BlockSize = 45
    OffsetBits = 7
INVARIANTS
    GetFindsEveryKey
    RangeReturnsBlocks
    RecoveredIsWrittenPrefix
\* An SSTable ends written, recovered or panicked.
CHECK_DEADLOCK FALSE
