\* write_to_file, get, range and from_file on every memtable over three keys.
\* A value offset of 130 does not fit the 7-bit cast (a value log past 4 GiB).
SPECIFICATION SSTSpec
CONSTANTS
    Keys = {1, 2, 3}
    KeyLen <- MCKeyLen
    ValOffsets = {0, 130}
    BlockSize = 45
    OffsetBits = 7
INVARIANTS
    GetFindsEveryKey
\* An SSTable ends written, recovered or panicked.
CHECK_DEADLOCK FALSE
