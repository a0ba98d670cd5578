\* As ValueLogGC, with write_all allowed to fail.
SPECIFICATION VLSpec
CONSTANTS
    k1 = k1
    k2 = k2
    v1 = v1
    v2 = v2
    none = none
    Keys <- MCKeys
    Values <- MCValues
    NoValue <- none
    KeyBytes = 1
    ValBytes = 1
    ChunkSize = 20
    MaxWrites = 4
    MaxGc = 2
    WriteMayFail = TRUE
INVARIANTS
    LatestReadable
\* The bounds stop the writers and the GC: the engine then idles.
CHECK_DEADLOCK FALSE
