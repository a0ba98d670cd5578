\* Puts, deletes and up to three GC cycles over two keys; every write reaches
\* the file.  Keys and values form symmetry sets (the properties are safety).
SPECIFICATION VLSpec
CONSTANTS
    k1 = k1
    k2 = k2
    v1 = v1
    v2 = v2
    none = none
    Keys <- MCKeys
    Values <- MCValues
    NoValue <- none
    KeyBytes = 1
    ValBytes = 1
    ChunkSize = 20
    MaxWrites = 5
    MaxGc = 3
    WriteMayFail = FALSE
INVARIANTS
    VLogTypeOK
PROPERTIES
    ValueLogImplementsKV
    TailAdvanceBounded
\* The bounds stop the writers and the GC: the engine then idles.
CHECK_DEADLOCK FALSE
SYMMETRY MCSymmetry
