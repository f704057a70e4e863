SPECIFICATION Spec
CONSTANTS
    DiskSizes = {0, 1, 4}
    MinDisk = 4
    FileChunks = {2}
    Images <- MCImages
    Word32 = 4
    BitMapSz = 4
    MaxCatalogs = 2
    MaxCuts = 1
    MaxErrors = 1
INVARIANTS TypeOK BootSafe
PROPERTIES BootEnds
\* The loader may return, the kernel may stop.
CHECK_DEADLOCK FALSE
