CONSTANTS
    NoSize = NoSize
    \* a 64-bit build: no fixture comes near 2^64 bytes
    UsizeMax = 64
    Walks <- DirWalks
SPECIFICATION Spec
PROPERTY TotalSizeImmutable
CHECK_DEADLOCK FALSE
