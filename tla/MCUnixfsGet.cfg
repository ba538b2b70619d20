CONSTANTS
    NoSize = NoSize
    \* a 64-bit build: no fixture comes near 2^64 bytes
    UsizeMax = 64
    Walks <- MCWalks
SPECIFICATION Spec
INVARIANTS
    TypeOK
    TerminalLast
    CompletedWritesAll
    WrittenIsFlushed
\* The stream ends: a returned or dropped stream takes no more steps.
CHECK_DEADLOCK FALSE
