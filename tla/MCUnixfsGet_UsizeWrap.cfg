\* A 32-bit build (usize modulo 8 stands for modulo 2^32) downloading a
\* file larger than usize can count.
CONSTANTS
    NoSize = NoSize
    UsizeMax = 8
    Walks <- BigWalks
SPECIFICATION Spec
INVARIANT WrittenIsFlushed
CHECK_DEADLOCK FALSE
