\* Two callers allocate.
CONSTANTS
    NoPtr = NoPtr
    NullPtr = NullPtr
    Callers = {a1, a2}
    Contents <- MCContents
    Crc <- MCCrc
    MaxSize = 2
    MaxNews = 3
SPECIFICATION Spec
CHECK_DEADLOCK FALSE
INVARIANT OwnersDisjoint
