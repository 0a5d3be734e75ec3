SPECIFICATION Spec
CONSTANTS
    Threads = {t1, t2}
    Files = {f1}
    SIZE = 2
    Byte = {0, 1}
    UIntMod = 5
    LoffMod = 12
    Counts = {0, 1, 3}
    Offsets <- MCOffsets
    Places = {1, 3}
INVARIANTS TypeOK PositionInside CopyInside PositionAsAsked
PROPERTY Whole
