SPECIFICATION Spec
CONSTANTS
    Producers = {p1, p2, p3}
    Sizes = {1, 2}
    Modes = {"framed"}
    RingCap = 4
    CtrMod = 8
    HighWater = 2
    ChunkMax = 8
    MaxRecs = 3
    MaxLives = 1
    None = None
INVARIANT RecordsContiguous
CHECK_DEADLOCK FALSE
