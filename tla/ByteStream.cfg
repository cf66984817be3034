SPECIFICATION Spec
CONSTANTS
    a = a
    b = b
    Uninit = Uninit
    Byte <- MCByte
    Strings <- MCStrings
    Capacities = {0, 1, 2, 3, 18}
    IntMod = 16
    SizeMod = 64
    InitialCounters <- MCCounters
    Lens = {0, 1, 3}
    MaxAccepted = 8
INVARIANTS
    TypeOK
    RingHoldsAccepted
    CountersTrackTotals
PROPERTY
    InputSideFrozen
