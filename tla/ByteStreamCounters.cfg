SPECIFICATION Spec
CONSTANTS
    a = a
    b = b
    Uninit = Uninit
    Byte <- MCByte
    Strings <- MCStrings
    Capacities = {2}
    IntMod = 16
    SizeMod = 64
    InitialCounters <- MCCounters
    Lens = {0, 1, 3}
    MaxAccepted = 8
INVARIANT
    CountersAreTotals
