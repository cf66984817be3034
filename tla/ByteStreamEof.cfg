SPECIFICATION Spec
CONSTANTS
    a = a
    b = b
    Uninit = Uninit
    Byte <- MCByte
    Strings <- MCStrings
    Capacities = {2}
    IntMod = 16
    SizeMod = 64
    InitialCounters = {0}
    Lens = {1, 3}
    MaxAccepted = 4
INVARIANT
    EofIsTheEnding
