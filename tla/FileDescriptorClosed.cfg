SPECIFICATION Spec
CONSTANTS
    Handles = {h1, h2, h3}
    Wrappers = {w1, w2}
    Files = {f1, f2}
    MaxFd = 1
    MaxData = 1
    Limits = {0, 2}
    MaxTurns = 2
    BUFFER_SIZE = 1
    CountMod = 2
    Null = Null
    Free = Free
SYMMETRY Interchangeable
INVARIANT
    ClosedFlagAccurate
