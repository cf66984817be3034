SPECIFICATION SocketSpec
CONSTANTS
    Handles = {d1, t1, t2, u1}
    UDPSockets = {u1}
    TCPSockets = {t1, t2}
    LocalStreamSockets = {}
    Wrappers = {w1, w2}
    Files = {f1, f2}
    MaxFd = 1
    MaxData = 1
    Limits = {0, 2}
    MaxTurns = 1
    BUFFER_SIZE = 1
    CountMod = 1
    MaxPending = 1
    Null = Null
    Free = Free
SYMMETRY Interchangeable
INVARIANTS
    SocketTypeOK
    OwnsItsFile
    NoLeak
    StreamEofIsReal
    ClassMatchesFile
