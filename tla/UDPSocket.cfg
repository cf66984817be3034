SPECIFICATION FairSpec
CONSTANTS
    Peers = {a, b}
    NoAddress = NoAddress
    Lengths = {0, 1, 3}
    Mtus = {0, 1}
    Limits = {0, 2}
    BUFFER_SIZE = 2
    CountMod = 2
    MaxQueue = 2
    MaxArrivals = 3
INVARIANTS
    OnceWholeInOrder
    AccusedOnlyIfThrown
    EofOnlyByEmptyRead
PROPERTY
    QueueMoves
