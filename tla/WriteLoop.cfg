SPECIFICATION FairSpec
CONSTANTS
    x = x
    y = y
    s1 = s1
    s2 = s2
    Null = Null
    Lists <- MCLists
    Storages <- MCStorages
    Text <- MCText
    Byte = {1, 2, 3, 4}
    MaxBuffers = 4
    MaxPrefix = 3
INVARIANTS
    TypeOK
    PrefixGone
    DrainedIsReleased
    SentThenRest
    ReturnsWhatWasSent
    SentIsCounted
PROPERTIES
    WriteEnds
    IsTransmission
