SPECIFICATION Spec
CONSTANTS
    ByteMod = 4
    Values <- EdgeValues
    InitialSums <- EdgeSums
    MaxFields = 3
INVARIANTS
    ChecksumExact
    RoundTrip
    DamageCaught
    ReadInPlace
