SPECIFICATION FairSpec
CONSTANTS
    r1 = r1
    r2 = r2
    r3 = r3
    d1 = d1
    d2 = d2
    Rules <- Rules3
    FdOf <- FdOf3
    DirOf <- DirOf3
    Descriptors = {d1}
    MaxIdx = 1
    Conditions = {"IN", "OUT", "HUP"}
INVARIANTS
    TypeOK
    Aligned
PROPERTIES
    NothingReadableLost
    NoSpin
    DueRulesTriggered
    DeadRulesErased
