SPECIFICATION Spec
CONSTANTS
    r1 = r1
    r2 = r2
    r3 = r3
    d1 = d1
    d2 = d2
    Rules <- Rules2
    FdOf <- FdOf2
    DirOf <- DirOf2
    Descriptors = {d1, d2}
    MaxIdx = 1
    Conditions = {"IN", "HUP"}
INVARIANT
    EveryRulePolled
