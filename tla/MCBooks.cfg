\* The run stops when its periods and entries are used up.
CONSTANTS
    c1 = c1
    c2 = c2
    Clerks = {c1, c2}
    Spans <- MCSpans
    FirstPeriods <- MCFirstPeriods
    Lines <- MCLines
    References = {1}
    MaxPeriods = 2
    MaxEntries = 3
    Banks = {k1}
    Assets = {a1, a2}
    Price <- MCPrice
    Salvage <- MCSalvage
    Life <- MCLife
    Runs = {r1, r2}
    MaxPosted = 5
SYMMETRY Sym
SPECIFICATION MCSpec
CHECK_DEADLOCK FALSE
INVARIANTS
    PeriodsHold
    PostedOnce
    AssetsFollowEntries

    
