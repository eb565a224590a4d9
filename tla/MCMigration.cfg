SPECIFICATION FairSpec
CONSTANTS
    a = a
    b = b
    r1 = r1
    r2 = r2
    r3 = r3
    Run = {r1, r2, r3}
    Process = {a, b}
    Proc <- MCProc
    Newest <- MCNewest
    Pool <- MCPool
    NoRun = NoRun
    MaxCrashes = 1
INVARIANTS
    SchemaIsPrefix
    OkMeansMigrated
PROPERTIES
    EveryRunEnds
