SPECIFICATION FairSpec
CONSTANTS
    t1 = t1
    s1 = s1
    s2 = s2
    s3 = s3
    d1 = d1
    d2 = d2
    Thread = {t1}
    Session = {s1, s2, s3}
    Dir = {d1, d2}
    TurnCap = 2
    MaxLost = 1
    NoSession = NoSession
    NoThread = NoThread
    NoDir = NoDir
INVARIANTS
    OneLineage
    StartThenResume
PROPERTIES
    RetiredIsHistory
    PromiseKept
    TurnGetsThrough
