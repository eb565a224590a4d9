SPECIFICATION CalmSpec
CONSTANTS
    e1 = e1
    e2 = e2
    t1 = t1
    t2 = t2
    Event = {e1}
    Thread = {t1}
    ThreadOf <- MCThreadOf1
    OwnerTarget = t1
    NoEvent = NoEvent
    MaxChunks = 1
    MaxGrants = 1
    MaxEventRetries = 0
INVARIANTS
    NoRepeatInOneLife
