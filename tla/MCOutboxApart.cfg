SPECIFICATION Spec
CONSTANTS
    e1 = e1
    e2 = e2
    t1 = t1
    t2 = t2
    Event = {e1, e2}
    Thread = {t1, t2}
    ThreadOf <- MCThreadOfApart
    OwnerTarget = t2
    NoEvent = NoEvent
    MaxChunks = 1
    MaxGrants = 0
    MaxEventRetries = 0
INVARIANTS
    SentInOrder
    RelayNeverJumps
VIEW NoHistory
