SPECIFICATION FairSpec
CONSTANTS
    e1 = e1
    e2 = e2
    t1 = t1
    s1 = s1
    Event = {e1, e2}
    Thread = {t1}
    ThreadOf <- MCThreadOf
    Shard = {s1}
    ShardOf <- MCShardOf
    Worker = {w1, w2}
    NoEvent = NoEvent
    NoThread = NoThread
    MaxEventRetries = 1
    MaxGrants = 1
INVARIANTS
    NoForgottenEvent
PROPERTIES
    FirstTurnsInReceiptOrder
    ImplementsContract
    ReceivedIsServed
