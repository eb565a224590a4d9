SPECIFICATION FairSpec
CONSTANTS
    Listener = {l1, l2}
    NoMessage = NoMessage
    MaxDrops = 2
    MaxFails = 2
INVARIANTS
    CleanExit
PROPERTIES
    NoChurn
    DrainReturns
    Reconnects
