SPECIFICATION FairSpec
CONSTANTS
    e1 = e1
    Event = {e1}
    MaxEventRetries = 2
    MaxGrants = 2
INVARIANTS
    NoBlindRerun
    OnlyFailureStrands
PROPERTIES
    FailureIsHeard
