SPECIFICATION FairSpec
CONSTANTS
    Stubborn = {"leader", "helper"}
INVARIANTS
    TypeOK
    NoStragglers
    ReplyIsWhole
    VerdictIsTrue
PROPERTIES
    RunReturns
