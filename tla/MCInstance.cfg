SPECIFICATION FairSpec
CONSTANTS
    Daemon = {d1, d2, d3}
    NoDaemon = NoDaemon
    Stale = Stale
    Absent = Absent
    Foreign = Foreign
    MaxConns = 2
    MaxCrashes = 2
    MaxAcceptErrors = 1
INVARIANTS
    OneOwner
    Reachable
PROPERTIES
    NeverWedged
