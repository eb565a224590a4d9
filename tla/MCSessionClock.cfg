SPECIFICATION ClockSpec
CONSTANTS
    Second = 3
    Window = 5
    IdleTTL = 5
    Start = 4
    Horizon = 30
INVARIANTS
    DeadlineIsExact
    IdleIsWhole
