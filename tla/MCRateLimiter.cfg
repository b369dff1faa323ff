SPECIFICATION
    MCSpec

CONSTANTS
    Keys <- MCKeys
    LimitOf <- MCLimitOf
    WindowOf <- MCWindowOf
    MaxClock = 3
    MaxFree = 2

INVARIANTS
    IInv
    CooldownSpacing
    BurstBound
    NoEarlyRefusal
