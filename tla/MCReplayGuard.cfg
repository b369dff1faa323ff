SPECIFICATION
    Spec

CONSTANTS
    Requests = {r1, r2, r3}
    Envelopes <- MCEnvelopes
    TimestampWindow = 2
    TTL = 4
    MaxDuration = 6
    MaxDelay = 2
    MaxClock = 8
    MaxRestarts = 1

SYMMETRY
    RequestSymmetry

INVARIANTS
    IInv
    AtMostOncePerRun

PROPERTIES
    NonceRefusedForCause
    KeepsIdeal

CHECK_DEADLOCK
    FALSE
