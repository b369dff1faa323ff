SPECIFICATION
    MCSpec

CONSTANTS
    Sends = {s1}
    Logins = {l1, l2, l3}
    Requests <- MCRequests
    Phones = {p1}
    IPs = {ip1}
    Codes = {c1, c2}
    SendCodeCooldown = 1
    CodeTTL = 2
    LoginIPRateLimit = 2
    LoginIPRateWindow = 1
    MaxVerifyAttempts = 1
    LockDuration = 1
    VerifyWindow = 2
    MaxClock = 2
    MaxFaults = 1
    MaxRestarts = 0

SYMMETRY
    RequestSymmetry

INVARIANTS
    NoSecondTokenLater
    LockedOnlyForFailures

PROPERTIES
    LockStopsNewcomers

CHECK_DEADLOCK
    FALSE
