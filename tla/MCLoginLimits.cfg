SPECIFICATION
    MCLimitedSpec

CONSTANTS
    Sends = {s1, s2}
    Logins = {l1, l2}
    Requests <- MCRequests
    Phones = {p1}
    IPs = {ip1, ip2}
    Codes = {c1, c2}
    SendCodeCooldown = 1
    CodeTTL = 1
    LoginIPRateLimit = 1
    LoginIPRateWindow = 1
    MaxVerifyAttempts = 1
    LockDuration = 1
    VerifyWindow = 1
    MaxClock = 1
    MaxFaults = 0
    MaxRestarts = 1

SYMMETRY
    RequestSymmetry

INVARIANTS
    IInv
    CodesSpaced
    LimitsHold

PROPERTIES
    KeepsLimiter

CHECK_DEADLOCK
    FALSE
