SPECIFICATION
    MCSpec

CONSTANTS
    Sends = {s1}
    Logins = {l1, l2, l3}
    Requests <- MCRequests
    Phones = {p1}
    IPs = {ip1}
    Codes = {c1, c2}
    SendCodeCooldown = 1
    CodeTTL = 2
    LoginIPRateLimit = 3
    LoginIPRateWindow = 1
    MaxVerifyAttempts = 1
    LockDuration = 1
    VerifyWindow = 2
    MaxClock = 1
    MaxFaults = 0
    MaxRestarts = 0

SYMMETRY
    RequestSymmetry

PROPERTIES
    LockHeld

CHECK_DEADLOCK
    FALSE
