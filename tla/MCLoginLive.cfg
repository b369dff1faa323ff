SPECIFICATION
    MCFairSpec

CONSTANTS
    Sends = {s1}
    Logins = {l1, l2}
    Requests <- MCRequests
    Phones = {p1, p2}
    IPs = {ip1}
    Codes = {c1, c2}
    SendCodeCooldown = 1
    CodeTTL = 1
    LoginIPRateLimit = 2
    LoginIPRateWindow = 2
    MaxVerifyAttempts = 0
    LockDuration = 1
    VerifyWindow = 2
    MaxClock = 1
    MaxFaults = 1
    MaxRestarts = 1

INVARIANTS
    OneAccountPerPhone
    TokenBacked
    BurntOnlyByMatch
    NeverStuck

PROPERTIES
    EveryRequestEnds
    KeepsLedger

CHECK_DEADLOCK
    FALSE
