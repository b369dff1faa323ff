SPECIFICATION
    Spec

CONSTANTS
    o1 = o1
    o2 = o2
    Origins <- MCOrigins
    NoOrigin = none
    Statuses <- MCStatuses

INVARIANTS
    PanicAnswered

CHECK_DEADLOCK
    FALSE
