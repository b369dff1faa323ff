SPECIFICATION
    Spec

CONSTANTS
    o1 = o1
    o2 = o2
    Origins <- MCOrigins
    NoOrigin = none
    Statuses <- MCStatuses

INVARIANTS
    IInv
    AnswersWrapped
    RefusedUntouched
    AccessLogged
    OriginsAnswered
    PanicContained

CHECK_DEADLOCK
    FALSE
