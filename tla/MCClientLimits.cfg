\* Two clients, two requests per window of a second and a half (three
\* half-second ticks), a sweep when both are tracked, two windows of time.
CONSTANTS
    Clients = {c1, c2}
    MaxRequests = 2
    Window = 3
    Second = 2
    MaxTracked = 1
    Horizon = 7
SPECIFICATION Spec
INVARIANTS
    TypeOK
    AtMostMaxPerWindow
PROPERTIES
    RetryAfterSuffices
    RefusedOnlyAtTheLimit
    SweepForgetsTheIdle
CHECK_DEADLOCK FALSE
