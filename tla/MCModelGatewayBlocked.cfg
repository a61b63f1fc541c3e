\* Two calls, one of them in its retry loop when the other learns that the
\* day's quota is spent.
CONSTANTS
    Calls = {c1, c2}
    DailyLimit = 2
    MaxAttempts = 2
    TicksPerDay = 3
    Midnights <- AutumnMidnights
    Start = 2
    Horizon = 5
    MaxCrashes = 0
SPECIFICATION Spec
PROPERTY
    NothingSentWhileBlocked
CHECK_DEADLOCK FALSE
