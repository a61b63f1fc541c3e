\* Two calls of one day, within the budget of two, and their retries.
CONSTANTS
    Calls = {c1, c2}
    DailyLimit = 2
    MaxAttempts = 2
    TicksPerDay = 3
    Midnights <- AutumnMidnights
    Start = 2
    Horizon = 5
    MaxCrashes = 0
SPECIFICATION Spec
INVARIANT
    RequestsPerDayWithinLimit
CHECK_DEADLOCK FALSE
