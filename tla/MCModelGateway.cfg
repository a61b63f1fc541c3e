\* Three concurrent calls against a budget of two a day, two attempts each,
\* over a UTC midnight and, an hour earlier than the last one was, a Pacific one,
\* with one restart.
CONSTANTS
    Calls = {c1, c2, c3}
    DailyLimit = 2
    MaxAttempts = 2
    TicksPerDay = 3
    Midnights <- SpringMidnights
    Start = 2
    Horizon = 4
    MaxCrashes = 1
SPECIFICATION Spec
INVARIANTS
    TypeOK
    AdmittedWithinLimit
    RequestsWithinBudget
    NeverSpentUncounted
    BlockedOnSpentDays
PROPERTIES
    NewCallsBarred
    EveryCallEnds
CHECK_DEADLOCK FALSE
