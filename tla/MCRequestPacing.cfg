\* Three callers over two intervals and a half, with sleeps that end as late
\* as the clock lets them.
CONSTANTS
    Callers = {c1, c2, c3}
    Interval = 2
    Nobody = Nobody
    Horizon = 5
SPECIFICATION Spec
INVARIANTS
    TypeOK
    RateIsKept
PROPERTIES
    EveryoneStarts
CHECK_DEADLOCK FALSE
