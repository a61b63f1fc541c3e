\* Three executions, a cache whose transactions may fail and rows left by an
\* older deployment (unreadable, or fitting only one conversation).
CONSTANTS
    Requests = {r1, r2, r3}
    a = a
    b = b
    ka = ka
    kb = kb
    both = both
    onlyA = onlyA
    Conversations <- MCConversations
    Keys <- MCKeys
    KeyOf <- MCKeyOf
    Facts <- MCFacts
    Fitting <- MCFitting
    Absent = Absent
    Unreadable = Unreadable
    Leftovers <- MCLeftovers
    MaxAttempts = 2
    CacheMayFail = TRUE
SPECIFICATION Spec
INVARIANTS
    TypeOK
    DeliveredFactsFit
    CacheAnswersAgree
PROPERTIES
    RowsWrittenOnce
    IdenticalCostsNoCall
    EveryRequestEnds
CHECK_DEADLOCK FALSE
