\* Two executions over an empty, healthy cache: nothing but their interleaving.
CONSTANTS
    Requests = {r1, r2}
    a = a
    b = b
    ka = ka
    kb = kb
    both = both
    onlyA = onlyA
    Conversations <- MCConversations
    Keys <- MCKeys
    KeyOf <- MCKeyOf
    Facts <- MCFacts
    Fitting <- MCFitting
    Absent = Absent
    Unreadable = Unreadable
    Leftovers <- NoLeftovers
    MaxAttempts = 2
    CacheMayFail = FALSE
SPECIFICATION Spec
INVARIANT
    SameConversationSameFacts
CHECK_DEADLOCK FALSE
