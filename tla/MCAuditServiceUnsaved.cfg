\* Requests whose save fails.
CONSTANTS
    single = single
    good = good
    bad = bad
    t1 = t1
    t2 = t2
    t3 = t3
    t4 = t4
    t5 = t5
    NoRun = NoRun
    Uploads <- MCUploads
    Content <- MCContent
    Size <- MCSize
    MAX_CONVERSATIONS_PER_RUN = 2
    Singles <- MCSingles
    Batches <- MCBatches
    TasksOf <- MCTasksOf
    Breaks <- NoBreaks
    MaxConcurrency = 2
    MaxCrashes = 0
SPECIFICATION ApiSpec
INVARIANT
    UnsavedIsExplained
CHECK_DEADLOCK FALSE
