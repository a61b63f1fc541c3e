\* A single audit by upload, a batch of two and one that is too large, over two
\* slots, with or without a database that may fail before or after its commit,
\* a reader, one restart.
CONSTANTS
    single = single
    good = good
    bad = bad
    t1 = t1
    t2 = t2
    t3 = t3
    t4 = t4
    t5 = t5
    NoRun = NoRun
    Singles <- MCSingles
    Batches <- MCBatches
    TasksOf <- MCTasksOf
    Breaks <- RoutesBreaks
    Uploads <- MCUploads
    Content <- MCContent
    Size <- RoutesSize
    MAX_CONVERSATIONS_PER_RUN = 2
    MaxConcurrency = 2
    MaxCrashes = 1
SPECIFICATION ApiSpec
INVARIANTS
    ApiTypeOK
    SlotsAddUp
    RunsAreWhole
    PersistedIsRetrievable
    StoredWasJudged
PROPERTIES
    KeepsPromise
    SlotsComeBack
    ReadsAreTrue
CHECK_DEADLOCK FALSE
