CONSTANTS
    a1 = a1
    a2 = a2
    i1 = i1
    i2 = i2
    Attempts = {a1, a2}
    worker_max_concurrent_tasks = 2
    dispatch_batch_limit = 2
    BackoffBase = 1
    BackoffCap = 2
    FailureWindow = 3
    Invocations = {i1, i2}
    PoolSize = 1
    MaxDrift = 1
SPECIFICATION WorkersSpec
CHECK_DEADLOCK FALSE
INVARIANTS
    RoundsAreAccountedFor EvidenceIsEarned SqlIsReadAsTheServerReadsIt
    PlansAskWhatWasConfirmed
PROPERTIES
    FailuresEndTheWorker
