CONSTANTS
    MaxResources = 2
    Ops = {"o1", "o2", "o3"}
    Calls <- MCCalls
    Services = {"web", "worker"}
    RequiredBy <- MCRequiredBy
    Documents <- BothDeployments
    MaxFaults = 1
    MaxRestarts = 1
    MaxOutages = 1
    d1 = d1
    d2 = d2
    Contents = {d1, d2}
    MaxCrashes = 1
    MaxEdits = 2
    MaxTasks = 3
    PAGE_LIMIT = 1
    StartedServices = {"api", "web", "listener", "channel_worker", "worker"}
SPECIFICATION ConfigurationSpec
CHECK_DEADLOCK FALSE
INVARIANTS
    OverlapsAreHarmless FileIsToldTruly ProcessesAreSound
PROPERTIES
    DocumentsAreHonoured RolloutIsSafe
