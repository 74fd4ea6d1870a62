CONSTANTS
    Workers <- MCWorkers
    Tokens = {1, 2, 3}
    InitialStates <- MCInitialStates
    ClaimTtl = 1
    Delay = 1
    MaxAttempts = 1
    ReadAttempts = 1
    Skew = 1
    ClockOf <- FastClock
    MaxVersion = 2
    MaxFaults = 0
    Steps = {"s"}
    TaskFailureLimit = 1
SPECIFICATION JourneySpec
PROPERTIES
    FollowsTheTask ToldOnce
