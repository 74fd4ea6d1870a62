CONSTANTS
    Workers <- MCWorkers
    Tokens = {1, 2, 3}
    InitialStates <- MCInitialStates
    ClaimTtl = 2
    Delay = 1
    MaxAttempts = 2
    ReadAttempts = 1
    Skew = 0
    ClockOf <- SameClocks
    MaxVersion = 1
    MaxFaults = 1
SPECIFICATION FairSpec
INVARIANTS
    SubscriptionIsSound DeliveriesAreAccountedFor
PROPERTIES
    FinalStays NotificationSettles
