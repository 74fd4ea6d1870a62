CONSTANTS
    c1 = c1
    c2 = c2
    s1 = s1
    s2 = s2
    p1 = p1
    d1 = d1
    Clients <- MCClients
    OwnerOf <- MCOwnerOf
    Steps <- MCSteps
    Plans <- MCPlans
    StepsOf <- MCStepsOf
    Payloads <- MCPayloads
    Digests = {1}
    TaskFailureLimit = 1
    MaxToolCalls = 2
    LeaseTtl = 1
    RetryDelay = 1
    Skew = 1
    SubmissionReads = {TRUE, FALSE}
    TerminalReasons = {"none", "rejected"}
    MaxToken = 3
    MaxVersion = 3
    MaxApprovals = 1
SPECIFICATION EitherSpec
INVARIANTS
    SoleHolder RowsAreSound ToolBudget
PROPERTIES
    HistoryIsKept ImplementsContract StoresAgree
