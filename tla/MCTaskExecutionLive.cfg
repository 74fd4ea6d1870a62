CONSTANTS
    Clients <- MCClients
    OwnerOf <- MCOwnerOf
    Steps <- MCSteps
    Plans <- MCPlans
    StepsOf <- MCStepsOf
    StepSeq <- MCStepSeq
    Payloads <- MCPayloads
    Drafts <- MCDrafts
    Advisories = {"a1"}
    ConditionOf <- MCConditionOf
    AdmissionOf <- MCAdmissionOf
    ListStep = "s1"
    CountStep = "s2"
    TerminalReasons <- MCReasons
    Digests = {1, 2, 3, 4, 5}
    TaskFailureLimit = 1
    MaxToolCalls = 2
    LeaseTtl = 2
    RetryDelay = 1
    SubmissionReads = {TRUE}
    MaxToken = 5
    MaxVersion = 6
    MaxApprovals = 3
    ClockOf <- SameClocks
    Skew = 0
    MaxAbandons = 1
    MaxStalls = 1
SPECIFICATION FairExeSpec
PROPERTIES
    Settles ImplementsStore
