\* A call fails after the request was marked complete.
CONSTANTS
    Runs = {p1}
    NoRun = NoRun
    Specs <- MCTrustedOnly
    Requests = {r1}
    NoRequest = NoRequest
    NamespaceOf <- MCNamespaceOf
    Configs <- MCOpenOnly
    NoConfig = NoConfig
    Refused = {}
    LaggingCaches = FALSE
    Relists = FALSE
    ExternalDeletes = FALSE
    MaxUid = 1
    MaxGeneration = 1
    MaxFaults = 1
    MaxRestarts = 0
SPECIFICATION FairSpec
PROPERTY FinishedRunIsDeleted
CHECK_DEADLOCK FALSE
