\* The end of the run queues a request that was completed a moment ago.
CONSTANTS
    Runs = {p1}
    NoRun = NoRun
    Specs <- MCTrustedOnly
    Requests = {r1}
    NoRequest = NoRequest
    NamespaceOf <- MCNamespaceOf
    Configs <- MCOpenOnly
    NoConfig = NoConfig
    Refused = {}
    LaggingCaches = TRUE
    Relists = FALSE
    ExternalDeletes = FALSE
    MaxUid = 1
    MaxGeneration = 1
    MaxFaults = 0
    MaxRestarts = 0
SPECIFICATION Spec
PROPERTY CompletedIsFinal
CHECK_DEADLOCK FALSE
