\* A request is deleted and created again under its name.
CONSTANTS
    Runs = {p1, p2}
    NoRun = NoRun
    Specs <- MCTrustedOnly
    Requests = {r1}
    NoRequest = NoRequest
    NamespaceOf <- MCNamespaceOf
    Configs <- MCOpenOnly
    NoConfig = NoConfig
    Refused = {}
    LaggingCaches = FALSE
    Relists = FALSE
    ExternalDeletes = FALSE
    MaxUid = 2
    MaxGeneration = 1
    MaxFaults = 0
    MaxRestarts = 0
SPECIFICATION Spec
INVARIANT RunIsOwn
CHECK_DEADLOCK FALSE
