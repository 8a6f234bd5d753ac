\* The watch of the PipelineRuns is interrupted and lists them again.
CONSTANTS
    Runs = {p1}
    NoRun = NoRun
    Specs <- MCTrustedOnly
    Requests = {r1}
    NoRequest = NoRequest
    NamespaceOf <- MCNamespaceOf
    Configs <- MCOpenOnly
    NoConfig = NoConfig
    Refused = {}
    LaggingCaches = TRUE
    Relists = TRUE
    ExternalDeletes = FALSE
    MaxUid = 1
    MaxGeneration = 1
    MaxFaults = 0
    MaxRestarts = 0
SPECIFICATION Spec
INVARIANT WakeupIsPending
CHECK_DEADLOCK FALSE
