\* Caches that lag behind the clusters, PipelineRuns deleted by others and one
\* failing call; the second use of the name may meet the run of the first.
CONSTANTS
    Runs = {p1}
    NoRun = NoRun
    Specs <- MCSpecs
    Requests = {r1}
    NoRequest = NoRequest
    NamespaceOf <- MCNamespaceOf
    Configs <- MCOpenOnly
    NoConfig = NoConfig
    Refused = {}
    LaggingCaches = TRUE
    Relists = TRUE
    ExternalDeletes = TRUE
    MaxUid = 2
    MaxGeneration = 1
    MaxFaults = 1
    MaxRestarts = 0
SPECIFICATION Spec
INVARIANTS
    CompletionHasStart
    VolumeSizeIsKnown
PROPERTIES
    RunsAreAdmitted
    StatusIsOfItsRequest
CHECK_DEADLOCK FALSE
