\* One name used twice, for a run that is allowed or for one that the API server
\* refuses, a failing call and a restart; the caches follow the clusters.
CONSTANTS
    Runs = {p1, p2}
    NoRun = NoRun
    Specs <- MCLiveSpecs
    Requests = {r1}
    NoRequest = NoRequest
    NamespaceOf <- MCNamespaceOf
    Configs <- MCOpenOnly
    NoConfig = NoConfig
    Refused <- MCRefused
    LaggingCaches = FALSE
    Relists = FALSE
    ExternalDeletes = FALSE
    MaxUid = 2
    MaxGeneration = 1
    MaxFaults = 1
    MaxRestarts = 1
SPECIFICATION FairSpec
PROPERTIES
    EveryRequestCompletes
    EveryDeletionEnds
CHECK_DEADLOCK FALSE
