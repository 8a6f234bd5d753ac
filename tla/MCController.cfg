\* One name used twice, two specs, two configs or none, failing calls and
\* restarts; the caches follow the clusters.
CONSTANTS
    Runs = {p1, p2, p3}
    NoRun = NoRun
    Specs <- MCSpecs
    Requests = {r1}
    NoRequest = NoRequest
    NamespaceOf <- MCNamespaceOf
    Configs <- MCConfigs
    NoConfig = NoConfig
    Refused = {}
    LaggingCaches = FALSE
    Relists = FALSE
    ExternalDeletes = FALSE
    MaxUid = 2
    MaxGeneration = 2
    MaxFaults = 2
    MaxRestarts = 1
SPECIFICATION Spec
SYMMETRY RunSymmetry
INVARIANTS
    TypeOK
    CompletionHasStart
    AtMostOneExecution
    NoOrphanRun
    OutcomeMatchesRun
    VolumeSizeIsKnown
    WakeupIsPending
PROPERTIES
    CompletedIsFinal
    OthersFinalizerIsKept
    RunsAreAdmitted
    ImplementsLifecycle
CHECK_DEADLOCK FALSE
