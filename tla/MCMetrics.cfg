\* One request whose spec and whose config may change while it runs, calls
\* that fail, and a restart.
CONSTANTS
    Runs = {p1}
    NoRun = NoRun
    Specs <- MCSpecs
    Requests = {r1}
    NoRequest = NoRequest
    NamespaceOf <- MCNamespaceOf
    Configs <- MCConfigs
    NoConfig = NoConfig
    Refused = {}
    LaggingCaches = FALSE
    Relists = FALSE
    ExternalDeletes = FALSE
    MaxUid = 1
    MaxGeneration = 2
    MaxFaults = 2
    MaxRestarts = 1
SPECIFICATION MetricsSpec
INVARIANTS
    RecountsAreFailures
    DriftIsBounded
PROPERTIES
    GaugeDriftsOnlyByFailure
    OutcomeIsCounted
CHECK_DEADLOCK FALSE
