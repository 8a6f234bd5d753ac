\* Every request under every config with at most two entries in a list.
CONSTANTS
    InternalRequests <- MCInternalRequests
    NoRun = NoRun
    Namespaces <- MCNamespaces
    URLs <- MCURLs
    Accounts <- MCAccounts
    MaxEntries = 2
SPECIFICATION Spec
INVARIANTS
    RunLeadsBack
    RunIsWhatWasJudged
    VerdictIsRight
CHECK_DEADLOCK FALSE
