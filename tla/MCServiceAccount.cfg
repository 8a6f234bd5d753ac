\* A request without a service account under a list of them.
CONSTANTS
    InternalRequests <- MCInternalRequests
    NoRun = NoRun
    Namespaces <- MCNamespaces
    URLs <- MCURLs
    Accounts <- MCAccounts
    MaxEntries = 2
SPECIFICATION Spec
INVARIANT ListedAccountsOnly
CHECK_DEADLOCK FALSE
