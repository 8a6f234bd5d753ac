\* Two TaskRuns with texts around the limits: none, a line, what fills the
\* message to its last byte alone or with the line, one byte more, and a text
\* that the API server would refuse.
CONSTANTS
    TaskRuns = {t1, t2}
    EntrySizes = {0, 40, 4054, 4055, 4096, 4097, 33000}
    GenericSize = 60
    ResultLists <- MCResultLists
    NoReport = NoReport
    MaxFaults = 2
SPECIFICATION Spec
INVARIANTS
    MessageFits
    CauseIsTrue
    ResultsAreReported
PROPERTY
    EveryEndIsReported
CHECK_DEADLOCK FALSE
