CONSTANTS
    k1 = k1
    FirstTip = 2
    MaxTip = 5
    MaxBranches = 2
    MaxFailures = 1
    MaxCalls = 2
    ErrorForms = {"object", "other"}
    Vouts <- MCVouts
SPECIFICATION Spec
CHECK_DEADLOCK FALSE
INVARIANT FetchIsAtomic
