CONSTANTS
    Requests <- MCRequests
    MaxBatch = 2
SPECIFICATION Spec
INVARIANT FailureIsIsolated
