\* Batches of up to three requests of any kind.
CONSTANTS
    Requests <- MCRequests
    MaxBatch = 3
SPECIFICATION Spec
INVARIANTS
    TypeOK
    SlotsAreOwn
