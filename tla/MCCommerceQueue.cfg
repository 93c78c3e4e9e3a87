\* Safety of the commerce queue: two items, two batches, two workers.
SPECIFICATION Spec
CONSTANTS
    Items = {i1, i2}
    Batches = {b1, b2}
    Workers = {w1, w2}
    MaxAttempts = 2
    Concurrency = 1
    Price = 2
    MaxActual = 3
    InitialCredits = 5
    NoBatch = NoBatch
    Nobody = Nobody
SYMMETRY Symmetry
INVARIANTS
    TypeOK
    RowsAgree
    LedgerAgrees
    AcceptedCancelEndsCanceled
PROPERTIES
    StepsAreLegal
    ImplementsCreditHold
CHECK_DEADLOCK FALSE
