\* One worker with one slot and two items, under fairness: a handler that lost its
\* lease occupies the slot until it returns.
SPECIFICATION FairSpec
CONSTANTS
    Items = {i1, i2}
    Batches = {b1}
    Workers = {w1}
    MaxAttempts = 2
    Concurrency = 1
    Price = 1
    MaxActual = 0
    InitialCredits = 2
    NoBatch = NoBatch
    Nobody = Nobody
INVARIANTS
    ConcurrencyRespected
PROPERTIES
    ItemsAreServed
    DeletionCompletes
CHECK_DEADLOCK FALSE
