\* The same item without stalls: what late work leaves behind.
SPECIFICATION ExecSpec
CONSTANTS
    Items = {i1}
    Batches = {b1}
    Workers = {w1, w2}
    MaxAttempts = 2
    Concurrency = 1
    Price = 1
    MaxActual = 1
    InitialCredits = 1
    NoBatch = NoBatch
    Nobody = Nobody
    Channels = {TRUE, FALSE}
    Stalls = FALSE
SYMMETRY Symmetry
INVARIANT LateWorkIsDiscarded
CHECK_DEADLOCK FALSE
