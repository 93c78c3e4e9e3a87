\* One item over two attempts of a worker that crashes or stalls and has two slots,
\* so that it may claim again the item of a handler that still runs; a channel that
\* takes idempotency keys and one that does not; two stored objects; and a batch of
\* two items with three database sessions.
SPECIFICATION MCSpec
CONSTANTS
    Items = {i1}
    Batches = {b1}
    Workers = {w1}
    MaxAttempts = 2
    Concurrency = 2
    Price = 1
    MaxActual = 1
    InitialCredits = 1
    NoBatch = NoBatch
    Nobody = Nobody
    Channels = {TRUE, FALSE}
    Stalls = TRUE
    Uploads = {upload}
    Results = {result}
    Clients = {client1, client2}
    MaxCleanups = 2
    CleanupTries = 1
    MaxStops = 1
    Members = {m1, m2}
    Sessions = {s1, s2, s3}
    NoSession = NoSession
INVARIANTS
    WorksMatchItems
    ObjectsTypeOK
    UsedObjectsExist
    BatchRowIsHonest
PROPERTIES
    AskedWithCause
    SuccessOnlyByLeaseHolder
CHECK_DEADLOCK FALSE
